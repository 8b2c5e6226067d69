SPECIFICATION Spec
CONSTANTS
    NCORES = 3
    Sizes = {0, 4}
    MaxCalls = 2
    Late = {2}
    Mortal = {1}
    Board = {1, 2}
    Limits <- ALimits
INVARIANTS PoolExact SafeOverwrite LeafCalls
PROPERTIES CallsReturn CallsUnwind
CHECK_DEADLOCK FALSE
