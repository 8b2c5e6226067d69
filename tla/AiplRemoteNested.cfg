SPECIFICATION Spec
CONSTANTS
    Boards = {1, 2}
    ANS_MAX = 4
    MESH_MAX = 8
    IdLimit = 1000000
    Ops = {"call", "send", "broadcast", "gather", "probe"}
    Leaf = FALSE
    MaxCalls = 2
    MaxTries = 1
    MaxDepth = 4
    MaxReboots = 0
INVARIANTS AtMostOnce
CHECK_DEADLOCK FALSE
