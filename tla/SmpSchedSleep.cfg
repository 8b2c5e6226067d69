SPECIFICATION Spec
CONSTANTS
    NCORES = 2
    Proc = {n, a}
    Fresh = {}
    Susp = {}
    Net = n
    Exits = {}
    Sleepers = {a}
    Readiers = {}
    TimerOn = TRUE
    Bakery = TRUE
    Beyond = TRUE
INVARIANTS OneCore
CHECK_DEADLOCK FALSE
