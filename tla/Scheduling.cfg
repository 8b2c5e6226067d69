SPECIFICATION Spec
CONSTANTS
    AProc <- Four
    APrio <- TwoLevels
    NPROC = 5
    ABoot <- BootList
    ATwice <- BootTwice
    net = net
    browser = browser
    dofbot = dofbot
    job = job
    Shell = Shell
    Nil = Nil
    n = n
    a = a
    b = b
    d = d
INVARIANTS ListKept CoresSound
PROPERTIES DispatchesBest ReadyDispatched BootServes
CHECK_DEADLOCK FALSE
