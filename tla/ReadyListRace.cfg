\* The shell creates processes with the timer interrupt on.
SPECIFICATION RaceSpec
CONSTANTS
    AProc <- Four
    APrio <- TwoLevels
    NPROC = 5
    ABoot <- BootList
    ATwice = {}
    net = net
    browser = browser
    dofbot = dofbot
    job = job
    Shell = Shell
    Nil = Nil
    n = n
    a = a
    b = b
    d = d
INVARIANTS
    ListIsQueue
