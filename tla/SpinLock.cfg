\* Ticket lock: six tickets over four values wrap around, and three
\* outstanding ones fill all but one of the values.
\* Bakery lock: three cores, numbers that do not wrap.
SPECIFICATION LockSpec
CONSTANTS
    Core = {c0, c1, c2}
    Modulus = 4
    PerCore = 2
    NCORES = 3
    BakeryModulus = 64
    BakeryPerCore = 1
INVARIANTS MutualExclusion LocksExact
PROPERTIES ImplementsFifoLock BakeryNoStarvation
