\* A while loop whose body is a continue.
SPECIFICATION Spec
CONSTANTS
    Scenes = {"compiled"}
    Corpus = "spins"
    MAXLAB = 40
    MAXBFX = 60
    GADDR = 2000
    FUEL = 20
    TICKS = 3
    SP0 = 1000
PROPERTIES RunsEnd
CHECK_DEADLOCK FALSE
