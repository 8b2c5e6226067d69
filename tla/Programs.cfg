SPECIFICATION Spec
CONSTANTS
    Scenes = {"basic", "actors", "runner", "avm", "compiled"}
    Corpus = "all"
    MAXLAB = 40
    MAXBFX = 60
    GADDR = 2000
    FUEL = 20
    TICKS = 3
    SP0 = 1000
INVARIANTS BasicExact ActorsExact ProgramsSound VmExact CompiledRight
PROPERTIES ProgramsStop
CHECK_DEADLOCK FALSE
