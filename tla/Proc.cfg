\* Four slots; in the timer build the net process and two others, sleeps of
\* one or two time units, also by the shell, and an uptime that overflows after two.
SPECIFICATION MCSpec
CONSTANTS
    NPROC = 4
    Boot = {1, 2, 3}
    Net = 1
    Creators = {}
    Sleepers = {0, 1, 2, 3}
    Prios = {}
    Delays = {1, 2}
    MaxTime = 3
    Wrap = 2
    TimerOn = TRUE
INVARIANTS ReadyExact NoStaleSwitch
PROPERTIES TickWakesAll TimerServes
