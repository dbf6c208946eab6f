SPECIFICATION Spec
CONSTANTS
    Procs = {daemon, shell}
    Daemons = {daemon}
    Enterprises = {north, south}
    Home = north
    MaxMessages = 2
    PollLimit = 1
    MaxPairs = 3
    MaxRuns = 3
    MaxFaults = 1
INVARIANTS CursorSkipsNothing OneHeirPerToken RefusedHasCause EverySkillIsServed
PROPERTIES PollerTells
CHECK_DEADLOCK FALSE
