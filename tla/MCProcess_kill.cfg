\* Init and two more processes, four pids, with the signal nobody can block.
CONSTANTS
    NULL = NULL
    NR_TASKS = 4
    MaxPid = 4
    Catchable = {14}
    Sendable = {9}
    Maskable = {17}
SPECIFICATION Spec
INVARIANTS KillWakesSleepers
