\* Init and two more processes, four pids, so that they are used again.
CONSTANTS
    NULL = NULL
    NR_TASKS = 4
    MaxPid = 4
    Catchable = {14}
    Sendable = {9}
    Maskable = {17}
SPECIFICATION Spec
INVARIANTS  PidsUnique WaiterIsTold IdleOwesNobody
 
