\* One task, three blocks, one of them past the end of the drive, and three
\* requests, one of them for reads only.
CONSTANTS
    t1 = t1
    t2 = t2
    v0 = v0
    v1 = v1
    b1 = b1
    b2 = b2
    b3 = b3
    wait_for_request = wait_for_request
    NoTask = NoTask
    Task = {t1}
    Buf = {b1, b2, b3}
    Queue = {b1, b2, b3, wait_for_request}
    Place <- PlaceOf
    NR_REQUEST = 3
    Contents <- FirstVaries
    MAX_ERRORS = 2
    OutOfRange = {b3}
SPECIFICATION FairSpec
INVARIANTS CleanMatchesDisk AtMostTwoSweeps
PROPERTIES EveryRequestEnds
CHECK_DEADLOCK FALSE
