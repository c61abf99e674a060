\* Two tasks and two requests, one of them for reads only, for two blocks.
CONSTANTS
    t1 = t1
    t2 = t2
    v0 = v0
    v1 = v1
    b1 = b1
    b2 = b2
    b3 = b3
    wait_for_request = wait_for_request
    NoTask = NoTask
    Task = {t1, t2}
    Buf = {b1, b2}
    Queue = {b1, b2, wait_for_request}
    Place <- PlaceOf
    NR_REQUEST = 2
    Contents <- NoneVaries
    MAX_ERRORS = 2
    OutOfRange = {}
SPECIFICATION Spec
SYMMETRY Symmetry
INVARIANTS LockHasOneOwner DriverWorksIffRequests
PROPERTIES IsBlockDevice
CHECK_DEADLOCK FALSE
