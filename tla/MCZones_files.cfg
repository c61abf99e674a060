\* Two tasks and two files on a device of three blocks.
CONSTANTS
    t1 = t1
    t2 = t2
    f1 = f1
    f2 = f2
    NoCaller = NoCaller
    Caller = {t1, t2}
    File = {f1, f2}
    Depth <- Depths
    PER_BLOCK = 1
    NR_BLOCK = 3
    MAX_SINCE = 2
SPECIFICATION ZonesSpec
SYMMETRY Symmetry
INVARIANTS NothingLeaks OneOwner OnlyOneFileRaces
CHECK_DEADLOCK FALSE
