\* Two tasks that read and write, rings that hold 2 bytes (BUF - 1), calls of up to 2 bytes.
CONSTANTS
    t1 = t1
    t2 = t2
    secondary = secondary
    write_q = write_q
    NoTask = NoTask
    Task = {t1, t2}
    Queue = {secondary, write_q}
    Reader = t1
    Modes <- AllModes
    Keys = {"a", "nl", "eof", "erase", "kill", "intr"}
    BUF = 3
    SLEEP_LEFT = 1
    STARTUP = 1
    CANON_LEFT = 0
    MAX_NR = 2
    MAX_AHEAD = 1
SPECIFICATION FairSpec
INVARIANTS DataCountsLines  SleepersAreFound
PROPERTIES WritesEnd
CHECK_DEADLOCK FALSE
