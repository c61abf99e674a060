\* Two drives and a task that looks at their change lines.
CONSTANTS
    t1 = t1
    A = A
    B = B
    mA = mA
    mB = mB
    wait_on_floppy_select = wait_on_floppy_select
    NoTask = NoTask
    Task = {t1}
    Queue = {mA, mB, wait_on_floppy_select}
    Drive = {A, B}
    drive0 = A
    wait_motor <- WaitMotor
    MAX_ERRORS = 2
    ON = 2
    SELECT = 1
    OFF = 4
    BIG = 5
    MAX_QUEUE = 2
SPECIFICATION FairSpec
INVARIANTS OneThread TransferIsSetUp
 
CHECK_DEADLOCK FALSE
