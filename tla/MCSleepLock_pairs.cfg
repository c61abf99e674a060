\* Three tasks, at most two of them for the same object.
CONSTANTS
    t1 = t1
    t2 = t2
    t3 = t3
    inode = inode
    buffer = buffer
    Task = {t1, t2, t3}
    Queue = {inode, buffer}
    NoTask = NoTask
    Users <- PairsUse
SPECIFICATION FairLockSpec
INVARIANTS LockTypeOK MutualExclusion 
 
