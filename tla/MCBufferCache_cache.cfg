\* Two tasks, two buffers, three blocks, all the calls.
CONSTANTS
    t1 = t1
    t2 = t2
    x1 = x1
    x2 = x2
    x3 = x3
    buffer_wait = buffer_wait
    NoTask = NoTask
    NoBlock = NoBlock
    Task = {t1, t2}
    Queue = {buffer_wait}
    NR_BUFFERS = 2
    Block = {x1, x2, x3}
    Calls = {"getblk", "bread", "breada", "sync"}
SPECIFICATION Spec
SYMMETRY Symmetry
INVARIANTS NoBlockTwice CountIsReferences  
PROPERTIES OnlyQuietBuffersAreReused
CHECK_DEADLOCK FALSE
