\* Two tasks, two slots, two inodes on the disk, two entries and names.
CONSTANTS
    t1 = t1
    t2 = t2
    a = a
    b = b
    NoTask = NoTask
    NoName = NoName
    Task = {t1, t2}
    Name = {a, b}
    NR_INODE = 2
    NR_NUM = 2
    NR_ENTRY = 2
SPECIFICATION Spec
INVARIANTS CountIsReferences OneSlotPerInode LinksAreNames FreeInodesAreClean
    PanicsWhenFullOnly
SYMMETRY Symmetry
CHECK_DEADLOCK FALSE
