\* Two tasks, two executables, a text page, a stack page and an empty page per
\* task, and eight pages, too few for two full programs.
CONSTANTS
    Task = {1, 2}
    VPage = {0, 1, 2}
    Text = {0}
    NR_PAGES = 8
    Exe = {11, 12}
SPECIFICATION Spec
INVARIANTS  WritableIsPrivate 
VIEW UpToNames
CHECK_DEADLOCK FALSE
