\* Two writers and a reader, whose pages are resident or not.
CONSTANTS
    r1 = r1
    w1 = w1
    w2 = w2
    i_wait = i_wait
    NoTask = NoTask
    Task = {r1, w1, w2}
    Queue = {i_wait}
    Readers = {r1}
    Writers = {w1, w2}
    Size = 4
    MaxCount = 4
    Stamps = 8
SPECIFICATION Spec
INVARIANTS ReadersGetWhatWasWritten
PROPERTIES IsFifo
CHECK_DEADLOCK FALSE
