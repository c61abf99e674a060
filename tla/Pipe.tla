-------------------------------- MODULE Pipe --------------------------------
(***************************************************************************)
(* A pipe of fs/pipe.c: a ring of one page, PIPE_HEAD and PIPE_TAIL in the  *)
(* inode's zone numbers, and one wait queue, inode->i_wait, on which both   *)
(* the readers and the writers sleep.                                       *)
(*                                                                         *)
(* The kernel is not preemptive.  `running' is the task inside read_pipe or *)
(* write_pipe that has not slept yet: no other task takes a step until it   *)
(* sleeps or returns.  A copy to or from user space sleeps when the user    *)
(* page is not resident and has to be read from disk.  What follows when    *)
(* the pipe is used meanwhile is not modelled: with torn set the model      *)
(* stops.                                                                   *)
(***************************************************************************)
EXTENDS WaitQueue, Integers, Sequences, FiniteSetsExt

CONSTANTS Readers, Writers,   \* who has the read end, the write end open
          Size,               \* PAGE_SIZE, a power of 2
          MaxCount,           \* the largest count a caller passes
          Stamps,             \* bytes are named by order of acceptance
          i_wait              \* the pipe's wait queue

ASSUME PipeAssumption ==
    /\ Readers \subseteq Task /\ Writers \subseteq Task
    /\ Size \in Nat \ {0, 1} /\ Stamps \in Nat /\ Stamps >= 2 * Size
    /\ MaxCount \in Nat \ {0}
    /\ Queue = {i_wait}

VARIABLES ring, head, tail,   \* the page, PIPE_HEAD, PIPE_TAIL
          rd, wr,             \* the tasks that have each end open
          wq,
          pc, count, chunk,   \* the locals of a call: count, and the chars
                              \* bytes being copied, the first one's stamp
          running,            \* the task that is in the kernel, not asleep
          sigpipe,            \* SIGPIPE in the tasks' signal words
          accepted,           \* the stamp of the next byte accepted
          delivered,          \* the last run of bytes a reader was given
          torn                \* the pipe was used while a copy was asleep

vars == <<ring, head, tail, rd, wr, wq, pc, count, chunk, running, sigpipe,
          accepted, delivered, torn>>

pipe   == <<ring, head, tail>>
ends   == <<rd, wr, sigpipe>>
ghosts == <<accepted, delivered, torn>>

Byte    == 0 .. Stamps - 1
NoByte  == -1
NoChunk == [from |-> 0, chars |-> 0, stamp |-> 0]

TypeOK ==
    /\ ring \in [0 .. Size - 1 -> Byte \cup {NoByte}]
    /\ head \in 0 .. Size - 1 /\ tail \in 0 .. Size - 1
    /\ rd \subseteq Task /\ wr \subseteq Task /\ sigpipe \subseteq Task
    /\ wq \in WaitQueues
    /\ pc \in [Task -> {"user", "read", "write", "copyout", "copyin",
                        "faultout", "faultin", "waitread", "waitwrite"}]
    /\ count \in [Task -> 0 .. MaxCount]
    /\ chunk \in [Task -> [from : 0 .. Size - 1, chars : 0 .. Size, stamp : Byte]]
    /\ running \in Task \cup {NoTask}
    /\ accepted \in Byte
    /\ delivered \in Seq(Byte \cup {NoByte})
    /\ torn \in BOOLEAN

PIPE_SIZE == (head - tail) % Size

\* Mutant: the ring is filled to the last byte.
RoomForAll == Size - PIPE_SIZE

Room == (Size - 1) - PIPE_SIZE

\* i_count = 2: it counts the ends that are still open.
BothEndsOpen == rd # {} /\ wr # {}

Init ==
    /\ ring = [i \in 0 .. Size - 1 |-> NoByte]
    /\ head = 0 /\ tail = 0
    /\ rd = Readers /\ wr = Writers /\ sigpipe = {}
    /\ wq = NobodyWaits
    /\ pc = [t \in Task |-> "user"]
    /\ count = [t \in Task |-> 0]
    /\ chunk = [t \in Task |-> NoChunk]
    /\ running = NoTask
    /\ accepted = 0 /\ delivered = << >> /\ torn = FALSE

GoTo(t, label) == pc' = [pc EXCEPT ![t] = label]

\* t is in the kernel already, or gets the processor and enters it.
In(t, label)     == running = t /\ pc[t] = label /\ ~torn
Enters(t, label) == /\ running = NoTask /\ pc[t] = label /\ Runnable(wq, t) /\ ~torn
                    /\ running' = t

Call(t, n, label) ==
    /\ Enters(t, "user")
    /\ GoTo(t, label)
    /\ count' = [count EXCEPT ![t] = n]
    /\ UNCHANGED <<pipe, ends, wq, chunk, ghosts>>

Returns(t) == GoTo(t, "user") /\ running' = NoTask

\* t moves PIPE_TAIL or PIPE_HEAD while another task's copy is asleep.
AsleepInCopy == {u \in Task : pc[u] \in {"faultout", "faultin"}}
Moves(t) == torn' = (torn \/ AsleepInCopy # {})

(***************************************************************************)
(* read_pipe                                                                *)
(***************************************************************************)
ReadCall(t, n) == t \in rd /\ Call(t, n, "read")

\* The pipe is empty: wake whoever sleeps, and return if no writer is left,
\* otherwise sleep.
ReadEmpty(t) ==
    /\ In(t, "read") /\ count[t] > 0 /\ PIPE_SIZE = 0
    /\ LET woken == WakeUp(wq, i_wait)
       IN  IF ~BothEndsOpen
           THEN Returns(t) /\ wq' = woken
           ELSE /\ wq' = SleepOn(woken, i_wait, t)
                /\ GoTo(t, "waitread")
                /\ running' = NoTask
    /\ UNCHANGED <<pipe, ends, count, chunk, ghosts>>

\* PIPE_TAIL is advanced over the chunk before a byte of it is copied.
ReadChunk(t) ==
    /\ In(t, "read") /\ count[t] > 0 /\ PIPE_SIZE > 0
    /\ LET chars == Min({Size - tail, count[t], PIPE_SIZE})
       IN  /\ count' = [count EXCEPT ![t] = @ - chars]
           /\ chunk' = [chunk EXCEPT ![t] =
                           [from |-> tail, chars |-> chars,
                            stamp |-> (accepted - PIPE_SIZE) % Stamps]]
           /\ tail' = (tail + chars) % Size
    /\ GoTo(t, "copyout") /\ Moves(t)
    /\ UNCHANGED <<ring, head, ends, wq, running, accepted, delivered>>

\* put_fs_byte for every byte of the chunk.
CopyOut(t) ==
    /\ In(t, "copyout")
    /\ delivered' = [i \in 1 .. chunk[t].chars |-> ring[chunk[t].from + i - 1]]
    /\ chunk' = [chunk EXCEPT ![t] = NoChunk]
    /\ GoTo(t, "read")
    /\ UNCHANGED <<pipe, ends, wq, count, running, accepted, torn>>

ReadDone(t) ==
    /\ In(t, "read") /\ count[t] = 0
    /\ wq' = WakeUp(wq, i_wait)
    /\ Returns(t)
    /\ UNCHANGED <<pipe, ends, count, chunk, ghosts>>

(***************************************************************************)
(* write_pipe                                                               *)
(***************************************************************************)
WriteCall(t, n) == t \in wr /\ Call(t, n, "write")

WriteFull(t) ==
    /\ In(t, "write") /\ count[t] > 0 /\ Room = 0
    /\ LET woken == WakeUp(wq, i_wait)
       IN  IF ~BothEndsOpen
           THEN /\ sigpipe' = sigpipe \cup {t}
                /\ Returns(t) /\ wq' = woken
           ELSE /\ wq' = SleepOn(woken, i_wait, t)
                /\ GoTo(t, "waitwrite")
                /\ running' = NoTask
                /\ UNCHANGED sigpipe
    /\ UNCHANGED <<pipe, rd, wr, count, chunk, ghosts>>

\* Mutant: a chunk may run past the end of the page.
WriteChunkPastEnd(t) ==
    /\ In(t, "write") /\ count[t] > 0 /\ Room > 0
    /\ LET chars == Min({count[t], Room})
       IN  /\ count' = [count EXCEPT ![t] = @ - chars]
           /\ chunk' = [chunk EXCEPT ![t] =
                           [from |-> head, chars |-> chars, stamp |-> accepted]]
           /\ head' = (head + chars) % Size
           /\ accepted' = (accepted + chars) % Stamps
    /\ GoTo(t, "copyin") /\ Moves(t)
    /\ UNCHANGED <<ring, tail, ends, wq, running, delivered>>

\* PIPE_HEAD is advanced over the chunk before a byte of it is copied.
WriteChunk(t) ==
    /\ In(t, "write") /\ count[t] > 0 /\ Room > 0
    /\ LET chars == Min({Size - head, count[t], Room})
       IN  /\ count' = [count EXCEPT ![t] = @ - chars]
           /\ chunk' = [chunk EXCEPT ![t] =
                           [from |-> head, chars |-> chars, stamp |-> accepted]]
           /\ head' = (head + chars) % Size
           /\ accepted' = (accepted + chars) % Stamps
    /\ GoTo(t, "copyin") /\ Moves(t)
    /\ UNCHANGED <<ring, tail, ends, wq, running, delivered>>

\* get_fs_byte for every byte of the chunk.
CopyIn(t) ==
    /\ In(t, "copyin")
    /\ LET c == chunk[t]
       IN  ring' = [i \in 0 .. Size - 1 |->
                       IF i \in c.from .. c.from + c.chars - 1
                       THEN (c.stamp + i - c.from) % Stamps ELSE ring[i]]
    /\ chunk' = [chunk EXCEPT ![t] = NoChunk]
    /\ GoTo(t, "write")
    /\ UNCHANGED <<head, tail, ends, wq, count, running, ghosts>>

WriteDone(t) ==
    /\ In(t, "write") /\ count[t] = 0
    /\ wq' = WakeUp(wq, i_wait)
    /\ Returns(t)
    /\ UNCHANGED <<pipe, ends, count, chunk, ghosts>>

(***************************************************************************)
(* A sleeper resumes in sleep_on and tests the pipe again.                  *)
(***************************************************************************)
Resume(t, from, to) ==
    /\ Enters(t, from)
    /\ wq' = SleepReturns(wq, i_wait, t)
    /\ GoTo(t, to)
    /\ UNCHANGED <<pipe, ends, count, chunk, ghosts>>

ReadResumes(t)  == Resume(t, "waitread", "read")
WriteResumes(t) == Resume(t, "waitwrite", "write")

(***************************************************************************)
(* put_fs_byte and get_fs_byte touch a page that is not there: do_no_page   *)
(* reads it from disk and the task sleeps on the block's buffer meanwhile.  *)
(***************************************************************************)
PageFault(t, from, to) ==
    /\ In(t, from)
    /\ GoTo(t, to)
    /\ running' = NoTask
    /\ UNCHANGED <<pipe, ends, wq, count, chunk, ghosts>>

CopyOutFaults(t) == PageFault(t, "copyout", "faultout")
CopyInFaults(t)  == PageFault(t, "copyin", "faultin")

PageArrives(t, from, to) ==
    /\ Enters(t, from)
    /\ GoTo(t, to)
    /\ UNCHANGED <<pipe, ends, wq, count, chunk, ghosts>>

CopyOutGoesOn(t) == PageArrives(t, "faultout", "copyout")
CopyInGoesOn(t)  == PageArrives(t, "faultin", "copyin")

(***************************************************************************)
(* sys_close (do_exit closes too): when the last task closes an end, iput   *)
(* wakes the queue and i_count goes down.                                   *)
(***************************************************************************)
Close(t) ==
    /\ running = NoTask /\ pc[t] = "user" /\ Runnable(wq, t) /\ ~torn
    /\ \/ t \in rd /\ rd' = rd \ {t} /\ UNCHANGED wr
       \/ t \in wr /\ wr' = wr \ {t} /\ UNCHANGED rd
    /\ wq' = IF (rd # {} /\ rd' = {}) \/ (wr # {} /\ wr' = {})
             THEN WakeUp(wq, i_wait) ELSE wq
    /\ UNCHANGED <<pipe, sigpipe, pc, count, chunk, running, ghosts>>

Step(t) ==
    \/ \E n \in 1 .. MaxCount : ReadCall(t, n) \/ WriteCall(t, n)
    \/ ReadEmpty(t) \/ ReadChunk(t) \/ CopyOut(t) \/ ReadDone(t) \/ ReadResumes(t)
    \/ WriteFull(t) \/ WriteChunk(t) \/ CopyIn(t) \/ WriteDone(t) \/ WriteResumes(t)
    \/ CopyOutFaults(t) \/ CopyOutGoesOn(t) \/ CopyInFaults(t) \/ CopyInGoesOn(t)
    \/ Close(t)

Next == \E t \in Task : Step(t)

Spec == Init /\ [][Next]_vars
-----------------------------------------------------------------------------
(***************************************************************************)
(* The refinement.  A chunk that is being copied out is still in the pipe,  *)
(* one that is being copied in is not there yet.                            *)
(***************************************************************************)
CopyingOut == {t \in Task : pc[t] \in {"copyout", "faultout"}}
CopyingIn  == {t \in Task : pc[t] \in {"copyin", "faultin"}}

First == IF CopyingOut = {} THEN tail ELSE chunk[CHOOSE t \in CopyingOut : TRUE].from
Last  == IF CopyingIn = {} THEN head ELSE chunk[CHOOSE t \in CopyingIn : TRUE].from
NextStamp == IF CopyingIn = {} THEN accepted
             ELSE chunk[CHOOSE t \in CopyingIn : TRUE].stamp

UnderWay == [i \in 1 .. (Last - First) % Size |-> ring[(First + i - 1) % Size]]

Fifo == INSTANCE PipeFifo WITH Capacity <- Size - 1, contents <- UnderWay,
                               accepted <- NextStamp

\* The pipe is a first-in first-out buffer of PAGE_SIZE - 1 bytes, for any number
\* of readers and writers, as long as nobody uses it while a copy waits for a page.
IsFifo == Fifo!Init /\ [][Fifo!Next \/ torn']_<<UnderWay, NextStamp, delivered>>

\* The bytes a reader is given are the ones the writers put there, in order: none
\* is read before it is written, none is overwritten before it is read, unless the
\* pipe was used while a copy waited for a page.
ReadersGetWhatWasWritten ==
    ~torn => \A t \in CopyingOut : \A i \in 0 .. chunk[t].chars - 1 :
                 ring[chunk[t].from + i] = (chunk[t].stamp + i) % Stamps
=============================================================================
