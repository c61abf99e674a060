------------------------------ MODULE LLRwBlk ------------------------------
(***************************************************************************)
(* The request queue of the block devices: kernel/blk_drv/ll_rw_blk.c and   *)
(* blk.h.  Tasks call ll_rw_block(rw, bh); each call locks the buffer, finds *)
(* a free request, and puts it where the elevator wants it.  The driver      *)
(* (HardDisk) works on the head of the queue and ends it from an interrupt.  *)
(*                                                                         *)
(* The device's list blk_dev[major].current_request is the sequence queue   *)
(* of request slots.  Buffers are bound to their block here; finding and    *)
(* reusing buffers is the buffer cache's work.                              *)
(***************************************************************************)
EXTENDS WaitQueue, Integers, Sequences, SequencesExt

CONSTANTS Buf,                 \* buffer heads
          Place,               \* Place[b]: b's place in (device, sector) order
          NR_REQUEST,
          Contents,            \* Contents[b]: what the sectors of b may contain
          wait_for_request     \* the queue of tasks that want a request

Slot  == 0 .. NR_REQUEST - 1
READ  == "READ"
WRITE == "WRITE"

ASSUME LLRwBlkAssumption ==
    /\ NR_REQUEST \in Nat \ {0, 1}
    /\ Place \in [Buf -> Nat]
    /\ \A b, c \in Buf : b # c => Place[b] > Place[c] + 1 \/ Place[c] > Place[b] + 1
    /\ DOMAIN Contents = Buf /\ \A b \in Buf : Contents[b] # {}
    /\ wait_for_request \notin Buf
    /\ Queue = Buf \cup {wait_for_request}

VARIABLES req,                            \* request[]
          queue,                          \* current_request and its next's
          b_lock, b_dirt, b_uptodate,
          mem, disk,                      \* the 2 sectors of each block
          wq,
          pc, call,                       \* what each task does, for which rw, bh
          running,                        \* the task in make_request, not asleep
          driver                          \* the driver's variables, see HardDisk

headers == <<b_lock, b_dirt, b_uptodate>>
data    == <<mem, disk>>
tasks   == <<wq, pc, call, running>>
vars    == <<req, queue, headers, data, tasks, driver>>

Free == [cmd |-> "none"]
Request == [cmd : {READ, WRITE}, bh : Buf, errors : Nat, sectors_done : 0 .. 1]

Busy == {s \in Slot : req[s] # Free}
Val == UNION {Contents[b] : b \in Buf}
Blocks == [Buf -> [0 .. 1 -> Val]]

(***************************************************************************)
(* Scheduling: a task enters or goes on when no other task is in the kernel *)
(* without sleeping and the driver code is not running.                     *)
(***************************************************************************)
Quiet == running = NoTask /\ driver.at = "out"

Enters(t, label) == Quiet /\ pc[t] = label /\ Runnable(wq, t)
In(t, label)     == running = t /\ driver.at = "out" /\ pc[t] = label
GoTo(t, label)   == pc' = [pc EXCEPT ![t] = label]

Call   == [rw : {READ, WRITE}, ahead : BOOLEAN, bh : Buf]
NoCall == [rw |-> "none"]

Returns(t) == /\ GoTo(t, "idle")
              /\ running' = NoTask
              /\ call' = [call EXCEPT ![t] = NoCall]

Set(f, b, v) == [f EXCEPT ![b] = v]

(***************************************************************************)
(* The elevator.  IN_ORDER: reads go before writes, then by place.          *)
(***************************************************************************)
Key(r) == Place[r.bh] + r.sectors_done

InOrder(r, s) == \/ r.cmd = READ /\ s.cmd = WRITE
                 \/ r.cmd = s.cmd /\ Key(r) < Key(s)

\* Mutant: no second sweep behind the one the drive is in.
FitsAfterInSweep(q, i, r) ==
    LET tmp == req[q[i]]  next == req[q[i + 1]]
    IN  InOrder(tmp, r) /\ InOrder(r, next)

\* The loop of add_request stops at the first tmp after which r fits; it stops
\* at the last request of the list when there is none.
FitsAfter(q, i, r) ==
    LET tmp == req[q[i]]  next == req[q[i + 1]]
    IN  (InOrder(tmp, r) \/ ~InOrder(tmp, next)) /\ InOrder(r, next)

\* Mutant: the newest request goes first.
BehindHead(q, r) == IF q = << >> THEN 0 ELSE 1

InsertionPoint(q, r) ==
    LET fits == {i \in 1 .. Len(q) - 1 : FitsAfter(q, i, r)}
    IN  IF fits = {} THEN Len(q) ELSE CHOOSE i \in fits : \A j \in fits : i <= j

\* Mutant: request_fn is not called for the first request.
AddRequestOnly(s, r) ==
    /\ req' = [req EXCEPT ![s] = r]
    /\ b_dirt' = Set(b_dirt, r.bh, FALSE)
    /\ queue' = InsertAt(queue, InsertionPoint(queue, r) + 1, s)
    /\ UNCHANGED driver

AddRequest(s, r) ==
    /\ req' = [req EXCEPT ![s] = r]
    /\ b_dirt' = Set(b_dirt, r.bh, FALSE)
    /\ queue' = InsertAt(queue, InsertionPoint(queue, r) + 1, s)
    /\ driver' = IF queue = << >> THEN [driver EXCEPT !.at = "do_hd_request"]
                 ELSE driver

(***************************************************************************)
(* make_request                                                             *)
(***************************************************************************)
Locked(t, b) == /\ b_lock' = Set(b_lock, b, TRUE)
                /\ GoTo(t, "make_request")
                /\ running' = t

\* ll_rw_block with READ, WRITE, and with READA (ahead), which comes back at once
\* when the buffer is locked.  Nobody calls it with WRITEA.
LLRwBlock(t, rw, ahead, b) ==
    /\ Enters(t, "idle")
    /\ ~(ahead /\ b_lock[b])
    /\ call' = [call EXCEPT ![t] = [rw |-> rw, ahead |-> ahead, bh |-> b]]
    /\ IF ~b_lock[b]
       THEN Locked(t, b) /\ UNCHANGED wq
       ELSE /\ wq' = SleepOn(wq, b, t)
            /\ GoTo(t, "lock_buffer")
            /\ UNCHANGED <<b_lock, running>>
    /\ UNCHANGED <<req, queue, b_dirt, b_uptodate, data, driver>>

\* lock_buffer resumes in sleep_on, takes the lock or sleeps again.
LockBufferResumes(t) ==
    /\ Enters(t, "lock_buffer")
    /\ LET b == call[t].bh  back == SleepReturns(wq, b, t)
       IN  IF ~b_lock[b]
           THEN Locked(t, b) /\ wq' = back
           ELSE wq' = SleepOn(back, b, t) /\ UNCHANGED <<b_lock, pc, running>>
    /\ UNCHANGED <<req, queue, b_dirt, b_uptodate, data, call, driver>>

\* Mutant: clean buffers are written too.
UselessRead(c) == c.rw = READ /\ b_uptodate[c.bh]

Useless(c) == IF c.rw = WRITE THEN ~b_dirt[c.bh] ELSE b_uptodate[c.bh]

FreeFor(rw) == {s \in Slot : /\ req[s] = Free
                             /\ rw = WRITE => s < (NR_REQUEST * 2) \div 3}

\* Mutant: return without unlock_buffer.
GiveUpLocked(t) ==
    /\ In(t, "make_request")
    /\ LET c == call[t]
       IN  Useless(c) \/ (c.ahead /\ FreeFor(c.rw) = {})
    /\ Returns(t)
    /\ UNCHANGED <<req, queue, headers, data, wq, driver>>

\* unlock_buffer and return: the transfer is of no use, or a read-ahead finds
\* no free request.
GiveUp(t) ==
    /\ In(t, "make_request")
    /\ LET c == call[t]
       IN  /\ Useless(c) \/ (c.ahead /\ FreeFor(c.rw) = {})
           /\ b_lock' = Set(b_lock, c.bh, FALSE)
           /\ wq' = WakeUp(wq, c.bh)
    /\ Returns(t)
    /\ UNCHANGED <<req, queue, b_dirt, b_uptodate, data, driver>>

\* The highest free request is taken, filled in and added.
MakeRequest(t) ==
    /\ In(t, "make_request")
    /\ LET c == call[t]
       IN  /\ ~Useless(c) /\ FreeFor(c.rw) # {}
           /\ AddRequest(CHOOSE s \in FreeFor(c.rw) : \A u \in FreeFor(c.rw) : s >= u,
                         [cmd |-> c.rw, bh |-> c.bh, errors |-> 0, sectors_done |-> 0])
    /\ Returns(t)
    /\ UNCHANGED <<b_lock, b_uptodate, data, wq>>

\* No request is free.  Interrupts are enabled: the driver may end requests
\* between the search and the sleep.
NoRequestFree(t) ==
    /\ In(t, "make_request")
    /\ ~Useless(call[t]) /\ ~call[t].ahead /\ FreeFor(call[t].rw) = {}
    /\ GoTo(t, "no_request")
    /\ UNCHANGED <<req, queue, headers, data, wq, call, running, driver>>

SleepForRequest(t) ==
    /\ In(t, "no_request")
    /\ wq' = SleepOn(wq, wait_for_request, t)
    /\ GoTo(t, "wait_for_request")
    /\ running' = NoTask
    /\ UNCHANGED <<req, queue, headers, data, call, driver>>

RequestResumes(t) ==
    /\ Enters(t, "wait_for_request")
    /\ wq' = SleepReturns(wq, wait_for_request, t)
    /\ GoTo(t, "make_request")
    /\ running' = t
    /\ UNCHANGED <<req, queue, headers, data, call, driver>>

(***************************************************************************)
(* The callers of ll_rw_block wait for the buffer (wait_on_buffer), and     *)
(* write into buffers that are up to date, locked or not.                   *)
(***************************************************************************)
WaitOnBuffer(t, b) ==
    /\ Enters(t, "idle") /\ b_lock[b]
    /\ wq' = SleepOn(wq, b, t)
    /\ call' = [call EXCEPT ![t] = [rw |-> READ, ahead |-> FALSE, bh |-> b]]
    /\ GoTo(t, "wait_on_buffer")
    /\ UNCHANGED <<req, queue, headers, data, running, driver>>

WaitOnBufferResumes(t) ==
    /\ Enters(t, "wait_on_buffer")
    /\ LET b == call[t].bh  back == SleepReturns(wq, b, t)
       IN  IF b_lock[b]
           THEN wq' = SleepOn(back, b, t) /\ UNCHANGED <<pc, call, running>>
           ELSE wq' = back /\ Returns(t)
    /\ UNCHANGED <<req, queue, headers, data, driver>>

Modify(t, b, v) ==
    /\ Enters(t, "idle") /\ b_uptodate[b]
    /\ mem' = [mem EXCEPT ![b] = [i \in 0 .. 1 |-> v]]
    /\ b_dirt' = Set(b_dirt, b, TRUE)
    /\ UNCHANGED <<req, queue, b_lock, b_uptodate, disk, tasks, driver>>

TaskStep(t) ==
    \/ \E b \in Buf : \/ \E rw \in {READ, WRITE} : LLRwBlock(t, rw, FALSE, b)
                      \/ LLRwBlock(t, READ, TRUE, b)
                      \/ WaitOnBuffer(t, b)
                      \/ \E v \in Contents[b] : Modify(t, b, v)
    \/ LockBufferResumes(t) \/ GiveUp(t) \/ MakeRequest(t)
    \/ NoRequestFree(t) \/ SleepForRequest(t) \/ RequestResumes(t)
    \/ WaitOnBufferResumes(t)
=============================================================================
