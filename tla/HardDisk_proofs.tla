--------------------------- MODULE HardDisk_proofs ---------------------------
(***************************************************************************)
(* Proofs about HardDisk for any number of tasks, buffers, requests and     *)
(* errors.                                                                  *)
(*                                                                         *)
(* The inductive invariant has four parts beside the types: the list holds  *)
(* the requests in use, once each; a locked buffer has one request or one   *)
(* task inside make_request; the driver expects an interrupt when there are *)
(* requests, for a command that fits the first of them; and the sectors a   *)
(* request has done are the same in memory and on the disk, as long as no   *)
(* one has written into the buffer since the request was queued.            *)
(***************************************************************************)
EXTENDS HardDisk, FiniteSetTheorems, NaturalsInduction, WellFoundedInduction, TLAPS

Calls == \A t \in Task : pc[t] # "idle" => call[t] \in Call

ListIsBusy ==
    /\ \A i, j \in 1 .. Len(queue) : queue[i] = queue[j] => i = j
    /\ \A i \in 1 .. Len(queue) : queue[i] \in Busy
    /\ \A s \in Busy : \E i \in 1 .. Len(queue) : queue[i] = s

Owners ==
    /\ \A s, u \in Busy : req[s].bh = req[u].bh => s = u
    /\ \A s \in Busy : b_lock[req[s].bh]
    /\ \A t \in Task, b \in Buf : HoldsLock(t, b) => b_lock[b] /\ InQueue(b) = {}
    /\ \A t, u \in Task, b \in Buf : HoldsLock(t, b) /\ HoldsLock(u, b) => t = u
    /\ \A b \in Buf : b_lock[b] => \/ InQueue(b) # {}
                                   \/ \E t \in Task : HoldsLock(t, b)

\* The command the drive works on was given for the first request.
Answering ==
    /\ driver.at = "out" => (driver.answers <=> queue # << >>)
    /\ Driving => ~driver.answers
    /\ Interrupt("read_intr") => CURRENT.cmd = READ
    /\ Interrupt("write_intr") =>
          /\ CURRENT.cmd = WRITE
          /\ driver.sent # << >>
          /\ ~b_dirt[CURRENT.bh] =>
                driver.sent = <<mem[CURRENT.bh][CURRENT.sectors_done]>>

Transferred ==
    \A s \in Busy :
        LET r == req[s]
        IN  /\ r.cmd = READ => ~b_uptodate[r.bh]
            /\ r.sectors_done = 1 /\ (r.cmd = WRITE => ~b_dirt[r.bh])
                  => mem[r.bh][0] = disk[r.bh][0]

IInv == TypeOK /\ Calls /\ ListIsBusy /\ Owners /\ Answering /\ Transferred
               /\ CleanMatchesDisk

-----------------------------------------------------------------------------
(***************************************************************************)
(* The list of requests: where the elevator inserts, and what becomes of    *)
(* the places of the others.                                                *)
(***************************************************************************)
LEMMA HasLeast ==
    ASSUME NEW S, S \subseteq Nat, S # {}
    PROVE  \E x \in S : \A y \in S : x <= y
<1> DEFINE R == {ss \in Nat \X Nat : ss[1] < ss[2]}
<1>1. IsWellFoundedOn(R, Nat)
  BY NatLessThanWellFounded DEF OpToRel
<1>2. PICK x \in S : \A y \in S : ~(<<y, x>> \in R)
  BY <1>1, WFMin
<1>3. ASSUME NEW y \in S PROVE x <= y
  <2>1. ~(<<y, x>> \in R)
    BY <1>2
  <2>2. <<y, x>> \in Nat \X Nat
    OBVIOUS
  <2>3. ~(y < x)
    BY <2>1, <2>2
  <2> QED
    BY <2>3
<1> QED
  BY <1>3

\* A first request goes to the front, any other behind the one the driver
\* works on.
LEMMA InsertionPointType ==
    ASSUME NEW q \in Seq(Slot), NEW r
    PROVE  /\ InsertionPoint(q, r) \in 0 .. Len(q)
           /\ q # << >> => InsertionPoint(q, r) >= 1
<1> DEFINE fits == {i \in 1 .. Len(q) - 1 : FitsAfter(q, i, r)}
<1>1. Len(q) \in Nat /\ (q # << >> => Len(q) >= 1)
  OBVIOUS
<1>2. CASE fits = {}
  BY <1>1, <1>2 DEF InsertionPoint
<1>3. CASE fits # {}
  <2>1. \E i \in fits : \A j \in fits : i <= j
    <3>1. fits \subseteq Nat
      BY <1>1
    <3> HIDE DEF fits
    <3> QED
      BY <1>3, <3>1, HasLeast
  <2>2. InsertionPoint(q, r) \in fits
    BY <1>3, <2>1 DEF InsertionPoint
  <2> QED
    BY <1>1, <2>2
<1> QED
  BY <1>2, <1>3

IsWith(p, q, i, s) ==
    /\ p \in Seq(Slot) /\ Len(p) = Len(q) + 1
    /\ \A j \in 1 .. Len(q) + 1 :
          p[j] = IF j < i THEN q[j] ELSE IF j = i THEN s ELSE q[j - 1]

LEMMA Inserted ==
    ASSUME NEW q \in Seq(Slot), NEW i \in 1 .. Len(q) + 1, NEW s \in Slot
    PROVE  IsWith(InsertAt(q, i, s), q, i, s)
<1> DEFINE a == SubSeq(q, 1, i - 1)
           c == SubSeq(q, i, Len(q))
           b == a \o <<s>>
<1>1. a \in Seq(Slot) /\ Len(a) = i - 1 /\ \A j \in 1 .. i - 1 : a[j] = q[j]
  OBVIOUS
<1>2. /\ c \in Seq(Slot) /\ Len(c) = Len(q) + 1 - i
      /\ \A j \in 1 .. Len(q) + 1 - i : c[j] = q[i + j - 1]
  OBVIOUS
<1> HIDE DEF a, c
<1>3. b \in Seq(Slot) /\ Len(b) = i /\ b[i] = s /\ \A j \in 1 .. i - 1 : b[j] = q[j]
  BY <1>1
<1> HIDE DEF b
<1>4. /\ b \o c \in Seq(Slot) /\ Len(b \o c) = Len(q) + 1
      /\ \A j \in 1 .. i : (b \o c)[j] = b[j]
      /\ \A j \in i + 1 .. Len(q) + 1 : (b \o c)[j] = c[j - i]
  BY <1>2, <1>3
<1>5. InsertAt(q, i, s) = b \o c
  BY DEF InsertAt, a, b, c
<1>6. ASSUME NEW j \in i + 1 .. Len(q) + 1 PROVE c[j - i] = q[j - 1]
  BY <1>2
<1> QED
  BY <1>3, <1>4, <1>5, <1>6 DEF IsWith

LEMMA BusyRequest ==
    ASSUME TypeOK
    PROVE  /\ \A s \in Busy : req[s] \in Request
           /\ \A r \in Request : r # Free
BY DEF TypeOK, Busy, Request, Free, READ, WRITE

\* add_request puts a free slot into the list.
LEMMA Added ==
    ASSUME TypeOK, ListIsBusy, NEW s \in Slot, req[s] = Free, NEW r \in Request,
           AddRequest(s, r)
    PROVE  /\ ListIsBusy' /\ queue' \in Seq(Slot) /\ queue' # << >>
           /\ Busy' = Busy \cup {s} /\ s \notin Busy
           /\ req'[s] = r /\ \A u \in Busy : req'[u] = req[u]
           /\ queue # << >> => queue'[1] = queue[1]
<1> DEFINE i == InsertionPoint(queue, r) + 1
<1>1. i \in 1 .. Len(queue) + 1 /\ (queue # << >> => i > 1)
  BY InsertionPointType DEF TypeOK
<1>2. queue' = InsertAt(queue, i, s)
  BY DEF AddRequest
<1> HIDE DEF i
<1>3. /\ queue' \in Seq(Slot) /\ Len(queue') = Len(queue) + 1
      /\ \A j \in 1 .. Len(queue) + 1 :
            queue'[j] = IF j < i THEN queue[j] ELSE IF j = i THEN s ELSE queue[j - 1]
  <2>1. IsWith(queue', queue, i, s)
    BY <1>1, <1>2, Inserted DEF TypeOK
  <2> QED
    BY <2>1 DEF IsWith
<1>4. req' = [req EXCEPT ![s] = r] /\ req'[s] = r /\ \A u \in Slot \ {s} : req'[u] = req[u]
  BY DEF AddRequest, TypeOK
<1>5. Busy' = Busy \cup {s} /\ s \notin Busy
  BY <1>4, BusyRequest DEF Busy
<1>6. Len(queue) \in Nat /\ (queue # << >> => Len(queue) >= 1)
  BY DEF TypeOK
<1>7. \A j \in 1 .. Len(queue) : queue[j] \in Busy /\ queue[j] # s
  BY <1>5 DEF ListIsBusy
<1>8. ASSUME NEW j \in 1 .. Len(queue'), NEW k \in 1 .. Len(queue'), queue'[j] = queue'[k]
      PROVE  j = k
  <2>1. j \in 1 .. Len(queue) + 1 /\ k \in 1 .. Len(queue) + 1
    BY <1>3
  <2>2. (j > i => j - 1 \in 1 .. Len(queue)) /\ (k > i => k - 1 \in 1 .. Len(queue))
    BY <1>1, <1>6, <2>1
  <2>3. (j < i => j \in 1 .. Len(queue)) /\ (k < i => k \in 1 .. Len(queue))
    BY <1>1, <1>6, <2>1
  <2>4. \A m, n \in 1 .. Len(queue) : queue[m] = queue[n] => m = n
    BY DEF ListIsBusy
  <2>5. queue'[j] = s <=> j = i
    BY <1>1, <1>3, <1>6, <1>7, <2>1, <2>2, <2>3
  <2>6. queue'[k] = s <=> k = i
    BY <1>1, <1>3, <1>6, <1>7, <2>1, <2>2, <2>3
  <2>7. CASE j = i \/ k = i
    BY <1>8, <2>5, <2>6, <2>7
  <2>8. CASE j # i /\ k # i
    <3> DEFINE old(n) == IF n < i THEN n ELSE n - 1
    <3>1. queue'[j] = queue[old(j)] /\ queue'[k] = queue[old(k)]
      BY <1>3, <2>1, <2>8
    <3>2. old(j) \in 1 .. Len(queue) /\ old(k) \in 1 .. Len(queue)
      BY <1>1, <1>6, <2>1, <2>2, <2>3, <2>8
    <3>3. old(j) = old(k)
      <4> HIDE DEF old
      <4> QED
        BY <1>8, <2>4, <3>1, <3>2
    <3> QED
      BY <1>1, <1>6, <2>1, <2>8, <3>3
  <2> QED
    BY <2>7, <2>8
<1>9. ASSUME NEW j \in 1 .. Len(queue') PROVE queue'[j] \in Busy'
  <2>1. j \in 1 .. Len(queue) + 1
    BY <1>3
  <2>2. (j > i => j - 1 \in 1 .. Len(queue)) /\ (j < i => j \in 1 .. Len(queue))
    BY <1>1, <1>6, <2>1
  <2>3. queue'[j] \in Busy'
    <3>1. CASE j = i
      BY <1>3, <1>5, <2>1, <3>1
    <3>2. CASE j < i
      BY <1>3, <1>5, <1>7, <2>1, <2>2, <3>2
    <3>3. CASE j > i
      BY <1>3, <1>5, <1>7, <2>1, <2>2, <3>3
    <3> QED
      BY <1>1, <1>6, <2>1, <3>1, <3>2, <3>3
  <2> QED
    BY <2>3
<1>10. ASSUME NEW u \in Busy' PROVE \E j \in 1 .. Len(queue') : queue'[j] = u
  <2>1. CASE u = s
    <3>1. i \in 1 .. Len(queue') /\ queue'[i] = s
      BY <1>1, <1>3, <1>6
    <3> QED
      BY <2>1, <3>1
  <2>2. CASE u # s
    <3>1. PICK j \in 1 .. Len(queue) : queue[j] = u
      BY <1>5, <2>2 DEF ListIsBusy
    <3>2. CASE j < i
      <4>1. j \in 1 .. Len(queue) + 1 /\ j \in 1 .. Len(queue')
        BY <1>3, <1>6
      <4> QED
        BY <1>3, <3>1, <3>2, <4>1
    <3>3. CASE j >= i
      <4>1. j + 1 \in 1 .. Len(queue) + 1 /\ j + 1 > i /\ (j + 1) - 1 = j
        BY <1>1, <1>6, <3>3
      <4>2. queue'[j + 1] = u
        BY <1>1, <1>3, <1>6, <3>1, <4>1
      <4> QED
        BY <1>3, <4>1, <4>2
    <3> QED
      BY <1>1, <3>2, <3>3
  <2> QED
    BY <2>1, <2>2
<1>11. ListIsBusy'
  BY <1>8, <1>9, <1>10 DEF ListIsBusy
<1>12. queue # << >> => queue'[1] = queue[1]
  BY <1>1, <1>3, <1>6
<1>13. queue' # << >>
  BY <1>3, <1>6
<1> QED
  BY <1>3, <1>4, <1>5, <1>11, <1>12, <1>13 DEF Busy

\* end_request takes the first one out and frees its slot.
LEMMA Ended ==
    ASSUME TypeOK, ListIsBusy, queue # << >>,
           req' = [req EXCEPT ![queue[1]] = Free], queue' = Tail(queue)
    PROVE  /\ ListIsBusy' /\ queue' \in Seq(Slot)
           /\ Busy' = Busy \ {queue[1]} /\ queue[1] \in Busy
           /\ \A s \in Busy' : req'[s] = req[s]
           /\ req' \in [Slot -> Request \cup {Free}]
<1>1. /\ Len(queue) \in Nat /\ Len(queue) >= 1 /\ queue' \in Seq(Slot)
      /\ Len(queue') = Len(queue) - 1
      /\ \A j \in 1 .. Len(queue) - 1 : queue'[j] = queue[j + 1]
  BY DEF TypeOK
<1>2. queue[1] \in Busy
  BY <1>1 DEF ListIsBusy
<1>3. /\ req'[queue[1]] = Free /\ \A u \in Slot \ {queue[1]} : req'[u] = req[u]
      /\ req' \in [Slot -> Request \cup {Free}]
  BY <1>2 DEF TypeOK, Busy
<1>4. Busy' = Busy \ {queue[1]}
  BY <1>2, <1>3 DEF Busy
<1>5. \A j \in 1 .. Len(queue') : /\ j + 1 \in 1 .. Len(queue) /\ j + 1 # 1
                                  /\ queue'[j] = queue[j + 1]
  BY <1>1
<1>6. \A j, k \in 1 .. Len(queue') : queue'[j] = queue'[k] => j = k
  <2>1. \A j, k \in 1 .. Len(queue') : queue'[j] = queue'[k] => j + 1 = k + 1
    BY <1>5 DEF ListIsBusy
  <2> QED
    BY <1>1, <2>1
<1>7. \A j \in 1 .. Len(queue') : queue'[j] \in Busy'
  <2>1. \A j \in 1 .. Len(queue') : queue[j + 1] \in Busy
    BY <1>5 DEF ListIsBusy
  <2>2. \A j \in 1 .. Len(queue') : queue[j + 1] # queue[1]
    <3>1. 1 \in 1 .. Len(queue)
      BY <1>1
    <3> QED
      BY <1>5, <3>1 DEF ListIsBusy
  <2> QED
    BY <1>4, <1>5, <2>1, <2>2
<1>8. ASSUME NEW s \in Busy' PROVE \E j \in 1 .. Len(queue') : queue'[j] = s
  <2>1. PICK j \in 1 .. Len(queue) : queue[j] = s
    BY <1>4 DEF ListIsBusy
  <2>2. j - 1 \in 1 .. Len(queue') /\ (j - 1) + 1 = j
    BY <1>1, <1>4, <2>1
  <2> QED
    BY <1>5, <2>1, <2>2
<1> QED
  BY <1>1, <1>2, <1>3, <1>4, <1>6, <1>7, <1>8 DEF ListIsBusy, Busy

\* The first request is changed in place.
LEMMA Changed ==
    ASSUME TypeOK, ListIsBusy, queue # << >>, NEW r \in Request,
           req' = [req EXCEPT ![queue[1]] = r], queue' = queue
    PROVE  /\ ListIsBusy' /\ Busy' = Busy /\ queue[1] \in Busy
           /\ req'[queue[1]] = r
           /\ \A s \in Slot \ {queue[1]} : req'[s] = req[s]
           /\ req' \in [Slot -> Request \cup {Free}]
<1>1. queue[1] \in Busy
  <2>1. 1 \in 1 .. Len(queue)
    BY DEF TypeOK
  <2> QED
    BY <2>1 DEF ListIsBusy
<1>2. /\ req'[queue[1]] = r /\ \A s \in Slot \ {queue[1]} : req'[s] = req[s]
      /\ req' \in [Slot -> Request \cup {Free}]
  BY <1>1 DEF TypeOK, Busy
<1>3. Busy' = Busy
  BY <1>1, <1>2, BusyRequest DEF Busy
<1> QED
  BY <1>1, <1>2, <1>3 DEF ListIsBusy

-----------------------------------------------------------------------------
(***************************************************************************)
(* The types.                                                               *)
(***************************************************************************)
LEMMA MakeRunningType ==
    ASSUME NEW w \in WaitQueues, NEW t \in Task \cup {NoTask}
    PROVE  MakeRunning(w, t) \in WaitQueues
BY DEF MakeRunning, WaitQueues, TaskState, RUNNING

LEMMA WakeUpType ==
    ASSUME NEW w \in WaitQueues, NEW q \in Queue
    PROVE  WakeUp(w, q) \in WaitQueues
<1>1. MakeRunning(w, w.head[q]) \in WaitQueues
  BY MakeRunningType DEF WaitQueues
<1> QED
  BY <1>1 DEF WakeUp, WaitQueues

LEMMA SleepOnType ==
    ASSUME NEW w \in WaitQueues, NEW q \in Queue, NEW t \in Task
    PROVE  SleepOn(w, q, t) \in WaitQueues
BY DEF SleepOn, FallAsleep, WaitQueues, TaskState

LEMMA SleepReturnsType ==
    ASSUME NEW w \in WaitQueues, NEW q \in Queue, NEW t \in Task
    PROVE  SleepReturns(w, q, t) \in WaitQueues
<1>1. MakeRunning(w, w.tmp[t]) \in WaitQueues /\ w.tmp[t] \in Task \cup {NoTask}
  BY MakeRunningType DEF WaitQueues
<1> QED
  BY <1>1 DEF SleepReturns, WaitQueues

LEMMA QueuesOfBuffers ==
    \A b \in Buf : b \in Queue /\ wait_for_request \in Queue
BY LLRwBlkAssumption

\* What a task does to itself.
LEMMA CallTypes ==
    ASSUME TypeOK, NEW t \in Task, NEW rw \in {READ, WRITE}, NEW ahead \in BOOLEAN,
           NEW b \in Buf
    PROVE  [rw |-> rw, ahead |-> ahead, bh |-> b] \in Call
BY DEF Call

\* A request for what the task has asked, in a slot that is free for it.
LEMMA NewRequest ==
    ASSUME TypeOK, Calls, NEW t \in Task, MakeRequest(t)
    PROVE  \E s \in Slot :
              LET r == [cmd |-> call[t].rw, bh |-> call[t].bh, errors |-> 0,
                        sectors_done |-> 0]
              IN  /\ r \in Request /\ req[s] = Free
                  /\ AddRequest(s, r) /\ ~Useless(call[t])
<1> DEFINE c == call[t]
           S == FreeFor(c.rw)
           s == CHOOSE s \in S : \A u \in S : s >= u
           r == [cmd |-> c.rw, bh |-> c.bh, errors |-> 0, sectors_done |-> 0]
<1>1. c \in Call
  BY DEF MakeRequest, In, Calls
<1>2. r \in Request
  BY <1>1 DEF Call, Request
<1>3. S # {} /\ AddRequest(s, r) /\ ~Useless(c)
  BY DEF MakeRequest
<1>4. s \in S
  <2>1. \E x \in S : \A u \in S : x >= u
    <3> DEFINE D == {d \in Nat : NR_REQUEST - d \in S}
    <3>1. \A x \in S : x \in Nat /\ NR_REQUEST - x \in Nat
      BY LLRwBlkAssumption DEF FreeFor, Slot
    <3>2. D # {}
      <4>1. PICK x \in S : TRUE
        BY <1>3
      <4>2. NR_REQUEST - x \in D
        BY <3>1, <4>1, LLRwBlkAssumption
      <4> QED
        BY <4>2
    <3> HIDE DEF S
    <3>3. PICK d \in D : \A e \in D : d <= e
      <4>1. D \subseteq Nat
        OBVIOUS
      <4> HIDE DEF D
      <4> QED
        BY <3>2, <4>1, HasLeast
    <3>4. \A u \in S : NR_REQUEST - u \in D
      BY <3>1, LLRwBlkAssumption
    <3>5. \A u \in S : NR_REQUEST - d >= u
      BY <3>1, <3>3, <3>4, LLRwBlkAssumption
    <3> QED
      BY <3>3, <3>5
  <2> HIDE DEF S
  <2> QED
    BY <2>1
<1>5. s \in Slot /\ req[s] = Free
  BY <1>4 DEF FreeFor
<1> QED
  BY <1>2, <1>3, <1>5

LEMMA ValOfBuffer ==
    ASSUME NEW b \in Buf, NEW v \in Contents[b] PROVE v \in Val
BY DEF Val

LEMMA TaskTypes ==
    ASSUME TypeOK, Calls, ListIsBusy, NEW t \in Task, TaskStep(t)
    PROVE  TypeOK' /\ Calls'
<1> USE DEF TypeOK, Calls, Enters, In, GoTo, Returns, Set, Locked
<1>1. ASSUME NEW rw \in {READ, WRITE}, NEW ahead \in BOOLEAN, NEW b \in Buf,
             LLRwBlock(t, rw, ahead, b)
      PROVE  TypeOK' /\ Calls'
  <2> DEFINE c == [rw |-> rw, ahead |-> ahead, bh |-> b]
  <2>1. c \in Call
    BY CallTypes
  <2>2. SleepOn(wq, b, t) \in WaitQueues
    BY SleepOnType, QueuesOfBuffers
  <2> HIDE DEF c
  <2>3. call' = [call EXCEPT ![t] = c]
    BY <1>1 DEF LLRwBlock, c
  <2>4. CASE ~b_lock[b]
    BY <1>1, <2>1, <2>3, <2>4, ZenonT(60) DEF LLRwBlock, headers, data
  <2>5. CASE b_lock[b]
    BY <1>1, <2>1, <2>2, <2>3, <2>5 DEF LLRwBlock, headers, data
  <2> QED
    BY <2>4, <2>5
<1>2. ASSUME LockBufferResumes(t) PROVE TypeOK' /\ Calls'
  <2>1. call[t] \in Call /\ call[t].bh \in Buf
    BY <1>2 DEF LockBufferResumes, Call
  <2>2. SleepReturns(wq, call[t].bh, t) \in WaitQueues
    BY <2>1, SleepReturnsType, QueuesOfBuffers
  <2>3. SleepOn(SleepReturns(wq, call[t].bh, t), call[t].bh, t) \in WaitQueues
    BY <2>1, <2>2, SleepOnType, QueuesOfBuffers
  <2>4. CASE ~b_lock[call[t].bh]
    BY <1>2, <2>1, <2>2, <2>4 DEF LockBufferResumes, headers, data
  <2>5. CASE b_lock[call[t].bh]
    BY <1>2, <2>1, <2>3, <2>5 DEF LockBufferResumes, headers, data
  <2> QED
    BY <2>4, <2>5
<1>3. ASSUME GiveUp(t) PROVE TypeOK' /\ Calls'
  <2>1. call[t] \in Call /\ call[t].bh \in Buf
    BY <1>3 DEF GiveUp, Call
  <2> QED
    BY <1>3, <2>1, WakeUpType, QueuesOfBuffers DEF GiveUp, headers, data
<1>4. ASSUME MakeRequest(t) PROVE TypeOK' /\ Calls'
  <2>1. PICK s \in Slot, r \in Request : req[s] = Free /\ AddRequest(s, r)
    BY <1>4, NewRequest
  <2>2. queue' \in Seq(Slot) /\ r.bh \in Buf
    BY <2>1, Added DEF Request
  <2>3. /\ req' \in [Slot -> Request \cup {Free}] /\ b_dirt' \in [Buf -> BOOLEAN]
        /\ driver' = driver \/ driver' = [driver EXCEPT !.at = "do_hd_request"]
    BY <2>1, <2>2 DEF AddRequest
  <2> QED
    BY <1>4, <2>2, <2>3 DEF MakeRequest, data
<1>5. ASSUME NoRequestFree(t) PROVE TypeOK' /\ Calls'
  BY <1>5 DEF NoRequestFree, headers, data
<1>6. ASSUME SleepForRequest(t) PROVE TypeOK' /\ Calls'
  BY <1>6, SleepOnType, LLRwBlkAssumption DEF SleepForRequest, headers, data
<1>7. ASSUME RequestResumes(t) PROVE TypeOK' /\ Calls'
  BY <1>7, SleepReturnsType, LLRwBlkAssumption DEF RequestResumes, headers, data
<1>8. ASSUME NEW b \in Buf, WaitOnBuffer(t, b) PROVE TypeOK' /\ Calls'
  <2>1. READ \in {READ, WRITE} /\ FALSE \in BOOLEAN
    OBVIOUS
  <2>2. [rw |-> READ, ahead |-> FALSE, bh |-> b] \in Call
    BY <2>1, CallTypes
  <2> QED
    BY <1>8, <2>2, SleepOnType, QueuesOfBuffers DEF WaitOnBuffer, headers, data
<1>9. ASSUME WaitOnBufferResumes(t) PROVE TypeOK' /\ Calls'
  <2>1. call[t] \in Call /\ call[t].bh \in Buf
    BY <1>9 DEF WaitOnBufferResumes, Call
  <2>2. SleepReturns(wq, call[t].bh, t) \in WaitQueues
    BY <2>1, SleepReturnsType, QueuesOfBuffers
  <2>3. SleepOn(SleepReturns(wq, call[t].bh, t), call[t].bh, t) \in WaitQueues
    BY <2>1, <2>2, SleepOnType, QueuesOfBuffers
  <2>4. CASE b_lock[call[t].bh]
    BY <1>9, <2>1, <2>3, <2>4 DEF WaitOnBufferResumes, headers, data
  <2>5. CASE ~b_lock[call[t].bh]
    BY <1>9, <2>1, <2>2, <2>5 DEF WaitOnBufferResumes, headers, data
  <2> QED
    BY <2>4, <2>5
<1>10. ASSUME NEW b \in Buf, NEW v \in Contents[b], Modify(t, b, v)
       PROVE  TypeOK' /\ Calls'
  BY <1>10, ValOfBuffer DEF Modify, Blocks, tasks
<1> QED
  BY <1>1, <1>2, <1>3, <1>4, <1>5, <1>6, <1>7, <1>8, <1>9, <1>10 DEF TaskStep

DriverType == [at : {"out", "do_hd_request"}, do_hd : Handler, answers : BOOLEAN,
               reset : BOOLEAN, recalibrate : BOOLEAN,
               sent : {<< >>} \cup {<<v>> : v \in Val}]

LEMMA FirstRequest ==
    ASSUME TypeOK, ListIsBusy, queue # << >>
    PROVE  queue[1] \in Busy /\ CURRENT \in Request
<1>1. 1 \in 1 .. Len(queue)
  BY DEF TypeOK
<1> QED
  BY <1>1, BusyRequest DEF ListIsBusy, CURRENT

LEMMA InterruptHasRequest ==
    ASSUME Answering, NEW h, Interrupt(h) PROVE queue # << >>
BY DEF Answering, Interrupt

LEMMA DriverTypes ==
    ASSUME NEW d \in DriverType
    PROVE  /\ \A h \in Handler :
                 [d EXCEPT !.at = "out", !.do_hd = h, !.answers = TRUE] \in DriverType
           /\ [d EXCEPT !.do_hd = "none", !.answers = FALSE, !.sent = << >>,
                        !.at = "do_hd_request"] \in DriverType
           /\ \A r \in BOOLEAN : [d EXCEPT !.reset = r] \in DriverType
           /\ \A r \in BOOLEAN : [d EXCEPT !.recalibrate = r] \in DriverType
           /\ \A v \in Val : [d EXCEPT !.sent = <<v>>] \in DriverType
           /\ [d EXCEPT !.do_hd = "write_intr"] \in DriverType
           /\ [d EXCEPT !.at = "out"] \in DriverType
BY DEF DriverType, Handler

LEMMA EndedTypes ==
    ASSUME TypeOK, ListIsBusy, queue # << >>, NEW ok \in BOOLEAN, EndRequest(ok)
    PROVE  /\ req' \in [Slot -> Request \cup {Free}] /\ queue' \in Seq(Slot)
           /\ b_lock' \in [Buf -> BOOLEAN] /\ b_dirt' \in [Buf -> BOOLEAN]
           /\ b_uptodate' \in [Buf -> BOOLEAN] /\ wq' \in WaitQueues
           /\ pc' = pc /\ call' = call /\ running' = running
<1>1. CURRENT.bh \in Buf
  BY FirstRequest DEF Request
<1>2. WakeUp(WakeUp(wq, CURRENT.bh), wait_for_request) \in WaitQueues
  BY <1>1, WakeUpType, QueuesOfBuffers, LLRwBlkAssumption DEF TypeOK
<1>3. req' \in [Slot -> Request \cup {Free}] /\ queue' \in Seq(Slot)
  BY Ended DEF EndRequest
<1> QED
  BY <1>1, <1>2, <1>3 DEF EndRequest, TypeOK, Set

LEMMA KeptTypes ==
    ASSUME TypeOK, ListIsBusy, queue # << >>, NEW r \in Request, KeepRequest(r)
    PROVE  /\ req' \in [Slot -> Request \cup {Free}] /\ queue' \in Seq(Slot)
           /\ b_lock' \in [Buf -> BOOLEAN] /\ b_dirt' \in [Buf -> BOOLEAN]
           /\ b_uptodate' \in [Buf -> BOOLEAN] /\ wq' \in WaitQueues
           /\ pc' = pc /\ call' = call /\ running' = running
<1>1. req' \in [Slot -> Request \cup {Free}]
  BY Changed DEF KeepRequest
<1> QED
  BY <1>1 DEF KeepRequest, TypeOK, headers, tasks

\* A request that goes on keeps its command and its buffer.
LEMMA RequestGoesOn ==
    ASSUME NEW r \in Request, NEW e \in Nat
    PROVE  /\ [r EXCEPT !.errors = e] \in Request
           /\ [r EXCEPT !.errors = e].cmd = r.cmd
           /\ [r EXCEPT !.errors = e].bh = r.bh
           /\ [r EXCEPT !.errors = e].sectors_done = r.sectors_done
           /\ [r EXCEPT !.sectors_done = 1, !.errors = e] \in Request
           /\ [r EXCEPT !.sectors_done = 1, !.errors = e].cmd = r.cmd
           /\ [r EXCEPT !.sectors_done = 1, !.errors = e].bh = r.bh
           /\ [r EXCEPT !.sectors_done = 1, !.errors = e].sectors_done = 1
<1> USE DEF Request
<1>1. r = [cmd |-> r.cmd, bh |-> r.bh, errors |-> r.errors, sectors_done |-> r.sectors_done]
  OBVIOUS
<1>2. [r EXCEPT !.errors = e]
        = [cmd |-> r.cmd, bh |-> r.bh, errors |-> e, sectors_done |-> r.sectors_done]
  OBVIOUS
<1>3. [r EXCEPT !.sectors_done = 1]
        = [cmd |-> r.cmd, bh |-> r.bh, errors |-> r.errors, sectors_done |-> 1]
  OBVIOUS
<1>4. [r EXCEPT !.sectors_done = 1, !.errors = e]
        = [[r EXCEPT !.sectors_done = 1] EXCEPT !.errors = e]
  OBVIOUS
<1>5. [r EXCEPT !.sectors_done = 1, !.errors = e]
        = [cmd |-> r.cmd, bh |-> r.bh, errors |-> e, sectors_done |-> 1]
  <2> DEFINE q == [r EXCEPT !.sectors_done = 1]
  <2>1. [q EXCEPT !.errors = e]
          = [cmd |-> q.cmd, bh |-> q.bh, errors |-> e, sectors_done |-> q.sectors_done]
    <3>1. q \in Request
      BY <1>3
    <3> HIDE DEF q
    <3> QED
      BY <3>1
  <2>2. q.cmd = r.cmd /\ q.bh = r.bh /\ q.sectors_done = 1
    BY <1>3
  <2> HIDE DEF q
  <2>3. [r EXCEPT !.sectors_done = 1, !.errors = e] = [q EXCEPT !.errors = e]
    BY <1>4 DEF q
  <2> QED
    BY <2>1, <2>2, <2>3
<1> QED
  BY <1>2, <1>5

\* bad_rw_intr ends the request or counts an error.
LEMMA BadCases ==
    ASSUME TypeOK, ListIsBusy, queue # << >>, NEW d \in DriverType, BadRwIntr(d)
    PROVE  /\ \/ EndRequest(FALSE)
              \/ \E r \in Request : /\ KeepRequest(r) /\ r.cmd = CURRENT.cmd
                                    /\ r.bh = CURRENT.bh
                                    /\ r.sectors_done = CURRENT.sectors_done
           /\ \E z \in BOOLEAN : driver' = [d EXCEPT !.reset = z]
           /\ UNCHANGED data
<1> DEFINE e == CURRENT.errors + 1
           r == [CURRENT EXCEPT !.errors = e]
<1>1. CURRENT \in Request /\ e \in Nat
  BY FirstRequest DEF Request
<1>2. /\ r \in Request /\ r.cmd = CURRENT.cmd /\ r.bh = CURRENT.bh
      /\ r.sectors_done = CURRENT.sectors_done
  <2> HIDE DEF e
  <2> QED
    BY <1>1, RequestGoesOn
<1>3. d.reset \in BOOLEAN
  BY DEF DriverType
<1>4. CASE e >= MAX_ERRORS
  BY <1>3, <1>4 DEF BadRwIntr
<1>5. CASE ~(e >= MAX_ERRORS)
  <2>1. KeepRequest(r) /\ driver' = [d EXCEPT !.reset = @ \/ e > MAX_ERRORS \div 2]
    BY <1>5 DEF BadRwIntr
  <2>2. (d.reset \/ e > MAX_ERRORS \div 2) \in BOOLEAN
    BY <1>3
  <2> HIDE DEF r, e
  <2> QED
    BY <1>2, <2>1, <2>2 DEF BadRwIntr
<1> QED
  BY <1>4, <1>5

LEMMA BadTypes ==
    ASSUME TypeOK, ListIsBusy, queue # << >>, NEW d \in DriverType, BadRwIntr(d)
    PROVE  TypeOK'
<1>1. /\ req' \in [Slot -> Request \cup {Free}] /\ queue' \in Seq(Slot)
      /\ b_lock' \in [Buf -> BOOLEAN] /\ b_dirt' \in [Buf -> BOOLEAN]
      /\ b_uptodate' \in [Buf -> BOOLEAN] /\ wq' \in WaitQueues
      /\ pc' = pc /\ call' = call /\ running' = running
  <2>1. FALSE \in BOOLEAN
    OBVIOUS
  <2> QED
    BY <2>1, BadCases, EndedTypes, KeptTypes
<1>2. driver' \in DriverType /\ UNCHANGED data
  BY BadCases, DriverTypes
<1> QED
  BY <1>1, <1>2 DEF TypeOK, DriverType, data

LEMMA HdTypes ==
    ASSUME TypeOK, Calls, ListIsBusy, Answering, DoHdRequest \/ HdInterrupt
    PROVE  TypeOK' /\ Calls'
<1>0. driver \in DriverType
  BY DEF TypeOK, DriverType
<1>1. ASSUME driver' \in DriverType, UNCHANGED <<req, queue, headers, data, tasks>>
      PROVE  TypeOK' /\ Calls'
  BY <1>1 DEF TypeOK, DriverType, Calls, headers, data, tasks
<1>2. \A h \in Handler : Command(h) \in DriverType
  BY <1>0, DriverTypes DEF Command
<1>3. RunsNext \in DriverType
  BY <1>0, DriverTypes DEF RunsNext
<1>4. ASSUME UNCHANGED <<pc, call>> PROVE Calls'
  BY <1>4 DEF Calls
<1>5. CASE QueueEmpty
  BY <1>0, <1>1, <1>5, DriverTypes DEF QueueEmpty
<1>6. CASE RefuseRequest
  <2>1. FALSE \in BOOLEAN
    OBVIOUS
  <2> QED
    BY <1>4, <1>6, <2>1, EndedTypes DEF RefuseRequest, TypeOK, data
<1>7. CASE ResetHd
  <2>1. Command("recal_intr") \in DriverType
    BY <1>2 DEF Handler
  <2>2. driver' = [[Command("recal_intr") EXCEPT !.reset = FALSE] EXCEPT !.recalibrate = TRUE]
    BY <1>7, <2>1 DEF ResetHd, DriverType
  <2>3. driver' \in DriverType
    BY <2>1, <2>2, DriverTypes
  <2> QED
    BY <1>1, <1>7, <2>3 DEF ResetHd
<1>8. CASE Recalibrate
  <2>1. Command("recal_intr") \in DriverType
    BY <1>2 DEF Handler
  <2>2. driver' \in DriverType
    BY <1>8, <2>1, DriverTypes DEF Recalibrate
  <2> QED
    BY <1>1, <1>8, <2>2 DEF Recalibrate
<1>9. CASE StartRead
  BY <1>1, <1>2, <1>9 DEF StartRead, Handler
<1>10. CASE StartWrite
  <2>1. Command("write_intr") \in DriverType
    BY <1>2 DEF Handler
  <2>2. mem[CURRENT.bh][CURRENT.sectors_done] \in Val
    BY <1>10, FirstRequest DEF StartWrite, ReadyFor, Starts, Request, TypeOK, Blocks
  <2>3. driver' \in DriverType
    BY <1>10, <2>1, <2>2, DriverTypes DEF StartWrite
  <2> QED
    BY <1>1, <1>10, <2>3 DEF StartWrite
<1>11. CASE NoDataRequest
  <2>1. [driver EXCEPT !.do_hd = "write_intr"] \in DriverType
    BY <1>0, DriverTypes
  <2> QED
    BY <1>4, <1>11, <2>1, BadTypes, BadCases, EndedTypes, KeptTypes
       DEF NoDataRequest, ReadyFor, Starts, KeepRequest, EndRequest, tasks
<1>12. CASE ReadIntr \/ WriteIntr
  <2>1. queue # << >>
    BY <1>12, InterruptHasRequest DEF ReadIntr, WriteIntr
  <2>2. queue[1] \in Busy /\ CURRENT \in Request /\ CURRENT.bh \in Buf
        /\ CURRENT.sectors_done \in 0 .. 1 /\ CURRENT.errors \in Nat
    BY <2>1, FirstRequest DEF Request
  <2>3. mem' \in Blocks /\ disk' \in Blocks
    <3>1. CASE ReadIntr
      BY <2>2, <3>1 DEF ReadIntr, TypeOK, Blocks
    <3>2. CASE WriteIntr
      <4>1. driver.sent # << >>
        BY <3>2 DEF WriteIntr, Answering
      <4>2. Head(driver.sent) \in Val
        BY <1>0, <4>1 DEF DriverType
      <4> QED
        BY <2>2, <3>2, <4>2 DEF WriteIntr, TypeOK, Blocks
    <3> QED
      BY <1>12, <3>1, <3>2
  <2>4. ASSUME NEW ok \in BOOLEAN, EndRequest(ok), driver' = RunsNext
        PROVE  TypeOK' /\ Calls'
    BY <1>3, <1>4, <2>1, <2>3, <2>4, EndedTypes DEF TypeOK, DriverType
  <2>5. ASSUME NEW e \in Nat, NextSector(e), driver' \in DriverType
        PROVE  TypeOK' /\ Calls'
    <3>1. [CURRENT EXCEPT !.sectors_done = 1, !.errors = e] \in Request
      BY <2>2, RequestGoesOn
    <3> QED
      BY <1>4, <2>1, <2>3, <2>5, <3>1, KeptTypes DEF TypeOK, DriverType, NextSector
  <2>6. CASE ReadIntr
    BY <1>2, <2>4, <2>5, <2>6 DEF ReadIntr, Handler
  <2>7. CASE WriteIntr
    <3>1. mem[CURRENT.bh][1] \in Val
      BY <2>2 DEF TypeOK, Blocks
    <3>2. [Command("write_intr") EXCEPT !.sent = <<mem[CURRENT.bh][1]>>] \in DriverType
      BY <1>2, <3>1, DriverTypes DEF Handler
    <3> QED
      BY <2>2, <2>4, <2>5, <2>7, <3>2 DEF WriteIntr
  <2> QED
    BY <1>12, <2>6, <2>7
<1>13. CASE TransferFails \/ RecalFails
  <2>1. queue # << >>
    BY <1>13, InterruptHasRequest DEF TransferFails, RecalFails
  <2> QED
    BY <1>3, <1>4, <1>13, <2>1, BadTypes, BadCases
       DEF TransferFails, RecalFails, KeepRequest, EndRequest, tasks
<1>14. CASE RecalIntr
  BY <1>1, <1>3, <1>14 DEF RecalIntr
<1> QED
  BY <1>5, <1>6, <1>7, <1>8, <1>9, <1>10, <1>11, <1>12, <1>13, <1>14
     DEF DoHdRequest, HdInterrupt

-----------------------------------------------------------------------------
(***************************************************************************)
(* The owners of the locks.                                                 *)
(***************************************************************************)
\* Requests and holders together, for a step that moves a lock between them.
LEMMA OwnersEnded ==
    ASSUME TypeOK, ListIsBusy, Owners, queue # << >>, NEW ok \in BOOLEAN,
           EndRequest(ok)
    PROVE  Owners'
<1> DEFINE b == CURRENT.bh
<1>1. /\ Busy' = Busy \ {queue[1]} /\ queue[1] \in Busy
      /\ \A s \in Busy' : req'[s] = req[s]
  BY Ended DEF EndRequest
<1>2. b \in Buf /\ b = req[queue[1]].bh
  BY FirstRequest DEF Request, CURRENT
<1>3. \A s \in Busy' : req[s].bh # b
  BY <1>1, <1>2 DEF Owners
<1>4. \A c \in Buf : b_lock'[c] = IF c = b THEN FALSE ELSE b_lock[c]
  BY <1>2 DEF EndRequest, TypeOK, Set
<1>5. \A t \in Task, c \in Buf : HoldsLock(t, c)' <=> HoldsLock(t, c)
  BY DEF EndRequest, HoldsLock
<1>6. \A t \in Task : ~HoldsLock(t, b)
  BY <1>1, <1>2 DEF Owners, InQueue
<1>7. \A s \in Busy : req[s].bh \in Buf
  BY BusyRequest DEF Request
<1>8. \A c \in Buf \ {b} : InQueue(c)' = InQueue(c)
  BY <1>1, <1>2 DEF InQueue
<1> HIDE DEF b
<1>9. \A s, u \in Busy' : req'[s].bh = req'[u].bh => s = u
  BY <1>1 DEF Owners
<1>10. \A s \in Busy' : b_lock'[req'[s].bh]
  BY <1>1, <1>3, <1>4, <1>7 DEF Owners
<1>11. ASSUME NEW t \in Task, NEW c \in Buf, HoldsLock(t, c)'
       PROVE  b_lock'[c] /\ InQueue(c)' = {}
  <2>1. HoldsLock(t, c) /\ c # b
    BY <1>5, <1>6, <1>11
  <2>2. b_lock[c] /\ InQueue(c) = {}
    BY <2>1 DEF Owners
  <2> QED
    BY <1>4, <1>8, <2>1, <2>2
<1>12. \A t, u \in Task, c \in Buf : HoldsLock(t, c)' /\ HoldsLock(u, c)' => t = u
  BY <1>5 DEF Owners
<1>13. \A c \in Buf : b_lock'[c] => InQueue(c)' # {} \/ \E t \in Task : HoldsLock(t, c)'
  BY <1>4, <1>5, <1>8 DEF Owners
<1> QED
  BY <1>9, <1>10, <1>11, <1>12, <1>13 DEF Owners

LEMMA OwnersKept ==
    ASSUME TypeOK, ListIsBusy, Owners, queue # << >>, NEW r \in Request,
           r.bh = CURRENT.bh, KeepRequest(r)
    PROVE  Owners'
<1>1. /\ Busy' = Busy /\ queue[1] \in Busy /\ req'[queue[1]] = r
      /\ \A s \in Slot \ {queue[1]} : req'[s] = req[s]
  BY Changed DEF KeepRequest
<1>2. \A s \in Busy : req'[s].bh = req[s].bh
  BY <1>1 DEF Busy, CURRENT
<1>3. \A b \in Buf : InQueue(b)' = InQueue(b)
  BY <1>1, <1>2 DEF InQueue
<1>4. \A t \in Task, c \in Buf : HoldsLock(t, c)' <=> HoldsLock(t, c)
  BY DEF KeepRequest, HoldsLock, tasks
<1>5. b_lock' = b_lock
  BY DEF KeepRequest, headers
<1> QED
  BY <1>1, <1>2, <1>3, <1>4, <1>5 DEF Owners

LEMMA OwnersSame ==
    ASSUME Owners, UNCHANGED <<req, b_lock>>,
           \A t \in Task, b \in Buf : HoldsLock(t, b)' <=> HoldsLock(t, b)
    PROVE  Owners'
<1>1. Busy' = Busy /\ \A b \in Buf : InQueue(b)' = InQueue(b)
  BY DEF Busy, InQueue
<1> QED
  BY <1>1 DEF Owners

\* A task takes the lock of a buffer that nobody owns.
LEMMA OwnersTaken ==
    ASSUME TypeOK, Owners, NEW t \in Task, NEW b \in Buf, ~b_lock[b],
           b_lock' = Set(b_lock, b, TRUE), UNCHANGED req,
           \A c \in Buf : ~HoldsLock(t, c),
           \A u \in Task, c \in Buf : HoldsLock(u, c)' <=> HoldsLock(u, c) \/ (u = t /\ c = b)
    PROVE  Owners'
<1>1. Busy' = Busy /\ \A c \in Buf : InQueue(c)' = InQueue(c)
  BY DEF Busy, InQueue
<1>2. \A c \in Buf : b_lock'[c] = IF c = b THEN TRUE ELSE b_lock[c]
  BY DEF TypeOK, Set
<1>3. InQueue(b) = {} /\ \A u \in Task : ~HoldsLock(u, b)
  BY DEF Owners, InQueue
<1>4. \A s \in Busy : req[s].bh \in Buf
  BY BusyRequest DEF Request
<1>5. \A s \in Busy' : b_lock'[req'[s].bh]
  BY <1>1, <1>2, <1>4 DEF Owners
<1>6. \A u \in Task, c \in Buf : HoldsLock(u, c)' => b_lock'[c] /\ InQueue(c)' = {}
  BY <1>1, <1>2, <1>3, ZenonT(60) DEF Owners
<1>7. \A u, v \in Task, c \in Buf : HoldsLock(u, c)' /\ HoldsLock(v, c)' => u = v
  BY <1>3 DEF Owners
<1>8. \A c \in Buf : b_lock'[c] => InQueue(c)' # {} \/ \E u \in Task : HoldsLock(u, c)'
  BY <1>1, <1>2 DEF Owners
<1> QED
  BY <1>1, <1>5, <1>6, <1>7, <1>8 DEF Owners

\* The task inside make_request gives the lock back.
LEMMA OwnersGivenUp ==
    ASSUME TypeOK, Owners, NEW t \in Task, NEW b \in Buf, HoldsLock(t, b),
           b_lock' = Set(b_lock, b, FALSE), UNCHANGED req,
           \A u \in Task, c \in Buf : HoldsLock(u, c)' <=> HoldsLock(u, c) /\ u # t
    PROVE  Owners'
<1>1. Busy' = Busy /\ \A c \in Buf : InQueue(c)' = InQueue(c)
  BY DEF Busy, InQueue
<1>2. \A c \in Buf : b_lock'[c] = IF c = b THEN FALSE ELSE b_lock[c]
  BY DEF TypeOK, Set
<1>3. InQueue(b) = {} /\ \A u \in Task : HoldsLock(u, b) => u = t
  BY DEF Owners
<1>4. \A s \in Busy : req[s].bh \in Buf /\ req[s].bh # b
  BY <1>3, BusyRequest DEF Request, InQueue
<1>5. \A c \in Buf : HoldsLock(t, c) => c = b
  BY DEF HoldsLock
<1>6. \A s \in Busy' : b_lock'[req'[s].bh]
  BY <1>1, <1>2, <1>4 DEF Owners
<1>7. ASSUME NEW u \in Task, NEW c \in Buf, HoldsLock(u, c)'
      PROVE  b_lock'[c] /\ InQueue(c)' = {}
  <2>1. HoldsLock(u, c) /\ c # b
    BY <1>3, <1>7
  <2>2. b_lock[c] /\ InQueue(c) = {}
    BY <2>1 DEF Owners
  <2> QED
    BY <1>1, <1>2, <2>1, <2>2
<1>8. \A u, v \in Task, c \in Buf : HoldsLock(u, c)' /\ HoldsLock(v, c)' => u = v
  BY DEF Owners
<1>9. ASSUME NEW c \in Buf, b_lock'[c]
      PROVE  InQueue(c)' # {} \/ \E u \in Task : HoldsLock(u, c)'
  <2>1. c # b /\ b_lock[c] /\ InQueue(c)' = InQueue(c)
    BY <1>1, <1>2, <1>9
  <2>2. CASE InQueue(c) # {}
    BY <2>1, <2>2
  <2>3. ASSUME NEW u \in Task, HoldsLock(u, c) PROVE HoldsLock(u, c)'
    BY <1>5, <2>1, <2>3
  <2> QED
    BY <2>1, <2>2, <2>3 DEF Owners
<1> QED
  BY <1>1, <1>6, <1>7, <1>8, <1>9 DEF Owners

\* The lock passes from the task to the request it has queued.
LEMMA OwnersQueued ==
    ASSUME TypeOK, ListIsBusy, Owners, NEW t \in Task, NEW s \in Slot, req[s] = Free,
           NEW r \in Request, AddRequest(s, r), HoldsLock(t, r.bh),
           UNCHANGED b_lock,
           \A u \in Task, c \in Buf : HoldsLock(u, c)' <=> HoldsLock(u, c) /\ u # t
    PROVE  Owners'
<1> DEFINE b == r.bh
<1>1. /\ Busy' = Busy \cup {s} /\ s \notin Busy
      /\ req'[s] = r /\ \A u \in Busy : req'[u] = req[u]
  BY Added
<1>2. b \in Buf
  BY DEF Request
<1>3. b_lock[b] /\ InQueue(b) = {} /\ \A u \in Task : HoldsLock(u, b) => u = t
  BY <1>2 DEF Owners
<1>4. \A u \in Busy : req[u].bh \in Buf /\ req[u].bh # b
  BY <1>3, BusyRequest DEF Request, InQueue
<1>5. \A c \in Buf : HoldsLock(t, c) => c = b
  BY DEF HoldsLock
<1>6. \A c \in Buf \ {b} : InQueue(c)' = InQueue(c)
  BY <1>1 DEF InQueue
<1>7. InQueue(b)' = {s}
  BY <1>1, <1>4 DEF InQueue
<1> HIDE DEF b
<1>8. \A u, v \in Busy' : req'[u].bh = req'[v].bh => u = v
  BY <1>1, <1>4 DEF Owners, b
<1>9. \A u \in Busy' : b_lock'[req'[u].bh]
  BY <1>1, <1>3 DEF Owners, b
<1>10. ASSUME NEW u \in Task, NEW c \in Buf, HoldsLock(u, c)'
       PROVE  b_lock'[c] /\ InQueue(c)' = {}
  <2>1. HoldsLock(u, c) /\ c # b
    BY <1>3, <1>10
  <2>2. b_lock[c] /\ InQueue(c) = {}
    BY <2>1 DEF Owners
  <2> QED
    BY <1>6, <2>1, <2>2
<1>11. \A u, v \in Task, c \in Buf : HoldsLock(u, c)' /\ HoldsLock(v, c)' => u = v
  BY DEF Owners
<1>12. ASSUME NEW c \in Buf, b_lock'[c]
       PROVE  InQueue(c)' # {} \/ \E u \in Task : HoldsLock(u, c)'
  <2>1. CASE c = b
    BY <1>7, <2>1
  <2>2. CASE c # b
    <3>1. b_lock[c] /\ InQueue(c)' = InQueue(c)
      BY <1>6, <1>12, <2>2
    <3>2. CASE InQueue(c) # {}
      BY <3>1, <3>2
    <3>3. ASSUME NEW u \in Task, HoldsLock(u, c) PROVE HoldsLock(u, c)'
      BY <1>5, <2>2, <3>3
    <3> QED
      BY <3>1, <3>2, <3>3 DEF Owners
  <2> QED
    BY <2>1, <2>2
<1> QED
  BY <1>8, <1>9, <1>10, <1>11, <1>12 DEF Owners

-----------------------------------------------------------------------------
(***************************************************************************)
(* The steps of the tasks.                                                  *)
(***************************************************************************)
\* Sleeping, waking, taking and giving up locks: the data is left alone.
LEMMA DataSame ==
    ASSUME IInv, UNCHANGED <<req, queue, b_dirt, b_uptodate, data, driver>>
    PROVE  ListIsBusy' /\ Answering' /\ Transferred' /\ CleanMatchesDisk'
<1>1. Busy' = Busy /\ \A b \in Buf : InQueue(b)' = InQueue(b)
  BY DEF Busy, InQueue
<1>2. CURRENT' = CURRENT
  BY DEF CURRENT
<1>3. ListIsBusy'
  BY <1>1 DEF IInv, ListIsBusy
<1>4. Answering'
  BY <1>2 DEF IInv, Answering, Driving, Interrupt, data
<1>5. Transferred' /\ CleanMatchesDisk'
  BY <1>1 DEF IInv, Transferred, CleanMatchesDisk, data
<1> QED
  BY <1>3, <1>4, <1>5

LEMMA LockTaken ==
    ASSUME TypeOK, NEW t \in Task, NEW b \in Buf, Locked(t, b),
           pc[t] \in {"idle", "lock_buffer"}, call'[t].bh = b,
           \A u \in Task \ {t} : call'[u] = call[u]
    PROVE  /\ \A c \in Buf : ~HoldsLock(t, c)
           /\ \A u \in Task, c \in Buf :
                 HoldsLock(u, c)' <=> HoldsLock(u, c) \/ (u = t /\ c = b)
BY DEF TypeOK, Locked, GoTo, HoldsLock

LEMMA SleepersKeep ==
    ASSUME IInv, NEW t \in Task, UNCHANGED <<req, b_lock>>,
           pc[t] \in {"idle", "lock_buffer", "wait_on_buffer"},
           pc'[t] \in {"idle", "lock_buffer", "wait_on_buffer"},
           \A u \in Task \ {t} : pc'[u] = pc[u] /\ call'[u] = call[u]
    PROVE  Owners'
<1>1. \A u \in Task, b \in Buf : HoldsLock(u, b)' <=> HoldsLock(u, b)
  BY DEF HoldsLock
<1> QED
  BY <1>1, OwnersSame DEF IInv

LEMMA TaskOwners ==
    ASSUME IInv, NEW t \in Task, TaskStep(t)
    PROVE  Owners'
<1> USE DEF Enters, In, GoTo, Returns
<1>0. TypeOK /\ Calls /\ ListIsBusy /\ Owners
  BY DEF IInv
<1>1. ASSUME NEW rw, NEW ahead, NEW b \in Buf, LLRwBlock(t, rw, ahead, b)
      PROVE  Owners'
  <2>1. call'[t].bh = b /\ \A u \in Task \ {t} : call'[u] = call[u]
    BY <1>0, <1>1 DEF LLRwBlock, TypeOK
  <2>2. CASE ~b_lock[b]
    <3>1. Locked(t, b) /\ pc[t] = "idle" /\ UNCHANGED req
      BY <1>1, <2>2 DEF LLRwBlock
    <3>2. b_lock' = Set(b_lock, b, TRUE)
      BY <3>1 DEF Locked
    <3> QED
      BY <1>0, <2>1, <2>2, <3>1, <3>2, LockTaken, OwnersTaken, ZenonT(60)
  <2>3. CASE b_lock[b]
    BY <1>0, <1>1, <2>1, <2>3, SleepersKeep DEF LLRwBlock, TypeOK
  <2> QED
    BY <2>2, <2>3
<1>2. ASSUME LockBufferResumes(t) PROVE Owners'
  <2> DEFINE b == call[t].bh
  <2>1. b \in Buf /\ call' = call /\ pc[t] = "lock_buffer"
    BY <1>0, <1>2 DEF LockBufferResumes, Calls, Call
  <2>2. CASE ~b_lock[b]
    <3>1. Locked(t, b) /\ UNCHANGED req
      BY <1>2, <2>2 DEF LockBufferResumes
    <3>2. b_lock' = Set(b_lock, b, TRUE)
      BY <3>1 DEF Locked
    <3> QED
      BY <1>0, <2>1, <2>2, <3>1, <3>2, LockTaken, OwnersTaken, ZenonT(60)
  <2>3. CASE b_lock[b]
    BY <1>2, <2>1, <2>3, SleepersKeep DEF LockBufferResumes
  <2> QED
    BY <2>2, <2>3
<1>3. ASSUME GiveUp(t) PROVE Owners'
  <2> DEFINE b == call[t].bh
  <2>1. b \in Buf /\ HoldsLock(t, b)
    BY <1>0, <1>3 DEF GiveUp, Calls, Call, HoldsLock
  <2>2. b_lock' = Set(b_lock, b, FALSE) /\ UNCHANGED req
    BY <1>3 DEF GiveUp
  <2>3. \A u \in Task, c \in Buf : HoldsLock(u, c)' <=> HoldsLock(u, c) /\ u # t
    BY <1>0, <1>3 DEF GiveUp, HoldsLock, TypeOK
  <2> QED
    BY <1>0, <2>1, <2>2, <2>3, OwnersGivenUp
<1>4. ASSUME MakeRequest(t) PROVE Owners'
  <2>1. PICK s \in Slot :
              LET r == [cmd |-> call[t].rw, bh |-> call[t].bh, errors |-> 0,
                        sectors_done |-> 0]
              IN  /\ r \in Request /\ req[s] = Free
                  /\ AddRequest(s, r) /\ ~Useless(call[t])
    BY <1>0, <1>4, NewRequest
  <2> DEFINE r == [cmd |-> call[t].rw, bh |-> call[t].bh, errors |-> 0,
                   sectors_done |-> 0]
  <2>2. r \in Request /\ req[s] = Free /\ AddRequest(s, r) /\ r.bh = call[t].bh
    BY <2>1
  <2> HIDE DEF r
  <2>3. HoldsLock(t, r.bh) /\ UNCHANGED b_lock
    BY <1>4, <2>2 DEF MakeRequest, HoldsLock
  <2>4. \A u \in Task, c \in Buf : HoldsLock(u, c)' <=> HoldsLock(u, c) /\ u # t
    BY <1>0, <1>4 DEF MakeRequest, HoldsLock, TypeOK
  <2> QED
    BY <1>0, <2>2, <2>3, <2>4, OwnersQueued
<1>5. ASSUME NoRequestFree(t) \/ SleepForRequest(t) \/ RequestResumes(t) PROVE Owners'
  <2>1. \A u \in Task, b \in Buf : HoldsLock(u, b)' <=> HoldsLock(u, b)
    BY <1>0, <1>5 DEF NoRequestFree, SleepForRequest, RequestResumes, HoldsLock, TypeOK
  <2>2. UNCHANGED <<req, b_lock>>
    BY <1>5 DEF NoRequestFree, SleepForRequest, RequestResumes, headers
  <2> QED
    BY <1>0, <2>1, <2>2, OwnersSame
<1>6. ASSUME NEW b \in Buf, WaitOnBuffer(t, b) PROVE Owners'
  BY <1>0, <1>6, SleepersKeep DEF WaitOnBuffer, TypeOK, headers
<1>7. ASSUME WaitOnBufferResumes(t) PROVE Owners'
  BY <1>0, <1>7, SleepersKeep DEF WaitOnBufferResumes, TypeOK, headers
<1>8. ASSUME NEW b, NEW v, Modify(t, b, v) PROVE Owners'
  <2>1. \A u \in Task, c \in Buf : HoldsLock(u, c)' <=> HoldsLock(u, c)
    BY <1>8 DEF Modify, tasks, HoldsLock
  <2> QED
    BY <1>0, <1>8, <2>1, OwnersSame DEF Modify
<1> QED
  BY <1>1, <1>2, <1>3, <1>4, <1>5, <1>6, <1>7, <1>8 DEF TaskStep

LEMMA QueuedData ==
    ASSUME IInv, NEW t \in Task, MakeRequest(t)
    PROVE  ListIsBusy' /\ Answering' /\ Transferred' /\ CleanMatchesDisk'
<1>0. TypeOK /\ Calls /\ ListIsBusy /\ Owners
  BY DEF IInv
<1>1. PICK s \in Slot :
            LET r == [cmd |-> call[t].rw, bh |-> call[t].bh, errors |-> 0,
                      sectors_done |-> 0]
            IN  /\ r \in Request /\ req[s] = Free
                /\ AddRequest(s, r) /\ ~Useless(call[t])
  BY <1>0, NewRequest
<1> DEFINE r == [cmd |-> call[t].rw, bh |-> call[t].bh, errors |-> 0,
                 sectors_done |-> 0]
           b == call[t].bh
<1>2. /\ r \in Request /\ req[s] = Free /\ AddRequest(s, r)
      /\ r.bh = b /\ r.cmd = call[t].rw /\ r.sectors_done = 0
      /\ b \in Buf /\ call[t].rw \in {READ, WRITE}
      /\ r.cmd = READ => ~b_uptodate[b]
  BY <1>1 DEF Request, Useless, READ, WRITE
<1> HIDE DEF r
<1>3. /\ ListIsBusy' /\ queue' \in Seq(Slot) /\ queue' # << >>
      /\ Busy' = Busy \cup {s} /\ s \notin Busy
      /\ req'[s] = r /\ \A u \in Busy : req'[u] = req[u]
      /\ queue # << >> => queue'[1] = queue[1]
  BY <1>0, <1>2, Added
<1>4. InQueue(b) = {}
  <2>1. HoldsLock(t, b)
    BY DEF MakeRequest, HoldsLock, In
  <2> QED
    BY <1>0, <1>2, <2>1 DEF Owners
<1>5. \A u \in Busy : req[u].bh \in Buf /\ req[u].bh # b
  BY <1>0, <1>4, BusyRequest DEF Request, InQueue
<1>6. /\ \A c \in Buf : b_dirt'[c] = IF c = b THEN FALSE ELSE b_dirt[c]
      /\ UNCHANGED <<b_uptodate, mem, disk>>
      /\ driver.at = "out"
  BY <1>0, <1>2 DEF AddRequest, MakeRequest, In, TypeOK, Set, data
<1> HIDE DEF b
<1>7. Answering'
  <2>1. CASE queue = << >>
    <3>1. driver' = [driver EXCEPT !.at = "do_hd_request"] /\ ~driver.answers
      BY <1>2, <1>6, <2>1 DEF AddRequest, IInv, Answering
    <3>2. driver'.at = "do_hd_request" /\ ~driver'.answers
      BY <1>0, <3>1 DEF TypeOK
    <3> QED
      BY <3>2 DEF Answering, Driving, Interrupt
  <2>2. CASE queue # << >>
    <3>1. driver' = driver
      BY <1>2, <2>2 DEF AddRequest
    <3>2. CURRENT' = CURRENT /\ CURRENT.bh \in Buf \ {b}
      BY <1>0, <1>3, <1>5, <2>2, FirstRequest DEF CURRENT
    <3> QED
      BY <1>3, <1>6, <2>2, <3>1, <3>2 DEF IInv, Answering, Driving, Interrupt
  <2> QED
    BY <2>1, <2>2
<1>8. Transferred'
  <2>1. ASSUME NEW u \in Busy
        PROVE  /\ req'[u].cmd = READ => ~b_uptodate'[req'[u].bh]
               /\ req'[u].sectors_done = 1 /\ (req'[u].cmd = WRITE => ~b_dirt'[req'[u].bh])
                    => mem'[req'[u].bh][0] = disk'[req'[u].bh][0]
    <3>1. req'[u] = req[u] /\ b_dirt'[req[u].bh] = b_dirt[req[u].bh]
      BY <1>3, <1>5, <1>6
    <3> QED
      BY <1>6, <3>1 DEF IInv, Transferred
  <2> QED
    BY <1>2, <1>3, <1>6, <2>1 DEF Transferred
<1>9. ASSUME NEW c \in Buf, b_uptodate'[c], ~b_dirt'[c],
             \A u \in InQueue(c)' : req'[u].cmd = READ
      PROVE  mem'[c] = disk'[c]
  <2>1. CASE c = b
    <3>1. s \in InQueue(c)'
      BY <1>2, <1>3, <2>1 DEF InQueue
    <3> QED
      BY <1>2, <1>3, <1>6, <1>9, <2>1, <3>1
  <2>2. CASE c # b
    <3>1. \A u \in InQueue(c) : u \in InQueue(c)' /\ req'[u] = req[u]
      BY <1>3 DEF InQueue
    <3> QED
      BY <1>6, <1>9, <2>2, <3>1 DEF IInv, CleanMatchesDisk
  <2> QED
    BY <2>1, <2>2
<1> QED
  BY <1>3, <1>7, <1>8, <1>9 DEF CleanMatchesDisk

LEMMA ModifiedData ==
    ASSUME IInv, NEW t \in Task, NEW b \in Buf, NEW v, Modify(t, b, v)
    PROVE  ListIsBusy' /\ Answering' /\ Transferred' /\ CleanMatchesDisk'
<1>0. TypeOK /\ ListIsBusy
  BY DEF IInv
<1>1. /\ b_uptodate[b] /\ UNCHANGED <<req, queue, b_uptodate, disk, driver>>
      /\ \A c \in Buf : b_dirt'[c] = IF c = b THEN TRUE ELSE b_dirt[c]
      /\ \A c \in Buf \ {b} : mem'[c] = mem[c]
      /\ driver.at = "out"
  BY <1>0 DEF Modify, TypeOK, Set, Enters, Quiet, Blocks
<1>2. Busy' = Busy /\ (\A c \in Buf : InQueue(c)' = InQueue(c)) /\ CURRENT' = CURRENT
  BY <1>1 DEF Busy, InQueue, CURRENT
<1>3. ListIsBusy'
  BY <1>0, <1>1, <1>2 DEF ListIsBusy
<1>4. \A u \in Busy : req[u].bh \in Buf /\ req[u].cmd \in {READ, WRITE}
  BY <1>0, BusyRequest DEF Request
<1>5. Transferred'
  <2>1. ASSUME NEW u \in Busy
        PROVE  /\ req[u].cmd = READ => ~b_uptodate[req[u].bh]
               /\ req[u].sectors_done = 1 /\ (req[u].cmd = WRITE => ~b_dirt'[req[u].bh])
                    => mem'[req[u].bh][0] = disk[req[u].bh][0]
    <3>1. CASE req[u].bh = b
      BY <1>1, <1>4, <3>1 DEF IInv, Transferred
    <3>2. CASE req[u].bh # b
      BY <1>1, <1>4, <3>2 DEF IInv, Transferred
    <3> QED
      BY <3>1, <3>2
  <2> QED
    BY <1>1, <1>2, <2>1 DEF Transferred
<1>6. CleanMatchesDisk'
  BY <1>1, <1>2 DEF IInv, CleanMatchesDisk
<1>7. Answering'
  <2>1. ASSUME queue # << >> PROVE CURRENT.bh \in Buf
    BY <1>0, <2>1, FirstRequest DEF Request
  <2>2. ASSUME Interrupt("write_intr"), ~b_dirt'[CURRENT.bh]
        PROVE  driver.sent = <<mem'[CURRENT.bh][CURRENT.sectors_done]>>
    <3>1. CURRENT.bh \in Buf
      BY <2>1, <2>2, InterruptHasRequest DEF IInv
    <3>2. CURRENT.bh # b /\ ~b_dirt[CURRENT.bh]
      BY <1>1, <2>2, <3>1
    <3> QED
      BY <1>1, <2>2, <3>1, <3>2 DEF IInv, Answering
  <2> QED
    BY <1>1, <1>2, <2>2 DEF IInv, Answering, Driving, Interrupt
<1> QED
  BY <1>3, <1>5, <1>6, <1>7

LEMMA TaskKeeps ==
    ASSUME IInv, NEW t \in Task, TaskStep(t)
    PROVE  IInv'
<1>1. TypeOK' /\ Calls'
  BY TaskTypes DEF IInv
<1>2. Owners'
  BY TaskOwners
<1>3. ListIsBusy' /\ Answering' /\ Transferred' /\ CleanMatchesDisk'
  <2>1. ASSUME NEW b \in Buf, NEW v, Modify(t, b, v)
        PROVE  ListIsBusy' /\ Answering' /\ Transferred' /\ CleanMatchesDisk'
    BY <2>1, ModifiedData
  <2>2. CASE MakeRequest(t)
    BY <2>2, QueuedData
  <2>3. ASSUME UNCHANGED <<req, queue, b_dirt, b_uptodate, data, driver>>
        PROVE  ListIsBusy' /\ Answering' /\ Transferred' /\ CleanMatchesDisk'
    BY <2>3, DataSame
  <2>4. ASSUME NEW rw, NEW ahead, NEW b, LLRwBlock(t, rw, ahead, b)
        PROVE  UNCHANGED <<req, queue, b_dirt, b_uptodate, data, driver>>
    BY <2>4 DEF LLRwBlock
  <2>5. ASSUME NEW b, WaitOnBuffer(t, b)
        PROVE  UNCHANGED <<req, queue, b_dirt, b_uptodate, data, driver>>
    BY <2>5 DEF WaitOnBuffer, headers
  <2>6. ASSUME \/ LockBufferResumes(t) \/ GiveUp(t) \/ NoRequestFree(t)
               \/ SleepForRequest(t) \/ RequestResumes(t) \/ WaitOnBufferResumes(t)
        PROVE  UNCHANGED <<req, queue, b_dirt, b_uptodate, data, driver>>
    BY <2>6 DEF LockBufferResumes, GiveUp, NoRequestFree, SleepForRequest,
                RequestResumes, WaitOnBufferResumes, headers
  <2> QED
    BY <2>1, <2>2, <2>3, <2>4, <2>5, <2>6 DEF TaskStep
<1> QED
  BY <1>1, <1>2, <1>3 DEF IInv

-----------------------------------------------------------------------------
(***************************************************************************)
(* The steps of the driver.                                                 *)
(***************************************************************************)
\* The first request ends: its buffer, if it counts as up to date, is what is
\* on the disk, and the others' are as they were.
LEMMA EndedData ==
    ASSUME IInv, queue # << >>, NEW ok \in BOOLEAN, EndRequest(ok),
           \A c \in Buf \ {CURRENT.bh} : mem'[c] = mem[c] /\ disk'[c] = disk[c],
           ok /\ ~b_dirt[CURRENT.bh] => mem'[CURRENT.bh] = disk'[CURRENT.bh]
    PROVE  ListIsBusy' /\ Owners' /\ Transferred' /\ CleanMatchesDisk'
<1> DEFINE b == CURRENT.bh
<1>0. TypeOK /\ ListIsBusy /\ Owners
  BY DEF IInv
<1>1. /\ ListIsBusy' /\ Busy' = Busy \ {queue[1]} /\ queue[1] \in Busy
      /\ \A s \in Busy' : req'[s] = req[s]
  BY <1>0, Ended DEF EndRequest
<1>2. b \in Buf /\ b = req[queue[1]].bh
  BY <1>0, FirstRequest DEF Request, CURRENT
<1>3. \A s \in Busy' : req[s].bh \in Buf /\ req[s].bh # b
  BY <1>0, <1>1, <1>2, BusyRequest DEF Owners, Request
<1>4. /\ \A c \in Buf : b_uptodate'[c] = IF c = b THEN ok ELSE b_uptodate[c]
      /\ b_dirt' = b_dirt
  BY <1>0, <1>2 DEF EndRequest, TypeOK, Set
<1>5. \A c \in Buf \ {b} : InQueue(c)' = InQueue(c) /\ \A s \in InQueue(c) : req'[s] = req[s]
  BY <1>1, <1>2 DEF InQueue
<1>6. Owners'
  BY <1>0, OwnersEnded
<1>7. Transferred'
  <2>1. ASSUME NEW s \in Busy'
        PROVE  /\ req'[s].cmd = READ => ~b_uptodate'[req'[s].bh]
               /\ req'[s].sectors_done = 1 /\ (req'[s].cmd = WRITE => ~b_dirt'[req'[s].bh])
                    => mem'[req'[s].bh][0] = disk'[req'[s].bh][0]
    <3>1. s \in Busy /\ req'[s] = req[s] /\ req[s].bh \in Buf \ {b}
      BY <1>1, <1>3, <2>1
    <3>2. /\ b_uptodate'[req[s].bh] = b_uptodate[req[s].bh]
          /\ mem'[req[s].bh] = mem[req[s].bh] /\ disk'[req[s].bh] = disk[req[s].bh]
      BY <1>4, <3>1
    <3> QED
      BY <1>4, <3>1, <3>2 DEF IInv, Transferred
  <2> QED
    BY <2>1 DEF Transferred
<1>8. ASSUME NEW c \in Buf, b_uptodate'[c], ~b_dirt'[c],
             \A s \in InQueue(c)' : req'[s].cmd = READ
      PROVE  mem'[c] = disk'[c]
  <2>1. CASE c = b
    BY <1>4, <1>8, <2>1
  <2>2. CASE c # b
    <3>1. b_uptodate[c] /\ ~b_dirt[c] /\ \A s \in InQueue(c) : req[s].cmd = READ
      BY <1>4, <1>5, <1>8, <2>2
    <3> QED
      BY <2>2, <3>1 DEF IInv, CleanMatchesDisk
  <2> QED
    BY <2>1, <2>2
<1> QED
  BY <1>1, <1>6, <1>7, <1>8 DEF CleanMatchesDisk

\* The first request goes on: the sectors it has done agree.
LEMMA KeptData ==
    ASSUME IInv, queue # << >>, NEW r \in Request, KeepRequest(r),
           r.cmd = CURRENT.cmd, r.bh = CURRENT.bh,
           \A c \in Buf \ {CURRENT.bh} : mem'[c] = mem[c] /\ disk'[c] = disk[c],
           r.sectors_done = 1 /\ (r.cmd = WRITE => ~b_dirt[r.bh])
              => mem'[r.bh][0] = disk'[r.bh][0]
    PROVE  ListIsBusy' /\ Owners' /\ Transferred' /\ CleanMatchesDisk'
<1> DEFINE b == CURRENT.bh
<1>0. TypeOK /\ ListIsBusy /\ Owners
  BY DEF IInv
<1>1. /\ ListIsBusy' /\ Busy' = Busy /\ queue[1] \in Busy /\ req'[queue[1]] = r
      /\ \A s \in Slot \ {queue[1]} : req'[s] = req[s]
  BY <1>0, Changed DEF KeepRequest
<1>2. b \in Buf /\ CURRENT.cmd \in {READ, WRITE} /\ CURRENT = req[queue[1]]
  BY <1>0, FirstRequest DEF Request, CURRENT
<1>3. \A s \in Busy : /\ req[s].bh \in Buf /\ (s # queue[1] => req[s].bh # b)
                      /\ s \in Slot
                      /\ req'[s].bh = req[s].bh /\ req'[s].cmd = req[s].cmd
  BY <1>0, <1>1, <1>2, BusyRequest DEF Owners, Request, Busy
<1>4. b_uptodate' = b_uptodate /\ b_dirt' = b_dirt
  BY DEF KeepRequest, headers
<1>5. \A c \in Buf : InQueue(c)' = InQueue(c)
  BY <1>1, <1>3 DEF InQueue
<1>6. Owners'
  BY <1>0, OwnersKept
<1>7. Transferred'
  <2>1. ASSUME NEW s \in Busy
        PROVE  /\ req'[s].cmd = READ => ~b_uptodate'[req'[s].bh]
               /\ req'[s].sectors_done = 1 /\ (req'[s].cmd = WRITE => ~b_dirt'[req'[s].bh])
                    => mem'[req'[s].bh][0] = disk'[req'[s].bh][0]
    <3>1. req'[s].cmd = READ => ~b_uptodate'[req'[s].bh]
      BY <1>3, <1>4 DEF IInv, Transferred
    <3>2. CASE s = queue[1]
      BY <1>1, <1>4, <3>1, <3>2
    <3>3. CASE s # queue[1]
      <4>1. req'[s] = req[s] /\ req[s].bh \in Buf \ {b}
        BY <1>1, <1>3, <3>3
      <4>2. mem'[req[s].bh] = mem[req[s].bh] /\ disk'[req[s].bh] = disk[req[s].bh]
        BY <4>1
      <4> QED
        BY <1>4, <3>1, <4>1, <4>2 DEF IInv, Transferred
    <3> QED
      BY <3>2, <3>3
  <2> QED
    BY <1>1, <2>1 DEF Transferred
<1>8. ASSUME NEW c \in Buf, b_uptodate'[c], ~b_dirt'[c],
             \A s \in InQueue(c)' : req'[s].cmd = READ
      PROVE  mem'[c] = disk'[c]
  <2>1. b_uptodate[c] /\ ~b_dirt[c] /\ \A s \in InQueue(c) : req[s].cmd = READ
    BY <1>3, <1>4, <1>5, <1>8 DEF InQueue
  <2>2. c # b
    <3>1. ASSUME c = b PROVE queue[1] \in InQueue(c)
      BY <1>1, <1>2, <3>1 DEF InQueue
    <3> QED
      BY <1>1, <1>2, <2>1, <3>1 DEF IInv, Transferred
  <2> QED
    BY <2>1, <2>2 DEF IInv, CleanMatchesDisk
<1> QED
  BY <1>1, <1>6, <1>7, <1>8 DEF CleanMatchesDisk

\* bad_rw_intr moves no data.
LEMMA BadData ==
    ASSUME IInv, queue # << >>, NEW d \in DriverType, BadRwIntr(d)
    PROVE  ListIsBusy' /\ Owners' /\ Transferred' /\ CleanMatchesDisk'
<1>0. TypeOK /\ ListIsBusy
  BY DEF IInv
<1>1. UNCHANGED <<mem, disk>>
  BY <1>0, BadCases DEF data
<1>2. CASE EndRequest(FALSE)
  <2>1. FALSE \in BOOLEAN
    OBVIOUS
  <2> QED
    BY <1>1, <1>2, <2>1, EndedData
<1>3. ASSUME NEW r \in Request, KeepRequest(r), r.cmd = CURRENT.cmd, r.bh = CURRENT.bh,
             r.sectors_done = CURRENT.sectors_done
      PROVE  ListIsBusy' /\ Owners' /\ Transferred' /\ CleanMatchesDisk'
  <2>1. r.sectors_done = 1 /\ (r.cmd = WRITE => ~b_dirt[r.bh]) => mem[r.bh][0] = disk[r.bh][0]
    BY <1>0, <1>3, FirstRequest DEF IInv, Transferred, CURRENT
  <2> QED
    BY <1>1, <1>3, <2>1, KeptData
<1> QED
  BY <1>0, <1>2, <1>3, BadCases

\* What the driver does without a look at the data.
LEMMA DataAlone ==
    ASSUME IInv, UNCHANGED <<req, queue, headers, data, tasks>>
    PROVE  ListIsBusy' /\ Owners' /\ Transferred' /\ CleanMatchesDisk'
<1>1. Busy' = Busy /\ \A b \in Buf : InQueue(b)' = InQueue(b)
  BY DEF Busy, InQueue
<1>2. \A t \in Task, b \in Buf : HoldsLock(t, b)' <=> HoldsLock(t, b)
  BY DEF HoldsLock, tasks
<1>3. ListIsBusy' /\ Owners'
  BY <1>1, <1>2, OwnersSame DEF IInv, ListIsBusy, headers
<1>4. Transferred' /\ CleanMatchesDisk'
  BY <1>1 DEF IInv, Transferred, CleanMatchesDisk, data, headers
<1> QED
  BY <1>3, <1>4

LEMMA DrivingAnswers ==
    ASSUME driver'.at = "do_hd_request", ~driver'.answers
    PROVE  Answering'
BY DEF Answering, Driving, Interrupt

LEMMA BadAnswers ==
    ASSUME TypeOK, ListIsBusy, queue # << >>, NEW d \in DriverType, BadRwIntr(d),
           d.at = "do_hd_request", ~d.answers
    PROVE  Answering'
<1>1. PICK z \in BOOLEAN : driver' = [d EXCEPT !.reset = z]
  BY BadCases
<1>2. driver'.at = "do_hd_request" /\ ~driver'.answers
  BY <1>1 DEF DriverType
<1> QED
  BY <1>2, DrivingAnswers

LEMMA CommandIs ==
    ASSUME TypeOK, NEW h \in Handler
    PROVE  /\ Command(h) \in DriverType
           /\ Command(h).at = "out" /\ Command(h).do_hd = h /\ Command(h).answers
BY DEF TypeOK, Command, DriverType, Handler

LEMMA RunsNextIs ==
    ASSUME TypeOK
    PROVE  /\ RunsNext \in DriverType
           /\ RunsNext.at = "do_hd_request" /\ ~RunsNext.answers
<1>1. driver \in DriverType
  BY DEF TypeOK, DriverType
<1>2. RunsNext \in DriverType
  BY <1>1, DriverTypes DEF RunsNext
<1>3. RunsNext.at = "do_hd_request" /\ ~RunsNext.answers
  BY <1>1 DEF RunsNext, DriverType
<1> QED
  BY <1>2, <1>3

\* do_hd_request: data is where it was, the command is for the first request.
LEMMA DoHdRequestKeeps ==
    ASSUME IInv, DoHdRequest
    PROVE  ListIsBusy' /\ Owners' /\ Answering' /\ Transferred' /\ CleanMatchesDisk'
<1>0. TypeOK /\ ListIsBusy /\ driver \in DriverType /\ Driving /\ ~driver.answers
  BY DEF IInv, Answering, TypeOK, DriverType, DoHdRequest, QueueEmpty, RefuseRequest,
         ResetHd, Recalibrate, StartRead, StartWrite, NoDataRequest, ReadyFor, Starts
<1>1. ASSUME UNCHANGED <<req, queue, headers, data, tasks>>, Answering'
      PROVE  ListIsBusy' /\ Owners' /\ Answering' /\ Transferred' /\ CleanMatchesDisk'
  BY <1>1, DataAlone
<1>2. CASE QueueEmpty
  <2>1. driver'.at = "out" /\ ~driver'.answers /\ queue' = << >>
    BY <1>0, <1>2 DEF QueueEmpty, DriverType
  <2>2. Answering'
    BY <2>1 DEF Answering, Driving, Interrupt
  <2> QED
    BY <1>1, <1>2, <2>2 DEF QueueEmpty
<1>3. CASE RefuseRequest
  <2>1. queue # << >> /\ EndRequest(FALSE) /\ UNCHANGED <<mem, disk, driver>>
    BY <1>3 DEF RefuseRequest, data
  <2>2. Answering'
    BY <1>0, <2>1, DrivingAnswers DEF Driving
  <2>3. FALSE \in BOOLEAN
    OBVIOUS
  <2> QED
    BY <2>1, <2>2, <2>3, EndedData
<1>4. ASSUME ResetHd \/ Recalibrate
      PROVE  ListIsBusy' /\ Owners' /\ Answering' /\ Transferred' /\ CleanMatchesDisk'
  <2> DEFINE c == Command("recal_intr")
  <2>1. c \in DriverType /\ c.at = "out" /\ c.do_hd = "recal_intr" /\ c.answers
    BY <1>0, CommandIs DEF Handler
  <2>2. \/ driver' = [c EXCEPT !.reset = FALSE, !.recalibrate = TRUE]
        \/ driver' = [c EXCEPT !.recalibrate = FALSE]
    BY <1>4 DEF ResetHd, Recalibrate
  <2> HIDE DEF c
  <2>3. driver'.at = "out" /\ driver'.do_hd = "recal_intr" /\ driver'.answers
    BY <2>1, <2>2 DEF DriverType
  <2>4. queue' # << >>
    BY <1>4 DEF ResetHd, Recalibrate, Starts
  <2>5. Answering'
    BY <2>3, <2>4 DEF Answering, Driving, Interrupt
  <2> QED
    BY <1>1, <1>4, <2>5 DEF ResetHd, Recalibrate
<1>5. CASE StartRead
  <2>1. driver'.at = "out" /\ driver'.do_hd = "read_intr" /\ driver'.answers
    BY <1>0, <1>5, CommandIs DEF StartRead, Handler
  <2>2. queue' # << >> /\ CURRENT'.cmd = READ
    BY <1>5 DEF StartRead, ReadyFor, Starts, CURRENT
  <2>3. Answering'
    BY <2>1, <2>2 DEF Answering, Driving, Interrupt
  <2> QED
    BY <1>1, <1>5, <2>3 DEF StartRead
<1>6. CASE StartWrite
  <2> DEFINE c == Command("write_intr")
             v == mem[CURRENT.bh][CURRENT.sectors_done]
  <2>1. c \in DriverType /\ c.at = "out" /\ c.do_hd = "write_intr" /\ c.answers
    BY <1>0, CommandIs DEF Handler
  <2>2. driver' = [c EXCEPT !.sent = <<v>>]
    BY <1>6 DEF StartWrite
  <2>3. queue' # << >> /\ CURRENT' = CURRENT /\ CURRENT.cmd = WRITE /\ mem' = mem
    BY <1>6 DEF StartWrite, ReadyFor, Starts, CURRENT, data
  <2>4. v = mem'[CURRENT'.bh][CURRENT'.sectors_done]
    BY <2>3
  <2> HIDE DEF c, v
  <2>5. /\ driver'.at = "out" /\ driver'.do_hd = "write_intr" /\ driver'.answers
        /\ driver'.sent = <<v>>
    BY <2>1, <2>2 DEF DriverType
  <2>6. Answering'
    BY <2>3, <2>4, <2>5 DEF Answering, Driving, Interrupt
  <2> QED
    BY <1>1, <1>6, <2>6 DEF StartWrite
<1>7. CASE NoDataRequest
  <2> DEFINE d == [driver EXCEPT !.do_hd = "write_intr"]
  <2>1. queue # << >> /\ BadRwIntr(d)
    BY <1>7 DEF NoDataRequest, ReadyFor, Starts
  <2>2. d \in DriverType /\ d.at = "do_hd_request" /\ ~d.answers
    BY <1>0 DEF DriverType, Driving, Handler
  <2> HIDE DEF d
  <2> QED
    BY <1>0, <2>1, <2>2, BadData, BadAnswers
<1> QED
  BY <1>2, <1>3, <1>4, <1>5, <1>6, <1>7 DEF DoHdRequest

\* A good sector moves between the memory and the disk.
LEMMA SectorKeeps ==
    ASSUME IInv, ReadIntr \/ WriteIntr
    PROVE  ListIsBusy' /\ Owners' /\ Answering' /\ Transferred' /\ CleanMatchesDisk'
<1> DEFINE b == CURRENT.bh
           i == CURRENT.sectors_done
           clean == CURRENT.cmd = WRITE => ~b_dirt[b]
<1>0. TypeOK /\ ListIsBusy
  BY DEF IInv
<1>1. queue # << >>
  BY InterruptHasRequest DEF IInv, ReadIntr, WriteIntr
<1>2. /\ queue[1] \in Busy /\ CURRENT \in Request /\ CURRENT = req[queue[1]]
      /\ b \in Buf /\ i \in 0 .. 1 /\ CURRENT.errors \in Nat
  BY <1>0, <1>1, FirstRequest DEF Request, CURRENT
<1>3. clean /\ i = 1 => mem[b][0] = disk[b][0]
  BY <1>2 DEF IInv, Transferred
<1>4. mem[b] \in [0 .. 1 -> Val] /\ disk[b] \in [0 .. 1 -> Val]
  BY <1>0, <1>2 DEF TypeOK, Blocks
<1>5. \A c \in Buf \ {b} : mem'[c] = mem[c] /\ disk'[c] = disk[c]
  BY <1>0, <1>2 DEF ReadIntr, WriteIntr, TypeOK, Blocks
<1>6. /\ clean => mem'[b][i] = disk'[b][i]
      /\ \A j \in 0 .. 1 : j # i => mem'[b][j] = mem[b][j] /\ disk'[b][j] = disk[b][j]
      /\ mem'[b] \in [0 .. 1 -> Val] /\ disk'[b] \in [0 .. 1 -> Val]
  <2>1. CASE ReadIntr
    <3>1. mem' = [mem EXCEPT ![b][i] = disk[b][i]] /\ disk' = disk
      BY <2>1 DEF ReadIntr
    <3>2. mem'[b] = [mem[b] EXCEPT ![i] = disk[b][i]]
      BY <1>0, <1>2, <3>1 DEF TypeOK, Blocks
    <3>3. disk[b][i] \in Val
      BY <1>2, <1>4
    <3> HIDE DEF b, i
    <3> QED
      BY <1>2, <1>4, <3>1, <3>2, <3>3
  <2>2. CASE WriteIntr
    <3>1. disk' = [disk EXCEPT ![b][i] = Head(driver.sent)] /\ mem' = mem
      BY <2>2 DEF WriteIntr
    <3>2. disk'[b] = [disk[b] EXCEPT ![i] = Head(driver.sent)]
      BY <1>0, <1>2, <3>1 DEF TypeOK, Blocks
    <3>3. /\ CURRENT.cmd = WRITE /\ driver.sent # << >>
          /\ ~b_dirt[b] => driver.sent = <<mem[b][i]>>
      BY <2>2 DEF WriteIntr, IInv, Answering
    <3>4. Head(driver.sent) \in Val
      BY <1>0, <3>3 DEF TypeOK
    <3>5. clean => Head(driver.sent) = mem[b][i]
      BY <3>3
    <3> HIDE DEF b, i, clean
    <3> QED
      BY <1>2, <1>4, <3>1, <3>2, <3>4, <3>5
  <2> QED
    BY <2>1, <2>2
<1>7. CASE i = 1
  <2>1. EndRequest(TRUE) /\ driver' = RunsNext
    <3>1. CURRENT.sectors_done # 0
      BY <1>7
    <3>2. CASE ReadIntr
      BY <3>1, <3>2 DEF ReadIntr
    <3>3. CASE WriteIntr
      BY <3>1, <3>3 DEF WriteIntr
    <3> QED
      BY <3>2, <3>3
  <2>2. clean => mem'[b] = disk'[b]
    <3>1. clean => mem'[b][0] = disk'[b][0] /\ mem'[b][1] = disk'[b][1]
      BY <1>3, <1>6, <1>7
    <3>2. clean => \A j \in 0 .. 1 : mem'[b][j] = disk'[b][j]
      BY <3>1
    <3> HIDE DEF b, clean
    <3> QED
      BY <1>6, <3>2
  <2>3. Answering'
    BY <1>0, <2>1, RunsNextIs, DrivingAnswers
  <2>4. TRUE \in BOOLEAN
    OBVIOUS
  <2>5. ~b_dirt[b] => mem'[b] = disk'[b]
    BY <2>2
  <2> QED
    BY <1>1, <1>5, <2>1, <2>3, <2>4, <2>5, EndedData
<1>8. CASE i = 0
  <2>1. PICK e \in Nat : NextSector(e)
    BY <1>2, <1>8 DEF ReadIntr, WriteIntr
  <2> DEFINE r == [CURRENT EXCEPT !.sectors_done = 1, !.errors = e]
  <2>2. r \in Request /\ r.cmd = CURRENT.cmd /\ r.bh = b /\ r.sectors_done = 1
    BY <1>2, RequestGoesOn, ZenonT(60)
  <2>3. KeepRequest(r)
    BY <2>1 DEF NextSector
  <2> HIDE DEF r
  <2>4. r.sectors_done = 1 /\ (r.cmd = WRITE => ~b_dirt[r.bh])
            => mem'[r.bh][0] = disk'[r.bh][0]
    BY <1>6, <1>8, <2>2
  <2>5. ListIsBusy' /\ Owners' /\ Transferred' /\ CleanMatchesDisk'
    BY <1>1, <1>5, <2>2, <2>3, <2>4, KeptData
  <2>6. CURRENT' = r /\ queue' # << >> /\ b_dirt' = b_dirt
    BY <1>0, <1>1, <2>2, <2>3, Changed DEF KeepRequest, CURRENT, headers
  <2>7. Answering'
    <3>1. CASE ReadIntr
      <4>1. driver'.at = "out" /\ driver'.do_hd = "read_intr" /\ driver'.answers
        BY <1>0, <1>8, <3>1, CommandIs DEF ReadIntr, Handler
      <4>2. CURRENT.cmd = READ
        BY <3>1 DEF ReadIntr, IInv, Answering
      <4> QED
        BY <2>2, <2>6, <4>1, <4>2 DEF Answering, Driving, Interrupt
    <3>2. CASE WriteIntr
      <4> DEFINE c == Command("write_intr")
                 v == mem[b][1]
      <4>1. c \in DriverType /\ c.at = "out" /\ c.do_hd = "write_intr" /\ c.answers
        BY <1>0, CommandIs DEF Handler
      <4>2. driver' = [c EXCEPT !.sent = <<v>>] /\ mem' = mem
        BY <1>8, <3>2 DEF WriteIntr
      <4>3. CURRENT.cmd = WRITE
        BY <3>2 DEF WriteIntr, IInv, Answering
      <4>4. v = mem'[CURRENT'.bh][CURRENT'.sectors_done]
        BY <2>2, <2>6, <4>2
      <4> HIDE DEF c, v
      <4>5. /\ driver'.at = "out" /\ driver'.do_hd = "write_intr" /\ driver'.answers
            /\ driver'.sent = <<v>>
        BY <4>1, <4>2 DEF DriverType
      <4> QED
        BY <2>2, <2>6, <4>3, <4>4, <4>5 DEF Answering, Driving, Interrupt
    <3> QED
      BY <3>1, <3>2
  <2> QED
    BY <2>5, <2>7
<1> QED
  BY <1>2, <1>7, <1>8

LEMMA HdKeeps ==
    ASSUME IInv, DoHdRequest \/ HdInterrupt
    PROVE  IInv'
<1>0. TypeOK /\ Calls /\ ListIsBusy /\ Answering
  BY DEF IInv
<1>1. TypeOK' /\ Calls'
  BY <1>0, HdTypes
<1>2. CASE DoHdRequest
  BY <1>1, <1>2, DoHdRequestKeeps DEF IInv
<1>3. CASE ReadIntr \/ WriteIntr
  BY <1>1, <1>3, SectorKeeps DEF IInv
<1>4. CASE TransferFails \/ RecalFails
  <2>1. queue # << >> /\ BadRwIntr(RunsNext)
    BY <1>0, <1>4, InterruptHasRequest DEF TransferFails, RecalFails
  <2> QED
    BY <1>0, <1>1, <2>1, RunsNextIs, BadData, BadAnswers DEF IInv
<1>5. CASE RecalIntr
  <2>1. Answering'
    BY <1>0, <1>5, RunsNextIs, DrivingAnswers DEF RecalIntr
  <2> QED
    BY <1>1, <1>5, <2>1, DataAlone DEF IInv, RecalIntr
<1> QED
  BY <1>2, <1>3, <1>4, <1>5 DEF HdInterrupt

LEMMA IInvInit == Init => IInv
<1> SUFFICES ASSUME Init PROVE IInv
  OBVIOUS
<1>1. PICK f \in [Buf -> Val] : /\ \A b \in Buf : f[b] \in Contents[b]
                                /\ mem = [b \in Buf |-> [i \in 0 .. 1 |-> f[b]]]
  BY DEF Init
<1>2. mem \in Blocks /\ disk = mem
  BY <1>1 DEF Init, Blocks
<1>3. NobodyWaits \in WaitQueues
  BY DEF NobodyWaits, WaitQueues, TaskState
<1>4. Busy = {}
  BY DEF Init, Busy
<1>5. TypeOK
  BY <1>2, <1>3 DEF Init, TypeOK, Handler
<1>6. Calls /\ ListIsBusy /\ Transferred
  BY <1>4 DEF Init, Calls, ListIsBusy, Transferred
<1>7. Owners
  BY <1>4 DEF Init, Owners, InQueue, HoldsLock
<1>8. Answering
  BY DEF Init, Answering, Driving, Interrupt
<1>9. CleanMatchesDisk
  BY DEF Init, CleanMatchesDisk
<1> QED
  BY <1>5, <1>6, <1>7, <1>8, <1>9 DEF IInv

LEMMA IInvNext == IInv /\ [Next]_vars => IInv'
<1> SUFFICES ASSUME IInv, [Next]_vars PROVE IInv'
  OBVIOUS
<1>1. ASSUME NEW t \in Task, TaskStep(t) PROVE IInv'
  BY <1>1, TaskKeeps
<1>2. CASE DoHdRequest \/ HdInterrupt
  BY <1>2, HdKeeps
<1>3. CASE UNCHANGED vars
  <2>1. /\ UNCHANGED <<req, queue, headers, data, tasks>> /\ UNCHANGED <<pc, call, driver>>
    BY <1>3 DEF vars, tasks
  <2>2. TypeOK' /\ Calls'
    BY <1>3 DEF vars, headers, data, tasks, IInv, TypeOK, Calls
  <2>3. Answering'
    BY <1>3 DEF vars, headers, data, IInv, Answering, Driving, Interrupt, CURRENT
  <2> QED
    BY <2>1, <2>2, <2>3, DataAlone DEF IInv
<1> QED
  BY <1>1, <1>2, <1>3 DEF Next

LEMMA SpecIInv == Spec => []IInv
BY IInvInit, IInvNext, PTL DEF Spec

-----------------------------------------------------------------------------
\* Every variable of the driver and of the request list has its type, at any
\* interleaving of ll_rw_block, do_hd_request and the interrupts.
THEOREM TypeCorrect == Spec => []TypeOK
<1>1. IInv => TypeOK
  BY DEF IInv
<1> QED
  BY <1>1, SpecIInv, PTL

\* A locked buffer has one owner that will unlock it, a request or a task in
\* make_request; a buffer that is not locked has none (end_request's "block not
\* locked" never comes).
THEOREM LocksHaveOneOwner == Spec => []LockHasOneOwner
<1>1. ASSUME IInv PROVE LockHasOneOwner
  <2>1. ASSUME NEW b \in Buf
        PROVE  Cardinality(InQueue(b)) + Cardinality({t \in Task : HoldsLock(t, b)})
                  = (IF b_lock[b] THEN 1 ELSE 0)
    <3> DEFINE Q == InQueue(b)
               H == {t \in Task : HoldsLock(t, b)}
    <3>1. \A s, u \in Q : s = u
      BY <1>1 DEF InQueue, IInv, Owners
    <3>2. \A t, u \in H : t = u
      BY <1>1 DEF IInv, Owners
    <3>3. Q = {} \/ H = {}
      BY <1>1 DEF IInv, Owners
    <3>4. b_lock[b] <=> Q # {} \/ H # {}
      BY <1>1 DEF IInv, Owners, InQueue
    <3> HIDE DEF Q, H
    <3>5. Q = {} => Cardinality(Q) = 0
      BY FS_EmptySet
    <3>6. Q # {} => Cardinality(Q) = 1
      <4>1. ASSUME NEW s \in Q PROVE Q = {s}
        BY <3>1, <4>1
      <4> QED
        BY <4>1, FS_Singleton
    <3>7. H = {} => Cardinality(H) = 0
      BY FS_EmptySet
    <3>8. H # {} => Cardinality(H) = 1
      <4>1. ASSUME NEW t \in H PROVE H = {t}
        BY <3>2, <4>1
      <4> QED
        BY <4>1, FS_Singleton
    <3>9. Cardinality(Q) + Cardinality(H) = (IF b_lock[b] THEN 1 ELSE 0)
      BY <3>3, <3>4, <3>5, <3>6, <3>7, <3>8
    <3> QED
      BY <3>9 DEF Q, H
  <2> QED
    BY <2>1 DEF LockHasOneOwner
<1> QED
  BY <1>1, SpecIInv, PTL

\* The driver works exactly when there are requests: add_request and the
\* interrupts never leave a list behind that nobody will look at, and no
\* handler runs with CURRENT = NULL.
THEOREM DriverWorks == Spec => []DriverWorksIffRequests
<1>1. IInv => DriverWorksIffRequests
  BY DEF IInv, Answering, DriverWorksIffRequests
<1> QED
  BY <1>1, SpecIInv, PTL

\* A buffer that is up to date, not dirty and not being written holds what the
\* disk holds, whoever wrote into it while its sectors were on their way.
THEOREM NoModificationIsLost == Spec => []CleanMatchesDisk
<1>1. IInv => CleanMatchesDisk
  BY DEF IInv
<1> QED
  BY <1>1, SpecIInv, PTL

-----------------------------------------------------------------------------
(***************************************************************************)
(* The refinement: every step is one of BlkDev's or leaves its variables    *)
(* alone.                                                                   *)
(***************************************************************************)
IoOf(b) == IF InQueue(b) = {} THEN "none" ELSE req[CHOOSE s \in InQueue(b) : TRUE].cmd

LEMMA IoIs ==
    /\ Io = [b \in Buf |-> IoOf(b)]
    /\ Io' = [b \in Buf |-> IoOf(b)']
BY DEF Io, IoOf

LEMMA IoOfRequest ==
    ASSUME Owners, NEW b \in Buf, NEW s \in InQueue(b)
    PROVE  IoOf(b) = req[s].cmd
<1>1. InQueue(b) = {s}
  BY DEF Owners, InQueue
<1> QED
  BY <1>1 DEF IoOf

LEMMA IoOfRequestThen ==
    ASSUME Owners', NEW b \in Buf, NEW s \in InQueue(b)'
    PROVE  IoOf(b)' = req'[s].cmd
<1>1. InQueue(b)' = {s}
  BY DEF Owners, InQueue
<1> QED
  BY <1>1 DEF IoOf

LEMMA IoKept ==
    ASSUME NEW b \in Buf, InQueue(b)' = InQueue(b),
           \A s \in InQueue(b) : req'[s].cmd = req[s].cmd
    PROVE  IoOf(b)' = IoOf(b)
<1>1. InQueue(b) # {} => (CHOOSE s \in InQueue(b) : TRUE) \in InQueue(b)
  OBVIOUS
<1>2. (CHOOSE s \in InQueue(b) : TRUE)' = CHOOSE s \in InQueue(b) : TRUE
  OBVIOUS
<1> QED
  BY <1>1, <1>2 DEF IoOf

\* All buffers keep their transfer, or all but one.
LEMMA IoSame ==
    ASSUME \A b \in Buf : IoOf(b)' = IoOf(b)
    PROVE  Io' = Io
BY IoIs

LEMMA IoChanged ==
    ASSUME NEW b \in Buf, NEW x, IoOf(b)' = x,
           \A c \in Buf \ {b} : IoOf(c)' = IoOf(c)
    PROVE  Io' = [Io EXCEPT ![b] = x]
BY IoIs

SameHeaders == UNCHANGED <<b_lock, b_dirt, b_uptodate>>

LEMMA SameForDevice ==
    ASSUME UNCHANGED req PROVE Io' = Io
<1>1. \A b \in Buf : InQueue(b)' = InQueue(b)
  BY DEF InQueue, Busy
<1>2. \A b \in Buf : IoOf(b)' = IoOf(b)
  BY <1>1, IoKept
<1> QED
  BY <1>2, IoSame

LEMMA LocksForDevice ==
    ASSUME TypeOK, NEW t, NEW b \in Buf, ~b_lock[b], Locked(t, b),
           UNCHANGED <<req, b_dirt, b_uptodate>>
    PROVE  Device!Next
<1>1. Io' = Io
  BY SameForDevice
<1>2. Device!LockBuffer(b)
  BY <1>1 DEF Device!LockBuffer, Locked, Set
<1> QED
  BY <1>2 DEF Device!Next

LEMMA StartsForDevice ==
    ASSUME IInv, IInv', NEW t \in Task, MakeRequest(t)
    PROVE  Device!Next
<1>0. TypeOK /\ Calls /\ ListIsBusy /\ Owners
  BY DEF IInv
<1>1. PICK s \in Slot :
            LET r == [cmd |-> call[t].rw, bh |-> call[t].bh, errors |-> 0,
                      sectors_done |-> 0]
            IN  /\ r \in Request /\ req[s] = Free
                /\ AddRequest(s, r) /\ ~Useless(call[t])
  BY <1>0, NewRequest
<1> DEFINE r0 == [cmd |-> call[t].rw, bh |-> call[t].bh, errors |-> 0,
                  sectors_done |-> 0]
<1>b. PICK r \in Request, b \in Buf, cmd \in {READ, WRITE} :
          r = r0 /\ b = call[t].bh /\ cmd = call[t].rw
  BY <1>1 DEF Request
<1>2. /\ r \in Request /\ req[s] = Free /\ AddRequest(s, r)
      /\ r.bh = b /\ r.cmd = cmd
      /\ b \in Buf /\ cmd \in {READ, WRITE}
      /\ IF cmd = "READ" THEN ~b_uptodate[b] ELSE b_dirt[b]
  BY <1>1, <1>b DEF Useless, READ, WRITE
<1>3. HoldsLock(t, b)
  BY <1>b DEF MakeRequest, HoldsLock, In
<1>4. UNCHANGED <<b_lock, b_uptodate>>
  BY DEF MakeRequest
<1> HIDE DEF r0
<1>5. /\ Busy' = Busy \cup {s} /\ s \notin Busy
      /\ req'[s] = r /\ \A u \in Busy : req'[u] = req[u]
  BY <1>0, <1>2, Added
<1>6. InQueue(b) = {} /\ b_lock[b]
  BY <1>0, <1>2, <1>3 DEF Owners
<1>7. IoOf(b) = "none"
  BY <1>6 DEF IoOf
<1>8. IoOf(b)' = cmd
  <2>1. s \in InQueue(b)'
    BY <1>2, <1>5 DEF InQueue
  <2> QED
    BY <1>2, <1>5, <2>1, IoOfRequestThen DEF IInv
<1>9. ASSUME NEW c \in Buf \ {b} PROVE IoOf(c)' = IoOf(c)
  <2>1. InQueue(c)' = InQueue(c) /\ \A u \in InQueue(c) : req'[u].cmd = req[u].cmd
    BY <1>2, <1>5 DEF InQueue
  <2> QED
    BY <2>1, IoKept
<1>10. Io' = [Io EXCEPT ![b] = cmd] /\ Io[b] = "none"
  BY <1>2, <1>7, <1>8, <1>9, IoChanged, IoIs
<1>11. b_dirt' = [b_dirt EXCEPT ![b] = FALSE]
  BY <1>2 DEF AddRequest, Set
<1>12. Device!Start(b, cmd)
  BY <1>2, <1>4, <1>6, <1>10, <1>11 DEF Device!Start
<1>13. cmd \in Device!Command
  BY <1>2 DEF Device!Command, READ, WRITE
<1> QED
  BY <1>2, <1>12, <1>13 DEF Device!Next

LEMMA EndsForDevice ==
    ASSUME IInv, IInv', queue # << >>, NEW ok \in BOOLEAN, EndRequest(ok)
    PROVE  Device!Next
<1>0. TypeOK /\ ListIsBusy /\ Owners
  BY DEF IInv
<1>b. PICK b \in Buf : b = CURRENT.bh
  BY <1>0, FirstRequest DEF Request
<1>1. /\ Busy' = Busy \ {queue[1]} /\ queue[1] \in Busy
      /\ \A s \in Busy' : req'[s] = req[s]
  BY <1>0, Ended DEF EndRequest
<1>2. /\ b \in Buf /\ CURRENT.cmd \in {READ, WRITE} /\ CURRENT = req[queue[1]]
      /\ queue[1] \in InQueue(b)
  BY <1>0, <1>1, <1>b, FirstRequest DEF Request, CURRENT, InQueue
<1>3. b_lock' = [b_lock EXCEPT ![b] = FALSE] /\ b_uptodate' = [b_uptodate EXCEPT ![b] = ok]
      /\ b_dirt' = b_dirt
  BY <1>b DEF EndRequest, Set
<1>4. IoOf(b) = CURRENT.cmd
  BY <1>0, <1>2, IoOfRequest
<1>5. IoOf(b) # "none"
  BY <1>2, <1>4 DEF READ, WRITE
<1>6. IoOf(b)' = "none"
  <2>1. \A s \in Busy' : req'[s].bh # b
    BY <1>0, <1>1, <1>2 DEF Owners, InQueue
  <2>2. InQueue(b)' = {}
    BY <2>1 DEF InQueue
  <2> QED
    BY <2>2 DEF IoOf
<1>7. ASSUME NEW c \in Buf \ {b} PROVE IoOf(c)' = IoOf(c)
  <2>1. InQueue(c)' = InQueue(c) /\ \A u \in InQueue(c) : req'[u].cmd = req[u].cmd
    BY <1>1, <1>2 DEF InQueue
  <2> QED
    BY <2>1, IoKept
<1>8. Io' = [Io EXCEPT ![b] = "none"] /\ Io[b] # "none"
  BY <1>2, <1>5, <1>6, <1>7, IoChanged, IoIs
<1>9. Device!Finish(b, ok)
  BY <1>3, <1>8 DEF Device!Finish
<1> QED
  BY <1>2, <1>9 DEF Device!Next

LEMMA GoesOnForDevice ==
    ASSUME IInv, queue # << >>, NEW r \in Request, KeepRequest(r), r.cmd = CURRENT.cmd,
           r.bh = CURRENT.bh
    PROVE  Io' = Io /\ SameHeaders
<1>0. TypeOK /\ ListIsBusy
  BY DEF IInv
<1>1. /\ Busy' = Busy /\ queue[1] \in Busy /\ req'[queue[1]] = r
      /\ \A s \in Slot \ {queue[1]} : req'[s] = req[s]
  BY <1>0, Changed DEF KeepRequest
<1>2. \A s \in Busy : req'[s].bh = req[s].bh /\ req'[s].cmd = req[s].cmd
  BY <1>1 DEF Busy, CURRENT
<1>3. ASSUME NEW c \in Buf PROVE IoOf(c)' = IoOf(c)
  <2>1. InQueue(c)' = InQueue(c) /\ \A u \in InQueue(c) : req'[u].cmd = req[u].cmd
    BY <1>1, <1>2 DEF InQueue
  <2> QED
    BY <2>1, IoKept
<1> QED
  BY <1>3, IoSame DEF KeepRequest, headers, SameHeaders

LEMMA BadForDevice ==
    ASSUME IInv, IInv', queue # << >>, NEW d \in DriverType, BadRwIntr(d)
    PROVE  Device!Next \/ (Io' = Io /\ SameHeaders)
<1>0. TypeOK /\ ListIsBusy
  BY DEF IInv
<1>1. FALSE \in BOOLEAN
  OBVIOUS
<1> QED
  BY <1>0, <1>1, BadCases, EndsForDevice, GoesOnForDevice

LEMMA TaskForDevice ==
    ASSUME IInv, IInv', NEW t \in Task, TaskStep(t)
    PROVE  Device!Next \/ (Io' = Io /\ SameHeaders)
<1>0. TypeOK /\ Calls /\ Owners
  BY DEF IInv
<1>1. ASSUME NEW rw, NEW ahead, NEW b \in Buf, LLRwBlock(t, rw, ahead, b)
      PROVE  Device!Next \/ (Io' = Io /\ SameHeaders)
  <2>1. CASE ~b_lock[b]
    BY <1>0, <1>1, <2>1, LocksForDevice DEF LLRwBlock
  <2>2. CASE b_lock[b]
    BY <1>1, <2>2, SameForDevice DEF LLRwBlock, SameHeaders
  <2> QED
    BY <2>1, <2>2
<1>2. ASSUME LockBufferResumes(t) PROVE Device!Next \/ (Io' = Io /\ SameHeaders)
  <2> DEFINE b == call[t].bh
  <2>1. b \in Buf
    BY <1>0, <1>2 DEF LockBufferResumes, Enters, Calls, Call
  <2>2. CASE ~b_lock[b]
    BY <1>0, <1>2, <2>1, <2>2, LocksForDevice DEF LockBufferResumes
  <2>3. CASE b_lock[b]
    BY <1>2, <2>3, SameForDevice DEF LockBufferResumes, SameHeaders
  <2> QED
    BY <2>2, <2>3
<1>3. ASSUME GiveUp(t) PROVE Device!Next
  <2> DEFINE b == call[t].bh
  <2>1. b \in Buf /\ HoldsLock(t, b)
    BY <1>0, <1>3 DEF GiveUp, In, Calls, Call, HoldsLock
  <2>2. InQueue(b) = {} /\ b_lock[b]
    BY <1>0, <2>1 DEF Owners
  <2>3. Io[b] = "none"
    BY <2>1, <2>2, IoIs DEF IoOf
  <2>4. Io' = Io
    BY <1>3, SameForDevice DEF GiveUp
  <2>5. Device!GiveUp(b)
    BY <1>3, <2>2, <2>3, <2>4 DEF GiveUp, Set, Device!GiveUp
  <2> QED
    BY <2>1, <2>5 DEF Device!Next
<1>4. ASSUME MakeRequest(t) PROVE Device!Next
  BY <1>4, StartsForDevice
<1>5. ASSUME \/ NoRequestFree(t) \/ SleepForRequest(t) \/ RequestResumes(t)
             \/ WaitOnBufferResumes(t) \/ \E b \in Buf : WaitOnBuffer(t, b)
      PROVE  Io' = Io /\ SameHeaders
  BY <1>5, SameForDevice DEF NoRequestFree, SleepForRequest, RequestResumes,
     WaitOnBufferResumes, WaitOnBuffer, headers, SameHeaders
<1>6. ASSUME NEW b \in Buf, NEW v, Modify(t, b, v) PROVE Device!Next
  <2>1. Io' = Io
    BY <1>6, SameForDevice DEF Modify
  <2>2. Device!Modify(b)
    BY <1>6, <2>1 DEF Modify, Set, Device!Modify
  <2> QED
    BY <2>2 DEF Device!Next
<1> QED
  BY <1>1, <1>2, <1>3, <1>4, <1>5, <1>6 DEF TaskStep

LEMMA HdForDevice ==
    ASSUME IInv, IInv', DoHdRequest \/ HdInterrupt
    PROVE  Device!Next \/ (Io' = Io /\ SameHeaders)
<1>0. TypeOK /\ ListIsBusy /\ Answering /\ driver \in DriverType
  BY DEF IInv, TypeOK, DriverType
<1>1. TRUE \in BOOLEAN /\ FALSE \in BOOLEAN
  OBVIOUS
<1>2. CASE \/ QueueEmpty \/ ResetHd \/ Recalibrate \/ StartRead \/ StartWrite \/ RecalIntr
  BY <1>2, SameForDevice DEF QueueEmpty, ResetHd, Recalibrate, StartRead, StartWrite,
     RecalIntr, headers, SameHeaders
<1>3. CASE RefuseRequest
  BY <1>1, <1>3, EndsForDevice DEF RefuseRequest
<1>4. CASE NoDataRequest
  <2>1. [driver EXCEPT !.do_hd = "write_intr"] \in DriverType
    BY <1>0, DriverTypes
  <2> QED
    BY <1>4, <2>1, BadForDevice DEF NoDataRequest, ReadyFor, Starts
<1>5. CASE TransferFails \/ RecalFails
  <2>1. queue # << >> /\ BadRwIntr(RunsNext)
    BY <1>0, <1>5, InterruptHasRequest DEF TransferFails, RecalFails
  <2> QED
    BY <1>0, <2>1, RunsNextIs, BadForDevice
<1>6. CASE ReadIntr \/ WriteIntr
  <2>1. queue # << >>
    BY <1>0, <1>6, InterruptHasRequest DEF ReadIntr, WriteIntr
  <2>2. CURRENT \in Request /\ CURRENT.errors \in Nat
    BY <1>0, <2>1, FirstRequest DEF Request
  <2>3. EndRequest(TRUE) \/ \E e \in Nat : NextSector(e)
    <3>1. CASE ReadIntr
      BY <3>1 DEF ReadIntr
    <3>2. CASE WriteIntr
      BY <2>2, <3>2 DEF WriteIntr
    <3> QED
      BY <1>6, <3>1, <3>2
  <2>4. ASSUME NEW e \in Nat, NextSector(e) PROVE Io' = Io /\ SameHeaders
    BY <2>1, <2>2, <2>4, RequestGoesOn, GoesOnForDevice DEF NextSector
  <2> QED
    BY <1>1, <2>1, <2>3, <2>4, EndsForDevice
<1> QED
  BY <1>2, <1>3, <1>4, <1>5, <1>6 DEF DoHdRequest, HdInterrupt

\* The driver with its queue, its retries and its resets implements the block
\* device the buffer cache is written against.
THEOREM ImplementsBlockDevice == Spec => IsBlockDevice
<1>1. Init => Device!Init
  <2> SUFFICES ASSUME Init PROVE Device!Init
    OBVIOUS
  <2>1. \A b \in Buf : InQueue(b) = {}
    BY DEF Init, InQueue, Busy
  <2>2. Io = [b \in Buf |-> "none"]
    BY <2>1, IoIs DEF IoOf
  <2> QED
    BY <2>2 DEF Init, Device!Init
<1>2. IInv /\ IInv' /\ [Next]_vars => [Device!Next]_<<b_lock, b_dirt, b_uptodate, Io>>
  <2> SUFFICES ASSUME IInv, IInv', [Next]_vars
               PROVE  Device!Next \/ (Io' = Io /\ SameHeaders)
    BY DEF SameHeaders
  <2>1. CASE UNCHANGED vars
    BY <2>1, SameForDevice DEF vars, headers, SameHeaders
  <2> QED
    BY <2>1, TaskForDevice, HdForDevice DEF Next
<1> QED
  BY <1>1, <1>2, SpecIInv, PTL DEF Spec, IsBlockDevice, Device!Spec

-----------------------------------------------------------------------------
(***************************************************************************)
(* The elevator.  Where behind the first request the order drops, there is  *)
(* no second drop: a request that would come before the last one is put     *)
(* into the sweep behind the drop, or it is the first of that sweep.        *)
(***************************************************************************)
Drops(i) == ~InOrder(req[queue[i]], req[queue[i + 1]])

OneDrop == \A i, j \in 1 .. Len(queue) - 1 : Drops(i) /\ Drops(j) => i = j

\* Requests for two buffers are never in order both ways, and one of them is
\* first, however far they have come.
LEMMA OrderIsTotal ==
    ASSUME NEW r \in Request, NEW s \in Request, r.bh # s.bh
    PROVE  InOrder(r, s) <=> ~InOrder(s, r)
<1>1. /\ Place[r.bh] \in Nat /\ Place[s.bh] \in Nat
      /\ Place[r.bh] > Place[s.bh] + 1 \/ Place[s.bh] > Place[r.bh] + 1
  BY LLRwBlkAssumption DEF Request
<1>2. /\ r.sectors_done \in 0 .. 1 /\ s.sectors_done \in 0 .. 1
      /\ r.cmd \in {READ, WRITE} /\ s.cmd \in {READ, WRITE} /\ READ # WRITE
  BY DEF Request, READ, WRITE
<1> QED
  BY <1>1, <1>2 DEF InOrder, Key

LEMMA OrderStays ==
    ASSUME NEW r \in Request, NEW s \in Request, r.bh # s.bh,
           NEW r2 \in Request, NEW s2 \in Request,
           r2.cmd = r.cmd, r2.bh = r.bh, s2.cmd = s.cmd, s2.bh = s.bh
    PROVE  InOrder(r2, s2) <=> InOrder(r, s)
<1>1. /\ Place[r.bh] \in Nat /\ Place[s.bh] \in Nat
      /\ Place[r.bh] > Place[s.bh] + 1 \/ Place[s.bh] > Place[r.bh] + 1
  BY LLRwBlkAssumption DEF Request
<1>2. /\ r.sectors_done \in 0 .. 1 /\ s.sectors_done \in 0 .. 1
      /\ r2.sectors_done \in 0 .. 1 /\ s2.sectors_done \in 0 .. 1
  BY DEF Request
<1> QED
  BY <1>1, <1>2 DEF InOrder, Key

\* The requests of the list are for different buffers.
LEMMA InList ==
    ASSUME IInv
    PROVE  /\ \A i \in 1 .. Len(queue) : queue[i] \in Busy /\ req[queue[i]] \in Request
           /\ \A i, j \in 1 .. Len(queue) :
                 i # j => req[queue[i]].bh # req[queue[j]].bh
<1>1. \A i \in 1 .. Len(queue) : queue[i] \in Busy /\ req[queue[i]] \in Request
  BY BusyRequest DEF IInv, ListIsBusy
<1>2. ASSUME NEW i \in 1 .. Len(queue), NEW j \in 1 .. Len(queue), i # j
      PROVE  req[queue[i]].bh # req[queue[j]].bh
  <2>1. queue[i] # queue[j]
    BY <1>2 DEF IInv, ListIsBusy
  <2> QED
    BY <1>1, <2>1 DEF IInv, Owners
<1> QED
  BY <1>1, <1>2

\* Where the elevator puts a request that no place behind another fits: there
\* is no drop yet, or it is in order behind the last one.
LEMMA LastPlace ==
    ASSUME IInv, OneDrop, NEW r \in Request, queue # << >>,
           \A i \in 1 .. Len(queue) : req[queue[i]].bh # r.bh,
           \A i \in 1 .. Len(queue) - 1 : ~FitsAfter(queue, i, r),
           NEW k \in 1 .. Len(queue) - 1, Drops(k)
    PROVE  InOrder(req[queue[Len(queue)]], r)
<1> DEFINE n == Len(queue)
           S == {j \in k + 1 .. n : ~InOrder(req[queue[j]], r)}
<1>0. n \in Nat /\ queue \in Seq(Slot)
  BY DEF IInv, TypeOK
<1>1. SUFFICES ASSUME ~InOrder(req[queue[n]], r) PROVE FALSE
  OBVIOUS
<1>2. n \in S
  BY <1>0, <1>1
<1>3. S \subseteq Nat
  BY <1>0
<1>4. PICK j \in S : \A i \in S : j <= i
  <2> HIDE DEF S, n
  <2> QED
    BY <1>2, <1>3, HasLeast
<1>5. /\ j \in 2 .. n /\ j - 1 \in 1 .. n - 1 /\ (j - 1) + 1 = j /\ j - 1 >= k
      /\ j - 1 \in 1 .. n /\ ~InOrder(req[queue[j]], r)
  BY <1>0, <1>4
<1>6. InOrder(r, req[queue[j]])
  BY <1>5, InList, OrderIsTotal
<1>7. InOrder(req[queue[j - 1]], r) \/ ~InOrder(req[queue[j - 1]], req[queue[j]])
  <2>1. CASE j - 1 = k
    BY <1>5, <2>1 DEF Drops
  <2>2. CASE j - 1 # k
    <3>1. j - 1 \in k + 1 .. n
      BY <1>0, <1>5, <2>2
    <3>2. j - 1 \notin S
      BY <1>0, <1>4, <1>5
    <3> QED
      BY <3>1, <3>2
  <2> QED
    BY <2>1, <2>2
<1>8. FitsAfter(queue, j - 1, r)
  BY <1>5, <1>6, <1>7 DEF FitsAfter
<1> QED
  BY <1>5, <1>8

\* A drop behind the new request's place was one before it came.
LEMMA AddedDrops ==
    ASSUME IInv, OneDrop, NEW s \in Slot, req[s] = Free, NEW r \in Request,
           AddRequest(s, r), \A i \in 1 .. Len(queue) : req[queue[i]].bh # r.bh
    PROVE  OneDrop'
<1>n. PICK n \in Nat : n = Len(queue)
  BY DEF IInv, TypeOK
<1>p. PICK p \in Nat : p = InsertionPoint(queue, r)
  BY InsertionPointType DEF IInv, TypeOK
<1> DEFINE fits == {i \in 1 .. n - 1 : FitsAfter(queue, i, r)}
<1>0. TypeOK /\ ListIsBusy /\ queue \in Seq(Slot) /\ n \in Nat
  BY DEF IInv, TypeOK
<1>1. p \in 0 .. n /\ (queue # << >> => p >= 1)
  BY <1>0, <1>n, <1>p, InsertionPointType
<1>2. /\ Len(queue') = n + 1
      /\ \A j \in 1 .. n + 1 :
            queue'[j] = IF j < p + 1 THEN queue[j] ELSE IF j = p + 1 THEN s ELSE queue[j - 1]
  <2>1. IsWith(InsertAt(queue, p + 1, s), queue, p + 1, s)
    <3>1. p + 1 \in 1 .. n + 1
      BY <1>0, <1>1
    <3> QED
      BY <1>0, <1>n, <3>1, Inserted
  <2>2. queue' = InsertAt(queue, p + 1, s)
    BY <1>p DEF AddRequest
  <2> QED
    BY <1>n, <2>1, <2>2 DEF IsWith
<1>3. req'[s] = r /\ \A u \in Busy : req'[u] = req[u]
  BY <1>0, Added
<1>4. \A j \in 1 .. n : req'[queue[j]] = req[queue[j]]
  BY <1>3, <1>n, InList
<1>5. \A j \in 1 .. n + 1 :
         req'[queue'[j]] = IF j < p + 1 THEN req[queue[j]]
                           ELSE IF j = p + 1 THEN r ELSE req[queue[j - 1]]
  <2>1. \A j \in 1 .. n + 1 : /\ j < p + 1 => j \in 1 .. n
                              /\ ~(j < p + 1) /\ j # p + 1 => j - 1 \in 1 .. n
    BY <1>0, <1>1
  <2> QED
    BY <1>2, <1>3, <1>4, <2>1
<1>6. CASE queue = << >>
  BY <1>2, <1>6, <1>n DEF OneDrop
<1>7. ASSUME queue # << >>, fits = {} PROVE OneDrop'
  <2>1. p = n
    BY <1>7, <1>n, <1>p DEF InsertionPoint
  <2>2. \A i \in 1 .. n - 1 : Drops(i)' <=> Drops(i)
    <3>1. \A i \in 1 .. n - 1 : i \in 1 .. n + 1 /\ i + 1 \in 1 .. n + 1 /\ i < n + 1 /\ i + 1 < n + 1
      BY <1>0
    <3> QED
      BY <1>5, <2>1, <3>1 DEF Drops
  <2>3. ASSUME NEW k \in 1 .. n - 1, Drops(k)' PROVE ~Drops(n)'
    <3>1. \A i \in 1 .. n - 1 : ~FitsAfter(queue, i, r)
      BY <1>7
    <3>2. InOrder(req[queue[n]], r)
      <4>1. Drops(k)
        BY <2>2, <2>3
      <4> HIDE DEF fits
      <4> QED
        BY <1>7, <1>n, <3>1, <4>1, LastPlace
    <3>3. n \in 1 .. n + 1 /\ n + 1 \in 1 .. n + 1 /\ n < n + 1 /\ ~(n + 1 < n + 1)
      BY <1>0, <1>1, <1>7, <2>1
    <3> HIDE DEF fits
    <3>4. req'[queue'[n]] = req[queue[n]] /\ req'[queue'[n + 1]] = r
      BY <1>5, <2>1, <3>3
    <3>5. ~InOrder(req'[queue'[n]], req'[queue'[n + 1]]) <=> ~InOrder(req[queue[n]], r)
      BY <3>4
    <3> QED
      BY <3>2, <3>5 DEF Drops
  <2>4. ASSUME NEW i \in 1 .. Len(queue') - 1, NEW j \in 1 .. Len(queue') - 1,
               Drops(i)', Drops(j)'
        PROVE  i = j
    <3>1. (i \in 1 .. n - 1 \/ i = n) /\ (j \in 1 .. n - 1 \/ j = n)
      BY <1>0, <1>2
    <3> QED
      BY <1>n, <2>2, <2>3, <2>4, <3>1 DEF OneDrop
  <2> QED
    BY <2>4 DEF OneDrop
<1>8. ASSUME queue # << >>, fits # {} PROVE OneDrop'
  <2>1. p \in fits
    <3>1. \E i \in fits : \A j \in fits : i <= j
      <4>1. fits \subseteq Nat
        BY <1>0
      <4> HIDE DEF fits
      <4> QED
        BY <1>8, <4>1, HasLeast
    <3> QED
      BY <1>8, <1>n, <1>p, <3>1 DEF InsertionPoint
  <2>2. /\ p \in 1 .. n - 1
        /\ InOrder(req[queue[p]], r) \/ Drops(p)
        /\ InOrder(r, req[queue[p + 1]])
    BY <2>1 DEF FitsAfter, Drops
  <2> HIDE DEF fits
  <2>3. \A i \in 1 .. n : i < p => (Drops(i)' <=> Drops(i))
    <3>1. \A i \in 1 .. n : i < p => /\ i \in 1 .. n + 1 /\ i + 1 \in 1 .. n + 1
                                     /\ i < p + 1 /\ i + 1 < p + 1
      BY <1>0, <2>2
    <3> QED
      BY <1>5, <3>1 DEF Drops
  <2>4. Drops(p)' => Drops(p)
    <3>1. p \in 1 .. n + 1 /\ p + 1 \in 1 .. n + 1 /\ p < p + 1 /\ ~(p + 1 < p + 1)
      BY <1>0, <2>2
    <3>2. req'[queue'[p]] = req[queue[p]] /\ req'[queue'[p + 1]] = r
      BY <1>5, <3>1
    <3>3. ASSUME InOrder(req[queue[p]], r) PROVE InOrder(req'[queue'[p]], req'[queue'[p + 1]])
      BY <3>2, <3>3
    <3> QED
      BY <2>2, <3>3 DEF Drops
  <2>5. ~Drops(p + 1)'
    <3>1. /\ p + 1 \in 1 .. n + 1 /\ p + 2 \in 1 .. n + 1 /\ ~(p + 1 < p + 1)
          /\ ~(p + 2 < p + 1) /\ p + 2 # p + 1 /\ (p + 2) - 1 = p + 1 /\ (p + 1) + 1 = p + 2
      BY <1>0, <2>2
    <3>2. req'[queue'[p + 1]] = r /\ req'[queue'[p + 2]] = req[queue[p + 1]]
      BY <1>5, <3>1
    <3> QED
      BY <2>2, <3>1, <3>2 DEF Drops
  <2>6. \A i \in 1 .. n : i > p + 1 => (Drops(i)' <=> Drops(i - 1))
    <3>1. \A i \in 1 .. n : i > p + 1 =>
             /\ i \in 1 .. n + 1 /\ i + 1 \in 1 .. n + 1
             /\ ~(i < p + 1) /\ i # p + 1 /\ ~(i + 1 < p + 1) /\ i + 1 # p + 1
             /\ (i + 1) - 1 = i /\ (i - 1) + 1 = i
      BY <1>0, <2>2
    <3> QED
      BY <1>5, <3>1 DEF Drops
  <2>7. ASSUME NEW i \in 1 .. Len(queue') - 1, NEW j \in 1 .. Len(queue') - 1,
               Drops(i)', Drops(j)'
        PROVE  i = j
    <3> DEFINE old(m) == IF m <= p THEN m ELSE m - 1
    <3>1. i \in 1 .. n /\ j \in 1 .. n
      BY <1>0, <1>2
    <3>2. i # p + 1 /\ j # p + 1
      BY <2>5, <2>7
    <3>3. Drops(old(i)) /\ Drops(old(j))
      <4>1. ASSUME NEW m \in 1 .. n, m # p + 1, Drops(m)' PROVE Drops(old(m))
        <5>1. CASE m < p
          BY <1>0, <2>2, <2>3, <4>1, <5>1
        <5>2. CASE m = p
          BY <1>0, <2>2, <2>4, <4>1, <5>2
        <5>3. CASE m > p + 1
          BY <1>0, <2>2, <2>6, <4>1, <5>3
        <5> QED
          BY <1>0, <2>2, <4>1, <5>1, <5>2, <5>3
      <4> QED
        BY <2>7, <3>1, <3>2, <4>1
    <3>4. old(i) \in 1 .. n - 1 /\ old(j) \in 1 .. n - 1
      BY <1>0, <2>2, <3>1, <3>2
    <3>5. old(i) = old(j)
      <4> HIDE DEF old
      <4> QED
        BY <1>n, <3>3, <3>4 DEF OneDrop
    <3> QED
      BY <1>0, <2>2, <3>1, <3>2, <3>5
  <2> QED
    BY <2>7 DEF OneDrop
<1> QED
  BY <1>6, <1>7, <1>8

LEMMA EndedDrops ==
    ASSUME IInv, OneDrop, queue # << >>, NEW ok, EndRequest(ok)
    PROVE  OneDrop'
<1>1. /\ Len(queue) \in Nat /\ Len(queue) >= 1 /\ Len(queue') = Len(queue) - 1
      /\ \A j \in 1 .. Len(queue) - 1 : queue'[j] = queue[j + 1]
  BY DEF EndRequest, IInv, TypeOK
<1>2. ASSUME NEW i \in 1 .. Len(queue') - 1
      PROVE  i + 1 \in 1 .. Len(queue) - 1 /\ (Drops(i)' <=> Drops(i + 1))
  <2>1. /\ i \in 1 .. Len(queue) - 1 /\ i + 1 \in 1 .. Len(queue) - 1
        /\ i \in 1 .. Len(queue') /\ i + 1 \in 1 .. Len(queue')
    BY <1>1
  <2>2. queue'[i] = queue[i + 1] /\ queue'[i + 1] = queue[i + 1 + 1]
    BY <1>1, <2>1
  <2>3. req'[queue'[i]] = req[queue'[i]] /\ req'[queue'[i + 1]] = req[queue'[i + 1]]
    <3>1. ListIsBusy' /\ \A s \in Busy' : req'[s] = req[s]
      BY Ended DEF IInv, EndRequest
    <3> QED
      BY <2>1, <3>1 DEF ListIsBusy
  <2> QED
    BY <2>1, <2>2, <2>3 DEF Drops
<1>3. ASSUME NEW i \in 1 .. Len(queue') - 1, NEW j \in 1 .. Len(queue') - 1,
             Drops(i)', Drops(j)'
      PROVE  i = j
  <2>1. i + 1 = j + 1
    BY <1>2, <1>3 DEF OneDrop
  <2> QED
    BY <1>1, <2>1
<1> QED
  BY <1>3 DEF OneDrop

LEMMA KeptDrops ==
    ASSUME IInv, OneDrop, queue # << >>, NEW r \in Request, KeepRequest(r),
           r.cmd = CURRENT.cmd, r.bh = CURRENT.bh
    PROVE  OneDrop'
<1>0. Len(queue) \in Nat /\ queue' = queue
  BY DEF IInv, TypeOK, KeepRequest
<1>1. req'[queue[1]] = r /\ \A s \in Slot \ {queue[1]} : req'[s] = req[s]
  BY Changed DEF KeepRequest, IInv
<1>2. ASSUME NEW i \in 1 .. Len(queue)
      PROVE  /\ req[queue[i]] \in Request /\ req'[queue[i]] \in Request
             /\ req'[queue[i]].cmd = req[queue[i]].cmd
             /\ req'[queue[i]].bh = req[queue[i]].bh
  <2>1. queue[i] \in Slot /\ req[queue[i]] \in Request
    BY InList DEF Busy
  <2>2. CASE queue[i] = queue[1]
    BY <1>1, <2>1, <2>2 DEF CURRENT
  <2>3. CASE queue[i] # queue[1]
    BY <1>1, <2>1, <2>3
  <2> QED
    BY <2>2, <2>3
<1>3. ASSUME NEW i \in 1 .. Len(queue) - 1 PROVE Drops(i)' <=> Drops(i)
  <2>1. i \in 1 .. Len(queue) /\ i + 1 \in 1 .. Len(queue) /\ i # i + 1
    BY <1>0
  <2>2. req[queue[i]].bh # req[queue[i + 1]].bh
    BY <2>1, InList
  <2>3. InOrder(req'[queue[i]], req'[queue[i + 1]])
            <=> InOrder(req[queue[i]], req[queue[i + 1]])
    BY <1>2, <2>1, <2>2, OrderStays
  <2> QED
    BY <1>0, <2>3 DEF Drops
<1> QED
  BY <1>0, <1>3 DEF OneDrop

LEMMA SameDrops ==
    ASSUME OneDrop, UNCHANGED <<req, queue>> PROVE OneDrop'
BY DEF OneDrop, Drops

LEMMA DropsNext ==
    ASSUME IInv, OneDrop, [Next]_vars PROVE OneDrop'
<1>0. TypeOK /\ Calls /\ ListIsBusy /\ Owners /\ Answering /\ driver \in DriverType
  BY DEF IInv, TypeOK, DriverType
<1>1. ASSUME NEW t \in Task, MakeRequest(t) PROVE OneDrop'
  <2>1. PICK s \in Slot :
              LET r == [cmd |-> call[t].rw, bh |-> call[t].bh, errors |-> 0,
                        sectors_done |-> 0]
              IN  /\ r \in Request /\ req[s] = Free
                  /\ AddRequest(s, r) /\ ~Useless(call[t])
    BY <1>0, <1>1, NewRequest
  <2>2. PICK r \in Request : /\ req[s] = Free /\ AddRequest(s, r)
                             /\ r.bh = call[t].bh
    BY <2>1
  <2>3. HoldsLock(t, r.bh) /\ r.bh \in Buf
    BY <1>1, <2>2 DEF MakeRequest, In, HoldsLock, Request
  <2>4. InQueue(r.bh) = {}
    BY <1>0, <2>3 DEF Owners
  <2>5. \A i \in 1 .. Len(queue) : req[queue[i]].bh # r.bh
    BY <2>4, InList DEF InQueue
  <2> QED
    BY <2>2, <2>5, AddedDrops
<1>2. ASSUME NEW t \in Task, TaskStep(t), ~MakeRequest(t) PROVE OneDrop'
  <2>1. ASSUME NEW rw, NEW ahead, NEW b, LLRwBlock(t, rw, ahead, b)
        PROVE  UNCHANGED <<req, queue>>
    BY <2>1 DEF LLRwBlock
  <2>2. ASSUME NEW b, WaitOnBuffer(t, b) PROVE UNCHANGED <<req, queue>>
    BY <2>2 DEF WaitOnBuffer
  <2>3. ASSUME NEW b, NEW v, Modify(t, b, v) PROVE UNCHANGED <<req, queue>>
    BY <2>3 DEF Modify
  <2>4. ASSUME \/ LockBufferResumes(t) \/ GiveUp(t) \/ NoRequestFree(t)
               \/ SleepForRequest(t) \/ RequestResumes(t) \/ WaitOnBufferResumes(t)
        PROVE  UNCHANGED <<req, queue>>
    BY <2>4 DEF LockBufferResumes, GiveUp, NoRequestFree, SleepForRequest,
                RequestResumes, WaitOnBufferResumes
  <2> QED
    BY <1>2, <2>1, <2>2, <2>3, <2>4, SameDrops DEF TaskStep
<1>3. CASE \/ QueueEmpty \/ ResetHd \/ Recalibrate \/ StartRead \/ StartWrite \/ RecalIntr
           \/ UNCHANGED vars
  BY <1>3, SameDrops DEF QueueEmpty, ResetHd, Recalibrate, StartRead, StartWrite, RecalIntr,
     vars
<1>4. ASSUME queue # << >>, NEW d \in DriverType, BadRwIntr(d) PROVE OneDrop'
  BY <1>0, <1>4, BadCases, EndedDrops, KeptDrops
<1>5. CASE RefuseRequest
  BY <1>5, EndedDrops DEF RefuseRequest
<1>6. CASE NoDataRequest
  <2>1. [driver EXCEPT !.do_hd = "write_intr"] \in DriverType
    BY <1>0, DriverTypes
  <2> QED
    BY <1>4, <1>6, <2>1 DEF NoDataRequest, ReadyFor, Starts
<1>7. CASE TransferFails \/ RecalFails
  <2>1. queue # << >> /\ BadRwIntr(RunsNext)
    BY <1>0, <1>7, InterruptHasRequest DEF TransferFails, RecalFails
  <2> QED
    BY <1>0, <1>4, <2>1, RunsNextIs
<1>8. CASE ReadIntr \/ WriteIntr
  <2>1. queue # << >>
    BY <1>0, <1>8, InterruptHasRequest DEF ReadIntr, WriteIntr
  <2>2. CURRENT \in Request /\ CURRENT.errors \in Nat
    BY <1>0, <2>1, FirstRequest DEF Request
  <2>3. EndRequest(TRUE) \/ \E e \in Nat : NextSector(e)
    <3>1. CASE ReadIntr
      BY <3>1 DEF ReadIntr
    <3>2. CASE WriteIntr
      BY <2>2, <3>2 DEF WriteIntr
    <3> QED
      BY <1>8, <3>1, <3>2
  <2>4. ASSUME NEW e \in Nat, NextSector(e) PROVE OneDrop'
    BY <2>1, <2>2, <2>4, RequestGoesOn, KeptDrops DEF NextSector
  <2> QED
    BY <2>1, <2>3, <2>4, EndedDrops
<1> QED
  BY <1>1, <1>2, <1>3, <1>5, <1>6, <1>7, <1>8 DEF Next, DoHdRequest, HdInterrupt

\* Behind the head the order of add_request drops at most once: the list is
\* the rest of the sweep the drive is in and one more.
THEOREM TwoSweeps == Spec => []AtMostTwoSweeps
<1>1. Init => OneDrop
  BY DEF Init, OneDrop
<1>2. IInv /\ OneDrop => AtMostTwoSweeps
  <2> SUFFICES ASSUME OneDrop PROVE AtMostTwoSweeps
    OBVIOUS
  <2> DEFINE D == {i \in 1 .. Len(queue) - 1 :
                     ~InOrder(req[queue[i]], req[queue[i + 1]])}
  <2>1. \A i, j \in D : i = j
    BY DEF OneDrop, Drops
  <2> HIDE DEF D
  <2>2. D = {} => Cardinality(D) = 0
    BY FS_EmptySet
  <2>3. D # {} => Cardinality(D) = 1
    <3>1. ASSUME NEW i \in D PROVE D = {i}
      BY <2>1, <3>1
    <3> QED
      BY <3>1, FS_Singleton
  <2>4. Cardinality(D) <= 1
    BY <2>2, <2>3
  <2> QED
    BY <2>4 DEF D, AtMostTwoSweeps
<1>3. IInv /\ OneDrop /\ [Next]_vars => OneDrop'
  BY DropsNext
<1> QED
  BY <1>1, <1>2, <1>3, SpecIInv, PTL DEF Spec
=============================================================================
