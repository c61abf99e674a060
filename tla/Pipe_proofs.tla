----------------------------- MODULE Pipe_proofs -----------------------------
(***************************************************************************)
(* Proofs about Pipe for any number of readers and writers, and any size of *)
(* the ring.                                                                *)
(*                                                                         *)
(* The bytes under way are those from First to Last; a chunk that is being  *)
(* copied out is still among them, one that is being copied in is not yet.  *)
(* With this the invariant is one statement about the ring, Bytes, and one  *)
(* about the chunk: a task moves PIPE_TAIL or PIPE_HEAD by its chunk before *)
(* it copies, and nobody else moves them until it has.                      *)
(***************************************************************************)
EXTENDS Pipe, SequenceTheorems, TLAPS

OutLabels == {"copyout", "faultout"}
InLabels  == {"copyin", "faultin"}

\* Who has not slept in the kernel runs.
Inside == \A t \in Task : pc[t] \in {"read", "write", "copyout", "copyin"} => running = t

OneCopy == \A t, u \in CopyingOut \cup CopyingIn : t = u

OutChunk(c) ==
    /\ c.chars \in 1 .. Size - 1 /\ c.from + c.chars <= Size
    /\ tail = (c.from + c.chars) % Size
    /\ c.chars + PIPE_SIZE <= Size - 1
    /\ c.stamp = (accepted - PIPE_SIZE - c.chars) % Stamps

InChunk(c) ==
    /\ c.chars \in 1 .. Size - 1 /\ c.from + c.chars <= Size
    /\ head = (c.from + c.chars) % Size
    /\ c.chars <= PIPE_SIZE
    /\ accepted = (c.stamp + c.chars) % Stamps

Under == (Last - First) % Size

\* The bytes under way are the last ones accepted, in order.
Bytes == \A i \in 0 .. Under - 1 :
            ring[(First + i) % Size] = (NextStamp - Under + i) % Stamps

Chunks == /\ \A t \in CopyingOut : OutChunk(chunk[t])
          /\ \A t \in CopyingIn : InChunk(chunk[t])

IInv == TypeOK /\ (~torn => Inside /\ OneCopy /\ Chunks /\ Bytes)

-----------------------------------------------------------------------------
(***************************************************************************)
(* The remainders the ring and the stamps need.                             *)
(***************************************************************************)
Dist(a, b) == IF a >= b THEN a - b ELSE a - b + Size
Plus(p, n) == IF p + n < Size THEN p + n ELSE p + n - Size
Stamp(a)   == IF a < 0 THEN a + Stamps ELSE IF a < Stamps THEN a ELSE a - Stamps

LEMMA Sizes == /\ Size \in Nat /\ Size >= 2 /\ Stamps \in Nat /\ Stamps >= 2 * Size
               /\ Stamps # 0 /\ MaxCount \in Nat
BY PipeAssumption

LEMMA DistIs ==
    ASSUME NEW a \in 0 .. Size - 1, NEW b \in 0 .. Size - 1
    PROVE  (a - b) % Size = Dist(a, b) /\ Dist(a, b) \in 0 .. Size - 1
<1>1. PICK d \in Int : d = a - b
  BY Sizes
<1>2. /\ d \in 0 .. Size - 1 => d % Size = d
      /\ d \in -Size .. -1 => d % Size = d + Size
  BY Sizes
<1>3. d \in 0 .. Size - 1 \/ d \in -Size .. -1
  BY <1>1, Sizes
<1>4. d % Size = Dist(a, b) /\ Dist(a, b) \in 0 .. Size - 1
  BY <1>1, <1>2, <1>3, Sizes DEF Dist
<1> QED
  BY <1>1, <1>4

LEMMA PlusIs ==
    ASSUME NEW p \in 0 .. Size - 1, NEW n \in 0 .. Size
    PROVE  (p + n) % Size = Plus(p, n) /\ Plus(p, n) \in 0 .. Size - 1
<1>1. PICK d \in Int : d = p + n
  BY Sizes
<1>2. /\ d \in 0 .. Size - 1 => d % Size = d
      /\ d \in Size .. 2 * Size - 1 => d % Size = d - Size
  BY Sizes
<1>3. d \in 0 .. Size - 1 \/ d \in Size .. 2 * Size - 1
  BY <1>1, Sizes
<1>4. d % Size = Plus(p, n) /\ Plus(p, n) \in 0 .. Size - 1
  BY <1>1, <1>2, <1>3, Sizes DEF Plus
<1> QED
  BY <1>1, <1>4

LEMMA StampIs ==
    ASSUME NEW a \in -Stamps .. 2 * Stamps - 1
    PROVE  a % Stamps = Stamp(a) /\ Stamp(a) \in Byte
<1>1. a \in Int
  BY Sizes
<1>2. /\ a \in 0 .. Stamps - 1 => a % Stamps = a
      /\ a \in Stamps .. 2 * Stamps - 1 => a % Stamps = a - Stamps
      /\ a \in -Stamps .. -1 => a % Stamps = a + Stamps
  BY <1>1, Sizes
<1> QED
  BY <1>1, <1>2, Sizes DEF Stamp, Byte

LEMMA LeastOf ==
    ASSUME NEW a \in Int, NEW b \in Int, NEW c \in Int
    PROVE  /\ Min({a, b, c}) \in {a, b, c}
           /\ Min({a, b, c}) <= a /\ Min({a, b, c}) <= b /\ Min({a, b, c}) <= c
<1>1. \E x \in {a, b, c} : \A y \in {a, b, c} : x <= y
  OBVIOUS
<1> QED
  BY <1>1 DEF Min

LEMMA Filled ==
    ASSUME TypeOK
    PROVE  PIPE_SIZE = Dist(head, tail) /\ PIPE_SIZE \in 0 .. Size - 1
BY DistIs DEF TypeOK, PIPE_SIZE

-----------------------------------------------------------------------------
LEMMA MakeRunningType ==
    ASSUME NEW w \in WaitQueues, NEW t \in Task \cup {NoTask}
    PROVE  MakeRunning(w, t) \in WaitQueues
BY DEF MakeRunning, WaitQueues, TaskState, RUNNING

LEMMA WakeUpType ==
    ASSUME NEW w \in WaitQueues, NEW q \in Queue
    PROVE  WakeUp(w, q) \in WaitQueues
<1>1. MakeRunning(w, w.head[q]) \in WaitQueues
  BY MakeRunningType DEF WaitQueues
<1> QED
  BY <1>1 DEF WakeUp, WaitQueues

LEMMA SleepOnType ==
    ASSUME NEW w \in WaitQueues, NEW q \in Queue, NEW t \in Task
    PROVE  SleepOn(w, q, t) \in WaitQueues
BY DEF SleepOn, FallAsleep, WaitQueues, TaskState

LEMMA SleepReturnsType ==
    ASSUME NEW w \in WaitQueues, NEW q \in Queue, NEW t \in Task
    PROVE  SleepReturns(w, q, t) \in WaitQueues
<1>1. MakeRunning(w, w.tmp[t]) \in WaitQueues /\ w.tmp[t] \in Task \cup {NoTask}
  BY MakeRunningType DEF WaitQueues
<1> QED
  BY <1>1 DEF SleepReturns, WaitQueues

-----------------------------------------------------------------------------
(***************************************************************************)
(* The steps that leave the ring and the chunks alone.                      *)
(***************************************************************************)
Labels == {"user", "read", "write", "copyout", "copyin",
           "faultout", "faultin", "waitread", "waitwrite"}

Quiet(t, l) ==
    /\ ~torn /\ running \in {t, NoTask}
    /\ UNCHANGED <<ring, head, tail, chunk, ghosts>>
    /\ pc' = [pc EXCEPT ![t] = l]
    /\ l \in OutLabels <=> pc[t] \in OutLabels
    /\ l \in InLabels <=> pc[t] \in InLabels
    /\ l \in {"read", "write", "copyout", "copyin"} => running' = t
    /\ rd' \subseteq Task /\ wr' \subseteq Task /\ sigpipe' \subseteq Task
    /\ wq' \in WaitQueues
    /\ count' \in [Task -> 0 .. MaxCount]
    /\ running' \in Task \cup {NoTask}

LEMMA QuietSteps ==
    ASSUME TypeOK, NEW t \in Task,
           \/ \E n \in 1 .. MaxCount : ReadCall(t, n) \/ WriteCall(t, n)
           \/ ReadEmpty(t) \/ ReadDone(t) \/ ReadResumes(t)
           \/ WriteFull(t) \/ WriteDone(t) \/ WriteResumes(t)
           \/ CopyOutFaults(t) \/ CopyOutGoesOn(t) \/ CopyInFaults(t) \/ CopyInGoesOn(t)
           \/ Close(t)
    PROVE  \E l \in Labels : Quiet(t, l)
<1> USE DEF Labels, OutLabels, InLabels, Quiet, pipe, ends, ghosts, GoTo, In, Enters
<1>0. i_wait \in Queue /\ wq \in WaitQueues
  BY PipeAssumption DEF TypeOK
<1>1. /\ WakeUp(wq, i_wait) \in WaitQueues
      /\ SleepOn(WakeUp(wq, i_wait), i_wait, t) \in WaitQueues
      /\ SleepReturns(wq, i_wait, t) \in WaitQueues
  BY <1>0, WakeUpType, SleepOnType, SleepReturnsType
<1>2. ASSUME NEW n \in 1 .. MaxCount, NEW l \in {"read", "write"}, Call(t, n, l)
      PROVE  Quiet(t, l)
  <2>1. count' \in [Task -> 0 .. MaxCount]
    BY <1>2, Sizes DEF Call, TypeOK
  <2> QED
    BY <1>0, <1>2, <2>1 DEF Call, TypeOK
<1>3. CASE ReadEmpty(t)
  BY <1>1, <1>3 DEF ReadEmpty, Returns, TypeOK
<1>4. CASE WriteFull(t)
  BY <1>1, <1>4 DEF WriteFull, Returns, TypeOK
<1>5. CASE ReadDone(t) \/ WriteDone(t)
  BY <1>1, <1>5 DEF ReadDone, WriteDone, Returns, TypeOK
<1>6. CASE ReadResumes(t) \/ WriteResumes(t)
  BY <1>1, <1>6 DEF ReadResumes, WriteResumes, Resume, TypeOK
<1>7. CASE CopyOutFaults(t) \/ CopyInFaults(t)
  BY <1>0, <1>7 DEF CopyOutFaults, CopyInFaults, PageFault, TypeOK
<1>8. CASE CopyOutGoesOn(t) \/ CopyInGoesOn(t)
  BY <1>0, <1>8 DEF CopyOutGoesOn, CopyInGoesOn, PageArrives, TypeOK
<1>9. CASE Close(t)
  <2>1. pc' = [pc EXCEPT ![t] = "user"] /\ wq' \in WaitQueues
    BY <1>0, <1>1, <1>9 DEF Close, TypeOK
  <2> QED
    BY <1>9, <2>1 DEF Close, TypeOK
<1> QED
  BY <1>2, <1>3, <1>4, <1>5, <1>6, <1>7, <1>8, <1>9 DEF ReadCall, WriteCall

LEMMA QuietRight ==
    ASSUME IInv, NEW t \in Task, NEW l \in Labels, Quiet(t, l)
    PROVE  IInv' /\ UNCHANGED <<UnderWay, NextStamp, delivered>>
<1> USE DEF Quiet
<1>1. TypeOK'
  BY DEF IInv, TypeOK, Labels, ghosts
<1>2. pc'[t] = l /\ \A u \in Task \ {t} : pc'[u] = pc[u]
  BY DEF IInv, TypeOK
<1>3. CopyingOut' = CopyingOut /\ CopyingIn' = CopyingIn
  BY <1>2 DEF CopyingOut, CopyingIn, OutLabels, InLabels
<1>4. First' = First /\ Last' = Last /\ NextStamp' = NextStamp
  BY <1>3 DEF First, Last, NextStamp, ghosts
<1>5. Inside /\ OneCopy /\ Chunks /\ Bytes
  BY DEF IInv
<1>6. Inside'
  BY <1>2, <1>5, NoTaskAssumption DEF Inside
<1>7. OneCopy' /\ Chunks'
  BY <1>3, <1>5 DEF OneCopy, Chunks, OutChunk, InChunk, PIPE_SIZE, ghosts
<1>8. Bytes'
  BY <1>4, <1>5 DEF Bytes, Under
<1>9. UnderWay' = UnderWay /\ delivered' = delivered
  BY <1>4 DEF UnderWay, ghosts
<1> QED
  BY <1>1, <1>4, <1>6, <1>7, <1>8, <1>9 DEF IInv

-----------------------------------------------------------------------------
(***************************************************************************)
(* A task moves PIPE_TAIL or PIPE_HEAD over the chunk it is going to copy.  *)
(***************************************************************************)
LEMMA NobodyCopies ==
    ASSUME IInv, NEW t \in Task, running = t, pc[t] \in {"read", "write"}, ~torn,
           AsleepInCopy = {}
    PROVE  CopyingOut = {} /\ CopyingIn = {}
BY DEF IInv, Inside, AsleepInCopy, CopyingOut, CopyingIn

LEMMA NobodyCopying ==
    ASSUME CopyingOut = {}, CopyingIn = {}
    PROVE  First = tail /\ Last = head /\ NextStamp = accepted /\ Under = PIPE_SIZE
BY DEF First, Last, NextStamp, Under, PIPE_SIZE

LEMMA OneCopiesOut ==
    ASSUME NEW t, CopyingOut = {t}, CopyingIn = {}
    PROVE  First = chunk[t].from /\ Last = head /\ NextStamp = accepted
BY DEF First, Last, NextStamp

LEMMA OneCopiesIn ==
    ASSUME NEW t, CopyingIn = {t}, CopyingOut = {}
    PROVE  First = tail /\ Last = chunk[t].from /\ NextStamp = chunk[t].stamp
BY DEF First, Last, NextStamp

ChunkType == [from : 0 .. Size - 1, chars : 0 .. Size, stamp : Byte]

LEMMA ReadChunkRight ==
    ASSUME IInv, NEW t \in Task, ReadChunk(t)
    PROVE  IInv' /\ (torn' \/ UNCHANGED <<UnderWay, NextStamp, delivered>>)
<1> USE DEF GoTo, In
<1>0. TypeOK /\ Inside /\ OneCopy /\ Chunks /\ Bytes
  BY DEF IInv, ReadChunk
<1> DEFINE n == Min({Size - tail, count[t], PIPE_SIZE})
           c == [from |-> tail, chars |-> n, stamp |-> (accepted - PIPE_SIZE) % Stamps]
<1>1. /\ count' = [count EXCEPT ![t] = @ - n] /\ chunk' = [chunk EXCEPT ![t] = c]
      /\ tail' = (tail + n) % Size /\ running = t /\ pc[t] = "read" /\ ~torn
      /\ pc' = [pc EXCEPT ![t] = "copyout"]
      /\ UNCHANGED <<ring, head, rd, wr, sigpipe, wq, running, accepted, delivered>>
      /\ count[t] > 0 /\ PIPE_SIZE > 0 /\ (AsleepInCopy # {} => torn') /\ torn' \in BOOLEAN
  BY <1>0 DEF ReadChunk, ends, Moves, TypeOK
<1>2. /\ tail \in 0 .. Size - 1 /\ count[t] \in 0 .. MaxCount /\ PIPE_SIZE \in 0 .. Size - 1
      /\ accepted \in 0 .. Stamps - 1 /\ PIPE_SIZE = Dist(head, tail) /\ head \in 0 .. Size - 1
  BY <1>0, Filled DEF TypeOK, Byte
<1>3. n \in {Size - tail, count[t], PIPE_SIZE} /\ n <= Size - tail /\ n <= count[t] /\ n <= PIPE_SIZE
  <2>1. PICK a \in Int, b \in Int, d \in Int : a = Size - tail /\ b = count[t] /\ d = PIPE_SIZE
    BY <1>2, Sizes
  <2>2. n = Min({a, b, d})
    BY <2>1
  <2> QED
    BY <2>1, <2>2, LeastOf
<1>4. n \in 1 .. Size - 1 /\ tail + n <= Size /\ count[t] - n \in 0 .. MaxCount
  BY <1>1, <1>2, <1>3, Sizes
<1> HIDE DEF n
<1>5. (accepted - PIPE_SIZE) % Stamps \in Byte
  <2>1. PICK a \in -Stamps .. 2 * Stamps - 1 : a = accepted - PIPE_SIZE
    BY <1>2, Sizes
  <2> QED
    BY <2>1, StampIs
<1>6. c \in ChunkType
  BY <1>2, <1>4, <1>5, Sizes DEF ChunkType
<1>7. tail' = Plus(tail, n) /\ tail' \in 0 .. Size - 1
  BY <1>1, <1>2, <1>4, PlusIs, Sizes
<1>8. TypeOK'
  <2>1. count' \in [Task -> 0 .. MaxCount]
    BY <1>0, <1>1, <1>4 DEF TypeOK
  <2>2. chunk' \in [Task -> ChunkType]
    BY <1>0, <1>1, <1>6 DEF TypeOK, ChunkType
  <2> QED
    BY <1>0, <1>1, <1>7, <2>1, <2>2 DEF TypeOK, ChunkType
<1>9. ASSUME ~torn' PROVE IInv' /\ UNCHANGED <<UnderWay, NextStamp, delivered>>
  <2>1. CopyingOut = {} /\ CopyingIn = {}
    BY <1>1, <1>9, NobodyCopies
  <2>2. pc'[t] = "copyout" /\ \A u \in Task \ {t} : pc'[u] = pc[u]
    BY <1>0, <1>1 DEF TypeOK
  <2>3. CopyingOut' = {t} /\ CopyingIn' = {}
    BY <2>1, <2>2 DEF CopyingOut, CopyingIn
  <2>4. chunk'[t] = c /\ c.from = tail /\ c.chars = n
        /\ c.stamp = (accepted - PIPE_SIZE) % Stamps
    BY <1>0, <1>1 DEF TypeOK
  <2> HIDE DEF c
  <2>5. First = tail /\ Last = head /\ NextStamp = accepted
    BY <2>1, NobodyCopying
  <2>6. First' = tail /\ Last' = head /\ NextStamp' = accepted
    <3>1. First' = chunk'[t].from /\ Last' = head' /\ NextStamp' = accepted'
      BY <2>3 DEF First, Last, NextStamp
    <3> QED
      BY <1>1, <2>4, <3>1
  <2>7. UnderWay' = UnderWay /\ Bytes'
    BY <1>0, <1>1, <2>5, <2>6 DEF UnderWay, Bytes, Under
  <2>8. Inside' /\ OneCopy'
    BY <1>0, <1>1, <2>2, <2>3 DEF Inside, OneCopy
  <2>9. PIPE_SIZE' = PIPE_SIZE - n
    <3>1. PIPE_SIZE' = (head - tail') % Size
      BY <1>1 DEF PIPE_SIZE
    <3>2. PIPE_SIZE' = Dist(head, tail')
      BY <1>2, <1>7, <3>1, DistIs
    <3> QED
      BY <1>2, <1>3, <1>4, <1>7, <3>2, Sizes DEF Dist, Plus
  <2>10. OutChunk(chunk[t])'
    <3>1. accepted - (PIPE_SIZE - n) - n = accepted - PIPE_SIZE
      BY <1>2, <1>4, Sizes
    <3>2. n + (PIPE_SIZE - n) <= Size - 1
      BY <1>2, <1>4, Sizes
    <3> QED
      BY <1>1, <1>4, <2>4, <2>9, <3>1, <3>2 DEF OutChunk
  <2>11. Chunks'
    BY <2>3, <2>10 DEF Chunks
  <2> QED
    BY <1>1, <1>8, <2>5, <2>6, <2>7, <2>8, <2>11 DEF IInv
<1> QED
  BY <1>8, <1>9 DEF IInv

LEMMA WriteChunkRight ==
    ASSUME IInv, NEW t \in Task, WriteChunk(t)
    PROVE  IInv' /\ (torn' \/ UNCHANGED <<UnderWay, NextStamp, delivered>>)
<1> USE DEF GoTo, In
<1>0. TypeOK /\ Inside /\ OneCopy /\ Chunks /\ Bytes
  BY DEF IInv, WriteChunk
<1> DEFINE n == Min({Size - head, count[t], Room})
           c == [from |-> head, chars |-> n, stamp |-> accepted]
<1>1. /\ count' = [count EXCEPT ![t] = @ - n] /\ chunk' = [chunk EXCEPT ![t] = c]
      /\ head' = (head + n) % Size /\ accepted' = (accepted + n) % Stamps
      /\ running = t /\ pc[t] = "write" /\ ~torn
      /\ pc' = [pc EXCEPT ![t] = "copyin"]
      /\ UNCHANGED <<ring, tail, rd, wr, sigpipe, wq, running, delivered>>
      /\ count[t] > 0 /\ Room > 0 /\ (AsleepInCopy # {} => torn') /\ torn' \in BOOLEAN
  BY <1>0 DEF WriteChunk, ends, Moves, TypeOK
<1>2. /\ tail \in 0 .. Size - 1 /\ count[t] \in 0 .. MaxCount /\ PIPE_SIZE \in 0 .. Size - 1
      /\ accepted \in 0 .. Stamps - 1 /\ PIPE_SIZE = Dist(head, tail) /\ head \in 0 .. Size - 1
      /\ Room = Size - 1 - PIPE_SIZE
  BY <1>0, Filled DEF TypeOK, Byte, Room
<1>3. n \in {Size - head, count[t], Room} /\ n <= Size - head /\ n <= count[t] /\ n <= Room
  <2>1. PICK a \in Int, b \in Int, d \in Int : a = Size - head /\ b = count[t] /\ d = Room
    BY <1>2, Sizes
  <2>2. n = Min({a, b, d})
    BY <2>1
  <2> QED
    BY <2>1, <2>2, LeastOf
<1>4. n \in 1 .. Size - 1 /\ head + n <= Size /\ count[t] - n \in 0 .. MaxCount
  BY <1>1, <1>2, <1>3, Sizes
<1> HIDE DEF n
<1>5. accepted' \in Byte
  <2>1. PICK a \in -Stamps .. 2 * Stamps - 1 : a = accepted + n
    BY <1>2, <1>4, Sizes
  <2> QED
    BY <1>1, <2>1, StampIs
<1>6. c \in ChunkType
  BY <1>0, <1>2, <1>4, Sizes DEF ChunkType, TypeOK
<1>7. head' = Plus(head, n) /\ head' \in 0 .. Size - 1
  BY <1>1, <1>2, <1>4, PlusIs, Sizes
<1>8. TypeOK'
  <2>1. count' \in [Task -> 0 .. MaxCount]
    BY <1>0, <1>1, <1>4 DEF TypeOK
  <2>2. chunk' \in [Task -> ChunkType]
    BY <1>0, <1>1, <1>6 DEF TypeOK, ChunkType
  <2> QED
    BY <1>0, <1>1, <1>5, <1>7, <2>1, <2>2 DEF TypeOK, ChunkType
<1>9. ASSUME ~torn' PROVE IInv' /\ UNCHANGED <<UnderWay, NextStamp, delivered>>
  <2>1. CopyingOut = {} /\ CopyingIn = {}
    BY <1>1, <1>9, NobodyCopies
  <2>2. pc'[t] = "copyin" /\ \A u \in Task \ {t} : pc'[u] = pc[u]
    BY <1>0, <1>1 DEF TypeOK
  <2>3. CopyingIn' = {t} /\ CopyingOut' = {}
    BY <2>1, <2>2 DEF CopyingOut, CopyingIn
  <2>4. chunk'[t] = c /\ c.from = head /\ c.chars = n /\ c.stamp = accepted
    BY <1>0, <1>1 DEF TypeOK
  <2> HIDE DEF c
  <2>5. First = tail /\ Last = head /\ NextStamp = accepted
    BY <2>1, NobodyCopying
  <2>6. First' = tail /\ Last' = head /\ NextStamp' = accepted
    <3>1. First' = tail' /\ Last' = chunk'[t].from /\ NextStamp' = chunk'[t].stamp
      BY <2>3 DEF First, Last, NextStamp
    <3> QED
      BY <1>1, <2>4, <3>1
  <2>7. UnderWay' = UnderWay /\ Bytes'
    BY <1>0, <1>1, <2>5, <2>6 DEF UnderWay, Bytes, Under
  <2>8. Inside' /\ OneCopy'
    BY <1>0, <1>1, <2>2, <2>3 DEF Inside, OneCopy
  <2>9. PIPE_SIZE' = PIPE_SIZE + n
    <3>1. PIPE_SIZE' = (head' - tail) % Size
      BY <1>1 DEF PIPE_SIZE
    <3>2. PIPE_SIZE' = Dist(head', tail)
      BY <1>2, <1>7, <3>1, DistIs
    <3> QED
      BY <1>2, <1>3, <1>4, <1>7, <3>2, Sizes DEF Dist, Plus
  <2>10. InChunk(chunk[t])'
    <3>1. n <= PIPE_SIZE + n
      BY <1>2, <1>4, Sizes
    <3> QED
      BY <1>1, <1>4, <2>4, <2>9, <3>1 DEF InChunk
  <2>11. Chunks'
    BY <2>3, <2>10 DEF Chunks
  <2> QED
    BY <1>1, <1>8, <2>5, <2>6, <2>7, <2>8, <2>11 DEF IInv
<1> QED
  BY <1>8, <1>9 DEF IInv

-----------------------------------------------------------------------------
(***************************************************************************)
(* The copies.                                                              *)
(***************************************************************************)
Content == Byte \cup {NoByte}

LEMMA IsSequence ==
    ASSUME NEW k \in Nat, NEW S, NEW f \in [1 .. k -> S]
    PROVE  f \in Seq(S) /\ Len(f) = k
<1>1. f \in Seq(S)
  BY SeqDef
<1>2. Len(f) \in Nat /\ DOMAIN f = 1 .. Len(f) /\ DOMAIN f = 1 .. k
  BY <1>1, LenProperties
<1> QED
  BY <1>1, <1>2

\* The bytes of a ring r from f to l, as a sequence, and what they are when s is
\* the stamp of the next one.
Between(r, f, l) == [i \in 1 .. (l - f) % Size |-> r[(f + i - 1) % Size]]

IsBetween(q, r, f, l) ==
    /\ q \in Seq(Content) /\ Len(q) = Dist(l, f)
    /\ \A i \in 1 .. Dist(l, f) : q[i] = r[Plus(f, i - 1)]

Stamped(r, f, l, s) ==
    \A i \in 0 .. ((l - f) % Size) - 1 :
        r[(f + i) % Size] = (s - ((l - f) % Size) + i) % Stamps

IsStamped(r, f, l, s) ==
    \A i \in 0 .. Dist(l, f) - 1 : r[Plus(f, i)] = Stamp(s - Dist(l, f) + i)

LEMMA BetweenIs ==
    ASSUME NEW r \in [0 .. Size - 1 -> Content], NEW f \in 0 .. Size - 1, NEW l \in 0 .. Size - 1
    PROVE  IsBetween(Between(r, f, l), r, f, l)
<1> DEFINE n == Dist(l, f)
<1>1. n \in 0 .. Size - 1 /\ n = (l - f) % Size
  BY DistIs
<1>2. Between(r, f, l) = [i \in 1 .. n |-> r[(f + i - 1) % Size]]
  BY <1>1 DEF Between
<1>3. ASSUME NEW i \in 1 .. n
      PROVE  r[(f + i - 1) % Size] = r[Plus(f, i - 1)] /\ r[(f + i - 1) % Size] \in Content
  <2>1. PICK j \in 0 .. Size : j = i - 1
    BY <1>1, Sizes
  <2>2. (f + j) % Size = Plus(f, j) /\ Plus(f, j) \in 0 .. Size - 1
    BY PlusIs
  <2>3. f + i - 1 = f + j
    BY <2>1, Sizes
  <2> QED
    BY <2>1, <2>2, <2>3
<1>4. Between(r, f, l) \in [1 .. n -> Content]
  BY <1>2, <1>3
<1>5. n \in Nat
  BY <1>1, Sizes
<1> HIDE DEF n
<1>6. Between(r, f, l) \in Seq(Content) /\ Len(Between(r, f, l)) = n
  BY <1>4, <1>5, IsSequence
<1>7. \A i \in 1 .. n : Between(r, f, l)[i] = r[Plus(f, i - 1)]
  BY <1>2, <1>3
<1> QED
  BY <1>6, <1>7 DEF IsBetween, n

LEMMA StampedIs ==
    ASSUME NEW r, NEW f \in 0 .. Size - 1, NEW l \in 0 .. Size - 1, NEW s \in Byte
    PROVE  Stamped(r, f, l, s) <=> IsStamped(r, f, l, s)
<1> DEFINE n == Dist(l, f)
<1>1. n \in 0 .. Size - 1 /\ n = (l - f) % Size
  BY DistIs
<1> HIDE DEF n
<1>2. ASSUME NEW i \in 0 .. n - 1
      PROVE  (f + i) % Size = Plus(f, i) /\ (s - n + i) % Stamps = Stamp(s - n + i)
  <2>1. i \in 0 .. Size
    BY <1>1, Sizes
  <2>2. PICK a \in -Stamps .. 2 * Stamps - 1 : a = s - n + i
    BY <1>1, Sizes DEF Byte
  <2> QED
    BY <2>1, <2>2, PlusIs, StampIs
<1>3. Stamped(r, f, l, s) <=>
         \A i \in 0 .. n - 1 : r[(f + i) % Size] = (s - n + i) % Stamps
  <2> DEFINE m == (l - f) % Size
  <2>1. Stamped(r, f, l, s) <=>
           \A i \in 0 .. m - 1 : r[(f + i) % Size] = (s - m + i) % Stamps
    BY DEF Stamped
  <2>2. m = n
    BY <1>1
  <2> HIDE DEF m
  <2> QED
    BY <2>1, <2>2
<1>4. IsStamped(r, f, l, s) <=> \A i \in 0 .. n - 1 : r[Plus(f, i)] = Stamp(s - n + i)
  BY DEF IsStamped, n
<1> QED
  BY <1>2, <1>3, <1>4

LEMMA OneCopier ==
    ASSUME OneCopy, NEW t \in Task
    PROVE  /\ pc[t] \in OutLabels => CopyingOut = {t} /\ CopyingIn = {}
           /\ pc[t] \in InLabels => CopyingIn = {t} /\ CopyingOut = {}
<1>1. CASE pc[t] \in OutLabels
  <2>1. t \in CopyingOut
    BY <1>1 DEF CopyingOut, OutLabels
  <2>2. \A u \in CopyingIn : pc[u] \notin OutLabels
    BY DEF CopyingIn, OutLabels
  <2> QED
    BY <1>1, <2>1, <2>2 DEF OneCopy, OutLabels, InLabels
<1>2. CASE pc[t] \in InLabels
  <2>1. t \in CopyingIn
    BY <1>2 DEF CopyingIn, InLabels
  <2>2. \A u \in CopyingOut : pc[u] \notin InLabels
    BY DEF CopyingOut, InLabels
  <2> QED
    BY <1>2, <2>1, <2>2 DEF OneCopy, OutLabels, InLabels
<1> QED
  BY <1>1, <1>2

\* What a task that copies out has before it.
LEMMA OutIs ==
    ASSUME IInv, ~torn, NEW t \in Task, pc[t] \in OutLabels
    PROVE  /\ CopyingOut = {t} /\ CopyingIn = {}
           /\ First = chunk[t].from /\ Last = head /\ NextStamp = accepted
           /\ First \in 0 .. Size - 1 /\ chunk[t].chars \in 1 .. Size - 1
           /\ First + chunk[t].chars <= Size
           /\ tail = Plus(First, chunk[t].chars)
           /\ Under = chunk[t].chars + PIPE_SIZE
           /\ Under = Dist(head, First) /\ Under \in 0 .. Size - 1
           /\ chunk[t].stamp = (accepted - Under) % Stamps
<1>1. TypeOK /\ OneCopy /\ Chunks
  BY DEF IInv
<1>2. CopyingOut = {t} /\ CopyingIn = {}
  BY <1>1, OneCopier
<1>3. First = chunk[t].from /\ Last = head /\ NextStamp = accepted
  BY <1>2, OneCopiesOut
<1>4. OutChunk(chunk[t])
  BY <1>1, <1>2 DEF Chunks
<1>5. First \in 0 .. Size - 1 /\ chunk[t].chars \in 1 .. Size - 1 /\ First + chunk[t].chars <= Size
  BY <1>1, <1>3, <1>4 DEF OutChunk, TypeOK
<1>6. tail = Plus(First, chunk[t].chars)
  <2>1. PICK f, n : f = First /\ n = chunk[t].chars
    OBVIOUS
  <2>2. tail = (f + n) % Size
    BY <1>3, <1>4, <2>1 DEF OutChunk
  <2>3. f \in 0 .. Size - 1 /\ n \in 0 .. Size
    BY <1>5, <2>1, Sizes
  <2>4. (f + n) % Size = Plus(f, n)
    BY <2>3, PlusIs, Zenon
  <2> QED
    BY <2>1, <2>2, <2>4
<1>7. /\ PIPE_SIZE = Dist(head, tail) /\ PIPE_SIZE \in 0 .. Size - 1
      /\ head \in 0 .. Size - 1 /\ tail \in 0 .. Size - 1
  BY <1>1, Filled DEF TypeOK
<1>8. Under = Dist(head, First) /\ Under \in 0 .. Size - 1
  BY <1>3, <1>5, <1>7, DistIs DEF Under
<1>9. chunk[t].chars + PIPE_SIZE <= Size - 1
  BY <1>4 DEF OutChunk
<1>10. Under = chunk[t].chars + PIPE_SIZE
  BY <1>5, <1>6, <1>7, <1>8, <1>9, Sizes DEF Dist, Plus
<1>11. accepted - PIPE_SIZE - chunk[t].chars = accepted - Under
  BY <1>1, <1>5, <1>7, <1>10, Sizes, SMTT(40) DEF TypeOK, Byte
<1> QED
  BY <1>2, <1>3, <1>4, <1>5, <1>6, <1>8, <1>10, <1>11 DEF OutChunk

\* And one that copies in.
LEMMA InIs ==
    ASSUME IInv, ~torn, NEW t \in Task, pc[t] \in InLabels
    PROVE  /\ CopyingIn = {t} /\ CopyingOut = {}
           /\ First = tail /\ Last = chunk[t].from /\ NextStamp = chunk[t].stamp
           /\ Last \in 0 .. Size - 1 /\ chunk[t].chars \in 1 .. Size - 1
           /\ Last + chunk[t].chars <= Size
           /\ head = Plus(Last, chunk[t].chars)
           /\ Under = PIPE_SIZE - chunk[t].chars /\ Under >= 0
           /\ NextStamp \in Byte /\ accepted = (NextStamp + chunk[t].chars) % Stamps
<1>1. TypeOK /\ OneCopy /\ Chunks
  BY DEF IInv
<1>2. CopyingIn = {t} /\ CopyingOut = {}
  BY <1>1, OneCopier
<1>3. First = tail /\ Last = chunk[t].from /\ NextStamp = chunk[t].stamp
  BY <1>2, OneCopiesIn
<1>4. InChunk(chunk[t])
  BY <1>1, <1>2 DEF Chunks
<1>5. Last \in 0 .. Size - 1 /\ chunk[t].chars \in 1 .. Size - 1 /\ Last + chunk[t].chars <= Size
      /\ NextStamp \in Byte
  BY <1>1, <1>3, <1>4 DEF InChunk, TypeOK
<1>6. head = Plus(Last, chunk[t].chars)
  <2>1. PICK f, n : f = Last /\ n = chunk[t].chars
    OBVIOUS
  <2>2. head = (f + n) % Size
    BY <1>3, <1>4, <2>1 DEF InChunk
  <2>3. f \in 0 .. Size - 1 /\ n \in 0 .. Size
    BY <1>5, <2>1, Sizes
  <2>4. (f + n) % Size = Plus(f, n)
    BY <2>3, PlusIs, Zenon
  <2> QED
    BY <2>1, <2>2, <2>4
<1>7. /\ PIPE_SIZE = Dist(head, tail) /\ PIPE_SIZE \in 0 .. Size - 1
      /\ head \in 0 .. Size - 1 /\ tail \in 0 .. Size - 1
  BY <1>1, Filled DEF TypeOK
<1>8. Under = Dist(Last, tail)
  BY <1>3, <1>5, <1>7, DistIs DEF Under
<1>9. chunk[t].chars <= PIPE_SIZE
  BY <1>4 DEF InChunk
<1>10. Under = PIPE_SIZE - chunk[t].chars /\ Under >= 0
  BY <1>5, <1>6, <1>7, <1>8, <1>9, Sizes DEF Dist, Plus
<1> QED
  BY <1>2, <1>3, <1>4, <1>5, <1>6, <1>10 DEF InChunk

-----------------------------------------------------------------------------
LEMMA Part ==
    ASSUME NEW q \in Seq(Content), NEW m \in Nat \ {0}, NEW n \in Nat, m <= n + 1, n <= Len(q)
    PROVE  /\ SubSeq(q, m, n) \in Seq(Content) /\ Len(SubSeq(q, m, n)) = n - m + 1
           /\ \A i \in 1 .. n - m + 1 : SubSeq(q, m, n)[i] = q[m + i - 1]
OBVIOUS

LEMMA SameSequence ==
    ASSUME NEW p \in Seq(Content), NEW q \in Seq(Content), Len(p) = Len(q),
           \A i \in 1 .. Len(p) : p[i] = q[i]
    PROVE  p = q
BY SeqEqual

LEMMA PlusPlus ==
    ASSUME NEW f \in 0 .. Size - 1, NEW k \in 1 .. Size - 1, f + k <= Size, NEW i \in 0 .. Size - 1
    PROVE  Plus(Plus(f, k), i) = Plus(f, k + i) /\ (i < k => Plus(f, i) = f + i)
BY Sizes DEF Plus

LEMMA CopyOutRight ==
    ASSUME IInv, NEW t \in Task, CopyOut(t)
    PROVE  IInv' /\ Fifo!Next
<1> USE DEF GoTo, In
<1> DEFINE c == chunk[t]
<1>0. TypeOK /\ Inside /\ OneCopy /\ Chunks /\ Bytes /\ ~torn
  BY DEF IInv, CopyOut
<1>1. /\ running = t /\ pc[t] = "copyout" /\ pc' = [pc EXCEPT ![t] = "read"]
      /\ delivered' = [i \in 1 .. c.chars |-> ring[c.from + i - 1]]
      /\ chunk' = [chunk EXCEPT ![t] = NoChunk]
      /\ UNCHANGED <<ring, head, tail, rd, wr, sigpipe, wq, count, running, accepted, torn>>
  BY DEF CopyOut, pipe, ends
<1>2. /\ CopyingOut = {t} /\ CopyingIn = {}
      /\ First = c.from /\ Last = head /\ NextStamp = accepted
      /\ First \in 0 .. Size - 1 /\ c.chars \in 1 .. Size - 1 /\ First + c.chars <= Size
      /\ tail = Plus(First, c.chars) /\ Under = c.chars + PIPE_SIZE
      /\ Under = Dist(head, First) /\ Under \in 0 .. Size - 1
  BY <1>0, <1>1, OutIs DEF OutLabels
<1>3. /\ PIPE_SIZE = Dist(head, tail) /\ PIPE_SIZE \in 0 .. Size - 1
      /\ head \in 0 .. Size - 1 /\ tail \in 0 .. Size - 1 /\ accepted \in Byte
      /\ ring \in [0 .. Size - 1 -> Content]
  BY <1>0, Filled DEF TypeOK, Content
<1> HIDE DEF c
<1>5. PICK f \in 0 .. Size - 1, n \in 1 .. Size - 1, p \in 0 .. Size - 1, u \in 0 .. Size - 1 :
          f = First /\ n = c.chars /\ p = PIPE_SIZE /\ u = Under
  BY <1>2, <1>3
<1>4. u = n + p
  BY <1>2, <1>5
<1>6. /\ f + n <= Size /\ tail = Plus(f, n) /\ u = n + p /\ c.from = f
      /\ p = Dist(head, tail) /\ u = Dist(head, f)
      /\ n \in Nat /\ u \in Nat /\ p \in Nat
  BY <1>2, <1>3, <1>4, <1>5, Sizes
<1>7. pc'[t] = "read" /\ \A v \in Task \ {t} : pc'[v] = pc[v]
  BY <1>0, <1>1 DEF TypeOK
<1>8. CopyingOut' = {} /\ CopyingIn' = {}
  BY <1>2, <1>7 DEF CopyingOut, CopyingIn
<1>9. First' = tail /\ Last' = head /\ NextStamp' = accepted
  BY <1>1, <1>8 DEF First, Last, NextStamp
<1>10. /\ UnderWay \in Seq(Content) /\ Len(UnderWay) = u
       /\ \A i \in 1 .. u : UnderWay[i] = ring[Plus(f, i - 1)]
  <2>1. UnderWay = Between(ring, f, head)
    BY <1>2, <1>5 DEF UnderWay, Between
  <2>2. IsBetween(UnderWay, ring, f, head)
    BY <1>3, <2>1, BetweenIs
  <2> QED
    BY <1>6, <2>2 DEF IsBetween
<1>11. /\ UnderWay' \in Seq(Content) /\ Len(UnderWay') = p
       /\ \A i \in 1 .. p : UnderWay'[i] = ring[Plus(tail, i - 1)]
  <2>1. UnderWay' = Between(ring, tail, head)
    BY <1>1, <1>9 DEF UnderWay, Between
  <2>2. IsBetween(UnderWay', ring, tail, head)
    BY <1>3, <2>1, BetweenIs
  <2> QED
    BY <1>6, <2>2 DEF IsBetween
<1>12. ASSUME NEW i \in 1 .. n
       PROVE  ring[f + i - 1] = UnderWay[i] /\ ring[f + i - 1] \in Content
  <2>1. PICK j \in 0 .. Size - 1 : j = i - 1 /\ j < n
    BY Sizes
  <2>2. Plus(f, j) = f + j /\ f + j \in 0 .. Size - 1 /\ f + i - 1 = f + j /\ i \in 1 .. u
    BY <1>6, <2>1, PlusPlus, Sizes
  <2> QED
    BY <1>3, <1>10, <2>1, <2>2
<1>13. /\ delivered' \in Seq(Content) /\ Len(delivered') = n
       /\ \A i \in 1 .. n : delivered'[i] = UnderWay[i]
  <2>1. delivered' = [i \in 1 .. n |-> ring[f + i - 1]]
    BY <1>1, <1>5, <1>6 DEF c
  <2>2. delivered' \in [1 .. n -> Content]
    BY <1>12, <2>1
  <2>3. delivered' \in Seq(Content) /\ Len(delivered') = n
    BY <1>6, <2>2, IsSequence
  <2> QED
    BY <1>12, <2>1, <2>3
<1>14. TypeOK'
  <2>1. NoChunk \in ChunkType
    BY Sizes DEF NoChunk, ChunkType, Byte
  <2>2. chunk' \in [Task -> ChunkType]
    BY <1>0, <1>1, <2>1 DEF TypeOK, ChunkType
  <2> QED
    BY <1>0, <1>1, <1>13, <2>2 DEF TypeOK, ChunkType, Content
<1>15. Inside' /\ OneCopy' /\ Chunks'
  BY <1>0, <1>1, <1>7, <1>8 DEF Inside, OneCopy, Chunks
<1>16. Bytes'
  <2>1. Stamped(ring, f, head, accepted)
    BY <1>0, <1>2, <1>5 DEF Bytes, Under, Stamped
  <2>2. IsStamped(ring, f, head, accepted)
    BY <1>3, <2>1, StampedIs
  <2>3. \A i \in 0 .. u - 1 : ring[Plus(f, i)] = Stamp(accepted - u + i)
    BY <1>6, <2>2 DEF IsStamped
  <2>4. ASSUME NEW i \in 0 .. p - 1
        PROVE  ring[Plus(tail, i)] = Stamp(accepted - p + i)
    <3>1. n + i \in 0 .. u - 1 /\ i \in 0 .. Size - 1
      BY <1>6, Sizes
    <3>2. accepted - u + (n + i) = accepted - p + i
      <4>1. accepted \in Int /\ i \in Int
        BY <1>3, Sizes DEF Byte
      <4> QED
        BY <1>4, <4>1, Sizes
    <3>3. ring[Plus(f, n + i)] = Stamp(accepted - u + (n + i))
      BY <2>3, <3>1
    <3>4. Plus(tail, i) = Plus(f, n + i)
      BY <1>6, <3>1, PlusPlus
    <3> QED
      BY <3>2, <3>3, <3>4
  <2>5. IsStamped(ring, tail, head, accepted)
    BY <1>6, <2>4 DEF IsStamped
  <2>6. Stamped(ring, tail, head, accepted)
    BY <1>3, <2>5, StampedIs
  <2> QED
    BY <1>1, <1>9, <2>6 DEF Bytes, Under, Stamped
<1>17. IInv'
  BY <1>14, <1>15, <1>16 DEF IInv
<1>18. Fifo!Deliver(n)
  <2>1. delivered' = SubSeq(UnderWay, 1, n)
    <3>1. n <= Len(UnderWay) /\ 1 <= n + 1 /\ n - 1 + 1 = n
      BY <1>6, <1>10, Sizes
    <3>2. PICK q \in Seq(Content) : q = SubSeq(UnderWay, 1, n)
      <4>1. PICK m \in Nat \ {0} : m = 1
        OBVIOUS
      <4> QED
        BY <1>6, <1>10, <3>1, <4>1, Part
    <3>3. Len(q) = n /\ \A i \in 1 .. n : q[i] = UnderWay[i]
      BY <1>6, <1>10, <3>1, <3>2
    <3>4. delivered' = q
      BY <1>13, <3>3, SameSequence
    <3> QED
      BY <3>2, <3>4
  <2>2. UnderWay' = SubSeq(UnderWay, n + 1, Len(UnderWay))
    <3>1. PICK m \in Nat \ {0} : m = n + 1
      BY <1>6
    <3>2. m <= u + 1 /\ u <= Len(UnderWay) /\ u - m + 1 = p
      BY <1>6, <1>10, <3>1
    <3>3. PICK q \in Seq(Content) :
             /\ q = SubSeq(UnderWay, m, u) /\ Len(q) = u - m + 1
             /\ \A i \in 1 .. u - m + 1 : q[i] = UnderWay[m + i - 1]
      <4>1. u \in Nat
        BY <1>6
      <4> QED
        BY <1>10, <3>2, <4>1, Part, ZenonT(60)
    <3>4. Len(q) = p /\ \A i \in 1 .. p : q[i] = UnderWay[m + i - 1]
      BY <3>2, <3>3
    <3>5. ASSUME NEW i \in 1 .. p PROVE UnderWay'[i] = q[i]
      <4>1. PICK j \in 0 .. Size - 1 : j = i - 1
        BY <1>6, Sizes
      <4>2. m + i - 1 \in 1 .. u /\ m + i - 1 - 1 = n + j
        BY <1>6, <3>1, <4>1, Sizes
      <4>3. q[i] = ring[Plus(f, n + j)]
        BY <1>10, <3>4, <4>2, SMTT(40)
      <4>4. UnderWay'[i] = ring[Plus(tail, j)]
        BY <1>11, <4>1
      <4>5. Plus(tail, j) = Plus(f, n + j)
        BY <1>6, PlusPlus
      <4> QED
        BY <4>3, <4>4, <4>5
    <3>6. UnderWay' = q
      BY <1>11, <3>4, <3>5, SameSequence
    <3> QED
      BY <1>10, <3>1, <3>3, <3>6
  <2>3. n <= Len(UnderWay)
    BY <1>6, <1>10
  <2> QED
    BY <1>2, <1>9, <2>1, <2>2, <2>3 DEF Fifo!Deliver
<1> QED
  BY <1>17, <1>18 DEF Fifo!Next

LEMMA CopyInRight ==
    ASSUME IInv, NEW t \in Task, CopyIn(t)
    PROVE  IInv' /\ Fifo!Next
<1> USE DEF GoTo, In
<1> DEFINE c == chunk[t]
<1>0. TypeOK /\ Inside /\ OneCopy /\ Chunks /\ Bytes /\ ~torn
  BY DEF IInv, CopyIn
<1>1. /\ running = t /\ pc[t] = "copyin" /\ pc' = [pc EXCEPT ![t] = "write"]
      /\ ring' = [i \in 0 .. Size - 1 |->
                     IF i \in c.from .. c.from + c.chars - 1
                     THEN (c.stamp + i - c.from) % Stamps ELSE ring[i]]
      /\ chunk' = [chunk EXCEPT ![t] = NoChunk]
      /\ UNCHANGED <<head, tail, rd, wr, sigpipe, wq, count, running, accepted, delivered, torn>>
  BY DEF CopyIn, ends, ghosts
<1>2. /\ CopyingIn = {t} /\ CopyingOut = {}
      /\ First = tail /\ Last = c.from /\ NextStamp = c.stamp
      /\ Last \in 0 .. Size - 1 /\ c.chars \in 1 .. Size - 1 /\ Last + c.chars <= Size
      /\ head = Plus(Last, c.chars) /\ Under = PIPE_SIZE - c.chars /\ Under >= 0
      /\ NextStamp \in Byte /\ accepted = (NextStamp + c.chars) % Stamps
  BY <1>0, <1>1, InIs DEF InLabels
<1>3. /\ PIPE_SIZE = Dist(head, tail) /\ PIPE_SIZE \in 0 .. Size - 1
      /\ head \in 0 .. Size - 1 /\ tail \in 0 .. Size - 1 /\ accepted \in Byte
      /\ ring \in [0 .. Size - 1 -> Content]
  BY <1>0, Filled DEF TypeOK, Content
<1> HIDE DEF c
<1>4. PICK l \in 0 .. Size - 1, n \in 1 .. Size - 1, p \in 0 .. Size - 1, s \in Byte :
          l = Last /\ n = c.chars /\ p = PIPE_SIZE /\ s = NextStamp
  BY <1>2, <1>3
<1>5. PICK u \in 0 .. Size - 1 : u = Under /\ u = p - n /\ p = u + n
  <2>1. p - n \in 0 .. Size - 1 /\ p - n = Under /\ p = (p - n) + n
    BY <1>2, <1>4, Sizes
  <2> QED
    BY <2>1
<1>6. /\ c.from = l /\ c.stamp = s /\ l + n <= Size /\ head = Plus(l, n)
      /\ p = Dist(head, tail) /\ accepted = (s + n) % Stamps
  BY <1>2, <1>3, <1>4
<1>7. u = Dist(l, tail)
  <2>1. u = (l - tail) % Size
    BY <1>2, <1>4, <1>5 DEF Under
  <2> QED
    BY <1>3, <2>1, DistIs
<1>8. accepted = Stamp(s + n)
  <2>1. PICK a \in -Stamps .. 2 * Stamps - 1 : a = s + n
    BY Sizes DEF Byte
  <2> QED
    BY <1>6, <2>1, StampIs
<1>9. pc'[t] = "write" /\ \A v \in Task \ {t} : pc'[v] = pc[v]
  BY <1>0, <1>1 DEF TypeOK
<1>10. CopyingOut' = {} /\ CopyingIn' = {}
  BY <1>2, <1>9 DEF CopyingOut, CopyingIn
<1>11. First' = tail /\ Last' = head /\ NextStamp' = accepted
  BY <1>1, <1>10 DEF First, Last, NextStamp
\* The ring: the positions of the chunk, and the others.
<1>12. ASSUME NEW i \in 0 .. Size - 1
       PROVE  ring'[i] = IF l <= i /\ i < l + n THEN Stamp(s + (i - l)) ELSE ring[i]
  <2>1. ring' = [j \in 0 .. Size - 1 |->
                    IF j \in l .. l + n - 1 THEN (s + j - l) % Stamps ELSE ring[j]]
    BY <1>1, <1>4, <1>6
  <2>2. ring'[i] = IF i \in l .. l + n - 1 THEN (s + i - l) % Stamps ELSE ring[i]
    BY <2>1
  <2>3. i \in l .. l + n - 1 <=> l <= i /\ i < l + n
    BY Sizes
  <2>4. ASSUME l <= i, i < l + n PROVE (s + i - l) % Stamps = Stamp(s + (i - l))
    <3>1. PICK a \in -Stamps .. 2 * Stamps - 1 : a = s + i - l /\ a = s + (i - l)
      BY <2>4, Sizes DEF Byte
    <3> QED
      BY <3>1, StampIs
  <2> QED
    BY <2>2, <2>3, <2>4
<1>13. ring' \in [0 .. Size - 1 -> Content]
  <2>1. ASSUME NEW i \in 0 .. Size - 1 PROVE ring'[i] \in Content
    <3>1. CASE l <= i /\ i < l + n
      <4>1. PICK a \in -Stamps .. 2 * Stamps - 1 : a = s + (i - l)
        BY <3>1, Sizes DEF Byte
      <4> QED
        BY <1>12, <3>1, <4>1, StampIs DEF Content
    <3> QED
      BY <1>3, <1>12, <3>1
  <2>2. ring' = [i \in 0 .. Size - 1 |-> ring'[i]]
    BY <1>1
  <2> QED
    BY <2>1, <2>2
<1>14. ASSUME NEW i \in 0 .. p - 1
       PROVE  /\ i < u => ring'[Plus(tail, i)] = ring[Plus(tail, i)]
              /\ i >= u => ring'[Plus(tail, i)] = Stamp(s + (i - u))
  <2>1. Plus(tail, i) \in 0 .. Size - 1
    BY <1>3, Sizes DEF Plus
  <2>2. i < u => ~(l <= Plus(tail, i) /\ Plus(tail, i) < l + n)
    BY <1>3, <1>5, <1>6, <1>7, Sizes DEF Plus, Dist
  <2>3. i >= u => Plus(tail, i) = l + (i - u)
    BY <1>3, <1>5, <1>6, <1>7, Sizes DEF Plus, Dist
  <2>4. i >= u => l <= Plus(tail, i) /\ Plus(tail, i) < l + n /\ Plus(tail, i) - l = i - u
    BY <1>5, <2>3, Sizes
  <2> QED
    BY <1>12, <2>1, <2>2, <2>4
<1>15. TypeOK'
  <2>1. NoChunk \in ChunkType
    BY Sizes DEF NoChunk, ChunkType, Byte
  <2>2. chunk' \in [Task -> ChunkType]
    BY <1>0, <1>1, <2>1 DEF TypeOK, ChunkType
  <2> QED
    BY <1>0, <1>1, <1>13, <2>2 DEF TypeOK, ChunkType, Content
<1>16. Inside' /\ OneCopy' /\ Chunks'
  BY <1>0, <1>1, <1>9, <1>10 DEF Inside, OneCopy, Chunks
<1>17. Bytes'
  <2>1. Stamped(ring, tail, l, s)
    BY <1>0, <1>2, <1>4 DEF Bytes, Under, Stamped
  <2>2. \A i \in 0 .. u - 1 : ring[Plus(tail, i)] = Stamp(s - u + i)
    <3>1. IsStamped(ring, tail, l, s)
      BY <1>3, <2>1, StampedIs
    <3> QED
      BY <1>7, <3>1 DEF IsStamped
  <2>3. ASSUME NEW i \in 0 .. p - 1
        PROVE  ring'[Plus(tail, i)] = Stamp(accepted - p + i)
    <3>1. CASE i < u
      <4>1. ring'[Plus(tail, i)] = Stamp(s - u + i)
        BY <1>14, <2>2, <3>1
      <4> QED
        BY <1>5, <1>8, <3>1, <4>1, Sizes DEF Stamp, Byte
    <3>2. CASE i >= u
      BY <1>5, <1>8, <1>14, <3>2, Sizes DEF Stamp, Byte
    <3> QED
      BY <1>5, <3>1, <3>2
  <2>4. IsStamped(ring', tail, head, accepted)
    BY <1>6, <2>3 DEF IsStamped
  <2>5. Stamped(ring', tail, head, accepted)
    BY <1>3, <2>4, StampedIs
  <2> QED
    BY <1>1, <1>11, <2>5 DEF Bytes, Under, Stamped
<1>18. IInv'
  BY <1>15, <1>16, <1>17 DEF IInv
<1>19. Fifo!Accept(n)
  <2>1. /\ UnderWay \in Seq(Content) /\ Len(UnderWay) = u
        /\ \A i \in 1 .. u : UnderWay[i] = ring[Plus(tail, i - 1)]
    <3>1. UnderWay = Between(ring, tail, l)
      BY <1>2, <1>4 DEF UnderWay, Between
    <3>2. IsBetween(UnderWay, ring, tail, l)
      BY <1>3, <3>1, BetweenIs
    <3> QED
      BY <1>7, <3>2 DEF IsBetween
  <2>2. /\ UnderWay' \in Seq(Content) /\ Len(UnderWay') = p
        /\ \A i \in 1 .. p : UnderWay'[i] = ring'[Plus(tail, i - 1)]
    <3>1. UnderWay' = Between(ring', tail, head)
      BY <1>1, <1>11 DEF UnderWay, Between
    <3>2. IsBetween(UnderWay', ring', tail, head)
      BY <1>3, <1>13, <3>1, BetweenIs
    <3> QED
      BY <1>6, <3>2 DEF IsBetween
  <2> DEFINE r == Fifo!Run(s, n)
  <2>3. /\ r \in Seq(Content) /\ Len(r) = n
        /\ \A i \in 1 .. n : r[i] = Stamp(s + (i - 1))
    <3>1. r = [i \in 1 .. n |-> (s + i - 1) % Stamps]
      BY DEF Fifo!Run
    <3>2. ASSUME NEW i \in 1 .. n
          PROVE  (s + i - 1) % Stamps = Stamp(s + (i - 1)) /\ (s + i - 1) % Stamps \in Content
      <4>1. PICK a \in -Stamps .. 2 * Stamps - 1 : a = s + i - 1 /\ a = s + (i - 1)
        BY Sizes DEF Byte
      <4> QED
        BY <4>1, StampIs DEF Content
    <3>3. r \in [1 .. n -> Content] /\ n \in Nat
      BY <3>1, <3>2, Sizes
    <3> HIDE DEF r
    <3>4. r \in Seq(Content) /\ Len(r) = n
      BY <3>3, IsSequence
    <3> QED
      BY <3>1, <3>2, <3>4
  <2> HIDE DEF r
  <2>4. /\ UnderWay \o r \in Seq(Content) /\ Len(UnderWay \o r) = p
        /\ \A i \in 1 .. p : (UnderWay \o r)[i] = IF i <= u THEN UnderWay[i] ELSE r[i - u]
    <3>1. /\ UnderWay \o r \in Seq(Content) /\ Len(UnderWay \o r) = u + n
          /\ \A i \in 1 .. u + n :
                (UnderWay \o r)[i] = IF i <= u THEN UnderWay[i] ELSE r[i - u]
      BY <2>1, <2>3, ConcatProperties
    <3> QED
      BY <1>5, <3>1
  <2>5. ASSUME NEW i \in 1 .. p PROVE UnderWay'[i] = (UnderWay \o r)[i]
    <3>1. PICK j \in 0 .. p - 1 : j = i - 1
      BY Sizes
    <3>2. UnderWay'[i] = ring'[Plus(tail, j)]
      BY <2>2, <3>1
    <3>3. i <= u \/ i > u
      BY <1>4, <1>5, Sizes
    <3>4. CASE i <= u
      <4>1. j < u /\ i \in 1 .. u
        BY <3>1, <3>4, Sizes
      <4>2. UnderWay[i] = ring[Plus(tail, j)]
        BY <2>1, <3>1, <4>1
      <4> QED
        BY <1>14, <2>4, <3>2, <3>4, <4>1, <4>2
    <3>5. CASE i > u
      <4>1. j >= u /\ i - u \in 1 .. n /\ (i - u) - 1 = j - u
        BY <1>5, <3>1, <3>5, Sizes
      <4>2. r[i - u] = Stamp(s + (j - u))
        BY <2>3, <4>1
      <4>3. (UnderWay \o r)[i] = r[i - u]
        BY <2>4, <3>5, Sizes
      <4> QED
        BY <1>14, <3>2, <4>1, <4>2, <4>3
    <3> QED
      BY <3>4, <3>5, <3>3
  <2>6. UnderWay' = UnderWay \o r
    BY <2>2, <2>4, <2>5, SameSequence
  <2>7. Len(UnderWay) + n <= Size - 1
    BY <1>5, <2>1, Sizes
  <2> QED
    BY <1>1, <1>4, <1>6, <1>11, <2>6, <2>7 DEF Fifo!Accept, r
<1> QED
  BY <1>18, <1>19 DEF Fifo!Next

-----------------------------------------------------------------------------
LEMMA IInvInit == Init => IInv /\ Fifo!Init
<1> SUFFICES ASSUME Init PROVE IInv /\ Fifo!Init
  OBVIOUS
<1> USE DEF Init
<1>1. NobodyWaits \in WaitQueues
  BY DEF NobodyWaits, WaitQueues, TaskState, RUNNING
<1>2. NoChunk \in ChunkType /\ NoByte \in Content
  BY Sizes DEF NoChunk, ChunkType, Byte, Content
<1>3. TypeOK
  <2>1. /\ ring \in [0 .. Size - 1 -> Byte \cup {NoByte}] /\ delivered \in Seq(Byte \cup {NoByte})
        /\ chunk \in [Task -> [from : 0 .. Size - 1, chars : 0 .. Size, stamp : Byte]]
    BY <1>2 DEF ChunkType, Content
  <2>2. head \in 0 .. Size - 1 /\ tail \in 0 .. Size - 1 /\ accepted \in Byte
        /\ count \in [Task -> 0 .. MaxCount]
    BY Sizes DEF Byte
  <2> QED
    BY <1>1, <2>1, <2>2, PipeAssumption DEF TypeOK
<1>4. CopyingOut = {} /\ CopyingIn = {}
  BY DEF CopyingOut, CopyingIn
<1>5. First = 0 /\ Last = 0 /\ NextStamp = 0
  BY <1>4, NobodyCopying
<1>6. Dist(0, 0) = 0 /\ 0 \in 0 .. Size - 1
  BY Sizes DEF Dist
<1>7. Under = 0
  BY <1>5, <1>6, DistIs DEF Under
<1>8. Bytes
  BY <1>7 DEF Bytes
<1>9. Inside /\ OneCopy /\ Chunks
  BY <1>4 DEF Inside, OneCopy, Chunks
<1>10. UnderWay = << >>
  <2>1. UnderWay = [i \in 1 .. Under |-> ring[(First + i - 1) % Size]]
    BY DEF UnderWay, Under
  <2>2. 1 .. Under = {}
    BY <1>7
  <2> HIDE DEF Under
  <2> QED
    BY <2>1, <2>2
<1> QED
  BY <1>3, <1>5, <1>8, <1>9, <1>10 DEF IInv, Fifo!Init

LEMMA StepRight ==
    ASSUME IInv, NEW t \in Task, Step(t)
    PROVE  IInv' /\ (Fifo!Next \/ torn' \/ UNCHANGED <<UnderWay, NextStamp, delivered>>)
<1>1. TypeOK
  BY DEF IInv
<1>2. ASSUME NEW l \in Labels, Quiet(t, l)
      PROVE  IInv' /\ UNCHANGED <<UnderWay, NextStamp, delivered>>
  BY <1>2, QuietRight
<1> QED
  BY <1>1, <1>2, QuietSteps, ReadChunkRight, WriteChunkRight, CopyOutRight, CopyInRight DEF Step

LEMMA UnchangedRight ==
    ASSUME IInv, UNCHANGED vars
    PROVE  IInv' /\ UNCHANGED <<UnderWay, NextStamp, delivered>>
<1> USE DEF vars
<1>1. TypeOK' /\ torn' = torn
  BY DEF IInv, TypeOK
<1>2. First' = First /\ Last' = Last /\ NextStamp' = NextStamp
      /\ CopyingOut' = CopyingOut /\ CopyingIn' = CopyingIn /\ PIPE_SIZE' = PIPE_SIZE
  BY DEF First, Last, NextStamp, CopyingOut, CopyingIn, PIPE_SIZE
<1>3. ~torn => Inside' /\ OneCopy' /\ Chunks' /\ Bytes'
  BY <1>2 DEF IInv, Inside, OneCopy, Chunks, OutChunk, InChunk, Bytes, Under
<1> QED
  BY <1>1, <1>2, <1>3 DEF IInv, UnderWay

LEMMA SpecIInv == Spec => []IInv
<1>1. IInv /\ [Next]_vars => IInv'
  BY StepRight, UnchangedRight DEF Next
<1> QED
  BY <1>1, IInvInit, PTL DEF Spec

\* However the readers, the writers and their page faults interleave, the
\* ring's indices, the counts and the chunks of the calls stay in their range.
THEOREM TypeCorrect == Spec => []TypeOK
<1>1. IInv => TypeOK
  BY DEF IInv
<1> QED
  BY <1>1, SpecIInv, PTL

\* A reader is given the bytes that were written, in order: none is read before
\* it is copied in, none overwritten before it is copied out, as long as nobody
\* uses the pipe while a copy waits for a page.
THEOREM ReadersGetTheirBytes == Spec => []ReadersGetWhatWasWritten
<1>1. ASSUME IInv, ~torn, NEW t \in CopyingOut, NEW i \in 0 .. chunk[t].chars - 1
      PROVE  ring[chunk[t].from + i] = (chunk[t].stamp + i) % Stamps
  <2>1. t \in Task /\ pc[t] \in OutLabels
    BY DEF CopyingOut, OutLabels
  <2>2. /\ First = chunk[t].from /\ Last = head /\ NextStamp = accepted
        /\ First \in 0 .. Size - 1 /\ chunk[t].chars \in 1 .. Size - 1
        /\ First + chunk[t].chars <= Size
        /\ Under = chunk[t].chars + PIPE_SIZE /\ Under = Dist(head, First)
        /\ Under \in 0 .. Size - 1 /\ chunk[t].stamp = (accepted - Under) % Stamps
    BY <1>1, <2>1, OutIs
  <2>3. PIPE_SIZE \in 0 .. Size - 1 /\ head \in 0 .. Size - 1 /\ accepted \in Byte
    BY <1>1, Filled DEF IInv, TypeOK
  <2>4. PICK f \in 0 .. Size - 1, n \in 1 .. Size - 1, u \in 0 .. Size - 1 :
            f = First /\ n = chunk[t].chars /\ u = Under /\ n <= u
    BY <2>2, <2>3, Sizes
  <2>5. IsStamped(ring, f, head, accepted)
    <3>1. Stamped(ring, f, head, accepted)
      BY <1>1, <2>2, <2>4 DEF IInv, Bytes, Under, Stamped
    <3> QED
      BY <2>3, <3>1, StampedIs
  <2>6. i \in 0 .. u - 1 /\ i < n /\ i \in 0 .. Size - 1
    BY <2>4, Sizes
  <2>7. ring[Plus(f, i)] = Stamp(accepted - u + i)
    BY <2>2, <2>4, <2>5, <2>6 DEF IsStamped
  <2>8. Plus(f, i) = f + i
    <3>1. f + n <= Size
      BY <2>2, <2>4
    <3> QED
      BY <2>6, <3>1, PlusPlus
  <2>9. chunk[t].stamp = Stamp(accepted - u)
    <3>1. PICK a \in -Stamps .. 2 * Stamps - 1 : a = accepted - u
      BY <2>3, Sizes DEF Byte
    <3> QED
      BY <2>2, <2>4, <3>1, StampIs
  <2>10. PICK s \in Byte : s = chunk[t].stamp
    BY <1>1, <2>1 DEF IInv, TypeOK
  <2>11. (s + i) % Stamps = Stamp(s + i)
    <3>1. PICK a \in -Stamps .. 2 * Stamps - 1 : a = s + i
      BY <2>6, Sizes DEF Byte
    <3> QED
      BY <3>1, StampIs
  <2>12. Stamp(s + i) = Stamp(accepted - u + i)
    BY <2>3, <2>6, <2>9, <2>10, Sizes DEF Stamp, Byte
  <2> QED
    BY <2>2, <2>4, <2>7, <2>8, <2>10, <2>11, <2>12
<1>2. IInv => ReadersGetWhatWasWritten
  BY <1>1 DEF ReadersGetWhatWasWritten
<1> QED
  BY <1>2, SpecIInv, PTL

\* The pipe implements a first-in first-out buffer of PAGE_SIZE - 1 bytes:
\* every step of read_pipe and write_pipe accepts a run of bytes, delivers the
\* oldest ones, or does neither, until a copy that waits for a page is overtaken.
THEOREM ImplementsFifo == Spec => IsFifo
<1>1. IInv /\ [Next]_vars => [Fifo!Next \/ torn']_<<UnderWay, NextStamp, delivered>>
  BY StepRight, UnchangedRight DEF Next
<1> QED
  BY <1>1, IInvInit, SpecIInv, PTL DEF Spec, IsFifo

=============================================================================
