------------------------- MODULE BufferCache_proofs -------------------------
(***************************************************************************)
(* Proofs about BufferCache for any number of tasks, buffers and blocks.    *)
(*                                                                         *)
(* A buffer changes its block in TakeBuffer alone, and what TakeBuffer      *)
(* looks at again after its waits is enough for OneBufferPerBlock and       *)
(* QuietReuse.  That the buffer has no transfer under way is not among what *)
(* it looks at: it follows from the lock, which every transfer keeps        *)
(* (TransfersKeepLocks).                                                    *)
(*                                                                         *)
(* The other theorems need the types with the free list in them, the counts *)
(* of the references each label of a task stands for, and, for the          *)
(* contents, what a buffer that is up to date, or was read, or is being     *)
(* transferred has in common with the disk and with the last write.         *)
(***************************************************************************)
EXTENDS BufferCache, FiniteSetTheorems, NaturalsInduction, WellFoundedInduction, TLAPS

\* The header fields the proofs speak of belong to the buffers.
HeadersOfBuffers ==
    /\ blk    = [b \in Buf |-> blk[b]]
    /\ b_lock = [b \in Buf |-> b_lock[b]]
    /\ io     = [b \in Buf |-> io[b]]

\* A buffer with a transfer under way is locked.
TransfersKeepLocks == \A b \in Buf : io[b] # "none" => b_lock[b]

DeviceStep ==
    \E b : \/ dev!LockBuffer(b)
           \/ dev!GiveUp(b)
           \/ dev!Start(b, "READ") \/ dev!Start(b, "WRITE")
           \/ \E ok \in BOOLEAN : dev!Finish(b, ok)

-----------------------------------------------------------------------------
(***************************************************************************)
(* Every step takes a buffer for another block or leaves blk alone, and is  *)
(* a step of the device or leaves the locks and the transfers alone.        *)
(***************************************************************************)
NoHeader == UNCHANGED <<blk, b_lock, io>>
OnDevice == UNCHANGED blk /\ DeviceStep

LEMMA WorksOnHeaders ==
    ASSUME NEW t \in Task, Works(t)
    PROVE  NoHeader \/ OnDevice \/ TakeBuffer(t)
<1> USE DEF NoHeader, OnDevice, DeviceStep, flags, data
<1>1. CASE SleepOnBuffer(t)      BY <1>1 DEF SleepOnBuffer
<1>2. CASE FindInHash(t)         BY <1>2 DEF FindInHash
<1>3. CASE CheckHash(t)          BY <1>3 DEF CheckHash
<1>4. CASE ChooseBuffer(t)       BY <1>4 DEF ChooseBuffer
<1>5. CASE NoBufferFree(t)       BY <1>5 DEF NoBufferFree
<1>6. CASE BufferWaitResumes(t)  BY <1>6 DEF BufferWaitResumes
<1>7. CASE TryAgain(t)           BY <1>7 DEF TryAgain
<1>8. CASE SyncFirst(t)          BY <1>8 DEF SyncFirst
<1>9. CASE SyncSkips(t)          BY <1>9 DEF SyncSkips
<1>10. CASE SyncLocks(t)         BY <1>10 DEF SyncLocks
<1>11. CASE SyncWrites(t)        BY <1>11 DEF SyncWrites
<1>12. CASE WaitsForRequest(t)   BY <1>12 DEF WaitsForRequest
<1>13. CASE ReadLocks(t)         BY <1>13 DEF ReadLocks
<1>14. CASE ReadQueued(t)        BY <1>14 DEF ReadQueued
<1>15. CASE ReadNotNeeded(t)     BY <1>15 DEF ReadNotNeeded
<1>16. CASE AheadLocks(t)        BY <1>16 DEF AheadLocks
<1>17. CASE AheadQueued(t)       BY <1>17 DEF AheadQueued, DropAhead
<1>18. CASE AheadNotNeeded(t)    BY <1>18 DEF AheadNotNeeded, DropAhead
<1>19. CASE ReadDone(t)          BY <1>19 DEF ReadDone
<1>20. CASE CallBrelse(t)        BY <1>20 DEF CallBrelse
<1>21. CASE Brelse(t)            BY <1>21 DEF Brelse
<1>22. CASE CallSync(t)          BY <1>22 DEF CallSync, Begin
<1>23. CASE \E x \in Block : CallBread(t, x)
  BY <1>23 DEF CallBread, Begin
<1>24. CASE \E x, y \in Block : CallBreada(t, x, y)
  BY <1>24 DEF CallBreada, Begin
<1>25. CASE Modify(t)
  BY <1>25 DEF Modify, NewContents
<1> QED
  BY <1>1, <1>2, <1>3, <1>4, <1>5, <1>6, <1>7, <1>8, <1>9, <1>10, <1>11, <1>12,
     <1>13, <1>14, <1>15, <1>16, <1>17, <1>18, <1>19, <1>20, <1>21, <1>22, <1>23,
     <1>24, <1>25
     DEF Works

LEMMA StepsOnHeaders ==
    ASSUME [Next]_vars
    PROVE  NoHeader \/ OnDevice \/ \E t \in Task : TakeBuffer(t)
<1>1. ASSUME NEW t \in Task, ClearsNew(t) PROVE NoHeader
  BY <1>1 DEF ClearsNew, CallNewBlock, Begin, ClearNewBlock, NewContents, NoHeader,
              flags
<1>2. CASE Interrupts
  BY <1>2 DEF Interrupts, EndTransfer, OnDevice, DeviceStep
<1>3. CASE UNCHANGED vars
  BY <1>3 DEF vars, flags, NoHeader
<1> QED
  BY <1>1, <1>2, <1>3, WorksOnHeaders DEF Next

-----------------------------------------------------------------------------
LEMMA HeadersInit == Init => HeadersOfBuffers /\ TransfersKeepLocks
BY DEF Init, dev!Init, HeadersOfBuffers, TransfersKeepLocks

LEMMA HeadersNext ==
    HeadersOfBuffers /\ TransfersKeepLocks /\ [Next]_vars
        => HeadersOfBuffers' /\ TransfersKeepLocks'
<1> SUFFICES ASSUME HeadersOfBuffers, TransfersKeepLocks, [Next]_vars
             PROVE  HeadersOfBuffers' /\ TransfersKeepLocks'
  OBVIOUS
<1> USE DEF HeadersOfBuffers, TransfersKeepLocks
<1>1. CASE NoHeader
  BY <1>1 DEF NoHeader
<1>2. CASE OnDevice
  <2> USE <1>2 DEF OnDevice
  <2>1. ASSUME NEW b, dev!LockBuffer(b) PROVE HeadersOfBuffers' /\ TransfersKeepLocks'
    BY <2>1 DEF dev!LockBuffer
  <2>2. ASSUME NEW b, dev!GiveUp(b) PROVE HeadersOfBuffers' /\ TransfersKeepLocks'
    BY <2>2 DEF dev!GiveUp
  <2>3. ASSUME NEW b, NEW cmd, dev!Start(b, cmd)
        PROVE  HeadersOfBuffers' /\ TransfersKeepLocks'
    BY <2>3 DEF dev!Start
  <2>4. ASSUME NEW b, NEW ok, dev!Finish(b, ok)
        PROVE  HeadersOfBuffers' /\ TransfersKeepLocks'
    BY <2>4 DEF dev!Finish
  <2> QED
    BY <2>1, <2>2, <2>3, <2>4 DEF DeviceStep
<1>3. ASSUME NEW t \in Task, TakeBuffer(t)
      PROVE  HeadersOfBuffers' /\ TransfersKeepLocks'
  BY <1>3 DEF TakeBuffer
<1> QED
  BY <1>1, <1>2, <1>3, StepsOnHeaders

-----------------------------------------------------------------------------
LEMMA NoBlockTwiceInit == Init => NoBlockTwice
BY DEF Init, NoBlockTwice

LEMMA NoBlockTwiceNext ==
    HeadersOfBuffers /\ NoBlockTwice /\ [Next]_vars => NoBlockTwice'
<1> SUFFICES ASSUME HeadersOfBuffers, NoBlockTwice, [Next]_vars PROVE NoBlockTwice'
  OBVIOUS
<1>1. CASE NoHeader \/ OnDevice
  BY <1>1 DEF NoHeader, OnDevice, NoBlockTwice
<1>2. ASSUME NEW t \in Task, TakeBuffer(t) PROVE NoBlockTwice'
  <2>1. \A c \in Buf : blk[c] # op[t].block
    BY <1>2 DEF TakeBuffer, Reusable, Cached
  <2>2. blk' = [blk EXCEPT ![op[t].bh] = op[t].block]
    BY <1>2 DEF TakeBuffer
  <2> QED
    BY <2>1, <2>2 DEF HeadersOfBuffers, NoBlockTwice
<1> QED
  BY <1>1, <1>2, StepsOnHeaders

\* However many tasks ask getblk for however many blocks, and wherever they
\* sleep on the way, no block gets into two buffers.
THEOREM OneBufferPerBlock == Spec => []NoBlockTwice
BY HeadersInit, HeadersNext, NoBlockTwiceInit, NoBlockTwiceNext, PTL DEF Spec

LEMMA ReuseStep ==
    ASSUME HeadersOfBuffers, TransfersKeepLocks, [Next]_vars,
           NEW b \in Buf, blk'[b] # blk[b]
    PROVE  b_count[b] = 0 /\ ~b_lock[b] /\ ~b_dirt[b] /\ io[b] = "none"
<1>1. PICK t \in Task : TakeBuffer(t)
  BY StepsOnHeaders DEF NoHeader, OnDevice
<1>2. b = op[t].bh
  BY <1>1 DEF TakeBuffer, HeadersOfBuffers
<1>3. b_count[b] = 0 /\ ~b_dirt[b]
  BY <1>1, <1>2 DEF TakeBuffer, Reusable
<1>4. ~b_lock[b]
  BY <1>1, <1>2 DEF TakeBuffer, Unlocked, Resumes, Awaited
<1> QED
  BY <1>3, <1>4 DEF TransfersKeepLocks

\* getblk never takes a buffer away that is in use, locked, modified or being
\* transferred, whatever has happened to it while getblk slept.
THEOREM QuietReuse == Spec => OnlyQuietBuffersAreReused
<1> DEFINE Quiet == \A b \in Buf : blk'[b] # blk[b] =>
                        b_count[b] = 0 /\ ~b_lock[b] /\ ~b_dirt[b] /\ io[b] = "none"
<1>1. HeadersOfBuffers /\ TransfersKeepLocks /\ [Next]_vars => [Quiet]_vars
  BY ReuseStep
<1> QED
  BY <1>1, HeadersInit, HeadersNext, PTL DEF Spec, OnlyQuietBuffersAreReused

-----------------------------------------------------------------------------
(***************************************************************************)
(* The invariant behind the other theorems: the locals of the calls, what   *)
(* a transfer may meet, and where the current contents of a block are.      *)
(***************************************************************************)
Local(t) ==
    /\ op[t] = NoOp <=> pc[t] \in {"idle", "brelse"}
    /\ op[t] # NoOp => op[t] \in Op /\ holds[t] = NoBuf
    /\ pc[t] = "brelse" => holds[t] \in Buf
    /\ pc[t] \in {"hash_wait", "wait", "got", "read", "reada"} => op[t].bh \in Buf
    /\ pc[t] \in {"sync", "write"} =>
          op[t].i # 0 /\ (op[t].what # "sync" => op[t].bh \in Buf)
    /\ pc[t] \notin {"idle", "brelse", "sync", "write"} => op[t].what # "sync"
    /\ op[t] # NoOp /\ op[t].what \in {"getblk", "sync"} => op[t].first = NoBuf
    /\ pc[t] \in {"read_wait", "reada"} => op[t].first \in Buf
    /\ pc[t] = "read" => op[t].first = NoBuf /\ op[t].what \in {"bread", "breada"}

Locals == \A t \in Task : Local(t)

GotIsUnlocked ==
    \A t \in Task : pc[t] = "got" => running = t /\ ~b_lock[op[t].bh]

Transfers ==
    \A b \in Buf :
        /\ io[b] # "none" => b_lock[b] /\ blk[b] # NoBlock
        /\ io[b] = "READ" => ~b_uptodate[b]
        /\ io[b] = "WRITE" => b_uptodate[b]
        /\ b_dirt[b] => b_uptodate[b] /\ blk[b] # NoBlock
        /\ b_count[b] > 0 => blk[b] # NoBlock

Contents ==
    /\ \A b \in Buf : b_uptodate[b] => mem[b] = Current
    /\ \A b \in Buf : blk[b] # NoBlock /\ ~b_dirt[b] /\ io[b] # "WRITE"
                         => disk[blk[b]] = Current
    /\ \A x \in Block : Cached(x) = {} => disk[x] = Current

Handed == \A t \in Task : pc[t] = "idle" /\ holds[t] # NoBuf => b_uptodate[holds[t]]

IInv == /\ TypeOK /\ Locals /\ CountIsReferences /\ NoBlockTwice
        /\ GotIsUnlocked /\ Transfers /\ Contents /\ Handed

-----------------------------------------------------------------------------
(***************************************************************************)
(* The references of one task, and how a step of one task changes b_count.  *)
(***************************************************************************)
Twice(t, b) == /\ op[t] # NoOp /\ op[t].first = b /\ op[t].bh = b
               /\ pc[t] \in {"hash_wait", "got", "reada"}

Refs(t, b) == (IF b \in Counted(t) THEN 1 ELSE 0) + (IF Twice(t, b) THEN 1 ELSE 0)

OthersSame(t) ==
    \A u \in Task \ {t} : pc'[u] = pc[u] /\ op'[u] = op[u] /\ holds'[u] = holds[u]

CountsMove(t) == \A b \in Buf : b_count'[b] = b_count[b] + Refs(t, b)' - Refs(t, b)

LEMMA CardinalityStep ==
    ASSUME NEW t \in Task, NEW S \in SUBSET Task, NEW R \in SUBSET Task,
           \A u \in Task \ {t} : u \in R <=> u \in S
    PROVE  /\ Cardinality(S) \in Nat /\ Cardinality(R) \in Nat
           /\ Cardinality(R) = Cardinality(S) + (IF t \in R THEN 1 ELSE 0)
                                              - (IF t \in S THEN 1 ELSE 0)
<1>1. IsFiniteSet(S) /\ IsFiniteSet(R)
  BY BufferCacheAssumption, FS_Subset
<1>2. Cardinality(S) \in Nat /\ Cardinality(R) \in Nat
  BY <1>1, FS_CardinalityType
<1>3. CASE t \in S <=> t \in R
  <2>1. S = R
    BY <1>3
  <2> QED
    BY <1>2, <1>3, <2>1
<1>4. CASE t \in S /\ t \notin R
  <2>1. R = S \ {t}
    BY <1>4
  <2>2. Cardinality(R) = Cardinality(S) - 1
    BY <1>1, <1>4, <2>1, FS_RemoveElement
  <2> QED
    BY <1>2, <1>4, <2>2
<1>5. CASE t \notin S /\ t \in R
  <2>1. R = S \cup {t}
    BY <1>5
  <2>2. Cardinality(R) = Cardinality(S) + 1
    BY <1>1, <1>5, <2>1, FS_AddElement
  <2> QED
    BY <1>2, <1>5, <2>2
<1> QED
  BY <1>3, <1>4, <1>5

LEMMA CountsStep ==
    ASSUME CountIsReferences, NEW t \in Task, OthersSame(t), CountsMove(t)
    PROVE  CountIsReferences'
<1>1. ASSUME NEW b \in Buf
      PROVE  b_count'[b] = Cardinality({u \in Task : b \in Counted(u)})'
                         + Cardinality({u \in Task :
                              /\ op[u] # NoOp /\ op[u].first = b /\ op[u].bh = b
                              /\ pc[u] \in {"hash_wait", "got", "reada"}})'
  <2> DEFINE S == {u \in Task : b \in Counted(u)}
             D == {u \in Task : /\ op[u] # NoOp /\ op[u].first = b /\ op[u].bh = b
                                /\ pc[u] \in {"hash_wait", "got", "reada"}}
  <2>1. \A u \in Task \ {t} : u \in S' <=> u \in S
    BY DEF OthersSame, Counted
  <2>2. \A u \in Task \ {t} : u \in D' <=> u \in D
    BY DEF OthersSame
  <2>3. /\ b \in Counted(t) <=> t \in S
        /\ b \in Counted(t)' <=> t \in S'
        /\ Twice(t, b) <=> t \in D
        /\ Twice(t, b)' <=> t \in D'
    BY DEF Twice
  <2>4. b_count[b] = Cardinality(S) + Cardinality(D)
    BY DEF CountIsReferences
  <2>5. S \in SUBSET Task /\ D \in SUBSET Task /\ S' \in SUBSET Task /\ D' \in SUBSET Task
    OBVIOUS
  <2>6. /\ Refs(t, b) = (IF t \in S THEN 1 ELSE 0) + (IF t \in D THEN 1 ELSE 0)
        /\ Refs(t, b)' = (IF t \in S' THEN 1 ELSE 0) + (IF t \in D' THEN 1 ELSE 0)
    BY <2>3 DEF Refs
  <2> HIDE DEF S, D
  <2>7. /\ Cardinality(S) \in Nat /\ Cardinality(S') \in Nat
        /\ Cardinality(S') = Cardinality(S) + (IF t \in S' THEN 1 ELSE 0)
                                            - (IF t \in S THEN 1 ELSE 0)
    BY <2>1, <2>5, CardinalityStep
  <2>8. /\ Cardinality(D) \in Nat /\ Cardinality(D') \in Nat
        /\ Cardinality(D') = Cardinality(D) + (IF t \in D' THEN 1 ELSE 0)
                                            - (IF t \in D THEN 1 ELSE 0)
    BY <2>2, <2>5, CardinalityStep
  <2>9. b_count'[b] = b_count[b] + Refs(t, b)' - Refs(t, b)
    BY DEF CountsMove
  <2>10. b_count'[b] = Cardinality(S') + Cardinality(D')
    BY <2>4, <2>6, <2>7, <2>8, <2>9
  <2> QED
    BY <2>10 DEF S, D
<1> QED
  BY <1>1 DEF CountIsReferences

\* Nobody refers to a buffer whose b_count is 0.
LEMMA Referred ==
    ASSUME CountIsReferences, NEW t \in Task, NEW b \in Buf
    PROVE  /\ b_count[b] \in Nat /\ Refs(t, b) \in Nat
           /\ b_count[b] >= Refs(t, b)
<1> DEFINE S == {u \in Task : b \in Counted(u)}
           D == {u \in Task : /\ op[u] # NoOp /\ op[u].first = b /\ op[u].bh = b
                              /\ pc[u] \in {"hash_wait", "got", "reada"}}
<1>1. b_count[b] = Cardinality(S) + Cardinality(D)
  BY DEF CountIsReferences
<1>2. Refs(t, b) = (IF t \in S THEN 1 ELSE 0) + (IF t \in D THEN 1 ELSE 0)
  BY DEF Refs, Twice
<1>3. S \in SUBSET Task /\ D \in SUBSET Task
  OBVIOUS
<1> HIDE DEF S, D
<1>4. /\ S \ {t} \in SUBSET Task /\ D \ {t} \in SUBSET Task
      /\ \A u \in Task \ {t} : u \in S \ {t} <=> u \in S
      /\ \A u \in Task \ {t} : u \in D \ {t} <=> u \in D
  BY <1>3
<1>5. /\ Cardinality(S) \in Nat /\ Cardinality(S \ {t}) \in Nat
      /\ Cardinality(S \ {t}) = Cardinality(S) + 0 - (IF t \in S THEN 1 ELSE 0)
  BY <1>3, <1>4, CardinalityStep
<1>6. /\ Cardinality(D) \in Nat /\ Cardinality(D \ {t}) \in Nat
      /\ Cardinality(D \ {t}) = Cardinality(D) + 0 - (IF t \in D THEN 1 ELSE 0)
  BY <1>3, <1>4, CardinalityStep
<1> QED
  BY <1>1, <1>2, <1>5, <1>6

-----------------------------------------------------------------------------
(***************************************************************************)
(* The locals of a call after an assignment to one of them.                 *)
(***************************************************************************)
SameBut(o, p, fields) ==
    /\ p \in Op
    /\ p.what = o.what
    /\ "bh" \notin fields => p.bh = o.bh
    /\ "i" \notin fields => p.i = o.i
    /\ "block" \notin fields => p.block = o.block
    /\ "first" \notin fields => p.first = o.first
    /\ p.ahead = o.ahead

LEMMA SetBh ==
    ASSUME TypeOK, NEW t \in Task, op[t] \in Op, NEW b \in Buf, SetOp(t, "bh", b)
    PROVE  SameBut(op[t], op'[t], {"bh"}) /\ op'[t].bh = b /\ op' \in [Task -> Op \cup {NoOp}]
           /\ \A u \in Task \ {t} : op'[u] = op[u]
<1>1. op' = [op EXCEPT ![t] = [op[t] EXCEPT !.bh = b]]
  BY DEF SetOp
<1>2. ASSUME NEW o \in Op
      PROVE  SameBut(o, [o EXCEPT !.bh = b], {"bh"}) /\ [o EXCEPT !.bh = b].bh = b
  BY DEF SameBut, Op
<1>3. op'[t] = [op[t] EXCEPT !.bh = b]
  BY <1>1 DEF TypeOK
<1>4. op'[t] \in Op
  BY <1>2, <1>3 DEF SameBut
<1> QED
  BY <1>1, <1>2, <1>3, <1>4 DEF TypeOK

LEMMA SetI ==
    ASSUME TypeOK, NEW t \in Task, op[t] \in Op, NEW i \in 0 .. 2 * NR_BUFFERS,
           SetOp(t, "i", i)
    PROVE  SameBut(op[t], op'[t], {"i"}) /\ op'[t].i = i /\ op' \in [Task -> Op \cup {NoOp}]
           /\ \A u \in Task \ {t} : op'[u] = op[u]
<1>1. op' = [op EXCEPT ![t] = [op[t] EXCEPT !.i = i]]
  BY DEF SetOp
<1>2. ASSUME NEW o \in Op
      PROVE  SameBut(o, [o EXCEPT !.i = i], {"i"}) /\ [o EXCEPT !.i = i].i = i
  BY DEF SameBut, Op
<1>3. op'[t] = [op[t] EXCEPT !.i = i]
  BY <1>1 DEF TypeOK
<1>4. op'[t] \in Op
  BY <1>2, <1>3 DEF SameBut
<1> QED
  BY <1>1, <1>2, <1>3, <1>4 DEF TypeOK

LEMMA SetFirst ==
    ASSUME TypeOK, NEW t \in Task, op[t] \in Op, FirstIsUnderWay(t)
    PROVE  /\ SameBut(op[t], op'[t], {"first", "block"})
           /\ op'[t].first = op[t].bh /\ op'[t].block = op[t].ahead
           /\ op' \in [Task -> Op \cup {NoOp}]
           /\ \A u \in Task \ {t} : op'[u] = op[u]
<1>1. op' = [op EXCEPT ![t] = [[op[t] EXCEPT !.first = op[t].bh] EXCEPT !.block = op[t].ahead]]
  BY DEF FirstIsUnderWay, TypeOK
<1>2. ASSUME NEW o \in Op, NEW b \in Buf \cup {NoBuf}
      PROVE  SameBut(o, [o EXCEPT !.first = b], {"first"}) /\ [o EXCEPT !.first = b].first = b
  BY DEF SameBut, Op
<1>3. ASSUME NEW o \in Op, NEW x \in Block
      PROVE  SameBut(o, [o EXCEPT !.block = x], {"block"}) /\ [o EXCEPT !.block = x].block = x
  BY DEF SameBut, Op
<1>4. op'[t] = [[op[t] EXCEPT !.first = op[t].bh] EXCEPT !.block = op[t].ahead]
  BY <1>1 DEF TypeOK
<1>5. op[t].bh \in Buf \cup {NoBuf} /\ op[t].ahead \in Block
  BY DEF Op
<1> DEFINE o == [op[t] EXCEPT !.first = op[t].bh]
<1>6. SameBut(op[t], o, {"first"}) /\ o.first = op[t].bh
  BY <1>2, <1>5
<1>7. SameBut(o, [o EXCEPT !.block = op[t].ahead], {"block"})
      /\ [o EXCEPT !.block = op[t].ahead].block = op[t].ahead
  <2>1. o \in Op
    BY <1>6 DEF SameBut
  <2> HIDE DEF o
  <2> QED
    BY <1>3, <1>5, <2>1
<1>8. op'[t] = [o EXCEPT !.block = op[t].ahead]
  BY <1>4
<1> HIDE DEF o
<1>9. SameBut(op[t], op'[t], {"first", "block"}) /\ op'[t].first = op[t].bh
      /\ op'[t].block = op[t].ahead
  BY <1>6, <1>7, <1>8 DEF SameBut
<1>10. op'[t] \in Op
  BY <1>9 DEF SameBut
<1> QED
  BY <1>1, <1>9, <1>10 DEF TypeOK

LEMMA NoOpIsNone ==
    NoOp \notin Op
BY DEF NoOp, Op

-----------------------------------------------------------------------------
(***************************************************************************)
(* What a step of one task does to its locals and to the counts.            *)
(***************************************************************************)
Labels == WaitLabels \cup {"idle", "getblk", "buffer_wait", "got", "write", "read", "reada"}

TaskTypes ==
    /\ pc \in [Task -> Labels]
    /\ op \in [Task -> Op \cup {NoOp}]
    /\ holds \in [Task -> Buf \cup {NoBuf}]
    /\ running \in Task \cup {NoTask}

Moves(t) == OthersSame(t) /\ TaskTypes' /\ Local(t)' /\ CountsMove(t)

LEMMA RefsAreNumbers == \A t, b : Refs(t, b) \in Nat
BY DEF Refs

LEMMA SameCounts ==
    ASSUME TypeOK, NEW t, UNCHANGED b_count, \A b \in Buf : Refs(t, b)' = Refs(t, b)
    PROVE  CountsMove(t)
BY RefsAreNumbers DEF CountsMove, TypeOK

LEMMA OneCounts ==
    ASSUME TypeOK, NEW t, NEW c \in Buf, NEW n \in {1, -1}, Count(c, n),
           \A b \in Buf : Refs(t, b)' = IF b = c THEN Refs(t, b) + n ELSE Refs(t, b)
    PROVE  CountsMove(t)
<1>1. ASSUME NEW b \in Buf PROVE b_count'[b] = b_count[b] + Refs(t, b)' - Refs(t, b)
  <2>1. b_count[b] \in Nat /\ Refs(t, b) \in Nat /\ n \in Int
    BY RefsAreNumbers, SMTT(40) DEF TypeOK
  <2>2. b_count'[b] = IF b = c THEN b_count[b] + n ELSE b_count[b]
    BY DEF TypeOK, Count
  <2>3. Refs(t, b)' = IF b = c THEN Refs(t, b) + n ELSE Refs(t, b)
    OBVIOUS
  <2> QED
    BY <2>1, <2>2, <2>3
<1> QED
  BY <1>1 DEF CountsMove

\* The task gets to another label with the same locals.
LEMMA LabelMoves ==
    ASSUME TypeOK, NEW t \in Task, Local(t), NEW l \in Labels,
           pc' = [pc EXCEPT ![t] = l], running' \in Task \cup {NoTask},
           UNCHANGED <<b_count, op, holds>>, Local(t)',
           l \in {"hash_wait", "got", "reada"} <=> pc[t] \in {"hash_wait", "got", "reada"},
           l = "read" <=> pc[t] = "read"
    PROVE  Moves(t)
<1>1. OthersSame(t) /\ TaskTypes' /\ pc'[t] = l
  BY DEF TypeOK, OthersSame, TaskTypes, Labels
<1>2. \A b \in Buf : Refs(t, b)' = Refs(t, b)
  BY <1>1 DEF Refs, Counted, Twice
<1> QED
  BY <1>1, <1>2, SameCounts DEF Moves

\* It gets there with other locals.
LEMMA OpMoves ==
    ASSUME TypeOK, NEW t \in Task, NEW l \in Labels,
           pc' = [pc EXCEPT ![t] = l], running' \in Task \cup {NoTask},
           op' \in [Task -> Op \cup {NoOp}], \A u \in Task \ {t} : op'[u] = op[u],
           UNCHANGED holds
    PROVE  OthersSame(t) /\ TaskTypes' /\ pc'[t] = l
BY DEF TypeOK, OthersSame, TaskTypes, Labels

LEMMA SleepMoves ==
    ASSUME IInv, NEW t \in Task,
           \/ SleepOnBuffer(t) \/ TryAgain(t) \/ NoBufferFree(t) \/ BufferWaitResumes(t)
           \/ SyncLocks(t) \/ WaitsForRequest(t) \/ CallBrelse(t) \/ AheadLocks(t)
           \/ Modify(t)
    PROVE  Moves(t)
<1> USE DEF GoTo, GoesOn, In, Resumes, Unlocked
<1>0. TypeOK /\ Local(t)
  BY DEF IInv, Locals
<1>1. CASE SleepOnBuffer(t) \/ WaitsForRequest(t) \/ Modify(t)
  <2>1. UNCHANGED <<b_count, pc, op, holds>> /\ running' \in Task \cup {NoTask}
    BY <1>0, <1>1 DEF SleepOnBuffer, WaitsForRequest, Modify, NewContents, TypeOK
  <2>2. pc' = [pc EXCEPT ![t] = pc[t]] /\ pc[t] \in Labels
    BY <1>0, <2>1 DEF TypeOK, Labels
  <2>3. Local(t)'
    BY <1>0, <2>1 DEF Local
  <2> QED
    BY <1>0, <2>1, <2>2, <2>3, LabelMoves
<1>2. ASSUME NEW l \in Labels, pc' = [pc EXCEPT ![t] = l],
             running' \in Task \cup {NoTask}, UNCHANGED <<b_count, op, holds>>,
             \/ pc[t] = "wait" /\ l = "getblk"
             \/ pc[t] = "getblk" /\ l = "buffer_wait"
             \/ pc[t] = "buffer_wait" /\ l = "getblk"
             \/ pc[t] = "sync" /\ l = "write"
             \/ pc[t] = "idle" /\ l = "brelse" /\ holds[t] # NoBuf
             \/ pc[t] = "got" /\ l = "reada" /\ op[t].first # NoBuf
      PROVE  Moves(t)
  <2>1. pc'[t] = l
    BY <1>0, <1>2 DEF TypeOK
  <2>2. Local(t)'
    BY <1>0, <1>2, <2>1 DEF Local, TypeOK, Op
  <2> QED
    BY <1>0, <1>2, <2>2, LabelMoves
<1>3. /\ "getblk" \in Labels /\ "buffer_wait" \in Labels /\ "write" \in Labels
      /\ "brelse" \in Labels /\ "reada" \in Labels
  BY DEF Labels, WaitLabels
<1>4. CASE TryAgain(t)           BY <1>2, <1>3, <1>4 DEF TryAgain
<1>5. CASE NoBufferFree(t)       BY <1>2, <1>3, <1>5 DEF NoBufferFree
<1>6. CASE BufferWaitResumes(t)  BY <1>2, <1>3, <1>6 DEF BufferWaitResumes
<1>7. CASE SyncLocks(t)          BY <1>2, <1>3, <1>7 DEF SyncLocks
<1>8. CASE CallBrelse(t)         BY <1>2, <1>3, <1>8 DEF CallBrelse
<1>9. CASE AheadLocks(t)
  BY <1>0, <1>2, <1>3, <1>9 DEF AheadLocks, GotAhead, TypeOK
<1> QED
  BY <1>1, <1>4, <1>5, <1>6, <1>7, <1>8, <1>9

\* get_hash_table.
LEMMA HashMoves ==
    ASSUME IInv, NEW t \in Task, FindInHash(t) \/ CheckHash(t)
    PROVE  Moves(t)
<1> USE DEF GoTo, GoesOn, In, Resumes, Unlocked
<1>0. TypeOK /\ Local(t)
  BY DEF IInv, Locals
<1>1. op[t] \in Op /\ op[t] # NoOp
  BY <1>0 DEF FindInHash, CheckHash, Local
<1>2. "hash_wait" \in Labels /\ "got" \in Labels /\ "getblk" \in Labels
  BY DEF Labels, WaitLabels
<1>3. CASE FindInHash(t)
  <2>1. PICK b \in Buf : Count(b, 1) /\ SetOp(t, "bh", b)
    BY <1>3 DEF FindInHash, Cached
  <2>2. /\ SameBut(op[t], op'[t], {"bh"}) /\ op'[t].bh = b /\ op' \in [Task -> Op \cup {NoOp}]
        /\ \A u \in Task \ {t} : op'[u] = op[u]
    BY <1>0, <1>1, <2>1, SetBh
  <2>3. OthersSame(t) /\ TaskTypes' /\ pc'[t] = "hash_wait"
    BY <1>0, <1>2, <1>3, <2>2, OpMoves DEF FindInHash, TypeOK
  <2>4. /\ pc[t] = "getblk" /\ holds' = holds /\ op'[t] \in Op /\ op'[t] # NoOp
        /\ op'[t].first = op[t].first /\ op'[t].what = op[t].what
    BY <1>3, <2>2, NoOpIsNone DEF FindInHash, SameBut
  <2>5. Local(t)'
    BY <1>0, <1>1, <2>2, <2>3, <2>4 DEF Local
  <2>6. \A c \in Buf : Refs(t, c)' = IF c = b THEN Refs(t, c) + 1 ELSE Refs(t, c)
    BY <1>1, <2>2, <2>3, <2>4 DEF Refs, Counted, Twice, NoBuf, Buf
  <2>7. CountsMove(t)
    BY <1>0, <2>1, <2>6, OneCounts
  <2> QED
    BY <2>3, <2>5, <2>7 DEF Moves
<1>4. CASE CheckHash(t)
  <2>1. pc[t] = "hash_wait" /\ op' = op /\ holds' = holds /\ running' \in Task \cup {NoTask}
        /\ op[t].bh \in Buf
    BY <1>0, <1>4 DEF CheckHash, Local
  <2>2. CASE blk[op[t].bh] = op[t].block
    <3>1. pc' = [pc EXCEPT ![t] = "got"] /\ b_count' = b_count
      BY <1>4, <2>2 DEF CheckHash
    <3>2. Local(t)'
      BY <1>0, <2>1, <3>1 DEF Local, TypeOK
    <3> QED
      BY <1>0, <1>2, <2>1, <3>1, <3>2, LabelMoves
  <2>3. CASE blk[op[t].bh] # op[t].block
    <3>1. pc' = [pc EXCEPT ![t] = "getblk"] /\ Count(op[t].bh, -1)
      BY <1>4, <2>3 DEF CheckHash
    <3>2. OthersSame(t) /\ TaskTypes' /\ pc'[t] = "getblk"
      BY <1>0, <1>2, <2>1, <3>1, OpMoves DEF TypeOK
    <3>3. Local(t)'
      BY <1>0, <2>1, <3>2 DEF Local
    <3>4. \A c \in Buf : Refs(t, c)' = IF c = op[t].bh THEN Refs(t, c) + (-1) ELSE Refs(t, c)
      BY <1>1, <2>1, <3>2 DEF Refs, Counted, Twice, NoBuf, Buf
    <3>5. CountsMove(t)
      BY <1>0, <2>1, <3>1, <3>4, OneCounts
    <3> QED
      BY <3>2, <3>3, <3>5 DEF Moves
  <2> QED
    BY <2>2, <2>3
<1> QED
  BY <1>3, <1>4

LEMMA HasLeast ==
    ASSUME NEW S, S \subseteq Nat, S # {}
    PROVE  \E x \in S : \A y \in S : x <= y
<1> DEFINE R == {ss \in Nat \X Nat : ss[1] < ss[2]}
<1>1. IsWellFoundedOn(R, Nat)
  BY NatLessThanWellFounded DEF OpToRel
<1>2. PICK x \in S : \A y \in S : ~(<<y, x>> \in R)
  BY <1>1, WFMin
<1>3. ASSUME NEW y \in S PROVE x <= y
  <2>1. ~(<<y, x>> \in R) /\ <<y, x>> \in Nat \X Nat
    BY <1>2
  <2> QED
    BY <2>1
<1> QED
  BY <1>3

\* getblk finds one of the unused buffers, if there is any.
LEMMA CandidateIsUnused ==
    ASSUME TypeOK, Candidate # NoBuf
    PROVE  Candidate \in Buf /\ b_count[Candidate] = 0
<1> DEFINE unused == {i \in 1 .. NR_BUFFERS : b_count[free_list[i]] = 0}
           best == {i \in unused : \A j \in unused :
                       BADNESS(free_list[i]) <= BADNESS(free_list[j])}
           bad == {BADNESS(free_list[i]) : i \in unused}
<1>1. unused # {} /\ Candidate = free_list[CHOOSE i \in best : \A j \in best : i <= j]
  BY DEF Candidate
<1>2. \A i \in 1 .. NR_BUFFERS : free_list[i] \in Buf
  BY DEF TypeOK
<1>3. bad \subseteq Nat /\ bad # {}
  BY <1>1 DEF BADNESS
<1>4. best # {}
  <2> HIDE DEF bad
  <2>1. PICK x \in bad : \A y \in bad : x <= y
    BY <1>3, HasLeast
  <2>2. PICK i \in unused : BADNESS(free_list[i]) = x
    BY DEF bad
  <2>3. \A j \in unused : BADNESS(free_list[j]) \in bad
    BY DEF bad
  <2>4. i \in best
    BY <2>1, <2>2, <2>3
  <2> QED
    BY <2>4
<1>5. best \subseteq Nat
  BY BufferCacheAssumption
<1>6. (CHOOSE i \in best : \A j \in best : i <= j) \in best
  <2> HIDE DEF best
  <2>1. \E i \in best : \A j \in best : i <= j
    BY <1>4, <1>5, HasLeast
  <2> QED
    BY <2>1
<1>7. PICK i \in unused : Candidate = free_list[i]
  <2>1. best \subseteq unused
    OBVIOUS
  <2> HIDE DEF best, unused
  <2> QED
    BY <1>1, <1>6, <2>1
<1> QED
  BY <1>2, <1>7

\* Everything of getblk from the free list on.
LEMMA GetblkMoves ==
    ASSUME IInv, NEW t \in Task, ChooseBuffer(t) \/ SyncFirst(t) \/ TakeBuffer(t)
    PROVE  Moves(t)
<1> USE DEF GoTo, GoesOn, In, Resumes, Unlocked
<1>0. TypeOK /\ Local(t) /\ CountIsReferences
  BY DEF IInv, Locals
<1>1. op[t] \in Op /\ op[t] # NoOp
  BY <1>0 DEF ChooseBuffer, SyncFirst, TakeBuffer, Local
<1>2. "wait" \in Labels /\ "got" \in Labels /\ "sync" \in Labels
  BY DEF Labels, WaitLabels
<1>3. CASE ChooseBuffer(t)
  <2>1. PICK b \in Buf : SetOp(t, "bh", b)
    BY <1>0, <1>3, CandidateIsUnused DEF ChooseBuffer
  <2>2. /\ SameBut(op[t], op'[t], {"bh"}) /\ op'[t].bh = b /\ op' \in [Task -> Op \cup {NoOp}]
        /\ \A u \in Task \ {t} : op'[u] = op[u]
    BY <1>0, <1>1, <2>1, SetBh
  <2>3. OthersSame(t) /\ TaskTypes' /\ pc'[t] = "wait"
    BY <1>0, <1>2, <1>3, <2>2, OpMoves DEF ChooseBuffer, TypeOK
  <2>4. /\ pc[t] = "getblk" /\ holds' = holds /\ op'[t] \in Op /\ op'[t] # NoOp
        /\ op'[t].first = op[t].first /\ op'[t].what = op[t].what
    BY <1>3, <2>2, NoOpIsNone DEF ChooseBuffer, SameBut
  <2>5. Local(t)'
    BY <1>0, <1>1, <2>2, <2>3, <2>4 DEF Local
  <2>6. \A c \in Buf : Refs(t, c)' = Refs(t, c)
    BY <1>1, <2>3, <2>4 DEF Refs, Counted, Twice
  <2>7. CountsMove(t)
    BY <1>0, <1>3, <2>6, SameCounts DEF ChooseBuffer
  <2> QED
    BY <2>3, <2>5, <2>7 DEF Moves
<1>4. CASE SyncFirst(t)
  <2>1. SetOp(t, "i", 1) /\ 1 \in 0 .. 2 * NR_BUFFERS
    BY <1>4, BufferCacheAssumption DEF SyncFirst
  <2>2. /\ SameBut(op[t], op'[t], {"i"}) /\ op'[t].i = 1 /\ op' \in [Task -> Op \cup {NoOp}]
        /\ \A u \in Task \ {t} : op'[u] = op[u]
    BY <1>0, <1>1, <2>1, SetI
  <2>3. OthersSame(t) /\ TaskTypes' /\ pc'[t] = "sync"
    BY <1>0, <1>2, <1>4, <2>2, OpMoves DEF SyncFirst, TypeOK
  <2>4. /\ pc[t] = "wait" /\ holds' = holds /\ op'[t] \in Op /\ op'[t] # NoOp
        /\ op'[t].first = op[t].first /\ op'[t].what = op[t].what /\ op'[t].bh = op[t].bh
    BY <1>4, <2>2, NoOpIsNone DEF SyncFirst, SameBut
  <2>5. Local(t)'
    BY <1>0, <1>1, <2>2, <2>3, <2>4 DEF Local
  <2>6. \A c \in Buf : Refs(t, c)' = Refs(t, c)
    BY <1>1, <2>3, <2>4 DEF Refs, Counted, Twice
  <2>7. CountsMove(t)
    BY <1>0, <1>4, <2>6, SameCounts DEF SyncFirst
  <2> QED
    BY <2>3, <2>5, <2>7 DEF Moves
<1>5. CASE TakeBuffer(t)
  <2>1. PICK b \in Buf : b = op[t].bh
    BY <1>0, <1>5 DEF TakeBuffer, Local
  <2>2. /\ pc[t] = "wait" /\ b_count[b] = 0 /\ b_count' = [b_count EXCEPT ![b] = 1]
        /\ pc' = [pc EXCEPT ![t] = "got"] /\ running' = t /\ op' = op /\ holds' = holds
    BY <1>5, <2>1 DEF TakeBuffer, Reusable
  <2>3. OthersSame(t) /\ TaskTypes' /\ pc'[t] = "got"
    BY <1>0, <1>2, <2>2, OpMoves DEF TypeOK
  <2>4. Local(t)'
    BY <1>0, <1>1, <2>2, <2>3 DEF Local
  <2>5. Refs(t, b) = 0
    BY <1>0, <2>2, Referred
  <2>6. b \notin Counted(t) /\ ~Twice(t, b)
    BY <2>5 DEF Refs
  <2>7. op[t].first # b
    BY <1>1, <2>6 DEF Counted, NoBuf, Buf
  <2>8. \A c \in Buf : Refs(t, c)' = IF c = b THEN 1 ELSE Refs(t, c)
    BY <1>1, <2>1, <2>2, <2>3, <2>7 DEF Refs, Counted, Twice, NoBuf, Buf
  <2>9. CountsMove(t)
    <3>1. ASSUME NEW c \in Buf PROVE b_count'[c] = b_count[c] + Refs(t, c)' - Refs(t, c)
      <4>1. b_count[c] \in Nat /\ Refs(t, c) \in Nat
        BY <1>0, RefsAreNumbers DEF TypeOK
      <4>2. b_count'[c] = IF c = b THEN 1 ELSE b_count[c]
        BY <1>0, <2>2 DEF TypeOK
      <4> QED
        BY <2>2, <2>5, <2>8, <4>1, <4>2
    <3> QED
      BY <3>1 DEF CountsMove
  <2> QED
    BY <2>3, <2>4, <2>9 DEF Moves
<1> QED
  BY <1>3, <1>4, <1>5

\* sync_dev, whoever has called it.
LEMMA SyncMoves ==
    ASSUME IInv, NEW t \in Task, SyncSkips(t) \/ SyncWrites(t)
    PROVE  Moves(t)
<1> USE DEF GoTo, GoesOn, In, Resumes, Unlocked
<1>0. TypeOK /\ Local(t)
  BY DEF IInv, Locals
<1>1. /\ pc[t] \in {"sync", "write"} /\ holds' = holds /\ b_count' = b_count
      /\ SyncGoesOn(t)
  BY DEF SyncSkips, SyncWrites
<1>2. op[t] \in Op /\ op[t] # NoOp /\ holds[t] = NoBuf
  BY <1>0, <1>1 DEF Local
<1>3. "wait" \in Labels /\ "idle" \in Labels /\ "sync" \in Labels
  BY DEF Labels, WaitLabels
<1>4. op[t].i \in 0 .. 2 * NR_BUFFERS /\ op[t].i # 0 /\ NR_BUFFERS \in Nat
  BY <1>0, <1>1, <1>2, BufferCacheAssumption DEF Op, Local
<1>5. ASSUME NEW i \in 0 .. 2 * NR_BUFFERS, SetOp(t, "i", i), NEW l \in {"sync", "wait"},
             pc' = [pc EXCEPT ![t] = l], running' = t,
             l = "sync" => i # 0,
             l = "wait" => op[t].what # "sync"
      PROVE  Moves(t)
  <2>1. /\ SameBut(op[t], op'[t], {"i"}) /\ op'[t].i = i /\ op' \in [Task -> Op \cup {NoOp}]
        /\ \A u \in Task \ {t} : op'[u] = op[u]
    BY <1>0, <1>2, <1>5, SetI
  <2>2. OthersSame(t) /\ TaskTypes' /\ pc'[t] = l
    BY <1>0, <1>1, <1>3, <1>5, <2>1, OpMoves
  <2>3. /\ op'[t] \in Op /\ op'[t] # NoOp
        /\ op'[t].first = op[t].first /\ op'[t].what = op[t].what /\ op'[t].bh = op[t].bh
    BY <2>1, NoOpIsNone DEF SameBut
  <2>4. Local(t)'
    BY <1>0, <1>1, <1>2, <1>5, <2>1, <2>2, <2>3 DEF Local
  <2>5. \A c \in Buf : Refs(t, c)' = Refs(t, c)
    BY <1>1, <1>2, <2>2, <2>3 DEF Refs, Counted, Twice
  <2>6. CountsMove(t)
    BY <1>0, <1>1, <2>5, SameCounts
  <2> QED
    BY <2>2, <2>4, <2>6 DEF Moves
<1>6. CASE op[t].i < 2 * NR_BUFFERS
  <2>1. op[t].i + 1 \in 0 .. 2 * NR_BUFFERS /\ op[t].i + 1 # 0
    BY <1>4, <1>6
  <2> QED
    BY <1>1, <1>5, <1>6, <2>1 DEF SyncGoesOn
<1>7. CASE ~(op[t].i < 2 * NR_BUFFERS) /\ op[t].what = "sync"
  <2>1. pc' = [pc EXCEPT ![t] = "idle"] /\ running' = NoTask /\ op' = [op EXCEPT ![t] = NoOp]
    BY <1>1, <1>7 DEF SyncGoesOn, Leaves
  <2>2. OthersSame(t) /\ TaskTypes' /\ pc'[t] = "idle" /\ op'[t] = NoOp
    BY <1>0, <1>1, <1>3, <2>1, OpMoves DEF TypeOK
  <2>3. Local(t)'
    BY <1>0, <1>1, <2>2 DEF Local
  <2>4. op[t].first = NoBuf
    BY <1>0, <1>2, <1>7 DEF Local
  <2>5. \A c \in Buf : Refs(t, c)' = Refs(t, c)
    BY <1>1, <1>2, <2>2, <2>4 DEF Refs, Counted, Twice
  <2>6. CountsMove(t)
    BY <1>0, <1>1, <2>5, SameCounts
  <2> QED
    BY <2>2, <2>3, <2>6 DEF Moves
<1>8. CASE ~(op[t].i < 2 * NR_BUFFERS) /\ op[t].what # "sync"
  <2>1. 0 \in 0 .. 2 * NR_BUFFERS
    BY <1>4
  <2> QED
    BY <1>1, <1>5, <1>8, <2>1 DEF SyncGoesOn
<1> QED
  BY <1>6, <1>7, <1>8

\* bread and breada behind getblk.
LEMMA ReadMoves ==
    ASSUME IInv, NEW t \in Task,
           \/ ReadLocks(t) \/ ReadQueued(t) \/ ReadNotNeeded(t)
           \/ AheadQueued(t) \/ AheadNotNeeded(t) \/ ReadDone(t)
    PROVE  Moves(t)
<1> USE DEF GoTo, GoesOn, In, Resumes, Unlocked
<1>0. TypeOK /\ Local(t)
  BY DEF IInv, Locals
<1>1. op[t] \in Op /\ op[t] # NoOp /\ holds[t] = NoBuf
  BY <1>0 DEF ReadLocks, ReadQueued, ReadNotNeeded, AheadQueued, AheadNotNeeded, ReadDone,
              GotFirst, GotAhead, Local
<1>2. /\ "read" \in Labels /\ "read_wait" \in Labels /\ "getblk" \in Labels
      /\ "idle" \in Labels /\ "brelse" \in Labels
  BY DEF Labels, WaitLabels
<1>3. CASE ReadLocks(t)
  <2>1. /\ pc[t] = "got" /\ pc' = [pc EXCEPT ![t] = "read"]
        /\ UNCHANGED <<b_count, op, holds, running>>
        /\ op[t].first = NoBuf /\ op[t].what \in {"bread", "breada"}
    BY <1>3 DEF ReadLocks, GotFirst
  <2>2. OthersSame(t) /\ TaskTypes' /\ pc'[t] = "read"
    BY <1>0, <1>2, <2>1, OpMoves DEF TypeOK
  <2>3. Local(t)'
    BY <1>0, <1>1, <2>1, <2>2 DEF Local
  <2>4. \A c \in Buf : Refs(t, c)' = Refs(t, c)
    BY <1>1, <2>1, <2>2 DEF Refs, Counted, Twice, NoBuf, Buf
  <2>5. CountsMove(t)
    BY <1>0, <2>1, <2>4, SameCounts
  <2> QED
    BY <2>2, <2>3, <2>5 DEF Moves
<1>4. ASSUME FirstIsUnderWay(t), pc[t] \in {"got", "read"}, op[t].first = NoBuf,
             op[t].what \in {"bread", "breada"},
             UNCHANGED <<b_count, holds>>, running' \in Task \cup {NoTask}
      PROVE  Moves(t)
  <2> DEFINE l == IF op[t].what = "bread" THEN "read_wait" ELSE "getblk"
  <2>1. pc' = [pc EXCEPT ![t] = l] /\ l \in {"read_wait", "getblk"} /\ l \in Labels
    BY <1>2, <1>4 DEF FirstIsUnderWay
  <2> HIDE DEF l
  <2>2. /\ SameBut(op[t], op'[t], {"first", "block"})
        /\ op'[t].first = op[t].bh /\ op' \in [Task -> Op \cup {NoOp}]
        /\ \A u \in Task \ {t} : op'[u] = op[u]
    BY <1>0, <1>1, <1>4, SetFirst
  <2>3. OthersSame(t) /\ TaskTypes' /\ pc'[t] = l
    BY <1>0, <1>4, <2>1, <2>2, OpMoves
  <2>4. /\ op'[t] \in Op /\ op'[t] # NoOp /\ op'[t].what = op[t].what
        /\ op'[t].bh = op[t].bh /\ op[t].bh \in Buf /\ holds' = holds
    BY <1>0, <1>4, <2>2, NoOpIsNone DEF SameBut, Local
  <2>5. Local(t)'
    BY <1>1, <1>4, <2>1, <2>2, <2>3, <2>4 DEF Local
  <2>6. \A c \in Buf : Refs(t, c)' = Refs(t, c)
    BY <1>1, <1>4, <2>1, <2>2, <2>3, <2>4 DEF Refs, Counted, Twice, NoBuf, Buf
  <2>7. CountsMove(t)
    BY <1>0, <1>4, <2>6, SameCounts
  <2> QED
    BY <2>3, <2>5, <2>7 DEF Moves
<1>5. CASE ReadQueued(t)
  <2>1. /\ FirstIsUnderWay(t) /\ pc[t] = "read" /\ UNCHANGED <<b_count, holds>>
        /\ running' \in Task \cup {NoTask}
    BY <1>5 DEF ReadQueued
  <2>2. op[t].first = NoBuf /\ op[t].what \in {"bread", "breada"}
    BY <1>0, <2>1 DEF Local
  <2> QED
    BY <1>4, <2>1, <2>2
<1>6. CASE ReadNotNeeded(t)
  BY <1>0, <1>4, <1>6 DEF ReadNotNeeded, GotFirst, TypeOK
<1>7. CASE AheadQueued(t) \/ AheadNotNeeded(t)
  <2>1. /\ pc[t] \in {"got", "reada"} /\ pc' = [pc EXCEPT ![t] = "read_wait"]
        /\ Count(op[t].bh, -1) /\ UNCHANGED <<op, holds, running>>
        /\ op[t].first # NoBuf
    BY <1>0, <1>7 DEF AheadQueued, AheadNotNeeded, GotAhead, DropAhead, Local, NoBuf, Buf
  <2>2. op[t].bh \in Buf /\ op[t].first \in Buf
    BY <1>0, <1>1, <2>1 DEF Local, Op
  <2>3. OthersSame(t) /\ TaskTypes' /\ pc'[t] = "read_wait"
    BY <1>0, <1>2, <2>1, OpMoves DEF TypeOK
  <2>4. Local(t)'
    BY <1>0, <1>1, <2>1, <2>2, <2>3 DEF Local
  <2>5. \A c \in Buf : Refs(t, c)' = IF c = op[t].bh THEN Refs(t, c) + (-1) ELSE Refs(t, c)
    BY <1>1, <2>1, <2>2, <2>3 DEF Refs, Counted, Twice, NoBuf, Buf
  <2>6. CountsMove(t)
    BY <1>0, <2>1, <2>2, <2>5, OneCounts
  <2> QED
    BY <2>3, <2>4, <2>6 DEF Moves
<1>8. CASE ReadDone(t)
  <2>1. /\ pc[t] = "read_wait" /\ op' = [op EXCEPT ![t] = NoOp] /\ op[t].first \in Buf
        /\ holds' = [holds EXCEPT ![t] = op[t].first] /\ b_count' = b_count
    BY <1>0, <1>8 DEF ReadDone, Local
  <2>2. PICK l \in {"idle", "brelse"} : pc' = [pc EXCEPT ![t] = l]
    BY <1>8 DEF ReadDone, Leaves
  <2>3. running' \in Task \cup {NoTask}
    BY <1>8 DEF ReadDone, Leaves
  <2>4. /\ OthersSame(t) /\ TaskTypes' /\ pc'[t] = l /\ op'[t] = NoOp
        /\ holds'[t] = op[t].first
    BY <1>0, <1>2, <2>1, <2>2, <2>3 DEF TypeOK, OthersSame, TaskTypes, Labels
  <2>5. Local(t)'
    BY <2>1, <2>2, <2>4 DEF Local
  <2>6. \A c \in Buf : Refs(t, c)' = Refs(t, c)
    BY <1>1, <2>1, <2>4 DEF Refs, Counted, Twice
  <2>7. CountsMove(t)
    BY <1>0, <2>1, <2>6, SameCounts
  <2> QED
    BY <2>4, <2>5, <2>7 DEF Moves
<1> QED
  BY <1>3, <1>5, <1>6, <1>7, <1>8

\* The calls begin, new_block has its buffer, and brelse.
LEMMA CallMoves ==
    ASSUME IInv, NEW t \in Task,
           \/ \E what, x, y, l, i :
                 /\ Begin(t, what, x, y, l, i)
                 /\ x \in Block /\ y \in Block /\ i \in 0 .. 2 * NR_BUFFERS
                 /\ \/ l = "getblk" /\ what # "sync"
                    \/ l = "sync" /\ what = "sync" /\ i # 0
           \/ ClearNewBlock(t) \/ Brelse(t)
    PROVE  Moves(t)
<1> USE DEF GoTo, GoesOn, In, Resumes, Unlocked
<1>0. TypeOK /\ Local(t)
  BY DEF IInv, Locals
<1>1. "idle" \in Labels /\ "getblk" \in Labels /\ "sync" \in Labels
  BY DEF Labels, WaitLabels
<1>2. ASSUME NEW what, NEW x \in Block, NEW y \in Block, NEW l, NEW i \in 0 .. 2 * NR_BUFFERS,
             Begin(t, what, x, y, l, i),
             \/ l = "getblk" /\ what # "sync"
             \/ l = "sync" /\ what = "sync" /\ i # 0
      PROVE  Moves(t)
  <2> DEFINE o == [what |-> what, block |-> x, bh |-> NoBuf, i |-> i, ahead |-> y,
                   first |-> NoBuf]
  <2>1. what \in {"getblk", "bread", "breada", "sync"}
    BY <1>2, BufferCacheAssumption DEF Begin
  <2>2. o \in Op /\ o.what = what /\ o.bh = NoBuf /\ o.first = NoBuf /\ o.i = i
    BY <2>1 DEF Op
  <2>3. /\ op' = [op EXCEPT ![t] = o] /\ pc' = [pc EXCEPT ![t] = l] /\ running' = t
        /\ pc[t] = "idle" /\ holds[t] = NoBuf /\ UNCHANGED <<b_count, holds>>
    BY <1>2 DEF Begin
  <2> HIDE DEF o
  <2>4. OthersSame(t) /\ TaskTypes' /\ pc'[t] = l /\ op'[t] = o
    BY <1>0, <1>1, <1>2, <2>2, <2>3, OpMoves DEF TypeOK
  <2>5. o # NoOp
    BY <2>2, NoOpIsNone
  <2>6. Local(t)'
    BY <1>2, <2>2, <2>3, <2>4, <2>5 DEF Local
  <2>7. op[t] = NoOp
    BY <1>0, <2>3 DEF Local
  <2>8. \A c \in Buf : Refs(t, c)' = Refs(t, c)
    BY <1>2, <2>2, <2>3, <2>4, <2>5, <2>7 DEF Refs, Counted, Twice, NoBuf, Buf
  <2>9. CountsMove(t)
    BY <1>0, <2>3, <2>8, SameCounts
  <2> QED
    BY <2>4, <2>6, <2>9 DEF Moves
<1>3. CASE ClearNewBlock(t)
  <2>1. /\ pc[t] = "got" /\ op[t].what = "getblk" /\ pc' = [pc EXCEPT ![t] = "idle"]
        /\ op' = [op EXCEPT ![t] = NoOp] /\ holds' = [holds EXCEPT ![t] = op[t].bh]
        /\ b_count' = b_count /\ running' = NoTask
    BY <1>3 DEF ClearNewBlock, Returns, Leaves, NewContents
  <2>2. op[t] # NoOp /\ op[t].bh \in Buf /\ op[t].first = NoBuf
    BY <1>0, <2>1 DEF Local
  <2>3. OthersSame(t) /\ TaskTypes' /\ pc'[t] = "idle" /\ op'[t] = NoOp /\ holds'[t] = op[t].bh
    BY <1>0, <1>1, <2>1, <2>2 DEF TypeOK, OthersSame, TaskTypes, Labels
  <2>4. Local(t)'
    BY <2>3 DEF Local
  <2>5. \A c \in Buf : Refs(t, c)' = Refs(t, c)
    BY <2>1, <2>2, <2>3 DEF Refs, Counted, Twice, NoBuf, Buf
  <2>6. CountsMove(t)
    BY <1>0, <2>1, <2>5, SameCounts
  <2> QED
    BY <2>3, <2>4, <2>6 DEF Moves
<1>4. CASE Brelse(t)
  <2>1. /\ pc[t] = "brelse" /\ pc' = [pc EXCEPT ![t] = "idle"] /\ op' = op
        /\ holds' = [holds EXCEPT ![t] = NoBuf] /\ Count(holds[t], -1) /\ running' = NoTask
    BY <1>4 DEF Brelse, Leaves
  <2>2. op[t] = NoOp /\ holds[t] \in Buf
    BY <1>0, <2>1 DEF Local
  <2>3. OthersSame(t) /\ TaskTypes' /\ pc'[t] = "idle" /\ op'[t] = NoOp /\ holds'[t] = NoBuf
    BY <1>0, <1>1, <2>1, <2>2 DEF TypeOK, OthersSame, TaskTypes, Labels
  <2>4. Local(t)'
    BY <2>3 DEF Local
  <2>5. \A c \in Buf : Refs(t, c)' = IF c = holds[t] THEN Refs(t, c) + (-1) ELSE Refs(t, c)
    BY <2>1, <2>2, <2>3 DEF Refs, Counted, Twice, NoBuf, Buf
  <2>6. CountsMove(t)
    BY <1>0, <2>1, <2>2, <2>5, OneCounts
  <2> QED
    BY <2>3, <2>4, <2>6 DEF Moves
<1> QED
  BY <1>2, <1>3, <1>4

LEMMA TaskMoves ==
    ASSUME IInv, NEW t \in Task, Works(t) \/ ClearsNew(t)
    PROVE  Moves(t)
<1>0. /\ NR_BUFFERS + 1 \in 0 .. 2 * NR_BUFFERS /\ NR_BUFFERS + 1 # 0
      /\ 0 \in 0 .. 2 * NR_BUFFERS
  BY BufferCacheAssumption
<1>1. CASE CallSync(t)
  BY <1>0, <1>1, CallMoves DEF CallSync
<1>2. CASE \E x \in Block : CallBread(t, x)
  BY <1>0, <1>2, CallMoves DEF CallBread
<1>3. CASE \E x, y \in Block : CallBreada(t, x, y)
  BY <1>0, <1>3, CallMoves DEF CallBreada
<1>4. CASE \E x \in Block : CallNewBlock(t, x)
  BY <1>0, <1>4, CallMoves DEF CallNewBlock
<1> QED
  BY <1>1, <1>2, <1>3, <1>4, SleepMoves, HashMoves, GetblkMoves, SyncMoves, ReadMoves, CallMoves
     DEF Works, ClearsNew

-----------------------------------------------------------------------------
(***************************************************************************)
(* What a step of one task does to the buffers.                             *)
(***************************************************************************)
LEMMA MakeRunningType ==
    ASSUME NEW w \in WaitQueues, NEW t \in Task \cup {NoTask}
    PROVE  MakeRunning(w, t) \in WaitQueues
BY DEF MakeRunning, WaitQueues, TaskState, RUNNING

LEMMA WakeUpType ==
    ASSUME NEW w \in WaitQueues, NEW q \in Queue
    PROVE  WakeUp(w, q) \in WaitQueues
<1>1. MakeRunning(w, w.head[q]) \in WaitQueues
  BY MakeRunningType DEF WaitQueues
<1> QED
  BY <1>1 DEF WakeUp, WaitQueues

LEMMA SleepOnType ==
    ASSUME NEW w \in WaitQueues, NEW q \in Queue, NEW t \in Task
    PROVE  SleepOn(w, q, t) \in WaitQueues
BY DEF SleepOn, FallAsleep, WaitQueues, TaskState

LEMMA SleepReturnsType ==
    ASSUME NEW w \in WaitQueues, NEW q \in Queue, NEW t \in Task
    PROVE  SleepReturns(w, q, t) \in WaitQueues
<1>1. MakeRunning(w, w.tmp[t]) \in WaitQueues /\ w.tmp[t] \in Task \cup {NoTask}
  BY MakeRunningType DEF WaitQueues
<1> QED
  BY <1>1 DEF SleepReturns, WaitQueues

\* A buffer that somebody refers to is the buffer of a block.
LEMMA ReferredHasBlock ==
    ASSUME IInv, NEW t \in Task, NEW b \in Buf, b \in Counted(t)
    PROVE  b_count[b] > 0 /\ blk[b] # NoBlock
<1>1. Refs(t, b) >= 1 /\ Refs(t, b) \in Nat
  BY DEF Refs
<1>2. b_count[b] \in Nat /\ b_count[b] >= Refs(t, b)
  BY Referred DEF IInv
<1> QED
  BY <1>1, <1>2 DEF IInv, Transfers

LEMMA VisitedIsBuffer ==
    ASSUME TypeOK, NEW t \in Task, Local(t), pc[t] \in {"sync", "write"}
    PROVE  Visited(t) \in Buf
<1>1. op[t].i \in 0 .. 2 * NR_BUFFERS /\ op[t].i # 0 /\ NR_BUFFERS \in Nat \ {0}
  BY BufferCacheAssumption DEF Local, Op
<1>2. op[t].i - 1 \in Nat
  BY <1>1
<1>3. (op[t].i - 1) % NR_BUFFERS \in 0 .. NR_BUFFERS - 1
  <2> DEFINE k == op[t].i - 1
  <2>1. k \in Nat
    BY <1>2
  <2> HIDE DEF k
  <2>2. k % NR_BUFFERS \in 0 .. NR_BUFFERS - 1
    BY <1>1, <2>1
  <2> QED
    BY <2>2 DEF k
<1> QED
  BY <1>1, <1>3 DEF Visited, Buf

ByDevice(b) ==
    /\ UNCHANGED <<blk, data, free_list>>
    /\ \/ dev!LockBuffer(b) \/ dev!GiveUp(b)
       \/ \E cmd \in dev!Command : dev!Start(b, cmd) /\ blk[b] # NoBlock

Writes(b) ==
    /\ NewContents(b) /\ blk[b] # NoBlock
    /\ \/ b_uptodate' = b_uptodate /\ b_uptodate[b]
       \/ b_uptodate' = [b_uptodate EXCEPT ![b] = TRUE] /\ ~b_lock[b]

OnBuffers(t) ==
    \/ UNCHANGED <<blk, flags, data, free_list>>
    \/ \E b \in Buf : ByDevice(b) \/ Writes(b)
    \/ TakeBuffer(t)

\* Where t leaves getblk or the kernel its buffer is what it should be.
Arrives(t) ==
    /\ pc'[t] = "got" => /\ running' = t /\ ~b_lock[op[t].bh]
                         /\ op'[t] = op[t] /\ b_lock' = b_lock
    /\ pc'[t] = "idle" /\ holds'[t] # NoBuf => b_uptodate'[holds'[t]]

NewlyCounted == \A b \in Buf : b_count'[b] > 0 => b_count[b] > 0 \/ blk'[b] # NoBlock

Effects(t) == /\ running \in {t, NoTask} /\ wq' \in WaitQueues
              /\ OnBuffers(t) /\ Arrives(t) /\ NewlyCounted

LEMMA QuietEffects ==
    ASSUME IInv, NEW t \in Task,
           \/ SleepOnBuffer(t) \/ TryAgain(t) \/ NoBufferFree(t) \/ BufferWaitResumes(t)
           \/ WaitsForRequest(t) \/ CallBrelse(t) \/ ChooseBuffer(t) \/ SyncFirst(t)
           \/ SyncSkips(t) \/ ReadNotNeeded(t)
           \/ \E what, x, y, i : \E l \in {"sync", "getblk"} : Begin(t, what, x, y, l, i)
    PROVE  Effects(t)
<1> USE DEF GoTo, GoesOn, In, Resumes, Unlocked
<1>0. TypeOK /\ Local(t)
  BY DEF IInv, Locals
<1>1. /\ UNCHANGED <<blk, b_count, flags, data, free_list, holds>>
      /\ running \in {t, NoTask}
  BY DEF SleepOnBuffer, TryAgain, NoBufferFree, BufferWaitResumes, WaitsForRequest,
     CallBrelse, ChooseBuffer, SyncFirst, SyncSkips, ReadNotNeeded, GotFirst, Begin
<1>2. wq' \in WaitQueues
  <2>1. CASE NoBufferFree(t)
    BY <1>0, <2>1, SleepOnType, BufferCacheAssumption DEF NoBufferFree, TypeOK
  <2>2. CASE BufferWaitResumes(t)
    BY <1>0, <2>2, SleepReturnsType, BufferCacheAssumption DEF BufferWaitResumes, TypeOK
  <2>3. CASE wq' = wq
    BY <1>0, <2>3 DEF TypeOK
  <2> QED
    BY <2>1, <2>2, <2>3 DEF SleepOnBuffer, TryAgain, WaitsForRequest,
     CallBrelse, ChooseBuffer, SyncFirst, SyncSkips, ReadNotNeeded, Begin
<1>3. pc'[t] # "got" /\ (pc'[t] = "idle" => holds[t] = NoBuf)
  <2>1. CASE SleepOnBuffer(t) \/ WaitsForRequest(t)
    BY <1>0, <2>1 DEF SleepOnBuffer, WaitsForRequest, WaitLabels
  <2>2. CASE \/ TryAgain(t) \/ NoBufferFree(t) \/ BufferWaitResumes(t)
             \/ CallBrelse(t) \/ ChooseBuffer(t) \/ SyncFirst(t)
    BY <1>0, <2>2 DEF TryAgain, NoBufferFree, BufferWaitResumes, CallBrelse, ChooseBuffer,
       SyncFirst, TypeOK
  <2>3. CASE SyncSkips(t)
    BY <1>0, <2>3 DEF SyncSkips, SyncGoesOn, Leaves, Local, TypeOK
  <2>4. CASE ReadNotNeeded(t)
    BY <1>0, <2>4 DEF ReadNotNeeded, FirstIsUnderWay, TypeOK
  <2>5. ASSUME NEW what, NEW x, NEW y, NEW i, NEW l \in {"sync", "getblk"},
               Begin(t, what, x, y, l, i)
        PROVE  pc'[t] # "got" /\ pc'[t] # "idle"
    BY <1>0, <2>5 DEF Begin, TypeOK
  <2> QED
    BY <2>1, <2>2, <2>3, <2>4, <2>5
<1>4. OnBuffers(t) /\ NewlyCounted
  BY <1>1 DEF OnBuffers, NewlyCounted
<1>5. Arrives(t)
  BY <1>1, <1>3 DEF Arrives
<1> QED
  BY <1>1, <1>2, <1>4, <1>5 DEF Effects

\* get_hash_table and getblk.
LEMMA GetblkEffects ==
    ASSUME IInv, NEW t \in Task, FindInHash(t) \/ CheckHash(t) \/ TakeBuffer(t)
    PROVE  Effects(t)
<1> USE DEF GoTo, GoesOn, In, Resumes, Unlocked
<1>0. TypeOK /\ Local(t)
  BY DEF IInv, Locals
<1>1. /\ running \in {t, NoTask} /\ wq' = wq /\ wq' \in WaitQueues
      /\ pc[t] \in {"getblk", "hash_wait", "wait"}
  BY <1>0 DEF FindInHash, CheckHash, TakeBuffer, TypeOK
<1>2. op[t] \in Op /\ op[t] # NoOp /\ holds[t] = NoBuf /\ op[t].block \in Block
  BY <1>0, <1>1 DEF Local, Op
<1>3. CASE FindInHash(t)
  <2>1. PICK b \in Buf : blk[b] = op[t].block /\ Count(b, 1)
    BY <1>3 DEF FindInHash, Cached
  <2>2. /\ UNCHANGED <<blk, flags, data, free_list>> /\ pc'[t] = "hash_wait"
    BY <1>0, <1>3 DEF FindInHash, TypeOK
  <2>3. NewlyCounted
    BY <1>0, <1>2, <2>1, <2>2, BufferCacheAssumption, SMTT(40) DEF NewlyCounted, Count, TypeOK
  <2> QED
    BY <1>1, <2>2, <2>3 DEF Effects, OnBuffers, Arrives
<1>4. CASE CheckHash(t)
  <2>1. /\ UNCHANGED <<blk, flags, data, free_list>> /\ op' = op /\ pc'[t] \in {"got", "getblk"}
        /\ op[t].bh \in Buf /\ running' = t /\ ~b_lock[op[t].bh]
    BY <1>0, <1>4 DEF CheckHash, TypeOK, Local, Awaited
  <2>2. ASSUME NEW b \in Buf, b_count'[b] > 0 PROVE b_count[b] > 0
    <3>1. b_count' = b_count \/ Count(op[t].bh, -1)
      BY <1>4 DEF CheckHash
    <3>2. b_count[b] \in Nat
      BY <1>0 DEF TypeOK
    <3>3. CASE Count(op[t].bh, -1)
      <4>1. b_count' = [b_count EXCEPT ![op[t].bh] = @ + (-1)]
        BY <3>3 DEF Count
      <4>2. b_count'[b] = b_count[b] \/ b_count'[b] = b_count[b] - 1
        BY <1>0, <3>2, <4>1 DEF TypeOK
      <4> QED
        BY <2>2, <3>2, <4>2
    <3> QED
      BY <2>2, <3>1, <3>3
  <2>3. NewlyCounted
    BY <2>2 DEF NewlyCounted
  <2> QED
    BY <1>1, <2>1, <2>3 DEF Effects, OnBuffers, Arrives, flags
<1>5. CASE TakeBuffer(t)
  <2>1. /\ op[t].bh \in Buf /\ op' = op /\ pc'[t] = "got" /\ running' = t
        /\ b_lock' = b_lock /\ ~b_lock[op[t].bh]
        /\ blk' = [blk EXCEPT ![op[t].bh] = op[t].block]
        /\ b_count' = [b_count EXCEPT ![op[t].bh] = 1]
    BY <1>0, <1>5 DEF TakeBuffer, TypeOK, Local, Awaited
  <2>2. NewlyCounted
    BY <1>0, <1>2, <2>1, BufferCacheAssumption DEF NewlyCounted, TypeOK
  <2> QED
    BY <1>1, <1>5, <2>1, <2>2 DEF Effects, OnBuffers, Arrives
<1> QED
  BY <1>3, <1>4, <1>5

\* sync_dev, bread and breada use the device.
LEMMA DeviceEffects ==
    ASSUME IInv, NEW t \in Task,
           \/ SyncLocks(t) \/ SyncWrites(t) \/ ReadLocks(t) \/ ReadQueued(t)
           \/ AheadLocks(t) \/ AheadQueued(t)
    PROVE  Effects(t)
<1> USE DEF GoTo, GoesOn, In, Resumes, Unlocked
<1>0. TypeOK /\ Local(t)
  BY DEF IInv, Locals
<1>1. /\ running \in {t, NoTask} /\ wq' = wq /\ wq' \in WaitQueues
      /\ pc[t] \in {"sync", "write", "got", "read", "reada"}
      /\ UNCHANGED <<blk, data, free_list, holds>>
  BY <1>0 DEF SyncLocks, SyncWrites, ReadLocks, ReadQueued, AheadLocks, AheadQueued,
              DropAhead, GotFirst, GotAhead, TypeOK
<1>2. op[t] \in Op /\ op[t] # NoOp /\ holds[t] = NoBuf
  BY <1>0, <1>1 DEF Local
<1>3. pc[t] \in {"sync", "write"} => Visited(t) \in Buf
  BY <1>0, VisitedIsBuffer
<1>4. pc[t] \in {"got", "read", "reada"} =>
         op[t].bh \in Buf /\ b_count[op[t].bh] > 0 /\ blk[op[t].bh] # NoBlock
  <2>1. ASSUME pc[t] \in {"got", "read", "reada"}
        PROVE  op[t].bh \in Buf /\ op[t].bh \in Counted(t)
    BY <1>0, <1>2, <2>1 DEF Local, Counted, NoBuf, Buf
  <2> QED
    BY <2>1, ReferredHasBlock
<1>5. \A b : b_dirt[b] /\ b \in Buf => blk[b] # NoBlock
  BY DEF IInv, Transfers
<1>6. \E b \in Buf : ByDevice(b)
  <2>1. CASE SyncLocks(t)
    BY <1>1, <1>3, <2>1 DEF SyncLocks, ByDevice, Awaited
  <2>2. CASE SyncWrites(t)
    BY <1>1, <1>3, <1>5, <2>2 DEF SyncWrites, ByDevice, dev!Start, dev!Command
  <2>3. CASE ReadLocks(t) \/ AheadLocks(t)
    BY <1>1, <1>4, <2>3 DEF ReadLocks, AheadLocks, GotFirst, GotAhead, ByDevice
  <2>4. CASE ReadQueued(t) \/ AheadQueued(t)
    BY <1>1, <1>4, <2>4 DEF ReadQueued, AheadQueued, ByDevice, dev!Command
  <2> QED
    BY <2>1, <2>2, <2>3, <2>4
<1>7. pc'[t] # "got"
  <2>1. CASE SyncLocks(t) \/ ReadLocks(t) \/ AheadLocks(t)
    BY <1>0, <2>1 DEF SyncLocks, ReadLocks, AheadLocks, TypeOK
  <2>2. CASE SyncWrites(t)
    BY <1>0, <2>2 DEF SyncWrites, SyncGoesOn, Leaves, TypeOK
  <2>3. CASE ReadQueued(t)
    BY <1>0, <2>3 DEF ReadQueued, FirstIsUnderWay, TypeOK
  <2>4. CASE AheadQueued(t)
    BY <1>0, <2>4 DEF AheadQueued, DropAhead, TypeOK
  <2> QED
    BY <2>1, <2>2, <2>3, <2>4
<1>8. Arrives(t)
  BY <1>1, <1>2, <1>7 DEF Arrives
<1>9. NewlyCounted
  <2>1. CASE b_count' = b_count
    BY <2>1 DEF NewlyCounted
  <2>2. CASE AheadQueued(t)
    BY <1>0, <1>1, <1>4, <2>2 DEF AheadQueued, DropAhead, Count, NewlyCounted, TypeOK
  <2> QED
    BY <2>1, <2>2 DEF SyncLocks, SyncWrites, ReadLocks, ReadQueued, AheadLocks
<1> QED
  BY <1>1, <1>6, <1>8, <1>9 DEF Effects, OnBuffers

\* The users of the buffers, and what remains of bread and breada.
LEMMA UserEffects ==
    ASSUME IInv, NEW t \in Task,
           \/ AheadNotNeeded(t) \/ ReadDone(t) \/ ClearNewBlock(t) \/ Modify(t) \/ Brelse(t)
    PROVE  Effects(t)
<1> USE DEF GoTo, GoesOn, In, Resumes, Unlocked
<1>0. TypeOK /\ Local(t)
  BY DEF IInv, Locals
<1>1. CASE AheadNotNeeded(t)
  <2>1. /\ running = t /\ wq' = wq /\ pc[t] = "got" /\ pc'[t] = "read_wait"
        /\ UNCHANGED <<blk, flags, data, free_list>> /\ Count(op[t].bh, -1)
    BY <1>0, <1>1 DEF AheadNotNeeded, DropAhead, GotAhead, TypeOK
  <2>2. NewlyCounted
    BY <1>0, <2>1 DEF NewlyCounted, Count, TypeOK, Local
  <2> QED
    BY <1>0, <2>1, <2>2 DEF Effects, OnBuffers, Arrives, TypeOK
<1>2. CASE ReadDone(t)
  <2>1. /\ running \in {t, NoTask} /\ wq' = wq /\ op[t].first \in Buf
        /\ holds'[t] = op[t].first
        /\ UNCHANGED <<blk, b_count, flags, data, free_list>>
    BY <1>0, <1>2 DEF ReadDone, TypeOK, Local
  <2>2. pc'[t] # "got" /\ (pc'[t] = "idle" => b_uptodate[op[t].first])
    BY <1>0, <1>2 DEF ReadDone, Leaves, TypeOK
  <2>3. Arrives(t) /\ NewlyCounted
    BY <2>1, <2>2 DEF Arrives, NewlyCounted, flags
  <2> QED
    BY <1>0, <2>1, <2>3 DEF Effects, OnBuffers, TypeOK
<1>3. CASE ClearNewBlock(t)
  <2>1. PICK b \in Buf : b = op[t].bh
    BY <1>0, <1>3 DEF ClearNewBlock, Local
  <2>2. /\ running = t /\ pc[t] = "got" /\ NewContents(b) /\ wq' = wq /\ b_count' = b_count
        /\ b_uptodate' = [b_uptodate EXCEPT ![b] = TRUE]
        /\ pc' = [pc EXCEPT ![t] = "idle"] /\ holds' = [holds EXCEPT ![t] = b]
    BY <1>3, <2>1 DEF ClearNewBlock, Returns, Leaves, NewContents
  <2>3. op[t] # NoOp
    BY <1>0, <2>2 DEF Local
  <2>4. b \in Counted(t)
    BY <2>1, <2>2, <2>3 DEF Counted, NoBuf, Buf
  <2>5. ~b_lock[b]
    BY <2>1, <2>2 DEF IInv, GotIsUnlocked
  <2>6. Writes(b)
    BY <2>2, <2>4, <2>5, ReferredHasBlock DEF Writes
  <2>7. Arrives(t) /\ NewlyCounted
    BY <1>0, <2>2 DEF Arrives, NewlyCounted, TypeOK
  <2> QED
    BY <1>0, <2>2, <2>6, <2>7 DEF Effects, OnBuffers, TypeOK
<1>4. CASE Modify(t)
  <2>1. PICK b \in Buf : b = holds[t]
    BY <1>0, <1>4 DEF Modify, TypeOK
  <2>2. /\ running = NoTask /\ pc[t] = "idle" /\ NewContents(b) /\ wq' = wq
        /\ b_count' = b_count /\ UNCHANGED <<b_uptodate, pc, op, holds>>
    BY <1>4, <2>1 DEF Modify, NewContents
  <2>3. op[t] = NoOp
    BY <1>0, <2>2 DEF Local
  <2>4. b \in Counted(t)
    BY <2>1, <2>2, <2>3 DEF Counted, NoBuf, Buf
  <2>5. b_uptodate[b]
    BY <2>1, <2>2 DEF IInv, Handed, NoBuf, Buf
  <2>6. Writes(b)
    BY <2>2, <2>4, <2>5, ReferredHasBlock DEF Writes
  <2>7. Arrives(t) /\ NewlyCounted
    BY <2>1, <2>2, <2>5 DEF Arrives, NewlyCounted
  <2> QED
    BY <1>0, <2>2, <2>6, <2>7 DEF Effects, OnBuffers, TypeOK
<1>5. CASE Brelse(t)
  <2>1. /\ running \in {t, NoTask} /\ wq' = WakeUp(wq, buffer_wait) /\ pc[t] = "brelse"
        /\ pc'[t] = "idle" /\ holds'[t] = NoBuf /\ Count(holds[t], -1)
        /\ UNCHANGED <<blk, flags, data, free_list>>
    BY <1>0, <1>5 DEF Brelse, Leaves, TypeOK
  <2>2. wq' \in WaitQueues
    BY <1>0, <2>1, WakeUpType, BufferCacheAssumption DEF TypeOK
  <2>3. NewlyCounted /\ Arrives(t)
    BY <1>0, <2>1 DEF NewlyCounted, Arrives, Count, TypeOK, Local
  <2> QED
    BY <2>1, <2>2, <2>3 DEF Effects, OnBuffers
<1> QED
  BY <1>1, <1>2, <1>3, <1>4, <1>5

LEMMA TaskEffects ==
    ASSUME IInv, NEW t \in Task, Works(t) \/ ClearsNew(t)
    PROVE  Effects(t)
<1>1. CASE CallSync(t)
  BY <1>1, QuietEffects DEF CallSync
<1>2. CASE \E x \in Block : CallBread(t, x)
  BY <1>2, QuietEffects DEF CallBread
<1>3. CASE \E x, y \in Block : CallBreada(t, x, y)
  BY <1>3, QuietEffects DEF CallBreada
<1>4. CASE \E x \in Block : CallNewBlock(t, x)
  BY <1>4, QuietEffects DEF CallNewBlock
<1> QED
  BY <1>1, <1>2, <1>3, <1>4, QuietEffects, GetblkEffects, DeviceEffects, UserEffects
     DEF Works, ClearsNew

-----------------------------------------------------------------------------
(***************************************************************************)
(* What the buffers hold after such a step.                                 *)
(***************************************************************************)
BufferTypes ==
    /\ blk \in [Buf -> Block \cup {NoBlock}]
    /\ b_lock \in [Buf -> BOOLEAN] /\ b_dirt \in [Buf -> BOOLEAN]
    /\ b_uptodate \in [Buf -> BOOLEAN]
    /\ io \in [Buf -> dev!Command \cup {"none"}]
    /\ mem \in [Buf -> {Current, Stale}] /\ disk \in [Block -> {Current, Stale}]
    /\ free_list \in Seq(Buf) /\ Len(free_list) = NR_BUFFERS
    /\ \A b \in Buf : \E i \in Buf : free_list[i] = b

\* A buffer somebody refers to does not lose its contents.
Kept == \A b \in Buf : b_count[b] > 0 /\ b_uptodate[b] => b_uptodate'[b]

BuffersRight == BufferTypes' /\ Transfers' /\ Contents' /\ Kept

LEMMA RequeuedType ==
    ASSUME TypeOK, NEW b \in Buf
    PROVE  /\ Requeued(b) \in Seq(Buf) /\ Len(Requeued(b)) = NR_BUFFERS
           /\ \A c \in Buf : \E j \in Buf : Requeued(b)[j] = c
<1> DEFINE i == CHOOSE i \in 1 .. NR_BUFFERS : free_list[i] = b
           s == SubSeq(free_list, 1, i - 1)
           r == SubSeq(free_list, i + 1, NR_BUFFERS)
<1>1. i \in 1 .. NR_BUFFERS /\ free_list[i] = b
  BY DEF TypeOK, Buf
<1>2. free_list \in Seq(Buf) /\ Len(free_list) = NR_BUFFERS /\ NR_BUFFERS \in Nat \ {0}
  BY BufferCacheAssumption DEF TypeOK
<1>3. Requeued(b) = Append(s \o r, b)
  BY <1>2 DEF Requeued, RemoveAt
<1> HIDE DEF i
<1>4. /\ s \in Seq(Buf) /\ Len(s) = i - 1
      /\ \A j \in 1 .. i - 1 : s[j] = free_list[j]
  BY <1>1, <1>2
<1>5. /\ r \in Seq(Buf) /\ Len(r) = NR_BUFFERS - i
      /\ \A j \in 1 .. NR_BUFFERS - i : r[j] = free_list[i + j]
  BY <1>1, <1>2
<1> HIDE DEF s, r
<1>6. /\ s \o r \in Seq(Buf) /\ Len(s \o r) = NR_BUFFERS - 1
      /\ \A j \in 1 .. NR_BUFFERS - 1 : (s \o r)[j] = IF j < i THEN s[j] ELSE r[j - (i - 1)]
  <2>1. /\ s \o r \in Seq(Buf) /\ Len(s \o r) = Len(s) + Len(r)
        /\ \A j \in 1 .. Len(s) + Len(r) :
              (s \o r)[j] = IF j <= Len(s) THEN s[j] ELSE r[j - Len(s)]
    BY <1>4, <1>5
  <2>2. Len(s) = i - 1 /\ Len(s) + Len(r) = NR_BUFFERS - 1 /\ i \in Int
    BY <1>1, <1>2, <1>4, <1>5
  <2>3. \A j \in 1 .. NR_BUFFERS - 1 : j <= i - 1 <=> j < i
    BY <2>2
  <2> QED
    BY <2>1, <2>2, <2>3
<1> DEFINE sr == s \o r
<1> HIDE DEF sr
<1>7. /\ Requeued(b) \in Seq(Buf) /\ Len(Requeued(b)) = NR_BUFFERS
      /\ Requeued(b)[NR_BUFFERS] = b
      /\ \A j \in 1 .. NR_BUFFERS - 1 : Requeued(b)[j] = sr[j]
  <2>1. sr \in Seq(Buf) /\ Len(sr) = NR_BUFFERS - 1 /\ Requeued(b) = Append(sr, b)
    BY <1>3, <1>6 DEF sr
  <2> QED
    BY <1>2, <2>1
<1>8. ASSUME NEW c \in Buf PROVE \E j \in Buf : Requeued(b)[j] = c
  <2>1. PICK k \in 1 .. NR_BUFFERS : free_list[k] = c
    BY DEF TypeOK, Buf
  <2>2. CASE k = i
    BY <1>1, <1>2, <1>7, <2>1, <2>2 DEF Buf
  <2>3. CASE k < i
    <3>1. k \in 1 .. NR_BUFFERS - 1 /\ k \in 1 .. i - 1
      BY <1>1, <1>2, <2>1, <2>3
    <3>2. Requeued(b)[k] = c
      BY <1>4, <1>6, <1>7, <2>1, <2>3, <3>1 DEF sr
    <3> QED
      BY <2>1, <3>2 DEF Buf
  <2>4. CASE k > i
    <3>1. /\ k - 1 \in 1 .. NR_BUFFERS - 1 /\ k - i \in 1 .. NR_BUFFERS - i
          /\ ~(k - 1 < i) /\ (k - 1) - (i - 1) = k - i /\ i + (k - i) = k
      BY <1>1, <1>2, <2>1, <2>4
    <3>2. Requeued(b)[k - 1] = r[k - i]
      BY <1>6, <1>7, <3>1 DEF sr
    <3>3. r[k - i] = c
      BY <1>5, <2>1, <3>1
    <3> QED
      BY <1>2, <3>1, <3>2, <3>3 DEF Buf
  <2> QED
    BY <1>1, <1>2, <2>1, <2>2, <2>3, <2>4
<1> QED
  BY <1>7, <1>8

LEMMA CachedIs == \A x, b : b \in Cached(x) <=> b \in Buf /\ blk[b] = x
BY DEF Cached

\* The headers, not the contents, change.
LEMMA ByDeviceRight ==
    ASSUME IInv, NEW b \in Buf, ByDevice(b), NewlyCounted
    PROVE  BuffersRight
<1>1. TypeOK /\ Transfers /\ Contents /\ UNCHANGED <<blk, mem, disk, free_list>>
  BY DEF IInv, ByDevice, data
<1>2. \A x : Cached(x)' = Cached(x)
  BY <1>1 DEF Cached
<1>3. CASE dev!LockBuffer(b) \/ dev!GiveUp(b)
  <2>1. /\ UNCHANGED <<b_dirt, b_uptodate, io>>
        /\ \E v \in BOOLEAN : b_lock' = [b_lock EXCEPT ![b] = v] /\ (~v => io[b] = "none")
    BY <1>3 DEF dev!LockBuffer, dev!GiveUp
  <2>2. BufferTypes'
    BY <1>1, <2>1 DEF BufferTypes, TypeOK
  <2>3. Transfers'
    BY <1>1, <2>1 DEF Transfers, TypeOK, NewlyCounted
  <2>4. Contents' /\ Kept
    BY <1>1, <1>2, <2>1 DEF Contents, Kept
  <2> QED
    BY <2>2, <2>3, <2>4 DEF BuffersRight
<1>4. ASSUME NEW cmd \in dev!Command, dev!Start(b, cmd), blk[b] # NoBlock
      PROVE  BuffersRight
  <2>1. /\ UNCHANGED <<b_lock, b_uptodate>> /\ b_lock[b] /\ io[b] = "none"
        /\ b_dirt' = [b_dirt EXCEPT ![b] = FALSE] /\ io' = [io EXCEPT ![b] = cmd]
        /\ IF cmd = "READ" THEN ~b_uptodate[b] ELSE b_dirt[b]
    BY <1>4 DEF dev!Start
  <2>2. cmd \in {"READ", "WRITE"}
    BY DEF dev!Command
  <2>3. BufferTypes'
    BY <1>1, <2>1 DEF BufferTypes, TypeOK
  <2>4. Transfers'
    BY <1>1, <1>4, <2>1, <2>2 DEF Transfers, TypeOK, NewlyCounted
  <2>5. ASSUME NEW c \in Buf, blk[c] # NoBlock, ~b_dirt'[c], io'[c] # "WRITE"
        PROVE  disk[blk[c]] = Current
    <3>1. ~b_dirt[c] /\ io[c] # "WRITE"
      BY <1>1, <2>1, <2>2, <2>5 DEF TypeOK, Transfers
    <3> QED
      BY <1>1, <2>5, <3>1 DEF Contents
  <2>6. Contents' /\ Kept
    BY <1>1, <1>2, <2>1, <2>5 DEF Contents, Kept
  <2> QED
    BY <2>3, <2>4, <2>6 DEF BuffersRight
<1> QED
  BY <1>3, <1>4 DEF ByDevice

\* Somebody who holds the buffer writes into it.
LEMMA WritesRight ==
    ASSUME IInv, NEW b \in Buf, Writes(b)
    PROVE  BuffersRight
<1>1. /\ TypeOK /\ Transfers /\ Contents
      /\ UNCHANGED <<blk, b_count, b_lock, io, free_list>>
      /\ blk[b] # NoBlock /\ b_dirt' = [b_dirt EXCEPT ![b] = TRUE]
      /\ disk' = [disk EXCEPT ![blk[b]] = Stale]
  BY DEF IInv, Writes, NewContents
<1>2. ASSUME NEW c \in Buf, blk[c] = blk[b] PROVE c = b
  BY <1>1, <1>2 DEF IInv, NoBlockTwice
<1>3. /\ mem' \in [Buf -> {Current, Stale}] /\ mem'[b] = Current
      /\ \A c \in Buf \ {b} : mem'[c] = mem[c]
  <2>1. mem' = [c \in Buf |-> IF blk[c] = blk[b] THEN c = b ELSE mem[c]]
    BY DEF Writes, NewContents
  <2>2. \A c \in Buf : mem[c] \in {TRUE, FALSE}
    BY <1>1 DEF TypeOK, Current, Stale
  <2>3. mem'[b] = TRUE /\ \A c \in Buf \ {b} : mem'[c] = mem[c]
    BY <1>2, <2>1
  <2> QED
    BY <2>1, <2>2, <2>3 DEF Current, Stale
<1>4. /\ b_uptodate' \in [Buf -> BOOLEAN] /\ b_uptodate'[b]
      /\ \A c \in Buf \ {b} : b_uptodate'[c] = b_uptodate[c]
      /\ b_uptodate[b] \/ ~b_lock[b]
  BY <1>1 DEF Writes, TypeOK
<1>5. BufferTypes'
  BY <1>1, <1>3, <1>4 DEF BufferTypes, TypeOK
<1>6. Transfers'
  BY <1>1, <1>4 DEF Transfers, TypeOK
<1>7. ASSUME NEW c \in Buf, blk[c] # NoBlock, ~b_dirt'[c], io[c] # "WRITE"
      PROVE  disk'[blk[c]] = Current
  <2>1. c # b /\ ~b_dirt[c] /\ blk[c] \in Block
    BY <1>1, <1>7 DEF TypeOK
  <2>2. disk'[blk[c]] = disk[blk[c]]
    BY <1>1, <1>2, <2>1 DEF TypeOK
  <2> QED
    BY <1>1, <1>7, <2>1, <2>2 DEF Contents
<1>8. ASSUME NEW x \in Block, Cached(x)' = {} PROVE disk'[x] = Current
  <2>1. Cached(x) = {} /\ x # blk[b]
    BY <1>1, <1>8 DEF Cached
  <2> QED
    BY <1>1, <2>1 DEF Contents, TypeOK
<1>9. Contents' /\ Kept
  BY <1>1, <1>3, <1>4, <1>7, <1>8 DEF Contents, Kept
<1> QED
  BY <1>5, <1>6, <1>9 DEF BuffersRight

\* getblk takes a buffer for its block: what was in it is on the disk.
LEMMA TakeBufferRight ==
    ASSUME IInv, NEW t \in Task, TakeBuffer(t), NewlyCounted
    PROVE  BuffersRight
<1>1. TypeOK /\ Transfers /\ Contents /\ Local(t)
  BY DEF IInv, Locals
<1>2. PICK b \in Buf : b = op[t].bh
  BY <1>1 DEF TakeBuffer, Unlocked, Resumes, Local
<1>3. PICK x \in Block : x = op[t].block
  BY <1>1 DEF TakeBuffer, Unlocked, Resumes, Local, Op
<1>4. /\ b_count[b] = 0 /\ ~b_dirt[b] /\ ~b_lock[b] /\ \A c \in Buf : blk[c] # x
      /\ UNCHANGED <<b_lock, b_dirt, io, disk>>
      /\ b_uptodate' = [b_uptodate EXCEPT ![b] = FALSE]
      /\ blk' = [blk EXCEPT ![b] = x] /\ mem' = [mem EXCEPT ![b] = Stale]
      /\ free_list' = Requeued(b)
  BY <1>2, <1>3 DEF TakeBuffer, Reusable, Unlocked, Resumes, Awaited, Cached
<1>5. io[b] = "none" /\ x # NoBlock
  BY <1>1, <1>4, BufferCacheAssumption DEF Transfers
<1>6. BufferTypes'
  <2>1. /\ free_list' \in Seq(Buf) /\ Len(free_list') = NR_BUFFERS
        /\ \A c \in Buf : \E j \in Buf : free_list'[j] = c
    BY <1>1, <1>4, RequeuedType
  <2>2. blk' \in [Buf -> Block \cup {NoBlock}] /\ b_uptodate' \in [Buf -> BOOLEAN]
    BY <1>1, <1>4 DEF TypeOK
  <2>3. mem' \in [Buf -> {Current, Stale}]
    BY <1>1, <1>4 DEF TypeOK
  <2>4. BufferTypes
    BY <1>1 DEF TypeOK, BufferTypes
  <2> QED
    BY <1>4, <2>1, <2>2, <2>3, <2>4 DEF BufferTypes
<1>7. Transfers'
  BY <1>1, <1>4, <1>5 DEF Transfers, TypeOK, NewlyCounted
<1>8. Cached(x) = {}
  BY <1>4 DEF Cached
<1>9. disk[x] = Current
  BY <1>1, <1>8 DEF Contents
<1>10. ASSUME NEW c \in Buf, blk'[c] # NoBlock, ~b_dirt[c], io[c] # "WRITE"
       PROVE  disk[blk'[c]] = Current
  BY <1>1, <1>4, <1>9, <1>10 DEF Contents, TypeOK
<1>11. ASSUME NEW y \in Block, Cached(y)' = {} PROVE disk[y] = Current
  <2>1. \A c \in Buf : blk'[c] # y
    BY <1>11 DEF Cached
  <2>2. \A c \in Buf \ {b} : blk[c] # y
    BY <1>1, <1>4, <2>1 DEF TypeOK
  <2>3. CASE blk[b] = y
    BY <1>1, <1>4, <1>5, <2>3, BufferCacheAssumption DEF Contents
  <2>4. CASE blk[b] # y
    <3>1. Cached(y) = {}
      BY <2>2, <2>4 DEF Cached
    <3> QED
      BY <1>1, <3>1 DEF Contents
  <2> QED
    BY <2>3, <2>4
<1>12. \A c \in Buf : b_uptodate'[c] => mem'[c] = Current
  BY <1>1, <1>4 DEF Contents, TypeOK
<1>13. Contents' /\ Kept
  BY <1>1, <1>4, <1>10, <1>11, <1>12 DEF Contents, Kept, TypeOK
<1> QED
  BY <1>6, <1>7, <1>13 DEF BuffersRight

\* A transfer ends.
LEMMA EndTransferRight ==
    ASSUME IInv, NEW b \in Buf, NEW ok \in BOOLEAN, EndTransfer(b, ok)
    PROVE  BuffersRight /\ \A c \in Buf : b_lock'[c] => b_lock[c]
<1>1. /\ TypeOK /\ Transfers /\ Contents
      /\ UNCHANGED <<blk, b_count, free_list, b_dirt>> /\ (ok \/ io[b] = "READ")
      /\ io[b] # "none" /\ io' = [io EXCEPT ![b] = "none"]
      /\ b_lock' = [b_lock EXCEPT ![b] = FALSE]
      /\ b_uptodate' = [b_uptodate EXCEPT ![b] = ok]
  BY DEF IInv, EndTransfer, dev!Finish
<1>2. \A x : Cached(x)' = Cached(x)
  BY <1>1 DEF Cached
<1>3. io[b] \in {"READ", "WRITE"} /\ blk[b] # NoBlock /\ blk[b] \in Block
  BY <1>1 DEF TypeOK, dev!Command, Transfers
<1>4. ASSUME NEW c \in Buf, blk[c] = blk[b] PROVE c = b
  BY <1>3, <1>4 DEF IInv, NoBlockTwice
<1>5. Transfers' /\ Kept
  <2>1. Transfers'
    BY <1>1, <1>3 DEF Transfers, TypeOK
  <2>2. Kept
    BY <1>1, <1>3 DEF Transfers, TypeOK, Kept
  <2> QED
    BY <2>1, <2>2
<1>6. \A c \in Buf : b_lock'[c] => b_lock[c]
  BY <1>1 DEF TypeOK
<1>7. CASE io[b] = "READ"
  <2>1. disk' = disk /\ disk[blk[b]] = Current
    BY <1>1, <1>3, <1>7 DEF EndTransfer, Transfers, Contents
  <2>2. /\ mem' \in [Buf -> {Current, Stale}] /\ (ok => mem'[b] = Current)
        /\ \A c \in Buf \ {b} : mem'[c] = mem[c]
    <3>1. CASE ok
      BY <1>1, <1>7, <2>1, <3>1 DEF EndTransfer, TypeOK
    <3>2. CASE ~ok
      BY <1>1, <1>7, <3>2 DEF EndTransfer, TypeOK
    <3> QED
      BY <3>1, <3>2
  <2>3. BufferTypes'
    BY <1>1, <2>1, <2>2 DEF BufferTypes, TypeOK
  <2>4. \A c \in Buf : b_uptodate'[c] => mem'[c] = Current
    BY <1>1, <2>2 DEF Contents, TypeOK
  <2>5. ASSUME NEW c \in Buf, blk[c] # NoBlock, ~b_dirt[c], io'[c] # "WRITE"
        PROVE  disk[blk[c]] = Current
    BY <1>1, <1>7, <2>5 DEF Contents, TypeOK
  <2>6. Contents'
    BY <1>1, <1>2, <2>1, <2>4, <2>5 DEF Contents
  <2> QED
    BY <1>5, <1>6, <2>3, <2>6 DEF BuffersRight
<1>8. CASE io[b] = "WRITE"
  <2>1. ok = TRUE /\ b_uptodate[b] /\ mem[b] = Current
    BY <1>1, <1>8 DEF Transfers, Contents
  <2>2. /\ mem' = mem
        /\ disk' = [disk EXCEPT ![blk[b]] = IF b_dirt[b] THEN Stale ELSE mem[b]]
    BY <1>8, <2>1 DEF EndTransfer
  <2>3. BufferTypes'
    <3>1. disk' \in [Block -> {Current, Stale}]
      <4>1. PICK v \in {Current, Stale} : disk' = [disk EXCEPT ![blk[b]] = v]
        BY <2>1, <2>2
      <4> QED
        BY <1>1, <4>1 DEF TypeOK
    <3> QED
      BY <1>1, <2>1, <2>2, <3>1 DEF BufferTypes, TypeOK
  <2>4. ASSUME NEW c \in Buf, blk[c] # NoBlock, ~b_dirt[c], io'[c] # "WRITE"
        PROVE  disk'[blk[c]] = Current
    <3>1. CASE c = b
      BY <1>1, <1>3, <2>1, <2>2, <2>4, <3>1 DEF TypeOK
    <3>2. CASE c # b
      <4>1. blk[c] \in Block /\ blk[c] # blk[b] /\ io[c] # "WRITE"
        BY <1>1, <1>4, <2>4, <3>2 DEF TypeOK
      <4> QED
        BY <1>1, <2>2, <2>4, <4>1 DEF TypeOK, Contents
    <3> QED
      BY <3>1, <3>2
  <2>5. ASSUME NEW x \in Block, Cached(x)' = {} PROVE disk'[x] = Current
    <3>1. Cached(x) = {} /\ x # blk[b]
      BY <1>2, <2>5 DEF Cached
    <3> QED
      BY <1>1, <2>2, <3>1 DEF Contents, TypeOK
  <2>6. \A c \in Buf : b_uptodate'[c] => mem'[c] = Current
    BY <1>1, <2>1, <2>2 DEF Contents, TypeOK
  <2>7. Contents'
    BY <1>1, <2>4, <2>5, <2>6 DEF Contents
  <2> QED
    BY <1>5, <1>6, <2>3, <2>7 DEF BuffersRight
<1> QED
  BY <1>3, <1>7, <1>8

LEMMA OnBuffersRight ==
    ASSUME IInv, NEW t \in Task, OnBuffers(t), NewlyCounted
    PROVE  BuffersRight
<1>1. CASE UNCHANGED <<blk, flags, data, free_list>>
  <2>1. UNCHANGED <<blk, b_lock, b_dirt, b_uptodate, io, mem, disk, free_list>>
    BY <1>1 DEF flags, data
  <2>2. BufferTypes' /\ Kept
    BY <2>1 DEF IInv, BufferTypes, TypeOK, Kept
  <2>3. Transfers'
    BY <2>1 DEF IInv, Transfers, NewlyCounted
  <2>4. Contents'
    BY <2>1 DEF IInv, Contents, Cached
  <2> QED
    BY <2>2, <2>3, <2>4 DEF BuffersRight
<1> QED
  BY <1>1, ByDeviceRight, WritesRight, TakeBufferRight DEF OnBuffers

-----------------------------------------------------------------------------
CountSteps ==
    \/ UNCHANGED b_count
    \/ \E b : b_count' = [b_count EXCEPT ![b] = 1]
    \/ \E b, n : Count(b, n)

LEMMA StepsOnCounts ==
    ASSUME NEW t \in Task, Works(t) \/ ClearsNew(t)
    PROVE  CountSteps
<1> USE DEF CountSteps
<1>1. CASE \/ SleepOnBuffer(t) \/ ChooseBuffer(t) \/ NoBufferFree(t) \/ BufferWaitResumes(t)
           \/ TryAgain(t) \/ SyncFirst(t) \/ SyncSkips(t) \/ SyncLocks(t) \/ SyncWrites(t)
           \/ WaitsForRequest(t)
  BY <1>1 DEF SleepOnBuffer, ChooseBuffer, NoBufferFree, BufferWaitResumes, TryAgain,
     SyncFirst, SyncSkips, SyncLocks, SyncWrites, WaitsForRequest
<1>2. CASE FindInHash(t) \/ CheckHash(t) \/ TakeBuffer(t)
  BY <1>2 DEF FindInHash, CheckHash, TakeBuffer
<1>3. CASE \/ ReadLocks(t) \/ ReadQueued(t) \/ ReadNotNeeded(t) \/ AheadLocks(t)
           \/ AheadQueued(t) \/ AheadNotNeeded(t) \/ ReadDone(t)
  BY <1>3 DEF ReadLocks, ReadQueued, ReadNotNeeded, AheadLocks, AheadQueued,
     AheadNotNeeded, ReadDone, DropAhead
<1>4. CASE CallBrelse(t) \/ Brelse(t) \/ Modify(t) \/ ClearNewBlock(t)
  BY <1>4 DEF CallBrelse, Brelse, Modify, ClearNewBlock, NewContents
<1>5. ASSUME NEW what, NEW x, NEW y, NEW i, NEW l, Begin(t, what, x, y, l, i)
      PROVE  UNCHANGED b_count
  BY <1>5 DEF Begin
<1> QED
  BY <1>1, <1>2, <1>3, <1>4, <1>5
     DEF Works, ClearsNew, CallSync, CallBread, CallBreada, CallNewBlock

LEMMA CountsType ==
    ASSUME TypeOK, CountSteps, CountIsReferences'
    PROVE  b_count' \in [Buf -> Nat]
<1>1. b_count' = [b \in Buf |-> b_count'[b]]
  BY DEF TypeOK, CountSteps, Count
<1>2. ASSUME NEW b \in Buf PROVE b_count'[b] \in Nat
  <2> DEFINE S == {t \in Task : b \in Counted(t)}
             D == {t \in Task : /\ op[t] # NoOp /\ op[t].first = b /\ op[t].bh = b
                                /\ pc[t] \in {"hash_wait", "got", "reada"}}
  <2>1. b_count'[b] = Cardinality(S') + Cardinality(D')
    BY DEF CountIsReferences
  <2>2. S' \in SUBSET Task /\ D' \in SUBSET Task
    OBVIOUS
  <2> HIDE DEF S, D
  <2>3. Cardinality(S') \in Nat /\ Cardinality(D') \in Nat
    BY <2>2, BufferCacheAssumption, FS_Subset, FS_CardinalityType
  <2> QED
    BY <2>1, <2>3
<1> QED
  BY <1>1, <1>2

-----------------------------------------------------------------------------
LEMMA IInvInit == Init => IInv
<1> SUFFICES ASSUME Init PROVE IInv
  OBVIOUS
<1> USE DEF Init, dev!Init
<1>1. TypeOK
  <2>1. /\ free_list \in Seq(Buf) /\ Len(free_list) = NR_BUFFERS
        /\ \A b \in Buf : \E i \in Buf : free_list[i] = b
    BY BufferCacheAssumption DEF Buf
  <2>2. wq \in WaitQueues
    BY NoTaskAssumption DEF NobodyWaits, WaitQueues, TaskState, RUNNING
  <2> QED
    BY <2>1, <2>2, NoTaskAssumption DEF TypeOK, WaitLabels, dev!Command, Current, Stale
<1>2. Locals
  BY NoOpIsNone DEF Locals, Local
<1>3. CountIsReferences
  <2>1. ASSUME NEW b \in Buf
        PROVE  /\ {t \in Task : b \in Counted(t)} = {}
               /\ {t \in Task : /\ op[t] # NoOp /\ op[t].first = b /\ op[t].bh = b
                                /\ pc[t] \in {"hash_wait", "got", "reada"}} = {}
    BY DEF Counted
  <2>2. Cardinality({}) = 0
    BY FS_EmptySet
  <2>3. ASSUME NEW b \in Buf
        PROVE  b_count[b] = Cardinality({t \in Task : b \in Counted(t)})
                          + Cardinality({t \in Task :
                               /\ op[t] # NoOp /\ op[t].first = b /\ op[t].bh = b
                               /\ pc[t] \in {"hash_wait", "got", "reada"}})
    <3> DEFINE S == {t \in Task : b \in Counted(t)}
               D == {t \in Task : /\ op[t] # NoOp /\ op[t].first = b /\ op[t].bh = b
                                  /\ pc[t] \in {"hash_wait", "got", "reada"}}
    <3>1. S = {} /\ D = {}
      BY <2>1
    <3>2. b_count[b] = 0
      OBVIOUS
    <3> HIDE DEF S, D
    <3>3. b_count[b] = Cardinality(S) + Cardinality(D)
      BY <2>2, <3>1, <3>2
    <3> QED
      BY <3>3 DEF S, D
  <2> QED
    BY <2>3 DEF CountIsReferences
<1>4. NoBlockTwice /\ GotIsUnlocked /\ Transfers /\ Handed
  BY DEF NoBlockTwice, GotIsUnlocked, Transfers, Handed
<1>5. Contents
  BY DEF Contents, Current, Stale
<1> QED
  BY <1>1, <1>2, <1>3, <1>4, <1>5 DEF IInv

LEMMA HeadersAreTyped == TypeOK => HeadersOfBuffers
BY DEF TypeOK, HeadersOfBuffers

LEMMA IInvTask ==
    ASSUME IInv, NEW t \in Task, Works(t) \/ ClearsNew(t)
    PROVE  IInv'
<1>1. OthersSame(t) /\ TaskTypes' /\ Local(t)' /\ CountsMove(t)
  BY TaskMoves DEF Moves
<1>2. /\ running \in {t, NoTask} /\ wq' \in WaitQueues
      /\ OnBuffers(t) /\ Arrives(t) /\ NewlyCounted
  BY TaskEffects DEF Effects
<1>3. BufferTypes' /\ Transfers' /\ Contents' /\ Kept
  BY <1>2, OnBuffersRight DEF BuffersRight
<1>4. CountIsReferences'
  BY <1>1, CountsStep DEF IInv
<1>5. b_count' \in [Buf -> Nat]
  BY <1>4, StepsOnCounts, CountsType DEF IInv
<1>6. TypeOK'
  BY <1>1, <1>2, <1>3, <1>5 DEF TypeOK, BufferTypes, TaskTypes, Labels
<1>7. NoBlockTwice'
  BY HeadersAreTyped, NoBlockTwiceNext DEF IInv, Next
<1>8. ASSUME NEW u \in Task \ {t}
      PROVE  /\ Local(u)' /\ pc'[u] # "got"
             /\ pc'[u] = "idle" /\ holds'[u] # NoBuf => b_uptodate'[holds'[u]]
  <2>1. pc'[u] = pc[u] /\ op'[u] = op[u] /\ holds'[u] = holds[u]
    BY <1>1 DEF OthersSame
  <2>2. Local(u)'
    BY <2>1 DEF IInv, Locals, Local
  <2>3. pc[u] # "got"
    BY <1>2, NoTaskAssumption DEF IInv, GotIsUnlocked
  <2>4. ASSUME pc[u] = "idle", holds[u] # NoBuf PROVE b_uptodate'[holds[u]]
    <3>1. PICK b \in Buf : b = holds[u]
      BY <2>4 DEF IInv, TypeOK
    <3>2. op[u] = NoOp
      BY <2>4 DEF IInv, Locals, Local
    <3>3. b \in Counted(u)
      BY <2>4, <3>1, <3>2 DEF Counted
    <3>4. b_count[b] > 0 /\ b_uptodate[b]
      BY <2>4, <3>1, <3>3, ReferredHasBlock DEF IInv, Handed
    <3> QED
      BY <1>3, <3>1, <3>4 DEF Kept
  <2> QED
    BY <2>1, <2>2, <2>3, <2>4
<1>9. Locals'
  BY <1>1, <1>8 DEF Locals
<1>10. GotIsUnlocked'
  BY <1>2, <1>8 DEF GotIsUnlocked, Arrives
<1>11. Handed'
  BY <1>2, <1>8 DEF Handed, Arrives
<1> QED
  BY <1>3, <1>4, <1>6, <1>7, <1>9, <1>10, <1>11 DEF IInv

LEMMA IInvInterrupt ==
    ASSUME IInv, NEW b \in Buf, NEW ok \in BOOLEAN, EndTransfer(b, ok)
    PROVE  IInv'
<1>1. BufferTypes' /\ Transfers' /\ Contents' /\ Kept /\ \A c \in Buf : b_lock'[c] => b_lock[c]
  BY EndTransferRight DEF BuffersRight
<1>2. UNCHANGED <<blk, b_count, free_list, wq, pc, op, holds, running>>
  BY DEF EndTransfer
<1>3. TypeOK'
  BY <1>1, <1>2 DEF IInv, TypeOK, BufferTypes
<1>4. Locals'
  BY <1>2 DEF IInv, Locals, Local
<1>5. CountIsReferences'
  BY <1>2 DEF IInv, CountIsReferences, Counted
<1>6. NoBlockTwice'
  BY <1>2 DEF IInv, NoBlockTwice
<1>7. GotIsUnlocked'
  <2>1. ASSUME NEW t \in Task, pc[t] = "got" PROVE running = t /\ ~b_lock'[op[t].bh]
    BY <1>1, <2>1 DEF IInv, GotIsUnlocked, Locals, Local
  <2> QED
    BY <1>2, <2>1 DEF GotIsUnlocked
<1>8. Handed'
  <2>1. ASSUME NEW t \in Task, pc[t] = "idle", holds[t] # NoBuf PROVE b_uptodate'[holds[t]]
    <3>1. PICK c \in Buf : c = holds[t]
      BY <2>1 DEF IInv, TypeOK
    <3>2. op[t] = NoOp
      BY <2>1 DEF IInv, Locals, Local
    <3>3. c \in Counted(t)
      BY <2>1, <3>1, <3>2 DEF Counted
    <3>4. b_count[c] > 0 /\ b_uptodate[c]
      BY <2>1, <3>1, <3>3, ReferredHasBlock DEF IInv, Handed
    <3> QED
      BY <1>1, <3>1, <3>4 DEF Kept
  <2> QED
    BY <1>2, <2>1 DEF Handed
<1> QED
  BY <1>1, <1>3, <1>4, <1>5, <1>6, <1>7, <1>8 DEF IInv

LEMMA IInvNext == IInv /\ [Next]_vars => IInv'
<1> SUFFICES ASSUME IInv, [Next]_vars PROVE IInv'
  OBVIOUS
<1>1. CASE UNCHANGED vars
  <2>1. UNCHANGED <<blk, b_count, b_lock, b_dirt, b_uptodate, io, mem, disk, free_list, wq, pc,
                    op, holds, running>>
    BY <1>1 DEF vars, flags, data
  <2>2. TypeOK'
    BY <2>1 DEF IInv, TypeOK
  <2>3. Locals'
    BY <2>1 DEF IInv, Locals, Local
  <2>4. CountIsReferences'
    BY <2>1 DEF IInv, CountIsReferences, Counted
  <2>5. Contents'
    BY <2>1 DEF IInv, Contents, Cached
  <2> QED
    BY <2>1, <2>2, <2>3, <2>4, <2>5
       DEF IInv, NoBlockTwice, GotIsUnlocked, Transfers, Handed
<1> QED
  BY <1>1, IInvTask, IInvInterrupt DEF Next, Interrupts

LEMMA SpecIInv == Spec => []IInv
BY IInvInit, IInvNext, PTL DEF Spec

\* Whatever the tasks call, the free list keeps every buffer, and the locals
\* of getblk, bread, breada and sync_dev name buffers where they are used.
THEOREM TypeCorrect == Spec => []TypeOK
<1>1. IInv => TypeOK
  BY DEF IInv
<1> QED
  BY <1>1, SpecIInv, PTL

\* b_count is the number of references the tasks have, so that brelse never
\* meets a free buffer and getblk never takes a buffer that somebody uses.
THEOREM CountsAreReferences == Spec => []CountIsReferences
<1>1. IInv => CountIsReferences
  BY DEF IInv
<1> QED
  BY <1>1, SpecIInv, PTL

\* What a task finds in the buffer that bread, breada or getblk gave it is what
\* anyone wrote last to that block, through evictions, write-backs and
\* failed reads.
THEOREM ReadersSeeLastWrite == Spec => []ReadsSeeLastWrite
<1>1. IInv => ReadsSeeLastWrite
  BY DEF IInv, TypeOK, Contents, ReadsSeeLastWrite
<1> QED
  BY <1>1, SpecIInv, PTL

\* What was written to a block is in its buffer, or on the disk: getblk throws
\* no modification away.
THEOREM NothingIsLost == Spec => []NothingLost
<1>1. ASSUME IInv, NEW x \in Block, \A b \in Cached(x) : ~b_uptodate[b] /\ ~b_dirt[b]
      PROVE  disk[x] = Current
  <2>1. CASE Cached(x) = {}
    BY <1>1, <2>1 DEF IInv, Contents
  <2>2. ASSUME NEW b \in Buf, blk[b] = x PROVE disk[x] = Current
    <3>1. ~b_uptodate[b] /\ ~b_dirt[b]
      BY <1>1, <2>2 DEF Cached
    <3>2. io[b] # "WRITE" /\ blk[b] # NoBlock
      BY <1>1, <2>2, <3>1, BufferCacheAssumption DEF IInv, Transfers
    <3> QED
      BY <1>1, <2>2, <3>1, <3>2 DEF IInv, Contents
  <2>3. Cached(x) = {} \/ \E b \in Buf : blk[b] = x
    BY DEF Cached
  <2> QED
    BY <2>1, <2>2, <2>3
<1>2. IInv => NothingLost
  BY <1>1 DEF NothingLost
<1> QED
  BY <1>2, SpecIInv, PTL

=============================================================================
