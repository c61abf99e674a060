---------------------------- MODULE BufferCache ----------------------------
(***************************************************************************)
(* The buffer cache, fs/buffer.c: getblk, get_hash_table, bread, breada,    *)
(* brelse, sync_dev.  The device below is the one HardDisk is shown to      *)
(* implement (BlkDev): it is used through ll_rw_block and ends transfers    *)
(* from interrupts.                                                         *)
(*                                                                         *)
(* Every wait in the code is a loop around sleep_on, so a task goes on when *)
(* the buffer it waits for is unlocked.  What the wait queues themselves    *)
(* may lose is the subject of SleepLock; only buffer_wait, which brelse     *)
(* wakes, is one here.  The hash chains are the function blk: find_buffer   *)
(* looks a block up among the buffers.                                      *)
(***************************************************************************)
EXTENDS WaitQueue, Integers, Sequences, SequencesExt

CONSTANTS NR_BUFFERS,
          Block,          \* the blocks of one device
          NoBlock,        \* b_dev = 0
          Calls,          \* the calls the tasks make
          buffer_wait

Buf   == 1 .. NR_BUFFERS
NoBuf == 0

ASSUME BufferCacheAssumption ==
    /\ NR_BUFFERS \in Nat \ {0}
    /\ NoBlock \notin Block
    /\ Calls \subseteq {"getblk", "bread", "breada", "sync"}
    /\ Queue = {buffer_wait}
    /\ IsFiniteSet(Task)

VARIABLES blk,                          \* b_dev and b_blocknr
          b_count, b_lock, b_dirt, b_uptodate,
          io,                           \* the transfer under way, if any
          mem, disk,                    \* ghosts, see below
          free_list,                    \* all buffers, in the order of the ring
          wq,
          pc, op,                       \* a call of a task and its locals
          holds,                        \* the buffer a task got and will brelse
          running                       \* the task in the kernel, not asleep

dev   == INSTANCE BlkDev
flags == <<b_lock, b_dirt, b_uptodate, io>>
data  == <<mem, disk>>
vars  == <<blk, b_count, flags, data, free_list, wq, pc, op, holds, running>>

(***************************************************************************)
(* Of the contents of a block all that matters is whether they are what     *)
(* was last written to it, by anyone: mem[b] says so of those of a buffer,  *)
(* disk[x] of those on the disk.                                            *)
(***************************************************************************)
Current == TRUE
Stale   == FALSE

(***************************************************************************)
(* The locals of getblk, bread, breada and sync_dev: the block, the buffer, *)
(* the position in the loop of sync_dev (both its loops, one after the      *)
(* other), the block to read ahead, and the first buffer of breada.         *)
(***************************************************************************)
Op == [what : {"getblk", "bread", "breada", "sync"}, block : Block, bh : Buf \cup {NoBuf},
       i : 0 .. 2 * NR_BUFFERS, ahead : Block, first : Buf \cup {NoBuf}]
NoOp == [what |-> "none"]

\* The labels at which a task waits for op.bh, or for the buffer it holds.
WaitLabels == {"hash_wait", "wait", "sync", "read_wait", "brelse"}

TypeOK ==
    /\ blk \in [Buf -> Block \cup {NoBlock}]
    /\ b_count \in [Buf -> Nat]
    /\ b_lock \in [Buf -> BOOLEAN] /\ b_dirt \in [Buf -> BOOLEAN]
    /\ b_uptodate \in [Buf -> BOOLEAN]
    /\ io \in [Buf -> dev!Command \cup {"none"}]
    /\ mem \in [Buf -> {Current, Stale}] /\ disk \in [Block -> {Current, Stale}]
    /\ free_list \in Seq(Buf) /\ Len(free_list) = NR_BUFFERS
    /\ \A b \in Buf : \E i \in Buf : free_list[i] = b
    /\ wq \in WaitQueues
    /\ pc \in [Task -> WaitLabels \cup {"idle", "getblk", "buffer_wait", "got",
                                       "write", "read", "reada"}]
    /\ op \in [Task -> Op \cup {NoOp}]
    /\ holds \in [Task -> Buf \cup {NoBuf}]
    /\ running \in Task \cup {NoTask}

Init ==
    /\ blk = [b \in Buf |-> NoBlock]
    /\ b_count = [b \in Buf |-> 0]
    /\ dev!Init
    /\ disk = [x \in Block |-> Current]
    /\ mem = [b \in Buf |-> Stale]
    /\ free_list = [i \in Buf |-> i]
    /\ wq = NobodyWaits
    /\ pc = [t \in Task |-> "idle"]
    /\ op = [t \in Task |-> NoOp]
    /\ holds = [t \in Task |-> NoBuf]
    /\ running = NoTask

GoTo(t, label)     == pc' = [pc EXCEPT ![t] = label]
SetOp(t, field, v) == op' = [op EXCEPT ![t][field] = v]
Count(b, n)        == b_count' = [b_count EXCEPT ![b] = @ + n]

\* t is in the kernel and has not slept since, or gets the processor back.
In(t, label)      == running = t /\ pc[t] = label
Resumes(t, label) == running \in {t, NoTask} /\ pc[t] = label
GoesOn(t, label)  == GoTo(t, label) /\ running' = t
Leaves(t)         == GoTo(t, "idle") /\ running' = NoTask

\* The buffer sync_dev is at: it goes through all of them twice.
Visited(t) == 1 + ((op[t].i - 1) % NR_BUFFERS)

Awaited(t) == IF pc[t] = "brelse" THEN holds[t]
              ELSE IF pc[t] = "sync" THEN Visited(t)
              ELSE IF pc[t] = "read_wait" THEN op[t].first
              ELSE op[t].bh

\* The buffer is locked: the task sleeps on it.
SleepOnBuffer(t) ==
    /\ running = t /\ pc[t] \in WaitLabels /\ b_lock[Awaited(t)]
    /\ running' = NoTask
    /\ UNCHANGED <<blk, b_count, flags, data, free_list, wq, pc, op, holds>>

\* wait_on_buffer, lock_buffer: past the wait.
Unlocked(t, label) == Resumes(t, label) /\ ~b_lock[Awaited(t)]

(***************************************************************************)
(* Calls.  A task holds at most one buffer between its calls.  getblk       *)
(* without a read is for a block that new_block has just found free: nobody *)
(* else uses it until its buffer has been cleared.                          *)
(***************************************************************************)
Uses(t, x) == \/ op[t] # NoOp /\ x \in {op[t].block, op[t].ahead}
              \/ holds[t] # NoBuf /\ blk[holds[t]] = x

ClearingOnly(x) == \E t \in Task : op[t] # NoOp /\ op[t].what = "getblk" /\ op[t].block = x

Begin(t, what, x, y, label, i) ==
    /\ what \in Calls
    /\ running = NoTask /\ pc[t] = "idle" /\ holds[t] = NoBuf
    /\ GoesOn(t, label)
    /\ op' = [op EXCEPT ![t] = [what |-> what, block |-> x, bh |-> NoBuf, i |-> i,
                                ahead |-> y, first |-> NoBuf]]
    /\ UNCHANGED <<blk, b_count, flags, data, free_list, wq, holds>>

CallBread(t, x)     == ~ClearingOnly(x) /\ Begin(t, "bread", x, x, "getblk", 0)
CallBreada(t, x, y) == /\ ~ClearingOnly(x) /\ ~ClearingOnly(y)
                       /\ Begin(t, "breada", x, y, "getblk", 0)
CallNewBlock(t, x)  == /\ \A u \in Task : ~Uses(u, x)
                       /\ Begin(t, "getblk", x, x, "getblk", 0)

\* sys_sync: the second of the loops of sync_dev, for all devices.
CallSync(t) == \E x \in Block : Begin(t, "sync", x, x, "sync", NR_BUFFERS + 1)

(***************************************************************************)
(* get_hash_table                                                           *)
(***************************************************************************)
Cached(x) == {b \in Buf : blk[b] = x}

FindInHash(t) ==
    /\ In(t, "getblk")
    /\ \E b \in Cached(op[t].block) :
        /\ Count(b, 1)
        /\ SetOp(t, "bh", b)
    /\ GoTo(t, "hash_wait")
    /\ UNCHANGED <<blk, flags, data, free_list, wq, holds, running>>

\* Its reference keeps the buffer with the block, so the second branch, kept as
\* the code has it, is never taken.
CheckHash(t) ==
    /\ Unlocked(t, "hash_wait")
    /\ IF blk[op[t].bh] = op[t].block
       THEN GoesOn(t, "got") /\ UNCHANGED b_count
       ELSE GoesOn(t, "getblk") /\ Count(op[t].bh, -1)
    /\ UNCHANGED <<blk, flags, data, free_list, wq, op, holds>>

(***************************************************************************)
(* getblk                                                                   *)
(***************************************************************************)
BADNESS(b) == (IF b_dirt[b] THEN 2 ELSE 0) + (IF b_lock[b] THEN 1 ELSE 0)

\* The first of the least bad unused buffers, in the order of the free list.
Candidate ==
    LET unused == {i \in 1 .. NR_BUFFERS : b_count[free_list[i]] = 0}
        best == {i \in unused : \A j \in unused :
                    BADNESS(free_list[i]) <= BADNESS(free_list[j])}
    IN  IF unused = {} THEN NoBuf
        ELSE free_list[CHOOSE i \in best : \A j \in best : i <= j]

ChooseBuffer(t) ==
    /\ In(t, "getblk") /\ Cached(op[t].block) = {}
    /\ Candidate # NoBuf
    /\ SetOp(t, "bh", Candidate)
    /\ GoTo(t, "wait")
    /\ UNCHANGED <<blk, b_count, flags, data, free_list, wq, holds, running>>

NoBufferFree(t) ==
    /\ In(t, "getblk") /\ Cached(op[t].block) = {}
    /\ Candidate = NoBuf
    /\ wq' = SleepOn(wq, buffer_wait, t)
    /\ GoTo(t, "buffer_wait")
    /\ running' = NoTask
    /\ UNCHANGED <<blk, b_count, flags, data, free_list, op, holds>>

BufferWaitResumes(t) ==
    /\ Resumes(t, "buffer_wait") /\ Runnable(wq, t)
    /\ wq' = SleepReturns(wq, buffer_wait, t)
    /\ GoesOn(t, "getblk")
    /\ UNCHANGED <<blk, b_count, flags, data, free_list, op, holds>>

\* While we slept the buffer was taken, or the block was added to the cache.
TryAgain(t) ==
    /\ Unlocked(t, "wait")
    /\ LET b == op[t].bh
       IN  b_count[b] # 0 \/ (~b_dirt[b] /\ Cached(op[t].block) # {})
    /\ GoesOn(t, "getblk")
    /\ UNCHANGED <<blk, b_count, flags, data, free_list, wq, op, holds>>

SyncFirst(t) ==
    /\ Unlocked(t, "wait")
    /\ b_count[op[t].bh] = 0 /\ b_dirt[op[t].bh]
    /\ SetOp(t, "i", 1)
    /\ GoesOn(t, "sync")
    /\ UNCHANGED <<blk, b_count, flags, data, free_list, wq, holds>>

\* Mutants: the buffer, or the hash table, is not looked at again.
StillMissing(t, b) == ~b_dirt[b] /\ Cached(op[t].block) = {}
StillUnused(t, b)  == b_count[b] = 0 /\ ~b_dirt[b]
MayBeDirty(t, b)   == b_count[b] = 0 /\ Cached(op[t].block) = {}

Reusable(t, b) == b_count[b] = 0 /\ ~b_dirt[b] /\ Cached(op[t].block) = {}

\* remove_from_queues, insert_into_queues: the free list is in LRU order.
Requeued(b) ==
    LET i == CHOOSE i \in 1 .. NR_BUFFERS : free_list[i] = b
    IN  Append(RemoveAt(free_list, i), b)

\* Mutant: b_uptodate is left from the buffer's former block.
TakeBufferAsItIs(t) ==
    /\ Unlocked(t, "wait") /\ Reusable(t, op[t].bh)
    /\ LET b == op[t].bh
       IN  /\ b_count' = [b_count EXCEPT ![b] = 1]
           /\ blk' = [blk EXCEPT ![b] = op[t].block]
           /\ mem' = [mem EXCEPT ![b] = Stale]
           /\ free_list' = Requeued(b)
    /\ GoesOn(t, "got")
    /\ UNCHANGED <<flags, disk, wq, op, holds>>

TakeBuffer(t) ==
    /\ Unlocked(t, "wait") /\ Reusable(t, op[t].bh)
    /\ LET b == op[t].bh
       IN  /\ b_count' = [b_count EXCEPT ![b] = 1]
           /\ b_uptodate' = [b_uptodate EXCEPT ![b] = FALSE]
           /\ blk' = [blk EXCEPT ![b] = op[t].block]
           /\ mem' = [mem EXCEPT ![b] = Stale]
           /\ free_list' = Requeued(b)
    /\ GoesOn(t, "got")
    /\ UNCHANGED <<b_lock, b_dirt, io, disk, wq, op, holds>>

(***************************************************************************)
(* sync_dev: every buffer of the device, twice; a dirty one is written.     *)
(* The buffers of other devices, and the ones never used, are skipped       *)
(* without waiting.                                                         *)
(***************************************************************************)
SyncGoesOn(t) ==
    IF op[t].i < 2 * NR_BUFFERS
    THEN SetOp(t, "i", op[t].i + 1) /\ GoesOn(t, "sync")
    ELSE IF op[t].what = "sync"
    THEN Leaves(t) /\ op' = [op EXCEPT ![t] = NoOp]
    ELSE SetOp(t, "i", 0) /\ GoesOn(t, "wait")

SyncSkips(t) ==
    /\ Resumes(t, "sync")
    /\ \/ running = t /\ blk[Awaited(t)] = NoBlock
       \/ ~b_lock[Awaited(t)] /\ ~b_dirt[Awaited(t)]
    /\ SyncGoesOn(t)
    /\ UNCHANGED <<blk, b_count, flags, data, free_list, wq, holds>>

\* ll_rw_block(WRITE,bh) locks the buffer.
SyncLocks(t) ==
    /\ Unlocked(t, "sync") /\ b_dirt[Awaited(t)]
    /\ dev!LockBuffer(Awaited(t))
    /\ GoesOn(t, "write")
    /\ UNCHANGED <<blk, b_count, data, free_list, wq, op, holds>>

\* make_request queues the transfer, or sleeps first until a request is free.
SyncWrites(t) ==
    /\ Resumes(t, "write")
    /\ dev!Start(Visited(t), "WRITE")
    /\ SyncGoesOn(t)
    /\ UNCHANGED <<blk, b_count, data, free_list, wq, holds>>

WaitsForRequest(t) ==
    /\ running = t /\ pc[t] \in {"write", "read"}
    /\ running' = NoTask
    /\ UNCHANGED <<blk, b_count, flags, data, free_list, wq, pc, op, holds>>

(***************************************************************************)
(* bread and breada, once getblk has returned.  The buffer is unlocked, so  *)
(* lock_buffer does not wait.                                               *)
(***************************************************************************)
GotFirst(t) == In(t, "got") /\ op[t].what \in {"bread", "breada"} /\ op[t].first = NoBuf

ReadLocks(t) ==
    /\ GotFirst(t) /\ ~b_uptodate[op[t].bh]
    /\ dev!LockBuffer(op[t].bh)
    /\ GoTo(t, "read")
    /\ UNCHANGED <<blk, b_count, data, free_list, wq, op, holds, running>>

\* bread waits for the buffer, breada gets the block to be read ahead first.
FirstIsUnderWay(t) ==
    /\ op' = [op EXCEPT ![t].first = op[t].bh, ![t].block = op[t].ahead]
    /\ GoTo(t, IF op[t].what = "bread" THEN "read_wait" ELSE "getblk")

ReadQueued(t) ==
    /\ Resumes(t, "read")
    /\ dev!Start(op[t].bh, "READ")
    /\ FirstIsUnderWay(t)
    /\ running' = t
    /\ UNCHANGED <<blk, b_count, data, free_list, wq, holds>>

ReadNotNeeded(t) ==
    /\ GotFirst(t) /\ b_uptodate[op[t].bh]
    /\ FirstIsUnderWay(t)
    /\ UNCHANGED <<blk, b_count, flags, data, free_list, wq, holds, running>>

GotAhead(t) == In(t, "got") /\ op[t].first # NoBuf

AheadLocks(t) ==
    /\ GotAhead(t) /\ ~b_uptodate[op[t].bh]
    /\ dev!LockBuffer(op[t].bh)
    /\ GoTo(t, "reada")
    /\ UNCHANGED <<blk, b_count, data, free_list, wq, op, holds, running>>

\* Mutant: tmp->b_count-- is missing.
DropAheadKeeps(t) ==
    /\ GoTo(t, "read_wait")
    /\ UNCHANGED <<blk, b_count, data, free_list, wq, op, holds, running>>

\* The buffer read ahead is dropped with tmp->b_count--, not with brelse.
DropAhead(t) ==
    /\ Count(op[t].bh, -1)
    /\ GoTo(t, "read_wait")
    /\ UNCHANGED <<blk, data, free_list, wq, op, holds, running>>

\* READA: the transfer is queued, or given up when no request is free.
AheadQueued(t) ==
    /\ In(t, "reada")
    /\ dev!Start(op[t].bh, "READ") \/ dev!GiveUp(op[t].bh)
    /\ DropAhead(t)

AheadNotNeeded(t) ==
    /\ GotAhead(t) /\ b_uptodate[op[t].bh]
    /\ DropAhead(t)
    /\ UNCHANGED flags

\* The buffer is returned when it could be read, otherwise it is released.
ReadDone(t) ==
    /\ Unlocked(t, "read_wait")
    /\ IF b_uptodate[op[t].first] THEN Leaves(t) ELSE GoesOn(t, "brelse")
    /\ op' = [op EXCEPT ![t] = NoOp]
    /\ holds' = [holds EXCEPT ![t] = op[t].first]
    /\ UNCHANGED <<blk, b_count, flags, data, free_list, wq>>

(***************************************************************************)
(* The users of the buffers.  new_block (bitmap.c) clears the buffer        *)
(* without reading it; others write into a buffer bread returned.           *)
(***************************************************************************)
NewContents(b) ==
    /\ mem' = [c \in Buf |-> IF blk[c] = blk[b] THEN c = b ELSE mem[c]]
    /\ disk' = [disk EXCEPT ![blk[b]] = Stale]
    /\ b_dirt' = [b_dirt EXCEPT ![b] = TRUE]
    /\ UNCHANGED <<blk, b_count, b_lock, io, free_list, wq>>

Returns(t) ==
    /\ Leaves(t)
    /\ op' = [op EXCEPT ![t] = NoOp]
    /\ holds' = [holds EXCEPT ![t] = op[t].bh]

ClearNewBlock(t) ==
    /\ In(t, "got") /\ op[t].what = "getblk"
    /\ NewContents(op[t].bh)
    /\ b_uptodate' = [b_uptodate EXCEPT ![op[t].bh] = TRUE]
    /\ Returns(t)

Modify(t) ==
    /\ running = NoTask /\ pc[t] = "idle" /\ holds[t] # NoBuf
    /\ NewContents(holds[t])
    /\ UNCHANGED <<b_uptodate, pc, op, holds, running>>

CallBrelse(t) ==
    /\ running = NoTask /\ pc[t] = "idle" /\ holds[t] # NoBuf
    /\ GoesOn(t, "brelse")
    /\ UNCHANGED <<blk, b_count, flags, data, free_list, wq, op, holds>>

Brelse(t) ==
    /\ Unlocked(t, "brelse")
    /\ Count(holds[t], -1)
    /\ wq' = WakeUp(wq, buffer_wait)
    /\ holds' = [holds EXCEPT ![t] = NoBuf]
    /\ Leaves(t)
    /\ UNCHANGED <<blk, flags, data, free_list, op>>

(***************************************************************************)
(* The interrupt that ends a transfer.  When the buffer was modified while  *)
(* it was being written, the disk may hold any mixture, at worst nothing of  *)
(* the modification.  A read may fail; a write that fails loses the data,   *)
(* which is left out here.                                                  *)
(***************************************************************************)
EndTransfer(b, ok) ==
    /\ ok \/ io[b] = "READ"
    /\ dev!Finish(b, ok)
    /\ CASE ok /\ io[b] = "READ"  -> /\ mem' = [mem EXCEPT ![b] = disk[blk[b]]]
                                     /\ UNCHANGED disk
         [] ok /\ io[b] = "WRITE" ->
                /\ disk' = [disk EXCEPT ![blk[b]] = IF b_dirt[b] THEN Stale ELSE mem[b]]
                /\ UNCHANGED mem
         [] OTHER -> UNCHANGED <<mem, disk>>
    /\ UNCHANGED <<blk, b_count, free_list, wq, pc, op, holds, running>>

Works(t) ==
    \/ SleepOnBuffer(t)
    \/ FindInHash(t) \/ CheckHash(t) \/ ChooseBuffer(t) \/ NoBufferFree(t)
    \/ BufferWaitResumes(t) \/ TryAgain(t) \/ SyncFirst(t) \/ TakeBuffer(t)
    \/ SyncSkips(t) \/ SyncLocks(t) \/ SyncWrites(t) \/ WaitsForRequest(t)
    \/ ReadLocks(t) \/ ReadQueued(t) \/ ReadNotNeeded(t)
    \/ AheadLocks(t) \/ AheadQueued(t) \/ AheadNotNeeded(t) \/ ReadDone(t)
    \/ CallBrelse(t) \/ Brelse(t)
    \/ CallSync(t)
    \/ \E x \in Block : CallBread(t, x) \/ \E y \in Block : CallBreada(t, x, y)
    \/ Modify(t)

Interrupts == \E b \in Buf, ok \in BOOLEAN : EndTransfer(b, ok)

ClearsNew(t) == \/ \E x \in Block : CallNewBlock(t, x)
                \/ ClearNewBlock(t)

Next == (\E t \in Task : Works(t) \/ ClearsNew(t)) \/ Interrupts

Spec == Init /\ [][Next]_vars

-----------------------------------------------------------------------------
\* No block is in two buffers: two tasks that want the same block never end up
\* with a buffer each, although getblk sleeps between looking for the block
\* and entering it.
NoBlockTwice ==
    \A b, c \in Buf : blk[b] = blk[c] /\ blk[b] # NoBlock => b = c

Counted(t) ==
    IF op[t] = NoOp THEN {holds[t]} \ {NoBuf}
    ELSE ({op[t].first} \cup
          (IF pc[t] \in {"hash_wait", "got", "read", "reada"} THEN {op[t].bh} ELSE {}))
             \ {NoBuf}

\* b_count is the number of references: what tasks hold, and what getblk and
\* breada hold on their way (the block read and the block read ahead may be
\* one buffer).  brelse never frees a free buffer.
CountIsReferences ==
    \A b \in Buf :
        b_count[b] = Cardinality({t \in Task : b \in Counted(t)})
                   + Cardinality({t \in Task :
                         /\ op[t] # NoOp /\ op[t].first = b /\ op[t].bh = b
                         /\ pc[t] \in {"hash_wait", "got", "reada"}})

\* A buffer somebody refers to keeps its block, and getblk takes for another
\* block only a buffer that is unused, unlocked and clean, as its comment says.
OnlyQuietBuffersAreReused ==
    [][\A b \in Buf : blk'[b] # blk[b] =>
           b_count[b] = 0 /\ ~b_lock[b] /\ ~b_dirt[b] /\ io[b] = "none"]_vars

\* What a task sees in the buffer of a block is what was last written to the
\* block by anyone, whatever was evicted, written back and read again between.
ReadsSeeLastWrite ==
    \A t \in Task :
        LET b == holds[t]
        IN  b # NoBuf /\ pc[t] = "idle" /\ b_uptodate[b] => mem[b] = Current

\* A block without a buffer that is up to date is on the disk.
NothingLost ==
    \A x \in Block :
        (\A b \in Cached(x) : ~b_uptodate[b] /\ ~b_dirt[b]) => disk[x] = Current
=============================================================================
