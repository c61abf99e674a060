-------------------------------- MODULE Zones --------------------------------
(***************************************************************************)
(* The blocks of files: _bmap (fs/inode.c), truncate (fs/truncate.c),       *)
(* new_block and free_block (fs/bitmap.c), and the calls of file_dev.c that *)
(* use them, one block at a time.                                           *)
(*                                                                         *)
(* A task sleeps in getblk, before it holds a buffer, and in bread and      *)
(* get_hash_table, holding it; whether it does is up to the rest of the     *)
(* system (BufferCache).  Where it does not, nobody else runs in between:   *)
(* then it is the next one to step.                                         *)
(*                                                                         *)
(* Nothing keeps two tasks out of one file.  What they can do to each other *)
(* there is in "wrong", and with it the model stops.                        *)
(***************************************************************************)
EXTENDS Naturals, FiniteSets, SequencesExt

CONSTANTS Caller, NoCaller,     \* a task
          File,
          Depth,        \* of the tree at each i_zone: 0 seven times, 1, 2
          PER_BLOCK,    \* the block numbers in a block (512)
          NR_BLOCK,     \* the blocks of the device
          MAX_SINCE     \* bound on since

Zone  == DOMAIN Depth
Index == 1 .. PER_BLOCK
Block == 1 .. NR_BLOCK

ASSUME ZonesAssumption ==
    /\ NoCaller \notin Caller
    /\ Depth \in Seq(Nat) /\ PER_BLOCK \in Nat \ {0} /\ NR_BLOCK \in Nat \ {0}
    /\ MAX_SINCE \in Nat

VARIABLES i_zone,       \* of each inode
          ptr,          \* the block numbers in a block
          zmap,         \* the bits that are set in the block bitmap
          stage, op,    \* how far the call of a task is, and its locals
          running,      \* the task in the kernel, not asleep
          lost,         \* blocks no file leads to, after a read error
          wrong,        \* what has gone wrong
          since         \* the calls begun since two overlapped badly, the second included

zonesVars == <<i_zone, ptr, zmap, stage, op, running, lost, wrong, since>>

disk  == <<i_zone, ptr, zmap, lost>>
ghost == <<wrong, since>>

\* Where a block of a file is: the entry of i_zone, then one per level.
Path     == UNION {{<<z>> \o p : p \in UNION {[1 .. n -> Index] : n \in 0 .. Depth[z]}} :
                   z \in Zone}
Position == {p \in Path : Len(p) = Depth[p[1]] + 1}

(***************************************************************************)
(* The locals: how far down the path _bmap is, the block in hand, the one   *)
(* new_block has just marked, the buffers held; of truncate the calls of    *)
(* free_ind and free_dind that are open, what has been freed and the next      *)
(* i_zone.  overlap: another call on the file has come in between.          *)
(***************************************************************************)
Frame == [block : Block, depth : Nat, index : Nat]
Op    == [what : {"read", "write", "truncate"}, file : File, path : Position \cup {<< >>},
          level : Nat, block : Block \cup {0}, new : Block \cup {0}, holds : SUBSET Block,
          stack : Seq(Frame), freed : SUBSET Path, zone : Nat, overlap : BOOLEAN]
NoOp  == [what |-> "none"]

Busy == {t \in Caller : op[t] # NoOp}

ZonesTypeOK ==
    /\ i_zone \in [File -> [Zone -> Block \cup {0}]]
    /\ ptr \in [Block -> [Index -> Block \cup {0}]]
    /\ zmap \subseteq Block /\ lost \subseteq Block
    /\ stage \in [Caller -> {"user", "look", "getblk", "read", "new", "next", "free"}]
    /\ op \in [Caller -> Op \cup {NoOp}]
    /\ \A t \in Busy : op[t].path # << >> => op[t].level \in DOMAIN op[t].path
    /\ running \in Caller \cup {NoCaller}
    /\ wrong \in {"nothing", "two blocks for one place", "block no longer in the file",
                  "block in use not freed", "new block: count is != 1",
                  "free_block: bit already cleared"}
    /\ since \in 0 .. MAX_SINCE

ZonesInit ==
    /\ i_zone = [f \in File |-> [z \in Zone |-> 0]]
    /\ ptr = [b \in Block |-> [i \in Index |-> 0]]
    /\ zmap = {} /\ lost = {}
    /\ stage = [t \in Caller |-> "user"] /\ op = [t \in Caller |-> NoOp]
    /\ running = NoCaller
    /\ wrong = "nothing" /\ since = 0

Resumes(t, label)  == wrong = "nothing" /\ running \in {t, NoCaller} /\ stage[t] = label
GoesOn(t, label)   == stage' = [stage EXCEPT ![t] = label] /\ running' = t
MaySleep(t, label) == stage' = [stage EXCEPT ![t] = label] /\ running' = NoCaller
CallReturns(t)     == /\ stage' = [stage EXCEPT ![t] = "user"] /\ running' = NoCaller
                      /\ op' = [op EXCEPT ![t] = NoOp]

\* Mutant: get_hash_table's own count is taken for another's.
HeldByAnyone(t, b) == \E u \in Busy : b \in op[u].holds

HeldByOthers(t, b) == \E u \in Busy \ {t} : b \in op[u].holds

\* The block at the path p of f, or 0.  What free_ind and free_dind have freed is
\* not the file's any more, although block numbers still lead there.
FreedIn(f) == UNION {op[t].freed : t \in {u \in Busy : op[u].file = f}}

BlockAt(f, p) ==
    LET Down(b, i) == IF b = 0 THEN 0 ELSE ptr[b][i]
    IN  IF \E q \in FreedIn(f) : IsPrefix(q, p) THEN 0
        ELSE FoldLeft(Down, i_zone[f][p[1]], Tail(p))

BlocksOf(f) == {BlockAt(f, p) : p \in Path} \ {0}

-----------------------------------------------------------------------------
(***************************************************************************)
(* Calls: file_read and file_write of one block, O_TRUNC or the last iput   *)
(* of a file without links.  Two calls overlap badly when one truncates or  *)
(* both may allocate.                                                       *)
(***************************************************************************)
Conflict(a, b) == "truncate" \in {a, b} \/ (a = "write" /\ b = "write")

Overlapping == \E t \in Busy : op[t].overlap

Call(t, what, f, p, label) ==
    LET others == {u \in Busy : op[u].file = f /\ Conflict(what, op[u].what)}
    IN  /\ wrong = "nothing" /\ running = NoCaller /\ stage[t] = "user"
        /\ since < MAX_SINCE
        /\ GoesOn(t, label)
        /\ op' = [u \in Caller |->
                    CASE u = t        -> [what |-> what, file |-> f, path |-> p, level |-> 1,
                                          block |-> 0, new |-> 0, holds |-> {}, stack |-> << >>,
                                          freed |-> {}, zone |-> 1, overlap |-> others # {}]
                      [] u \in others -> [op[u] EXCEPT !.overlap = TRUE]
                      [] OTHER        -> op[u]]
        /\ since' = IF since > 0 \/ others # {} THEN since + 1 ELSE 0
        /\ UNCHANGED <<disk, wrong>>

ReadCall(t, f, p)  == Call(t, "read", f, p, "look")
WriteCall(t, f, p) == Call(t, "write", f, p, "look")
Truncate(t, f)     == Call(t, "truncate", f, << >>, "next")

-----------------------------------------------------------------------------
(***************************************************************************)
(* _bmap, one level at a time: look at the entry, fill it if need be, and   *)
(* read the block it leads to.  The block the entry is in stays held until  *)
(* the entry has been dealt with.                                           *)
(***************************************************************************)
Entry(t) == LET o == op[t] IN
    IF o.level = 1 THEN i_zone[o.file][o.path[1]] ELSE ptr[o.block][o.path[o.level]]

\* A hole is read as zeros.
FindsHole(t) ==
    /\ Resumes(t, "look") /\ Entry(t) = 0 /\ op[t].what = "read"
    /\ CallReturns(t)
    /\ UNCHANGED <<disk, ghost>>

Finds(t) ==
    /\ Resumes(t, "look") /\ Entry(t) # 0
    /\ op' = [op EXCEPT ![t].block = Entry(t), ![t].holds = {}]
    /\ MaySleep(t, "getblk")
    /\ UNCHANGED <<disk, ghost>>

Free == Block \ zmap

\* new_block: the bit is set before getblk sleeps.
NoNewBlock(t) ==
    /\ Resumes(t, "look") /\ Entry(t) = 0 /\ op[t].what = "write" /\ Free = {}
    /\ CallReturns(t)
    /\ UNCHANGED <<disk, ghost>>

Marked(j) == zmap \cup {j}

NewBlock(t) ==
    /\ Resumes(t, "look") /\ Entry(t) = 0 /\ op[t].what = "write" /\ Free # {}
    /\ LET j == Min(Free)
       IN  /\ zmap' = Marked(j)
           /\ op' = [op EXCEPT ![t].new = j]
    /\ MaySleep(t, "new")
    /\ UNCHANGED <<i_zone, ptr, lost, ghost>>

\* Mutant: the block keeps what it held.
NotCleared(b) == ptr

Cleared(b) == [ptr EXCEPT ![b] = [i \in Index |-> 0]]

\* getblk has returned; the block is cleared and its number stored.
Fills(t) ==
    LET o == op[t]
    IN  /\ Resumes(t, "new") /\ ~HeldByOthers(t, o.new)
        /\ IF o.level = 1
           THEN /\ i_zone' = [i_zone EXCEPT ![o.file][o.path[1]] = o.new]
                /\ ptr' = Cleared(o.new)
           ELSE /\ ptr' = [Cleared(o.new) EXCEPT ![o.block][o.path[o.level]] = o.new]
                /\ UNCHANGED i_zone
        /\ op' = [op EXCEPT ![t].new = 0]
        /\ GoesOn(t, "look")
        /\ wrong' = IF Entry(t) # 0 THEN "two blocks for one place" ELSE wrong
        /\ UNCHANGED <<zmap, lost, since>>

FillPanics(t) ==
    /\ Resumes(t, "new") /\ HeldByOthers(t, op[t].new)
    /\ wrong' = "new block: count is != 1"
    /\ UNCHANGED <<disk, stage, op, running, since>>

-----------------------------------------------------------------------------
\* Where the block on top is.  The index of a block has moved on to the next entry.
TopPath(t) == LET s == op[t].stack IN
    <<op[t].zone - 1>> \o [n \in 1 .. Len(s) - 1 |-> s[n].index - 1]

\* bread: getblk, then the wait for the data.  A read error ends _bmap, file_read
\* and file_write; free_ind and free_dind free the block all the same.
Truncates(t) == op[t].what = "truncate"

BreadHolds(t) ==
    /\ Resumes(t, "getblk")
    /\ op' = [op EXCEPT ![t].holds = @ \cup {op[t].block}]
    /\ MaySleep(t, "read")
    /\ UNCHANGED <<disk, ghost>>

ReadFails(t) ==
    /\ Resumes(t, "read") /\ ~Truncates(t)
    /\ CallReturns(t)
    /\ UNCHANGED <<disk, ghost>>

\* The block is the file's no longer: it has been freed, and perhaps given to
\* another, since its number was looked up.
Place(t) == IF Truncates(t) THEN TopPath(t) ELSE SubSeq(op[t].path, 1, op[t].level)

Stale(t) == op[t].block # BlockAt(op[t].file, Place(t))

ReadsStale(t) ==
    /\ Resumes(t, "read") /\ Stale(t)
    /\ wrong' = "block no longer in the file"
    /\ UNCHANGED <<disk, stage, op, running, since>>

HoldsPointers(t) == op[t].level < Len(op[t].path)

ReadsPointers(t) ==
    /\ Resumes(t, "read") /\ ~Truncates(t) /\ ~Stale(t) /\ HoldsPointers(t)
    /\ op' = [op EXCEPT ![t].level = @ + 1]
    /\ GoesOn(t, "look")
    /\ UNCHANGED <<disk, ghost>>

\* The data is copied and the buffer released.
UsesBlock(t) ==
    /\ Resumes(t, "read") /\ ~Truncates(t) /\ ~Stale(t) /\ op[t].level = Len(op[t].path)
    /\ CallReturns(t)
    /\ UNCHANGED <<disk, ghost>>

-----------------------------------------------------------------------------
(***************************************************************************)
(* truncate: the entries of i_zone in turn, free_ind and free_dind calling  *)
(* free_block for the blocks below a block and then for the block.          *)
(***************************************************************************)
Top(t)        == Last(op[t].stack)
Below(b, d)   == [block |-> b, depth |-> d, index |-> 0]
Advanced(t)   == [op[t].stack EXCEPT ![Len(op[t].stack)].index = @ + 1]

\* The label at which a block is dealt with: free_ind and free_dind read it.
Starts(d) == IF d = 0 THEN "free" ELSE "getblk"

NextZone(t) ==
    LET o == op[t]
        b == i_zone[o.file][o.zone]
    IN  /\ Resumes(t, "next") /\ o.stack = << >> /\ o.zone \in Zone
        /\ IF b = 0
           THEN op' = [op EXCEPT ![t].zone = @ + 1] /\ GoesOn(t, "next")
           ELSE /\ op' = [op EXCEPT ![t].stack = <<Below(b, Depth[o.zone])>>,
                                    ![t].block = b, ![t].zone = @ + 1,
                                    ![t].holds = IF Depth[o.zone] = 0 THEN {b} ELSE {}]
                /\ MaySleep(t, Starts(Depth[o.zone]))
        /\ UNCHANGED <<disk, ghost>>

\* The blocks are in memory now: the loop of free_ind or free_dind begins.
ReadsBelow(t) ==
    /\ Resumes(t, "read") /\ Truncates(t) /\ ~Stale(t)
    /\ op' = [op EXCEPT ![t].stack = Advanced(t), ![t].block = 0]
    /\ GoesOn(t, "next")
    /\ UNCHANGED <<disk, ghost>>

PathsBelow(f, b) ==
    {p \in Path : \E n \in 1 .. Len(p) - 1 : BlockAt(f, SubSeq(p, 1, n)) = b}

\* What is below cannot be read, and stays marked for ever.
CannotReadBelow(t) ==
    LET b == op[t].block
    IN  /\ Resumes(t, "read") /\ Truncates(t) /\ ~Stale(t)
        /\ lost' = lost \cup ({BlockAt(op[t].file, p) : p \in PathsBelow(op[t].file, b)} \ {0})
        /\ GoesOn(t, "free")
        /\ UNCHANGED <<i_zone, ptr, zmap, op, ghost>>

\* The next block number in the block on top.
NextBelow(t) ==
    LET b == ptr[Top(t).block][Top(t).index]
        d == Top(t).depth - 1
    IN  /\ Resumes(t, "next") /\ op[t].stack # << >> /\ Top(t).index \in Index
        /\ IF b = 0
           THEN op' = [op EXCEPT ![t].stack = Advanced(t)] /\ GoesOn(t, "next")
           ELSE /\ op' = [op EXCEPT ![t].stack = Append(Advanced(t), Below(b, d)),
                                    ![t].block = b,
                                    ![t].holds = IF d = 0 THEN @ \cup {b} ELSE @]
                /\ MaySleep(t, Starts(d))
        /\ UNCHANGED <<disk, ghost>>

BelowDone(t) ==
    /\ Resumes(t, "next") /\ op[t].stack # << >> /\ Top(t).index > PER_BLOCK
    /\ op' = [op EXCEPT ![t].block = Top(t).block]
    /\ MaySleep(t, "free")
    /\ UNCHANGED <<disk, ghost>>

\* Mutant: a block below one that is freed keeps its bit.
UnmarkedTop(t) == IF Len(op[t].stack) = 1 THEN zmap \ {op[t].block} ELSE zmap

Unmarked(t) == zmap \ {op[t].block}

\* free_block: get_hash_table has returned.  Of what is freed only the first entries
\* of i_zone are cleared at once.
FreeBlock(t) ==
    LET o == op[t]
        b == o.block
        z == o.zone - 1
    IN  /\ Resumes(t, "free") /\ ~HeldByOthers(t, b) /\ b \in zmap /\ ~Stale(t)
        /\ zmap' = Unmarked(t)
        /\ op' = [op EXCEPT ![t].stack = Front(@), ![t].block = 0, ![t].holds = @ \ {b},
                            ![t].freed = IF Depth[z] = 0 THEN @ ELSE @ \cup {TopPath(t)}]
        /\ i_zone' = IF Depth[z] = 0 THEN [i_zone EXCEPT ![o.file][z] = 0] ELSE i_zone
        /\ GoesOn(t, "next")
        /\ UNCHANGED <<ptr, lost, ghost>>

\* What free_block does to a block others use, or have freed: it keeps the bit and
\* the buffer, panics, or takes the block from the file it is in now.
FreeGoesWrong(t) ==
    LET b == op[t].block
    IN  /\ Resumes(t, "free")
        /\ \/ HeldByOthers(t, b) /\ wrong' = "block in use not freed"
           \/ ~HeldByOthers(t, b) /\ b \notin zmap /\ wrong' = "free_block: bit already cleared"
           \/ ~HeldByOthers(t, b) /\ b \in zmap /\ Stale(t)
              /\ wrong' = "block no longer in the file"
        /\ UNCHANGED <<disk, stage, op, running, since>>

NoZones(zones) == [z \in Zone |-> IF Depth[z] > 0 THEN 0 ELSE zones[z]]

Truncated(t) ==
    /\ Resumes(t, "next") /\ op[t].stack = << >> /\ op[t].zone \notin Zone
    /\ i_zone' = [i_zone EXCEPT ![op[t].file] = NoZones(@)]
    /\ CallReturns(t)
    /\ UNCHANGED <<ptr, zmap, lost, ghost>>

Bmap(t) == \/ FindsHole(t) \/ Finds(t) \/ NoNewBlock(t) \/ NewBlock(t)
           \/ Fills(t) \/ FillPanics(t)
Bread(t) == \/ BreadHolds(t) \/ ReadFails(t) \/ ReadsStale(t) \/ ReadsPointers(t)
            \/ UsesBlock(t) \/ ReadsBelow(t) \/ CannotReadBelow(t)
Trunc(t) == \/ NextZone(t) \/ NextBelow(t) \/ BelowDone(t)
            \/ FreeBlock(t) \/ FreeGoesWrong(t) \/ Truncated(t)

ZonesNext == \E t \in Caller :
    \/ Bmap(t) \/ Bread(t) \/ Trunc(t)
    \/ \E f \in File : \/ \E p \in Position : ReadCall(t, f, p) \/ WriteCall(t, f, p)
                       \/ Truncate(t, f)

ZonesSpec == ZonesInit /\ [][ZonesNext]_zonesVars
-----------------------------------------------------------------------------
Used == (UNION {BlocksOf(f) : f \in File}) \cup ({op[t].new : t \in Busy} \ {0})

\* The bits that are set are those of blocks in files and of blocks new_block is about
\* to hand out, but for what a read error in truncate or two calls on one file have left.
NothingLeaks == wrong = "nothing" /\ since = 0 => zmap \subseteq Used \cup lost

\* No block is in two places, in two files or one, nor handed out while it is; and none
\* of them is free to be.
OneOwner ==
    wrong = "nothing" =>
        /\ Used \subseteq zmap
        /\ Cardinality(Used) = Cardinality({l \in File \X Path : BlockAt(l[1], l[2]) # 0})
                               + Cardinality({t \in Busy : op[t].new # 0})

\* However many tasks allocate and free at the same time, no block is lost or taken
\* from another file, and neither new_block nor free_block panics, unless a call is
\* under way that another on the same file has come between, one of the two truncating
\* it or both writing it.
OnlyOneFileRaces == wrong # "nothing" => Overlapping
=============================================================================
