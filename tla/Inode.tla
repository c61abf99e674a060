------------------------------- MODULE Inode -------------------------------
(***************************************************************************)
(* The inode table (fs/inode.c: iget, iput, get_empty_inode, read_inode,    *)
(* write_inode, sync_inodes), with the allocation of inodes (bitmap.c) and  *)
(* the calls that name them in one directory (namei.c): open, creat, link,  *)
(* unlink, close and sync.                                                  *)
(*                                                                         *)
(* Inode blocks are read and written through the buffer cache, which        *)
(* returns what was last written (BufferCache): disk is that value.  bread  *)
(* may sleep, with a lock held or without.  An inode is unlocked before a   *)
(* task that waits for it goes on (SleepLock).  The directory itself stays  *)
(* in the table, held as the root of every task.                            *)
(***************************************************************************)
EXTENDS Naturals, FiniteSets, FiniteSetsExt

CONSTANTS Task, NoTask,
          NR_INODE,     \* the slots of inode_table
          NR_NUM,       \* the inodes on the disk
          NR_ENTRY,     \* the entries of the directory
          Name, NoName

Slot    == 1 .. NR_INODE
Num     == 1 .. NR_NUM      \* i_num; 0 stands for i_dev = 0
Entry   == 1 .. NR_ENTRY
NoSlot  == 0
NoEntry == 0

ASSUME InodeAssumption ==
    /\ NR_INODE \in Nat \ {0} /\ NR_NUM \in Nat \ {0} /\ NR_ENTRY \in Nat \ {0}
    /\ IsFiniteSet(Task)
    /\ NoTask \notin Task /\ NoName \notin Name

VARIABLES inode,        \* inode_table
          last_inode,   \* the static variable of get_empty_inode
          imap,         \* the bits that are set in the inode bitmap
          disk,         \* i_nlinks of each inode in its block
          dir,          \* the directory: name and inode number of each entry
          pc, op,       \* a call of a task and its locals
          file,         \* the inode a task has open
          running,      \* the task in the kernel, not asleep
          panicked,     \* the message, once panic() has been called
          raced         \* a race the code does not exclude has happened

vars == <<inode, last_inode, imap, disk, dir, pc, op, file, running, panicked, raced>>

\* i_nlinks is an unsigned char.
Links       == 0 .. 255
OneMore(n)  == (n + 1) % 256
OneLess(n)  == (n + 255) % 256

MInode == [num : Num \cup {0}, count : Nat, lock : BOOLEAN, dirt : BOOLEAN, nlinks : Links]
Zeros  == [num |-> 0, count |-> 0, lock |-> FALSE, dirt |-> FALSE, nlinks |-> 0]

\* The locals: the names, the inode number and entry found, the empty inode of
\* get_empty_inode, the inode iget returned, and the loop of sync_inodes.
Op   == [what : {"open", "creat", "link", "unlink", "close", "sync"},
         name : Name \cup {NoName}, new : Name \cup {NoName}, nr : Num \cup {0},
         entry : Entry \cup {NoEntry}, empty : Slot \cup {NoSlot},
         inode : Slot \cup {NoSlot}]
NoOp == [what |-> "none"]

\* Waiting for an inode to be unlocked; sleeping in bread; not sleeping.
WaitLabels == {"scan_wait", "iput", "repeat", "sync"}
ReadLabels == {"find", "find_new", "add", "linked", "read", "i_write", "s_write", "truncate"}
Labels     == WaitLabels \cup ReadLabels \cup {"user", "empty", "got", "scan", "igot"}

TypeOK ==
    /\ inode \in [Slot -> MInode]
    /\ last_inode \in Slot
    /\ imap \subseteq Num
    /\ disk \in [Num -> Links]
    /\ dir \in [Entry -> [name : Name \cup {NoName}, num : Num \cup {0}]]
    /\ pc \in [Task -> Labels]
    /\ op \in [Task -> Op \cup {NoOp}]
    /\ file \in [Task -> Slot \cup {NoSlot}]
    /\ running \in Task \cup {NoTask}
    /\ panicked \in {"no", "No free inodes in mem", "iput: trying to free free inode",
                     "free_inode", "trying to free inode with links"}
    /\ raced \in BOOLEAN

\* One file, whose inode is on the disk, in the first entry; nothing in memory.
Init ==
    /\ inode = [s \in Slot |-> Zeros]
    /\ last_inode = 1
    /\ imap = {1}
    /\ disk = [n \in Num |-> IF n = 1 THEN 1 ELSE 0]
    /\ \E n \in Name : dir = [e \in Entry |-> IF e = 1 THEN [name |-> n, num |-> 1]
                                                        ELSE [name |-> NoName, num |-> 0]]
    /\ pc = [t \in Task |-> "user"]
    /\ op = [t \in Task |-> NoOp]
    /\ file = [t \in Task |-> NoSlot]
    /\ running = NoTask
    /\ panicked = "no"
    /\ raced = FALSE

GoTo(t, label)     == pc' = [pc EXCEPT ![t] = label]
SetOp(t, field, v) == op' = [op EXCEPT ![t][field] = v]

\* t is in the kernel and has not slept since, or gets the processor back.
In(t, label)       == running = t /\ pc[t] = label
Resumes(t, label)  == running \in {t, NoTask} /\ pc[t] = label /\ panicked = "no"
GoesOn(t, label)   == GoTo(t, label) /\ running' = t
MaySleep(t, label) == GoTo(t, label) /\ running' = NoTask

\* wait_on_inode: the inode is locked, or the wait is over.
SleepOnInode(t) ==
    /\ running = t /\ pc[t] \in WaitLabels /\ inode[op[t].inode].lock
    /\ running' = NoTask
    /\ UNCHANGED <<inode, last_inode, imap, disk, dir, pc, op, file, panicked, raced>>

Unlocked(t, label) == Resumes(t, label) /\ ~inode[op[t].inode].lock

Panic(t, message) ==
    /\ panicked' = message
    /\ running' = t
    /\ UNCHANGED <<inode, last_inode, imap, disk, dir, pc, op, file, raced>>

-----------------------------------------------------------------------------
(***************************************************************************)
(* write_inode, from the lock to the bread and from there to the unlock.    *)
(* The callers have waited for the lock and have not slept since.           *)
(***************************************************************************)
Locked(s) == inode' = [inode EXCEPT ![s].lock = TRUE]

\* Where write_inode puts the inode: its index in the block is computed after
\* bread.  Of an inode that has been cleared meanwhile it is (0 - 1) % 32.
Place(s) == IF inode[s].num = 0 THEN NR_NUM ELSE inode[s].num

Written(s) == /\ disk' = [disk EXCEPT ![Place(s)] = inode[s].nlinks]
              /\ inode' = [inode EXCEPT ![s].dirt = FALSE, ![s].lock = FALSE]

-----------------------------------------------------------------------------
(***************************************************************************)
(* get_empty_inode: round the table from last_inode to the next free slot.  *)
(* Its search for a clean slot among the free ones, its wait and its writes *)
(* have nothing to do, as FreeInodesAreClean says, and are left out.        *)
(***************************************************************************)
Distance(s) == (s + NR_INODE - last_inode - 1) % NR_INODE

Free == {s \in Slot : inode[s].count = 0}

Nearest(S) == CHOOSE s \in S : \A r \in S : Distance(s) <= Distance(r)

TakeEmpty(t) ==
    LET s == Nearest(Free)
    IN  /\ In(t, "empty") /\ panicked = "no" /\ Free # {}
        /\ inode' = [inode EXCEPT ![s] = [Zeros EXCEPT !.count = 1]]
        /\ last_inode' = s
        /\ SetOp(t, "empty", s)
        /\ GoesOn(t, "got")
        /\ UNCHANGED <<imap, disk, dir, file, panicked, raced>>

NoneEmpty(t) == In(t, "empty") /\ panicked = "no" /\ Free = {} /\ Panic(t, "No free inodes in mem")

-----------------------------------------------------------------------------
(***************************************************************************)
(* iget, from the return of get_empty_inode on.                             *)
(***************************************************************************)
WantsInode(t) == op[t].what \in {"open", "link", "unlink"}

\* Mutant: the slots nobody uses are passed over.
InUse(n) == {s \in Slot : inode[s].num = n /\ inode[s].count # 0}

InTable(n) == {s \in Slot : inode[s].num = n}

\* Somebody's iput is between truncate and free_inode.
BeingFreed(s) == \E u \in Task : pc[u] = "truncate" /\ op[u].inode = s

\* Not in the table: the empty inode is locked and read.
ReadStarts(t) ==
    /\ In(t, "got") /\ WantsInode(t) /\ InTable(op[t].nr) = {}
    /\ inode' = [inode EXCEPT ![op[t].empty].num = op[t].nr, ![op[t].empty].lock = TRUE]
    /\ MaySleep(t, "read")
    /\ UNCHANGED <<last_inode, imap, disk, dir, op, file, panicked, raced>>

ReadEnds(t) ==
    LET s == op[t].empty
    IN  /\ Resumes(t, "read")
        /\ inode' = [inode EXCEPT ![s].nlinks = disk[op[t].nr], ![s].lock = FALSE]
        /\ op' = [op EXCEPT ![t].inode = s, ![t].empty = NoSlot]
        /\ GoesOn(t, "igot")
        /\ UNCHANGED <<last_inode, imap, disk, dir, file, panicked, raced>>

FoundInTable(t) ==
    /\ In(t, "got") /\ WantsInode(t) /\ InTable(op[t].nr) # {}
    /\ SetOp(t, "inode", Min(InTable(op[t].nr)))
    /\ GoTo(t, "scan_wait")
    /\ UNCHANGED <<inode, last_inode, imap, disk, dir, file, running, panicked, raced>>

\* Mutant: the empty inode is not given back.
FoundOnly(s, empty) == inode' = [inode EXCEPT ![s].count = @ + 1]

Found(s, empty) == inode' = [inode EXCEPT ![s].count = @ + 1, ![empty].count = @ - 1]

StillThatOne(t) == inode[op[t].inode].num = op[t].nr

\* It may have been reused during the wait: then the table is searched again.
TakeFound(t) ==
    LET s == op[t].inode
    IN  /\ Unlocked(t, "scan_wait")
        /\ IF StillThatOne(t)
           THEN /\ Found(s, op[t].empty)
                /\ SetOp(t, "empty", NoSlot)
                /\ GoesOn(t, "igot")
                /\ raced' = (raced \/ BeingFreed(s))
           ELSE GoesOn(t, "got") /\ UNCHANGED <<inode, op, raced>>
        /\ UNCHANGED <<last_inode, imap, disk, dir, file, panicked>>

-----------------------------------------------------------------------------
(***************************************************************************)
(* iput, of op.inode.                                                       *)
(***************************************************************************)
CallIput(t) == GoTo(t, "iput")

Finished(t) == /\ GoTo(t, "user") /\ running' = NoTask
               /\ op' = [op EXCEPT ![t] = NoOp]

CountDown(t) == inode' = [inode EXCEPT ![op[t].inode].count = @ - 1]

\* At repeat: the last user of an inode without links frees it, the last user
\* of a modified one writes it, and then looks at the count once more.
Puts(t) == LET s == op[t].inode
           IN  Unlocked(t, "repeat") \/ (Unlocked(t, "iput") /\ inode[s].count > 0)

\* Mutant: the count is not looked at.
SomeUser(s) == TRUE

LastUser(s) == inode[s].count = 1

\* Mutant: the last user does not write the inode.
NeverModified(s) == FALSE

Modified(s) == inode[s].dirt

PutDown(t) ==
    LET s == op[t].inode
    IN  /\ Puts(t)
        /\ inode[s].count > 1 \/ (inode[s].nlinks # 0 /\ ~Modified(s))
        /\ CountDown(t)
        /\ Finished(t)
        /\ UNCHANGED <<last_inode, imap, disk, dir, file, panicked, raced>>

PutWrites(t) ==
    LET s == op[t].inode
    IN  /\ Puts(t)
        /\ LastUser(s) /\ inode[s].nlinks # 0 /\ Modified(s)
        /\ Locked(s)
        /\ MaySleep(t, "i_write")
        /\ UNCHANGED <<last_inode, imap, disk, dir, op, file, panicked, raced>>

PutWritten(t) ==
    /\ Resumes(t, "i_write")
    /\ Written(op[t].inode)
    /\ GoesOn(t, "repeat")
    /\ UNCHANGED <<last_inode, imap, dir, op, file, panicked, raced>>

PutTruncates(t) ==
    LET s == op[t].inode
    IN  /\ Puts(t)
        /\ LastUser(s) /\ inode[s].nlinks = 0
        /\ MaySleep(t, "truncate")
        /\ UNCHANGED <<inode, last_inode, imap, disk, dir, op, file, panicked, raced>>

\* Another task has looked the inode up and not got it yet.
LookedUp(n, t) ==
    \E u \in Task \ {t} : /\ op[u] # NoOp /\ op[u].nr = n
                          /\ pc[u] \in {"empty", "got", "scan_wait", "read"}

\* free_inode, after truncate.
FreeInode(t) ==
    LET s == op[t].inode
        n == inode[s].num
    IN  /\ Resumes(t, "truncate")
        /\ inode[s].count <= 1 /\ inode[s].nlinks = 0
        /\ imap' = imap \ {n}
        /\ inode' = [inode EXCEPT ![s] = Zeros]
        /\ Finished(t)
        /\ raced' = (raced \/ LookedUp(n, t))
        /\ UNCHANGED <<last_inode, disk, dir, file, panicked>>

\* The panics of iput and free_inode.
Wrong(t) ==
    LET i == inode[op[t].inode]
    IN  CASE pc[t] = "iput" /\ ~i.lock /\ i.count = 0         -> "iput: trying to free free inode"
          [] pc[t] = "truncate" /\ i.count > 1                -> "free_inode"
          [] pc[t] = "truncate" /\ i.count <= 1 /\ i.nlinks # 0 -> "trying to free inode with links"
          [] OTHER                                            -> "no"

PutPanics(t) == Resumes(t, pc[t]) /\ op[t] # NoOp /\ Wrong(t) # "no" /\ Panic(t, Wrong(t))

-----------------------------------------------------------------------------
(***************************************************************************)
(* The calls.  Each begins with find_entry, which reads the directory.      *)
(***************************************************************************)
\* Bound: no call begins after a race.
MayCall(t) == running = NoTask /\ pc[t] = "user" /\ panicked = "no" /\ ~raced

Call(t, what, name, new) ==
    /\ MayCall(t)
    /\ op' = [op EXCEPT ![t] = [what |-> what, name |-> name, new |-> new, nr |-> 0,
                                entry |-> NoEntry, empty |-> NoSlot, inode |-> NoSlot]]
    /\ UNCHANGED <<inode, last_inode, imap, disk, dir, panicked, raced>>

OpenCall(t, n) == /\ file[t] = NoSlot
                  /\ \E what \in {"open", "creat"} : Call(t, what, n, NoName)
                  /\ MaySleep(t, "find") /\ UNCHANGED file

UnlinkCall(t, n)  == Call(t, "unlink", n, NoName) /\ MaySleep(t, "find") /\ UNCHANGED file
LinkCall(t, n, m) == Call(t, "link", n, m) /\ MaySleep(t, "find") /\ UNCHANGED file

Named(n) == {e \in Entry : dir[e].num # 0 /\ dir[e].name = n}

\* The name is there: iget begins, with the number found, whatever the call.
FindEntry(t) ==
    /\ Resumes(t, "find") /\ Named(op[t].name) # {}
    /\ LET e == Min(Named(op[t].name))
       IN  op' = [op EXCEPT ![t].nr = dir[e].num, ![t].entry = e,
                            ![t].what = IF @ = "creat" THEN "open" ELSE @]
    /\ GoesOn(t, "empty")
    /\ UNCHANGED <<inode, last_inode, imap, disk, dir, file, panicked, raced>>

\* It is not: creat goes on with new_inode.
NoEntryFound(t) ==
    /\ Resumes(t, "find") /\ Named(op[t].name) = {}
    /\ IF op[t].what = "creat" THEN GoesOn(t, "empty") /\ UNCHANGED op
                               ELSE Finished(t)
    /\ UNCHANGED <<inode, last_inode, imap, disk, dir, file, panicked, raced>>

\* new_inode, after get_empty_inode: the first inode that is free on the disk.
NewInode(t) ==
    LET s == op[t].empty
        n == Min(Num \ imap)
    IN  /\ In(t, "got") /\ op[t].what = "creat"
        /\ IF imap = Num
           THEN /\ inode' = [inode EXCEPT ![s].count = @ - 1]
                /\ Finished(t)
                /\ UNCHANGED imap
           ELSE /\ imap' = imap \cup {n}
                /\ inode' = [inode EXCEPT ![s] = [num |-> n, count |-> 1, lock |-> FALSE,
                                                  dirt |-> TRUE, nlinks |-> 1]]
                /\ op' = [op EXCEPT ![t].inode = s, ![t].empty = NoSlot]
                /\ MaySleep(t, "add")
        /\ UNCHANGED <<last_inode, disk, dir, file, panicked, raced>>

Unused == {e \in Entry : dir[e].num = 0}

\* add_entry, for creat and for link; the directory may be full, and the disk.
AddEntry(t) ==
    LET s == op[t].inode
        e == Min(Unused)
    IN  /\ Resumes(t, "add") /\ Unused # {}
        /\ dir' = [dir EXCEPT ![e] = [num  |-> inode[s].num,
                                      name |-> IF op[t].what = "creat" THEN op[t].name
                                                                       ELSE op[t].new]]
        /\ IF op[t].what = "creat"
           THEN file' = [file EXCEPT ![t] = s] /\ Finished(t)
           ELSE MaySleep(t, "linked") /\ UNCHANGED <<op, file>>
        /\ UNCHANGED <<inode, last_inode, imap, disk, panicked, raced>>

DirectoryFull(t) ==
    /\ Resumes(t, "add") /\ Unused = {}
    /\ inode' = IF op[t].what = "creat"
                THEN [inode EXCEPT ![op[t].inode].nlinks = OneLess(@)] ELSE inode
    /\ GoesOn(t, "iput")
    /\ UNCHANGED <<last_inode, imap, disk, dir, op, file, panicked, raced>>

\* permission: nobody opens a file that has no links left.
OpenDone(t) ==
    LET s == op[t].inode
    IN  /\ In(t, "igot") /\ op[t].what = "open"
        /\ IF inode[s].nlinks # 0
           THEN file' = [file EXCEPT ![t] = s] /\ Finished(t)
           ELSE GoesOn(t, "iput") /\ UNCHANGED <<op, file>>
        /\ UNCHANGED <<inode, last_inode, imap, disk, dir, panicked, raced>>

\* sys_link: the new name is looked up after the inode has been got.
LinkFinds(t) ==
    /\ In(t, "igot") /\ op[t].what = "link"
    /\ MaySleep(t, "find_new")
    /\ UNCHANGED <<inode, last_inode, imap, disk, dir, op, file, panicked, raced>>

LinkAdds(t) ==
    /\ Resumes(t, "find_new")
    /\ IF Named(op[t].new) = {} THEN MaySleep(t, "add") ELSE GoesOn(t, "iput")
    /\ UNCHANGED <<inode, last_inode, imap, disk, dir, op, file, panicked, raced>>

\* Mutant: the inode is not marked modified.
LinkCountsClean(t) ==
    /\ Resumes(t, "linked")
    /\ inode' = [inode EXCEPT ![op[t].inode].nlinks = OneMore(@)]
    /\ GoesOn(t, "iput")
    /\ UNCHANGED <<last_inode, imap, disk, dir, op, file, panicked, raced>>

\* After the directory has been put, which may sleep.
LinkCounts(t) ==
    /\ Resumes(t, "linked")
    /\ inode' = [inode EXCEPT ![op[t].inode].nlinks = OneMore(@), ![op[t].inode].dirt = TRUE]
    /\ GoesOn(t, "iput")
    /\ UNCHANGED <<last_inode, imap, disk, dir, op, file, panicked, raced>>

\* sys_unlink: the entry found before iget is cleared.
Unlink(t) ==
    LET s == op[t].inode
        e == op[t].entry
        links == IF inode[s].nlinks = 0 THEN 1 ELSE inode[s].nlinks
    IN  /\ In(t, "igot") /\ op[t].what = "unlink"
        /\ dir' = [dir EXCEPT ![e] = [name |-> NoName, num |-> 0]]
        /\ inode' = [inode EXCEPT ![s].nlinks = links - 1, ![s].dirt = TRUE]
        /\ raced' = \/ raced \/ inode[s].nlinks = 0
                    \/ dir[e].num # op[t].nr \/ dir[e].name # op[t].name
        /\ GoesOn(t, "iput")
        /\ UNCHANGED <<last_inode, imap, disk, op, file, panicked>>

\* sys_close, of the only descriptor of the file.
CloseCall(t) ==
    /\ file[t] # NoSlot
    /\ MayCall(t)
    /\ op' = [op EXCEPT ![t] = [what |-> "close", name |-> NoName, new |-> NoName, nr |-> 0,
                                entry |-> NoEntry, empty |-> NoSlot, inode |-> file[t]]]
    /\ file' = [file EXCEPT ![t] = NoSlot]
    /\ GoesOn(t, "iput")
    /\ UNCHANGED <<inode, last_inode, imap, disk, dir, panicked, raced>>

(***************************************************************************)
(* sync_inodes: every slot of the table in turn.                            *)
(***************************************************************************)
SyncCall(t) == /\ MayCall(t)
               /\ op' = [op EXCEPT ![t] = [what |-> "sync", name |-> NoName, new |-> NoName,
                                           nr |-> 0, entry |-> NoEntry, empty |-> NoSlot,
                                           inode |-> 1]]
               /\ GoesOn(t, "sync")
               /\ UNCHANGED <<inode, last_inode, imap, disk, dir, file, panicked, raced>>

SyncGoesOn(t) == IF op[t].inode < NR_INODE
                 THEN SetOp(t, "inode", op[t].inode + 1) /\ GoesOn(t, "sync")
                 ELSE Finished(t)

SyncSkips(t) ==
    /\ Unlocked(t, "sync") /\ ~inode[op[t].inode].dirt
    /\ SyncGoesOn(t)
    /\ UNCHANGED <<inode, last_inode, imap, disk, dir, file, panicked, raced>>

SyncWrites(t) ==
    /\ Unlocked(t, "sync") /\ inode[op[t].inode].dirt
    /\ Locked(op[t].inode)
    /\ raced' = (raced \/ BeingFreed(op[t].inode))
    /\ MaySleep(t, "s_write")
    /\ UNCHANGED <<last_inode, imap, disk, dir, op, file, panicked>>

SyncWritten(t) ==
    /\ Resumes(t, "s_write")
    /\ Written(op[t].inode)
    /\ SyncGoesOn(t)
    /\ UNCHANGED <<last_inode, imap, dir, file, panicked, raced>>

Gets(t)      == \/ TakeEmpty(t) \/ NoneEmpty(t)
                \/ ReadStarts(t) \/ ReadEnds(t) \/ FoundInTable(t) \/ TakeFound(t)
PutsInode(t) == \/ PutDown(t) \/ PutWrites(t) \/ PutWritten(t)
                \/ PutTruncates(t) \/ FreeInode(t) \/ PutPanics(t)
Names(t)     == \/ FindEntry(t) \/ NoEntryFound(t) \/ NewInode(t) \/ AddEntry(t)
                \/ DirectoryFull(t) \/ OpenDone(t) \/ LinkFinds(t) \/ LinkAdds(t)
                \/ LinkCounts(t) \/ Unlink(t)
Syncs(t)     == SyncSkips(t) \/ SyncWrites(t) \/ SyncWritten(t)
Calls(t)     == \/ \E n \in Name : OpenCall(t, n) \/ UnlinkCall(t, n)
                \/ \E n, m \in Name : n # m /\ LinkCall(t, n, m)
                \/ CloseCall(t) \/ SyncCall(t)

Step(t) == SleepOnInode(t) \/ Gets(t) \/ PutsInode(t) \/ Names(t) \/ Syncs(t) \/ Calls(t)

Next == \E t \in Task : Step(t)

Spec == Init /\ [][Next]_vars
-----------------------------------------------------------------------------
\* The references to a slot: open files, and the tasks whose call has got the
\* slot from get_empty_inode, from iget or from new_inode and not put it yet.
References(s) ==
      Cardinality({t \in Task : file[t] = s})
    + Cardinality({t \in Task : op[t] # NoOp /\ op[t].empty = s
                                /\ pc[t] \in {"got", "scan_wait", "read"}})
    + Cardinality({t \in Task : op[t] # NoOp /\ op[t].inode = s
                                /\ pc[t] \in {"igot", "find_new", "add", "linked", "iput",
                                              "repeat", "i_write", "truncate"}})

\* i_count is exact: an inode in use is never taken for an empty one, and none
\* stays in use for ever, wherever the calls sleep and whichever way they end.
CountIsReferences == \A s \in Slot : inode[s].count = References(s)

\* An inode of the disk is in one slot at most: tasks that ask for it at the same
\* time share the slot, although iget sleeps before and after it searches.
OneSlotPerInode ==
    ~raced => \A s, r \in Slot : inode[s].num = inode[r].num /\ inode[s].num # 0 => s = r

\* i_nlinks of an inode as it is now: in the table once it has been read.
BeingRead(s) == \E t \in Task : pc[t] = "read" /\ op[t].empty = s

LinksOf(n) == IF \E s \in InTable(n) : ~BeingRead(s)
            THEN inode[CHOOSE s \in InTable(n) : ~BeingRead(s)].nlinks ELSE disk[n]

\* Names that are to come: of new inodes without an entry, less the entries that
\* sys_link has made and not counted.
Pending(n) == {t \in Task : pc[t] = "add" /\ op[t].what = "creat" /\ inode[op[t].inode].num = n}
Early(n)   == {t \in Task : pc[t] = "linked" /\ inode[op[t].inode].num = n}

\* An inode has as many links as there are names for it, in memory or on the disk,
\* through writes, evictions and reads; names are for allocated inodes only.
LinksAreNames ==
    ~raced => \A n \in Num :
        LET names == Cardinality({e \in Entry : dir[e].num = n})
        IN  IF n \in imap
            THEN LinksOf(n) + Cardinality(Early(n)) = names + Cardinality(Pending(n))
            ELSE names = 0

\* A slot that nobody uses is clean and unlocked: get_empty_inode throws away no
\* change, and finds a free slot without waiting if there is one.
FreeInodesAreClean == \A s \in Slot : inode[s].count = 0 => ~inode[s].dirt /\ ~inode[s].lock

\* panic is called for want of a free slot only: nobody puts an inode that is free,
\* and nobody frees one that another task uses or that has a name.
PanicsWhenFullOnly == ~raced => panicked \in {"no", "No free inodes in mem"}
=============================================================================
