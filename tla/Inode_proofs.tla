---------------------------- MODULE Inode_proofs ----------------------------
(***************************************************************************)
(* Proofs about Inode: counts are references and free slots are clean,      *)
(* always; until two calls race for an inode that is being freed (raced),   *)
(* an inode has one slot, its link count is the number of its names, and    *)
(* nothing in use is freed.                                                 *)
(*                                                                          *)
(* Counted is the part that holds in spite of races.  Refs(t, s) says what  *)
(* the locals of the call of t count for in the slot s at each label; what  *)
(* a step does to a count is what it does to the references of its task.    *)
(*                                                                          *)
(* Peaceful is the part that needs ~raced.  Every step changes a slot in    *)
(* one of few ways (Kinds), its own call in ways of which a few facts       *)
(* suffice (OwnStep), and the directory by at most one entry (DirStep);     *)
(* the conjuncts of Peaceful are shown from these, and not once per action. *)
(* LinksBalance counts the names that are entered before i_nlinks is        *)
(* incremented (sys_link) and after it is set (open_namei): all steps are   *)
(* Quiet to it except the five that make, count or remove a name.           *)
(*                                                                          *)
(* The theorems from Peaceful assume at most 255 entries.  i_nlinks is an   *)
(* unsigned char and sys_link checks no limit: the 256th name of an inode   *)
(* makes it 0, and the inode is freed while it has names.                   *)
(***************************************************************************)
EXTENDS Inode, FiniteSetTheorems, NaturalsInduction, WellFoundedInduction, TLAPS

\* The labels at which a call refers to its empty inode, and to its inode.
WithEmpty == {"got", "scan_wait", "read"}
WithInode == {"igot", "find_new", "add", "linked", "iput", "repeat", "i_write", "truncate"}
LooksUp   == {"empty", "got", "scan_wait", "read"}

Local(t) ==
    /\ pc[t] = "user" <=> op[t] = NoOp
    /\ pc[t] \in WithEmpty => op[t].empty \in Slot
    /\ pc[t] \in WithInode \cup {"scan_wait", "sync", "s_write"} => op[t].inode \in Slot
    /\ pc[t] \in {"find", "empty", "got"} => op[t].what \in {"open", "creat", "link", "unlink"}
    /\ pc[t] \in LooksUp \cup {"find", "igot"} => op[t].name \in Name
    /\ pc[t] \in {"scan_wait", "read", "igot"} => WantsInode(t)
    /\ pc[t] \in {"find_new", "linked"} => op[t].what = "link"
    /\ pc[t] = "add" => op[t].what \in {"creat", "link"}
    /\ pc[t] = "add" /\ op[t].what = "creat" => op[t].name \in Name
    /\ op[t] # NoOp /\ op[t].what = "link" => op[t].new \in Name
    /\ pc[t] \in LooksUp \cup {"igot"} /\ WantsInode(t) => op[t].nr \in Num /\ op[t].entry \in Entry
    /\ pc[t] \in LooksUp /\ ~WantsInode(t) => op[t].nr = 0
    /\ pc[t] = "find" => op[t].nr = 0
    /\ op[t] # NoOp /\ op[t].what \in {"open", "creat"} => file[t] = NoSlot

Locals == \A t \in Task : Local(t)

\* The slot get_empty_inode returned, until it is read or given back.
Empty == [Zeros EXCEPT !.count = 1]

EmptyIsEmpty == \A t \in Task : pc[t] \in {"got", "scan_wait"} => inode[op[t].empty] = Empty

Counted == TypeOK /\ Locals /\ CountIsReferences /\ EmptyIsEmpty /\ FreeInodesAreClean

-----------------------------------------------------------------------------
(***************************************************************************)
(* The references of one task, and how a step of one task changes i_count.  *)
(***************************************************************************)
HasOpen(t, s)   == file[t] = s
HasEmpty(t, s)  == op[t] # NoOp /\ op[t].empty = s /\ pc[t] \in WithEmpty
HasInode(t, s)  == op[t] # NoOp /\ op[t].inode = s /\ pc[t] \in WithInode

Refs(t, s) == (IF HasOpen(t, s) THEN 1 ELSE 0) + (IF HasEmpty(t, s) THEN 1 ELSE 0)
                                               + (IF HasInode(t, s) THEN 1 ELSE 0)

OthersSame(t) ==
    \A u \in Task \ {t} : pc'[u] = pc[u] /\ op'[u] = op[u] /\ file'[u] = file[u]

CountsMove(t) == \A s \in Slot : inode'[s].count = inode[s].count + Refs(t, s)' - Refs(t, s)

LEMMA CardinalityStep ==
    ASSUME NEW t \in Task, NEW S \in SUBSET Task, NEW R \in SUBSET Task,
           \A u \in Task \ {t} : u \in R <=> u \in S
    PROVE  /\ Cardinality(S) \in Nat /\ Cardinality(R) \in Nat
           /\ Cardinality(R) = Cardinality(S) + (IF t \in R THEN 1 ELSE 0)
                                              - (IF t \in S THEN 1 ELSE 0)
<1>1. IsFiniteSet(S) /\ IsFiniteSet(R)
  BY InodeAssumption, FS_Subset
<1>2. Cardinality(S) \in Nat /\ Cardinality(R) \in Nat
  BY <1>1, FS_CardinalityType
<1>3. CASE t \in S <=> t \in R
  <2>1. S = R
    BY <1>3
  <2> QED
    BY <1>2, <1>3, <2>1
<1>4. CASE t \in S /\ t \notin R
  <2>1. R = S \ {t}
    BY <1>4
  <2>2. Cardinality(R) = Cardinality(S) - 1
    BY <1>1, <1>4, <2>1, FS_RemoveElement
  <2> QED
    BY <1>2, <1>4, <2>2
<1>5. CASE t \notin S /\ t \in R
  <2>1. R = S \cup {t}
    BY <1>5
  <2>2. Cardinality(R) = Cardinality(S) + 1
    BY <1>1, <1>5, <2>1, FS_AddElement
  <2> QED
    BY <1>2, <1>5, <2>2
<1> QED
  BY <1>3, <1>4, <1>5

LEMMA ReferencesSplit ==
    ASSUME NEW s
    PROVE  References(s) = Cardinality({t \in Task : HasOpen(t, s)})
                         + Cardinality({t \in Task : HasEmpty(t, s)})
                         + Cardinality({t \in Task : HasInode(t, s)})
BY DEF References, HasOpen, HasEmpty, HasInode, WithEmpty, WithInode

LEMMA CountsStep ==
    ASSUME CountIsReferences, NEW t \in Task, OthersSame(t), CountsMove(t)
    PROVE  CountIsReferences'
<1>1. ASSUME NEW s \in Slot PROVE inode'[s].count = References(s)'
  <2> DEFINE F == {u \in Task : HasOpen(u, s)}
             E == {u \in Task : HasEmpty(u, s)}
             I == {u \in Task : HasInode(u, s)}
  <2>1. \A u \in Task \ {t} : /\ HasOpen(u, s)' <=> HasOpen(u, s)
                              /\ HasEmpty(u, s)' <=> HasEmpty(u, s)
                              /\ HasInode(u, s)' <=> HasInode(u, s)
    BY DEF OthersSame, HasOpen, HasEmpty, HasInode
  <2>2. /\ F \in SUBSET Task /\ E \in SUBSET Task /\ I \in SUBSET Task
        /\ F' \in SUBSET Task /\ E' \in SUBSET Task /\ I' \in SUBSET Task
        /\ \A u \in Task \ {t} : (u \in F' <=> u \in F) /\ (u \in E' <=> u \in E)
                                                        /\ (u \in I' <=> u \in I)
    BY <2>1
  <2>3. /\ Refs(t, s) = (IF t \in F THEN 1 ELSE 0) + (IF t \in E THEN 1 ELSE 0)
                                                   + (IF t \in I THEN 1 ELSE 0)
        /\ Refs(t, s)' = (IF t \in F' THEN 1 ELSE 0) + (IF t \in E' THEN 1 ELSE 0)
                                                     + (IF t \in I' THEN 1 ELSE 0)
    BY DEF Refs
  <2>4. /\ References(s) = Cardinality(F) + Cardinality(E) + Cardinality(I)
        /\ References(s)' = Cardinality(F') + Cardinality(E') + Cardinality(I')
    <3>1. References(s) = Cardinality(F) + Cardinality(E) + Cardinality(I)
      BY ReferencesSplit
    <3>2. References(s)' = (Cardinality(F) + Cardinality(E) + Cardinality(I))'
      BY DEF References, HasOpen, HasEmpty, HasInode, WithEmpty, WithInode
    <3> QED
      BY <3>1, <3>2
  <2>5. inode[s].count = References(s)
    BY DEF CountIsReferences
  <2> HIDE DEF F, E, I
  <2>6. /\ Cardinality(F) \in Nat /\ Cardinality(F') \in Nat
        /\ Cardinality(F') = Cardinality(F) + (IF t \in F' THEN 1 ELSE 0)
                                            - (IF t \in F THEN 1 ELSE 0)
    BY <2>2, CardinalityStep
  <2>7. /\ Cardinality(E) \in Nat /\ Cardinality(E') \in Nat
        /\ Cardinality(E') = Cardinality(E) + (IF t \in E' THEN 1 ELSE 0)
                                            - (IF t \in E THEN 1 ELSE 0)
    BY <2>2, CardinalityStep
  <2>8. /\ Cardinality(I) \in Nat /\ Cardinality(I') \in Nat
        /\ Cardinality(I') = Cardinality(I) + (IF t \in I' THEN 1 ELSE 0)
                                            - (IF t \in I THEN 1 ELSE 0)
    BY <2>2, CardinalityStep
  <2>9. inode'[s].count = inode[s].count + Refs(t, s)' - Refs(t, s)
    BY DEF CountsMove
  <2> QED
    BY <2>3, <2>4, <2>5, <2>6, <2>7, <2>8, <2>9
<1> QED
  BY <1>1 DEF CountIsReferences

\* A slot has as many references as any two tasks have to it, or more.
LEMMA Referred ==
    ASSUME CountIsReferences, NEW t \in Task, NEW s \in Slot
    PROVE  /\ inode[s].count \in Nat /\ Refs(t, s) \in Nat
           /\ inode[s].count >= Refs(t, s)
           /\ \A u \in Task \ {t} : /\ Refs(u, s) \in Nat
                                    /\ inode[s].count >= Refs(t, s) + Refs(u, s)
<1> DEFINE F == {u \in Task : HasOpen(u, s)}
           E == {u \in Task : HasEmpty(u, s)}
           I == {u \in Task : HasInode(u, s)}
<1>1. inode[s].count = Cardinality(F) + Cardinality(E) + Cardinality(I)
  BY ReferencesSplit DEF CountIsReferences
<1>2. \A u \in Task : Refs(u, s) = (IF u \in F THEN 1 ELSE 0) + (IF u \in E THEN 1 ELSE 0)
                                                              + (IF u \in I THEN 1 ELSE 0)
  BY DEF Refs
<1>3. F \in SUBSET Task /\ E \in SUBSET Task /\ I \in SUBSET Task
  OBVIOUS
<1> HIDE DEF F, E, I
<1>4. ASSUME NEW X \in SUBSET Task
      PROVE  /\ Cardinality(X) \in Nat
             /\ Cardinality(X) >= IF t \in X THEN 1 ELSE 0
             /\ \A u \in Task \ {t} : Cardinality(X) >= (IF t \in X THEN 1 ELSE 0)
                                                        + (IF u \in X THEN 1 ELSE 0)
  <2>1. /\ Cardinality(X) \in Nat /\ Cardinality(X \ {t}) \in Nat
        /\ Cardinality(X \ {t}) = Cardinality(X) + 0 - (IF t \in X THEN 1 ELSE 0)
    BY CardinalityStep
  <2>2. ASSUME NEW u \in Task \ {t}
        PROVE  Cardinality(X \ {t}) >= IF u \in X THEN 1 ELSE 0
    <3> DEFINE Y == X \ {t}
    <3>1. Y \in SUBSET Task /\ Y \ {u} \in SUBSET Task /\ u \notin Y \ {u}
          /\ (u \in Y <=> u \in X) /\ \A v \in Task \ {u} : v \in Y \ {u} <=> v \in Y
      OBVIOUS
    <3> HIDE DEF Y
    <3>2. /\ Cardinality(Y) \in Nat /\ Cardinality(Y \ {u}) \in Nat
          /\ Cardinality(Y \ {u}) = Cardinality(Y) + 0 - (IF u \in Y THEN 1 ELSE 0)
      BY <3>1, CardinalityStep
    <3>3. Cardinality(Y) >= IF u \in X THEN 1 ELSE 0
      BY <3>1, <3>2
    <3> QED
      BY <3>3 DEF Y
  <2> QED
    BY <2>1, <2>2
<1> QED
  BY <1>1, <1>2, <1>3, <1>4

LEMMA RefsAreNumbers == \A t, s : Refs(t, s) \in Nat
BY DEF Refs

-----------------------------------------------------------------------------
(***************************************************************************)
(* The locals of a call after an assignment to some of them.                *)
(***************************************************************************)
LEMMA NoOpIsNone == NoOp \notin Op
BY DEF NoOp, Op

OthersOp(t) == op' \in [Task -> Op \cup {NoOp}] /\ \A u \in Task \ {t} : op'[u] = op[u]

LEMMA SetEmpty ==
    ASSUME TypeOK, NEW t \in Task, op[t] \in Op, NEW s \in Slot \cup {NoSlot},
           SetOp(t, "empty", s)
    PROVE  /\ OthersOp(t) /\ op'[t] \in Op /\ op'[t].empty = s
           /\ op'[t].what = op[t].what /\ op'[t].name = op[t].name /\ op'[t].new = op[t].new
           /\ op'[t].nr = op[t].nr /\ op'[t].entry = op[t].entry /\ op'[t].inode = op[t].inode
<1>1. op' = [op EXCEPT ![t] = [op[t] EXCEPT !.empty = s]]
  BY DEF SetOp
<1>2. op'[t] = [op[t] EXCEPT !.empty = s]
  BY <1>1 DEF TypeOK
<1> QED
  BY <1>1, <1>2 DEF TypeOK, Op, OthersOp

LEMMA SetInode ==
    ASSUME TypeOK, NEW t \in Task, op[t] \in Op, NEW s \in Slot, SetOp(t, "inode", s)
    PROVE  /\ OthersOp(t) /\ op'[t] \in Op /\ op'[t].inode = s
           /\ op'[t].what = op[t].what /\ op'[t].name = op[t].name /\ op'[t].new = op[t].new
           /\ op'[t].nr = op[t].nr /\ op'[t].entry = op[t].entry /\ op'[t].empty = op[t].empty
<1>1. op' = [op EXCEPT ![t] = [op[t] EXCEPT !.inode = s]]
  BY DEF SetOp
<1>2. op'[t] = [op[t] EXCEPT !.inode = s]
  BY <1>1 DEF TypeOK
<1> QED
  BY <1>1, <1>2 DEF TypeOK, Op, OthersOp

LEMMA SetGot ==
    ASSUME TypeOK, NEW t \in Task, op[t] \in Op, NEW s \in Slot,
           op' = [op EXCEPT ![t].inode = s, ![t].empty = NoSlot]
    PROVE  /\ OthersOp(t) /\ op'[t] \in Op /\ op'[t].inode = s /\ op'[t].empty = NoSlot
           /\ op'[t].what = op[t].what /\ op'[t].name = op[t].name /\ op'[t].new = op[t].new
           /\ op'[t].nr = op[t].nr /\ op'[t].entry = op[t].entry
<1>2. op'[t] = [op[t] EXCEPT !.inode = s, !.empty = NoSlot]
  BY DEF TypeOK
<1> QED
  BY <1>2 DEF TypeOK, Op, OthersOp

LEMMA SetFound ==
    ASSUME TypeOK, NEW t \in Task, op[t] \in Op, NEW e \in Entry, dir[e].num # 0,
           op' = [op EXCEPT ![t].nr = dir[e].num, ![t].entry = e,
                            ![t].what = IF @ = "creat" THEN "open" ELSE @]
    PROVE  /\ OthersOp(t) /\ op'[t] \in Op /\ op'[t].nr = dir[e].num /\ op'[t].entry = e
           /\ op'[t].what = IF op[t].what = "creat" THEN "open" ELSE op[t].what
           /\ op'[t].name = op[t].name /\ op'[t].new = op[t].new
           /\ op'[t].inode = op[t].inode /\ op'[t].empty = op[t].empty
<1> DEFINE w == IF op[t].what = "creat" THEN "open" ELSE op[t].what
<1>1. op'[t] = [op[t] EXCEPT !.nr = dir[e].num, !.entry = e, !.what = w]
  BY DEF TypeOK
<1>2. dir[e].num \in Num \cup {0} /\ w \in {"open", "creat", "link", "unlink", "close", "sync"}
  BY DEF TypeOK, Op
<1>3. ASSUME NEW o \in Op, NEW n \in Num \cup {0}
      PROVE  LET q == [o EXCEPT !.nr = n]
             IN  /\ q \in Op /\ q.nr = n /\ q.entry = o.entry /\ q.what = o.what
                 /\ q.name = o.name /\ q.new = o.new /\ q.inode = o.inode /\ q.empty = o.empty
  BY DEF Op
<1>4. ASSUME NEW o \in Op
      PROVE  LET q == [o EXCEPT !.entry = e]
             IN  /\ q \in Op /\ q.nr = o.nr /\ q.entry = e /\ q.what = o.what
                 /\ q.name = o.name /\ q.new = o.new /\ q.inode = o.inode /\ q.empty = o.empty
  BY DEF Op
<1>5. ASSUME NEW o \in Op, NEW v \in {"open", "creat", "link", "unlink", "close", "sync"}
      PROVE  LET q == [o EXCEPT !.what = v]
             IN  /\ q \in Op /\ q.nr = o.nr /\ q.entry = o.entry /\ q.what = v
                 /\ q.name = o.name /\ q.new = o.new /\ q.inode = o.inode /\ q.empty = o.empty
  BY DEF Op
<1> HIDE DEF w
<1> DEFINE o1 == [op[t] EXCEPT !.nr = dir[e].num]
           o2 == [o1 EXCEPT !.entry = e]
           o3 == [o2 EXCEPT !.what = w]
<1>6. /\ o1 \in Op /\ o1.nr = dir[e].num /\ o1.name = op[t].name /\ o1.new = op[t].new
      /\ o1.inode = op[t].inode /\ o1.empty = op[t].empty
  BY <1>2, <1>3
<1>7. op'[t] = o3
  BY <1>1
<1> HIDE DEF o1
<1>8. /\ o2 \in Op /\ o2.nr = o1.nr /\ o2.entry = e /\ o2.name = o1.name /\ o2.new = o1.new
      /\ o2.inode = o1.inode /\ o2.empty = o1.empty
  BY <1>4, <1>6
<1> HIDE DEF o2
<1>9. /\ o3 \in Op /\ o3.nr = o2.nr /\ o3.entry = e /\ o3.what = w /\ o3.name = o2.name
      /\ o3.new = o2.new /\ o3.inode = o2.inode /\ o3.empty = o2.empty
  <2>1. w \in {"open", "creat", "link", "unlink", "close", "sync"} /\ o2 \in Op
    BY <1>2, <1>8
  <2>2. LET q == [o2 EXCEPT !.what = w]
        IN  /\ q \in Op /\ q.nr = o2.nr /\ q.entry = o2.entry /\ q.what = w
            /\ q.name = o2.name /\ q.new = o2.new /\ q.inode = o2.inode /\ q.empty = o2.empty
    BY <1>5, <2>1, ZenonT(30)
  <2> QED
    BY <1>8, <2>2
<1> HIDE DEF o3
<1>10. OthersOp(t)
  BY <1>7, <1>9 DEF TypeOK, OthersOp
<1> QED
  BY <1>6, <1>7, <1>8, <1>9, <1>10 DEF w

-----------------------------------------------------------------------------
(***************************************************************************)
(* What a step of one task does to its locals and to the counts.            *)
(***************************************************************************)
CallTypes ==
    /\ pc \in [Task -> Labels]
    /\ op \in [Task -> Op \cup {NoOp}]
    /\ file \in [Task -> Slot \cup {NoSlot}]

Moves(t) == OthersSame(t) /\ CallTypes' /\ Local(t)' /\ CountsMove(t)

\* No slot gains or loses a reference.
CountsSame == \A s \in Slot : inode'[s].count = inode[s].count

\* One slot gains or loses one.
OneCounts(s, n) == \A r \in Slot : inode'[r].count = IF r = s THEN inode[r].count + n
                                                             ELSE inode[r].count

LEMMA CountsAreNumbers == TypeOK => \A s \in Slot : inode[s].count \in Nat
BY DEF TypeOK, MInode

LEMMA SameMoves ==
    ASSUME TypeOK, NEW t, CountsSame, \A s \in Slot : Refs(t, s)' = Refs(t, s)
    PROVE  CountsMove(t)
BY RefsAreNumbers, CountsAreNumbers DEF CountsMove, CountsSame

LEMMA OneMoves ==
    ASSUME TypeOK, NEW t, NEW s, NEW n \in {1, -1}, OneCounts(s, n),
           \A r \in Slot : Refs(t, r)' = IF r = s THEN Refs(t, r) + n ELSE Refs(t, r)
    PROVE  CountsMove(t)
<1>1. ASSUME NEW r \in Slot
      PROVE  inode'[r].count = inode[r].count + Refs(t, r)' - Refs(t, r)
  <2>1. inode[r].count \in Nat /\ Refs(t, r) \in Nat /\ n \in Int
    BY RefsAreNumbers, CountsAreNumbers
  <2> QED
    BY <2>1 DEF OneCounts
<1> QED
  BY <1>1 DEF CountsMove

\* The labels between which a call goes with the same locals.
GoesTo(from, to) ==
    \/ from = to
    \/ from = "find" /\ to = "empty"
    \/ from = "scan_wait" /\ to = "got"
    \/ from = "igot" /\ to \in {"find_new", "iput"}
    \/ from = "find_new" /\ to \in {"add", "iput"}
    \/ from = "add" /\ to \in {"linked", "iput"}
    \/ from = "linked" /\ to = "iput"
    \/ from \in {"iput", "repeat"} /\ to \in {"i_write", "truncate"}
    \/ from = "i_write" /\ to = "repeat"
    \/ from = "sync" /\ to = "s_write"

LEMMA LabelMoves ==
    ASSUME TypeOK, NEW t \in Task, Local(t), NEW l \in Labels, GoesTo(pc[t], l),
           pc' = [pc EXCEPT ![t] = l], UNCHANGED <<op, file>>, CountsSame,
           l = "empty" => op[t].what = "creat" /\ op[t].nr = 0,
           pc[t] = "find_new" /\ l = "add" => op[t].what = "link",
           pc[t] = "igot" /\ l = "find_new" => op[t].what = "link",
           l = "linked" => op[t].what = "link"
    PROVE  Moves(t) /\ pc'[t] = l
<1>1. OthersSame(t) /\ CallTypes' /\ pc'[t] = l
  BY DEF TypeOK, OthersSame, CallTypes
<1>2. \A s \in Slot : Refs(t, s)' = Refs(t, s)
  BY <1>1 DEF GoesTo, Refs, HasOpen, HasEmpty, HasInode, WithEmpty, WithInode
<1>3. Local(t)'
  <2> USE DEF Local, WithEmpty, WithInode, LooksUp, WantsInode
  <2>1. CASE pc[t] = l
    BY <1>1, <2>1
  <2>2. CASE l \in {"empty", "got"}
    BY <1>1, <2>2 DEF GoesTo
  <2>3. CASE l \in {"find_new", "iput", "add", "linked"}
    BY <1>1, <2>3 DEF GoesTo
  <2>4. CASE l \in {"i_write", "truncate", "repeat", "s_write"}
    BY <1>1, <2>4 DEF GoesTo
  <2> QED
    BY <2>1, <2>2, <2>3, <2>4 DEF GoesTo
<1> QED
  BY <1>1, <1>2, <1>3, SameMoves DEF Moves

\* The call returns.
LEMMA FinishMoves ==
    ASSUME TypeOK, NEW t \in Task, Finished(t), UNCHANGED file
    PROVE  /\ OthersSame(t) /\ CallTypes' /\ Local(t)' /\ pc'[t] = "user" /\ op'[t] = NoOp
           /\ \A s : Refs(t, s)' = IF HasOpen(t, s) THEN 1 ELSE 0
<1>1. OthersSame(t) /\ CallTypes' /\ pc'[t] = "user" /\ op'[t] = NoOp
  BY DEF TypeOK, OthersSame, CallTypes, Finished, GoTo, Labels
<1>2. Local(t)'
  BY <1>1 DEF Local, WithEmpty, WithInode, LooksUp
<1>3. \A s : Refs(t, s)' = IF HasOpen(t, s) THEN 1 ELSE 0
  BY <1>1 DEF Refs, HasOpen, HasEmpty, HasInode
<1> QED
  BY <1>1, <1>2, <1>3

\* The call returns with the file open.
LEMMA FinishOpen ==
    ASSUME TypeOK, NEW t \in Task, Finished(t), NEW s \in Slot, file' = [file EXCEPT ![t] = s]
    PROVE  /\ OthersSame(t) /\ CallTypes' /\ Local(t)' /\ pc'[t] = "user" /\ op'[t] = NoOp
           /\ file'[t] = s
           /\ \A r : Refs(t, r)' = IF r = s THEN 1 ELSE 0
<1>1. OthersSame(t) /\ CallTypes' /\ pc'[t] = "user" /\ op'[t] = NoOp /\ file'[t] = s
  BY DEF TypeOK, OthersSame, CallTypes, Finished, GoTo, Labels
<1>2. Local(t)'
  BY <1>1 DEF Local, WithEmpty, WithInode, LooksUp
<1>3. \A r : Refs(t, r)' = IF r = s THEN 1 ELSE 0
  BY <1>1 DEF Refs, HasOpen, HasEmpty, HasInode
<1> QED
  BY <1>1, <1>2, <1>3

\* It gets to another label with other locals.
LEMMA OpMoves ==
    ASSUME TypeOK, NEW t \in Task, NEW l \in Labels,
           pc' = [pc EXCEPT ![t] = l], OthersOp(t), UNCHANGED file
    PROVE  OthersSame(t) /\ CallTypes' /\ pc'[t] = l
BY DEF TypeOK, OthersSame, CallTypes, OthersOp

-----------------------------------------------------------------------------
(***************************************************************************)
(* What a step of one task does to the slots: free slots stay clean, and    *)
(* the empty inode of another task is left as it is.                        *)
(***************************************************************************)
Spare(t) == \A s \in Slot : inode[s] = Empty /\ Refs(t, s) = 0 => inode'[s] = Empty

OwnEmpty(t) == pc[t] \in {"got", "scan_wait"} => inode[op[t].empty] = Empty

SlotsRight(t) ==
    /\ inode' \in [Slot -> MInode]
    /\ FreeInodesAreClean'
    /\ Spare(t)
    /\ OwnEmpty(t)'

OtherTypes ==
    /\ last_inode \in Slot
    /\ imap \subseteq Num
    /\ disk \in [Num -> Links]
    /\ dir \in [Entry -> [name : Name \cup {NoName}, num : Num \cup {0}]]
    /\ running \in Task \cup {NoTask}
    /\ panicked \in {"no", "No free inodes in mem", "iput: trying to free free inode",
                     "free_inode", "trying to free inode with links"}
    /\ raced \in BOOLEAN

\* The fields an inode has after an assignment to some of them.
LEMMA InodeFields ==
    ASSUME NEW i \in MInode
    PROVE  /\ \A l \in BOOLEAN : /\ [i EXCEPT !.lock = l] \in MInode
                               /\ [i EXCEPT !.lock = l].num = i.num
                               /\ [i EXCEPT !.lock = l].count = i.count
                               /\ [i EXCEPT !.lock = l].lock = l
                               /\ [i EXCEPT !.lock = l].dirt = i.dirt
                               /\ [i EXCEPT !.lock = l].nlinks = i.nlinks
           /\ \A d \in BOOLEAN : /\ [i EXCEPT !.dirt = d] \in MInode
                               /\ [i EXCEPT !.dirt = d].num = i.num
                               /\ [i EXCEPT !.dirt = d].count = i.count
                               /\ [i EXCEPT !.dirt = d].lock = i.lock
                               /\ [i EXCEPT !.dirt = d].dirt = d
                               /\ [i EXCEPT !.dirt = d].nlinks = i.nlinks
           /\ \A n \in Links : /\ [i EXCEPT !.nlinks = n] \in MInode
                               /\ [i EXCEPT !.nlinks = n].num = i.num
                               /\ [i EXCEPT !.nlinks = n].count = i.count
                               /\ [i EXCEPT !.nlinks = n].lock = i.lock
                               /\ [i EXCEPT !.nlinks = n].dirt = i.dirt
                               /\ [i EXCEPT !.nlinks = n].nlinks = n
           /\ \A n \in Num : /\ [i EXCEPT !.num = n] \in MInode
                             /\ [i EXCEPT !.num = n].num = n
                             /\ [i EXCEPT !.num = n].count = i.count
                             /\ [i EXCEPT !.num = n].lock = i.lock
                             /\ [i EXCEPT !.num = n].dirt = i.dirt
                             /\ [i EXCEPT !.num = n].nlinks = i.nlinks
           /\ \A n \in Nat : /\ [i EXCEPT !.count = n] \in MInode
                             /\ [i EXCEPT !.count = n].num = i.num
                             /\ [i EXCEPT !.count = n].count = n
                             /\ [i EXCEPT !.count = n].lock = i.lock
                             /\ [i EXCEPT !.count = n].dirt = i.dirt
                             /\ [i EXCEPT !.count = n].nlinks = i.nlinks
BY DEF MInode

LEMMA SameFields ==
    ASSUME NEW i \in MInode, NEW j \in MInode, i.num = j.num, i.count = j.count,
           i.lock = j.lock, i.dirt = j.dirt, i.nlinks = j.nlinks
    PROVE  i = j
BY DEF MInode

LEMMA EmptyFields ==
    /\ Empty \in MInode /\ Empty.num = 0 /\ Empty.count = 1
    /\ ~Empty.lock /\ ~Empty.dirt /\ Empty.nlinks = 0
    /\ Zeros \in MInode /\ Zeros.num = 0 /\ Zeros.count = 0
    /\ ~Zeros.lock /\ ~Zeros.dirt /\ Zeros.nlinks = 0
    /\ [Empty EXCEPT !.count = 0] = Zeros
    /\ 0 \notin Num
<1>1. /\ Zeros \in MInode /\ Zeros.num = 0 /\ Zeros.count = 0
      /\ ~Zeros.lock /\ ~Zeros.dirt /\ Zeros.nlinks = 0
  BY DEF Zeros, MInode, Links
<1>2. /\ Empty \in MInode /\ Empty.num = 0 /\ Empty.count = 1
      /\ Empty.lock = Zeros.lock /\ Empty.dirt = Zeros.dirt /\ Empty.nlinks = 0
  BY <1>1, InodeFields DEF Empty
<1>3. [Empty EXCEPT !.count = 0] = Zeros
  <2> DEFINE i == [Empty EXCEPT !.count = 0]
  <2>1. /\ i \in MInode /\ i.num = Empty.num /\ i.count = 0 /\ i.lock = Empty.lock
        /\ i.dirt = Empty.dirt /\ i.nlinks = Empty.nlinks
    BY <1>2, InodeFields
  <2> HIDE DEF i
  <2>2. i = Zeros
    BY <1>1, <1>2, <2>1, SameFields
  <2> QED
    BY <2>2 DEF i
<1>4. 0 \notin Num
  BY InodeAssumption DEF Num
<1> QED
  BY <1>1, <1>2, <1>3, <1>4

LEMMA OldSlots ==
    ASSUME Counted, NEW t \in Task, UNCHANGED inode, OwnEmpty(t)'
    PROVE  SlotsRight(t) /\ CountsSame
BY DEF Counted, TypeOK, SlotsRight, CountsSame, Spare, FreeInodesAreClean

LEMMA OneSlot ==
    ASSUME Counted, NEW t \in Task, NEW s \in Slot, NEW i \in MInode,
           inode' = [inode EXCEPT ![s] = i], i.count = inode[s].count,
           i.count # 0 \/ (~i.dirt /\ ~i.lock),
           Refs(t, s) # 0 \/ inode[s] # Empty \/ i = inode[s],
           pc'[t] \notin {"got", "scan_wait"}
    PROVE  SlotsRight(t) /\ CountsSame
<1>1. \A r \in Slot : inode'[r] = IF r = s THEN i ELSE inode[r]
  BY DEF Counted, TypeOK
<1>2. inode' \in [Slot -> MInode]
  BY DEF Counted, TypeOK
<1> QED
  BY <1>1, <1>2 DEF Counted, SlotsRight, CountsSame, Spare, OwnEmpty, FreeInodesAreClean

\* A slot somebody refers to is in use.
LEMMA HeldIsUsed ==
    ASSUME Counted, NEW t \in Task, NEW s \in Slot, HasEmpty(t, s) \/ HasInode(t, s) \/ HasOpen(t, s)
    PROVE  Refs(t, s) # 0 /\ inode[s].count \in Nat /\ inode[s].count # 0
<1>1. Refs(t, s) \in Nat /\ Refs(t, s) # 0
  BY DEF Refs
<1>2. inode[s].count \in Nat /\ inode[s].count >= Refs(t, s)
  BY Referred DEF Counted
<1> QED
  BY <1>1, <1>2

\* write_inode is left with the inode clean and unlocked.
LEMMA WrittenSlot ==
    ASSUME Counted, NEW t \in Task, NEW s \in Slot, Written(s),
           pc'[t] \notin {"got", "scan_wait"}
    PROVE  SlotsRight(t) /\ CountsSame /\ disk' \in [Num -> Links]
<1> DEFINE i == [inode[s] EXCEPT !.dirt = FALSE, !.lock = FALSE]
<1>1. inode[s] \in MInode /\ inode' = [inode EXCEPT ![s] = i]
  BY DEF Counted, TypeOK, Written
<1>2. i \in MInode /\ i.count = inode[s].count /\ ~i.dirt /\ ~i.lock
  BY <1>1 DEF MInode
<1>3. inode[s] = Empty => i = inode[s]
  BY DEF Empty, Zeros
<1>4. disk' \in [Num -> Links]
  <2>1. inode[s].nlinks \in Links
    BY <1>1 DEF MInode
  <2> QED
    BY <2>1 DEF Written, Counted, TypeOK
<1> HIDE DEF i
<1> QED
  BY <1>1, <1>2, <1>3, <1>4, OneSlot

\* It begins with the inode locked.
LEMMA LockedSlot ==
    ASSUME Counted, NEW t \in Task, NEW s \in Slot, Locked(s), inode[s].dirt,
           pc'[t] \notin {"got", "scan_wait"}
    PROVE  SlotsRight(t) /\ CountsSame
<1> DEFINE i == [inode[s] EXCEPT !.lock = TRUE]
<1>1. inode[s] \in MInode /\ inode' = [inode EXCEPT ![s] = i]
  BY DEF Counted, TypeOK, Locked
<1>2. i \in MInode /\ i.count = inode[s].count
  BY <1>1, InodeFields
<1>3. inode[s] # Empty /\ inode[s].count # 0
  BY DEF Empty, Zeros, Counted, FreeInodesAreClean
<1> HIDE DEF i
<1> QED
  BY <1>1, <1>2, <1>3, OneSlot

-----------------------------------------------------------------------------
(***************************************************************************)
(* Every step of a call moves one task, its references and no slot of       *)
(* another's.                                                               *)
(***************************************************************************)
Right(t) == Moves(t) /\ SlotsRight(t) /\ OtherTypes'

LEMMA InCall ==
    ASSUME Counted, NEW t \in Task, pc[t] # "user"
    PROVE  op[t] \in Op /\ op[t] # NoOp /\ Local(t) /\ pc[t] \in Labels
BY NoOpIsNone DEF Counted, TypeOK, Locals, Local

\* Steps that leave the table alone.
LEMMA WaitsRight ==
    ASSUME Counted, NEW t \in Task,
           \/ SleepOnInode(t) \/ NoneEmpty(t) \/ PutPanics(t) \/ PutTruncates(t)
           \/ LinkFinds(t) \/ LinkAdds(t)
    PROVE  Right(t)
<1> USE DEF GoTo, GoesOn, MaySleep, In, Resumes, Unlocked
<1>0. TypeOK /\ Local(t) /\ OwnEmpty(t)
  BY DEF Counted, Locals, EmptyIsEmpty, OwnEmpty
<1>1. ASSUME UNCHANGED <<inode, pc, op, file>> PROVE Moves(t) /\ SlotsRight(t)
  <2>1. OwnEmpty(t)' /\ UNCHANGED inode
    BY <1>0, <1>1 DEF OwnEmpty
  <2>2. SlotsRight(t) /\ CountsSame
    BY <2>1, OldSlots
  <2>3. pc' = [pc EXCEPT ![t] = pc[t]] /\ pc[t] \in Labels /\ GoesTo(pc[t], pc[t])
    BY <1>0, <1>1 DEF TypeOK, GoesTo
  <2>4. Moves(t)
    <3>1. OthersSame(t) /\ CallTypes' /\ Local(t)'
      BY <1>0, <1>1 DEF OthersSame, CallTypes, TypeOK, Local, WantsInode
    <3>2. \A s \in Slot : Refs(t, s)' = Refs(t, s)
      BY <1>1 DEF Refs, HasOpen, HasEmpty, HasInode
    <3> QED
      BY <1>0, <2>2, <3>1, <3>2, SameMoves DEF Moves
  <2> QED
    BY <2>2, <2>4
<1>2. ASSUME NEW l \in {"i_write", "truncate", "find_new", "add", "iput"}, GoesTo(pc[t], l),
             pc' = [pc EXCEPT ![t] = l], UNCHANGED <<inode, op, file>>,
             pc[t] = "find_new" /\ l = "add" => op[t].what = "link",
             pc[t] = "igot" /\ l = "find_new" => op[t].what = "link"
      PROVE  Moves(t) /\ SlotsRight(t)
  <2>1. l \in Labels /\ l \notin {"empty", "linked", "got", "scan_wait"}
    BY <1>2 DEF Labels, WaitLabels, ReadLabels
  <2>2. OwnEmpty(t)' /\ UNCHANGED inode
    BY <1>0, <1>2, <2>1 DEF OwnEmpty, TypeOK
  <2>3. SlotsRight(t) /\ CountsSame
    BY <2>2, OldSlots
  <2>4. Moves(t)
    BY <1>0, <1>2, <2>1, <2>3, LabelMoves
  <2> QED
    BY <2>3, <2>4
<1>3. CASE SleepOnInode(t)
  BY <1>0, <1>1, <1>3 DEF SleepOnInode, Right, OtherTypes, TypeOK
<1>4. CASE NoneEmpty(t)
  BY <1>0, <1>1, <1>4 DEF NoneEmpty, Panic, Right, OtherTypes, TypeOK
<1>5. CASE PutPanics(t)
  <2>1. Wrong(t) \in {"iput: trying to free free inode", "free_inode",
                      "trying to free inode with links", "no"}
    BY DEF Wrong
  <2> QED
    BY <1>0, <1>1, <1>5, <2>1 DEF PutPanics, Panic, Right, OtherTypes, TypeOK
<1>6. CASE PutTruncates(t)
  <2>1. GoesTo(pc[t], "truncate")
    BY <1>6 DEF PutTruncates, Puts, GoesTo
  <2>2. pc[t] \notin {"find_new", "igot"}
    BY <1>6 DEF PutTruncates, Puts
  <2> QED
    BY <1>0, <1>2, <1>6, <2>1, <2>2 DEF PutTruncates, Right, OtherTypes, TypeOK
<1>7. CASE LinkFinds(t)
  BY <1>0, <1>2, <1>7 DEF LinkFinds, GoesTo, Right, OtherTypes, TypeOK
<1>8. CASE LinkAdds(t)
  <2>1. op[t].what = "link"
    BY <1>0, <1>8 DEF LinkAdds, Local
  <2>2. PICK l \in {"add", "iput"} : pc' = [pc EXCEPT ![t] = l]
    BY <1>8 DEF LinkAdds
  <2> QED
    BY <1>0, <1>2, <1>8, <2>1, <2>2 DEF LinkAdds, GoesTo, Right, OtherTypes, TypeOK
<1> QED
  BY <1>3, <1>4, <1>5, <1>6, <1>7, <1>8

\* Steps that write or modify an inode in its place.
LEMMA ModifiesRight ==
    ASSUME Counted, NEW t \in Task,
           \/ PutWrites(t) \/ PutWritten(t) \/ SyncWrites(t) \/ LinkCounts(t)
           \/ DirectoryFull(t) \/ Unlink(t)
    PROVE  Right(t)
<1> USE DEF GoTo, GoesOn, MaySleep, In, Resumes, Unlocked
<1> DEFINE s == op[t].inode
<1>0. /\ TypeOK /\ Local(t) /\ op[t] \in Op /\ op[t] # NoOp /\ s \in Slot
      /\ inode[s] \in MInode
  <2>1. pc[t] \in {"iput", "repeat", "i_write", "sync", "linked", "add", "igot"}
    BY DEF PutWrites, PutWritten, SyncWrites, LinkCounts, DirectoryFull, Unlink, Puts
  <2>2. TypeOK /\ Local(t) /\ op[t] \in Op /\ op[t] # NoOp
    BY <2>1, InCall DEF Counted
  <2>3. s \in Slot
    BY <2>1, <2>2 DEF Local, WithInode
  <2> QED
    BY <2>2, <2>3 DEF TypeOK
<1> HIDE DEF s
<1>1. ASSUME NEW l \in {"i_write", "repeat", "s_write", "iput"}, GoesTo(pc[t], l),
             pc' = [pc EXCEPT ![t] = l], UNCHANGED <<op, file>>,
             SlotsRight(t), CountsSame
      PROVE  Moves(t) /\ SlotsRight(t)
  <2>1. l \in Labels /\ l \notin {"empty", "linked", "add", "find_new"}
    BY <1>1 DEF Labels, WaitLabels, ReadLabels
  <2> QED
    BY <1>0, <1>1, <2>1, LabelMoves
<1>2. ASSUME NEW n \in Links, NEW d \in BOOLEAN, pc[t] \in {"linked", "igot", "add"},
             pc' = [pc EXCEPT ![t] = "iput"],
             inode' = [inode EXCEPT ![s] = [inode[s] EXCEPT !.nlinks = n, !.dirt = d]]
      PROVE  SlotsRight(t) /\ CountsSame
  <2> DEFINE j == [inode[s] EXCEPT !.nlinks = n]
             i == [j EXCEPT !.dirt = d]
  <2>1. j \in MInode /\ j.count = inode[s].count
    BY <1>0, InodeFields
  <2>2. i \in MInode /\ i.count = inode[s].count
    <3> HIDE DEF j
    <3> QED
      BY <2>1, InodeFields
  <2>3. HasInode(t, s)
    BY <1>0, <1>2 DEF HasInode, WithInode, s
  <2>4. Refs(t, s) # 0 /\ inode[s].count # 0
    BY <1>0, <2>3, HeldIsUsed
  <2>5. inode' = [inode EXCEPT ![s] = i]
    BY <1>2
  <2>6. pc'[t] \notin {"got", "scan_wait"}
    BY <1>0, <1>2 DEF TypeOK
  <2> HIDE DEF i
  <2> QED
    BY <1>0, <2>2, <2>4, <2>5, <2>6, OneSlot
<1>3. CASE PutWrites(t)
  <2>1. /\ Locked(s) /\ inode[s].dirt /\ pc' = [pc EXCEPT ![t] = "i_write"]
        /\ GoesTo(pc[t], "i_write") /\ UNCHANGED <<op, file>>
    BY <1>3 DEF PutWrites, Modified, Puts, GoesTo, s
  <2>2. SlotsRight(t) /\ CountsSame
    BY <1>0, <2>1, LockedSlot DEF TypeOK
  <2> QED
    BY <1>0, <1>1, <1>3, <2>1, <2>2 DEF PutWrites, Right, OtherTypes, TypeOK
<1>4. CASE PutWritten(t)
  <2>1. /\ Written(s) /\ pc' = [pc EXCEPT ![t] = "repeat"]
        /\ GoesTo(pc[t], "repeat") /\ UNCHANGED <<op, file>>
    BY <1>4 DEF PutWritten, GoesTo, s
  <2>2. SlotsRight(t) /\ CountsSame /\ disk' \in [Num -> Links]
    BY <1>0, <2>1, WrittenSlot DEF TypeOK
  <2> QED
    BY <1>0, <1>1, <1>4, <2>1, <2>2 DEF PutWritten, Right, OtherTypes, TypeOK
<1>5. CASE SyncWrites(t)
  <2>1. /\ Locked(s) /\ inode[s].dirt /\ pc' = [pc EXCEPT ![t] = "s_write"]
        /\ GoesTo(pc[t], "s_write") /\ UNCHANGED <<op, file>>
        /\ raced' \in BOOLEAN
    BY <1>0, <1>5 DEF SyncWrites, GoesTo, s, TypeOK
  <2>2. SlotsRight(t) /\ CountsSame
    BY <1>0, <2>1, LockedSlot DEF TypeOK
  <2> QED
    BY <1>0, <1>1, <1>5, <2>1, <2>2 DEF SyncWrites, Right, OtherTypes, TypeOK
<1>6. CASE LinkCounts(t)
  <2>1. OneMore(inode[s].nlinks) \in Links
    BY <1>0 DEF OneMore, Links, MInode
  <2>2. /\ inode' = [inode EXCEPT ![s] = [inode[s] EXCEPT !.nlinks = OneMore(inode[s].nlinks), !.dirt = TRUE]]
        /\ pc' = [pc EXCEPT ![t] = "iput"] /\ pc[t] = "linked" /\ UNCHANGED <<op, file>>
    BY <1>0, <1>6 DEF LinkCounts, TypeOK, s
  <2>3. SlotsRight(t) /\ CountsSame /\ GoesTo(pc[t], "iput")
    BY <1>2, <2>1, <2>2 DEF GoesTo
  <2> QED
    BY <1>0, <1>1, <1>6, <2>2, <2>3 DEF LinkCounts, Right, OtherTypes, TypeOK
<1>7. CASE DirectoryFull(t)
  <2>1. /\ pc' = [pc EXCEPT ![t] = "iput"] /\ pc[t] = "add" /\ UNCHANGED <<op, file>>
        /\ GoesTo(pc[t], "iput")
    BY <1>7 DEF DirectoryFull, GoesTo
  <2>2. SlotsRight(t) /\ CountsSame
    <3>1. CASE op[t].what = "creat"
      <4>1. OneLess(inode[s].nlinks) \in Links /\ inode[s].dirt \in BOOLEAN
        BY <1>0 DEF OneLess, Links, MInode
      <4>2. [inode[s] EXCEPT !.nlinks = OneLess(inode[s].nlinks)]
              = [inode[s] EXCEPT !.nlinks = OneLess(inode[s].nlinks), !.dirt = inode[s].dirt]
        BY <1>0 DEF MInode
      <4>3. inode' = [inode EXCEPT ![s] = [inode[s] EXCEPT !.nlinks = OneLess(inode[s].nlinks)]]
        BY <1>0, <1>7, <3>1 DEF DirectoryFull, TypeOK, s
      <4> QED
        BY <1>2, <2>1, <4>1, <4>2, <4>3
    <3>2. CASE op[t].what # "creat"
      <4>1. UNCHANGED inode /\ OwnEmpty(t)'
        BY <1>0, <1>7, <2>1, <3>2 DEF DirectoryFull, OwnEmpty, TypeOK
      <4> QED
        BY <4>1, OldSlots
    <3> QED
      BY <3>1, <3>2
  <2> QED
    BY <1>0, <1>1, <1>7, <2>1, <2>2 DEF DirectoryFull, Right, OtherTypes, TypeOK
<1>8. CASE Unlink(t)
  <2> DEFINE n == (IF inode[s].nlinks = 0 THEN 1 ELSE inode[s].nlinks) - 1
  <2>1. n \in Links
    BY <1>0 DEF Links, MInode
  <2>2. /\ inode' = [inode EXCEPT ![s] = [inode[s] EXCEPT !.nlinks = n, !.dirt = TRUE]]
        /\ pc' = [pc EXCEPT ![t] = "iput"] /\ pc[t] = "igot" /\ UNCHANGED <<op, file>>
        /\ raced' \in BOOLEAN
    BY <1>0, <1>8 DEF Unlink, TypeOK, s
  <2>3. dir' \in [Entry -> [name : Name \cup {NoName}, num : Num \cup {0}]]
    BY <1>0, <1>8 DEF Unlink, TypeOK
  <2> HIDE DEF n
  <2>4. SlotsRight(t) /\ CountsSame /\ GoesTo(pc[t], "iput")
    BY <1>2, <2>1, <2>2 DEF GoesTo
  <2> QED
    BY <1>0, <1>1, <1>8, <2>2, <2>3, <2>4 DEF Unlink, Right, OtherTypes, TypeOK
<1> QED
  BY <1>3, <1>4, <1>5, <1>6, <1>7, <1>8

-----------------------------------------------------------------------------
\* The least number of a set of them.
LEMMA LeastIn ==
    ASSUME NEW S, S \subseteq Nat, S # {}
    PROVE  Min(S) \in S /\ \A x \in S : Min(S) <= x
<1> DEFINE R == {ss \in Nat \X Nat : ss[1] < ss[2]}
<1>1. IsWellFoundedOn(R, Nat)
  BY NatLessThanWellFounded DEF OpToRel
<1>2. PICK x \in S : \A y \in S : ~(<<y, x>> \in R)
  BY <1>1, WFMin
<1>3. ASSUME NEW y \in S PROVE x <= y
  <2>1. ~(<<y, x>> \in R) /\ <<y, x>> \in Nat \X Nat
    BY <1>2
  <2> QED
    BY <2>1
<1> QED
  BY <1>3 DEF Min

\* get_empty_inode takes a free slot, if there is one.
LEMMA NearestIsFree ==
    ASSUME TypeOK, Free # {}
    PROVE  Nearest(Free) \in Slot /\ inode[Nearest(Free)].count = 0
<1> DEFINE D == {Distance(s) : s \in Free}
<1>1. D \subseteq Nat /\ D # {}
  <2>1. ASSUME NEW s \in Free PROVE Distance(s) \in Nat
    <3>1. s \in 1 .. NR_INODE /\ last_inode \in 1 .. NR_INODE /\ NR_INODE \in Nat \ {0}
      BY InodeAssumption DEF Free, Slot, TypeOK
    <3>2. s + NR_INODE - last_inode - 1 \in Nat
      BY <3>1
    <3> HIDE DEF D
    <3> QED
      BY <3>1, <3>2 DEF Distance
  <2> QED
    BY <2>1
<1>2. Min(D) \in D /\ \A x \in D : Min(D) <= x
  BY <1>1, LeastIn
<1>3. PICK s \in Free : Distance(s) = Min(D)
  BY <1>2
<1>4. \A r \in Free : Distance(s) <= Distance(r)
  BY <1>2, <1>3
<1>5. Nearest(Free) \in Free
  BY <1>4 DEF Nearest
<1> QED
  BY <1>5 DEF Free

\* Steps that end a call, without the inode table.
LEMMA ReturnsRight ==
    ASSUME Counted, NEW t \in Task,
           \/ NoEntryFound(t) \/ AddEntry(t) \/ OpenDone(t) \/ SyncSkips(t)
           \/ SyncWritten(t)
    PROVE  Right(t)
<1> USE DEF GoTo, GoesOn, MaySleep, In, Resumes, Unlocked
<1> DEFINE s == op[t].inode
<1>0. /\ TypeOK /\ Local(t) /\ op[t] \in Op /\ op[t] # NoOp
      /\ pc[t] \in {"find", "add", "igot", "sync", "s_write"}
  <2>1. pc[t] \in {"find", "add", "igot", "sync", "s_write"}
    BY DEF NoEntryFound, AddEntry, OpenDone, SyncSkips, SyncWritten
  <2> QED
    BY <2>1, InCall DEF Counted
<1>1. pc[t] # "find" => s \in Slot
  BY <1>0 DEF Local, WithInode
<1> HIDE DEF s
\* It returns with nothing, from a label without an inode.
<1>2. ASSUME Finished(t), UNCHANGED file, CountsSame, pc[t] \in {"find", "sync", "s_write"}
      PROVE  Moves(t) /\ pc'[t] = "user"
  <2>1. /\ OthersSame(t) /\ CallTypes' /\ Local(t)' /\ pc'[t] = "user"
        /\ \A r : Refs(t, r)' = IF HasOpen(t, r) THEN 1 ELSE 0
    BY <1>0, <1>2, FinishMoves
  <2>2. \A r \in Slot : Refs(t, r)' = Refs(t, r)
    BY <1>2, <2>1 DEF Refs, HasEmpty, HasInode, WithEmpty, WithInode
  <2> QED
    BY <1>0, <1>2, <2>1, <2>2, SameMoves DEF Moves
\* It returns with the inode open.
<1>3. ASSUME Finished(t), file' = [file EXCEPT ![t] = s], UNCHANGED inode,
             pc[t] \in {"add", "igot"}, op[t].what \in {"open", "creat"}
      PROVE  Moves(t) /\ SlotsRight(t)
  <2>1. /\ OthersSame(t) /\ CallTypes' /\ Local(t)' /\ pc'[t] = "user"
        /\ \A r : Refs(t, r)' = IF r = s THEN 1 ELSE 0
    BY <1>0, <1>1, <1>3, FinishOpen
  <2>2. file[t] = NoSlot
    BY <1>0, <1>3 DEF Local
  <2>3. \A r \in Slot : Refs(t, r) = IF r = s THEN 1 ELSE 0
    BY <1>0, <1>3, <2>2 DEF Refs, HasOpen, HasEmpty, HasInode, WithEmpty, WithInode, s, NoSlot, Slot
  <2>4. SlotsRight(t) /\ CountsSame
    BY <1>3, <2>1, OldSlots DEF OwnEmpty
  <2> QED
    BY <1>0, <2>1, <2>3, <2>4, SameMoves DEF Moves
<1>4. CASE NoEntryFound(t)
  <2>1. UNCHANGED inode /\ pc[t] = "find" /\ file' = file
    BY <1>4 DEF NoEntryFound
  <2>2. CASE op[t].what = "creat"
    <3>1. pc' = [pc EXCEPT ![t] = "empty"] /\ op' = op
      BY <1>4, <2>2 DEF NoEntryFound
    <3>2. op[t].nr = 0
      BY <1>0, <2>1 DEF Local
    <3>3. SlotsRight(t) /\ CountsSame
      BY <1>0, <2>1, <3>1, OldSlots DEF OwnEmpty, TypeOK
    <3>4. Moves(t)
      BY <1>0, <2>1, <2>2, <3>1, <3>2, <3>3, LabelMoves DEF GoesTo, Labels
    <3> QED
      BY <1>0, <1>4, <2>2, <3>3, <3>4 DEF NoEntryFound, Right, OtherTypes, TypeOK
  <2>3. CASE op[t].what # "creat"
    <3>1. Finished(t)
      BY <1>4, <2>3 DEF NoEntryFound
    <3>2. CountsSame
      BY <2>1 DEF CountsSame
    <3>3. Moves(t) /\ pc'[t] = "user"
      BY <1>2, <2>1, <3>1, <3>2
    <3>4. SlotsRight(t)
      BY <2>1, <3>3, OldSlots DEF OwnEmpty
    <3> QED
      BY <1>0, <1>4, <3>1, <3>3, <3>4 DEF NoEntryFound, Finished, Right, OtherTypes, TypeOK
  <2> QED
    BY <2>2, <2>3
<1>5. CASE AddEntry(t)
  <2>1. UNCHANGED inode /\ pc[t] = "add"
    BY <1>5 DEF AddEntry
  <2>2. dir' \in [Entry -> [name : Name \cup {NoName}, num : Num \cup {0}]]
    <3>1. inode[s].num \in Num \cup {0}
      BY <1>0, <1>1, <2>1 DEF TypeOK, MInode
    <3>2. op[t].name \in Name \cup {NoName} /\ op[t].new \in Name \cup {NoName}
      BY <1>0 DEF Op
    <3> QED
      BY <1>0, <1>5, <3>1, <3>2 DEF AddEntry, TypeOK, s
  <2>3. CASE op[t].what = "creat"
    <3>1. Finished(t) /\ file' = [file EXCEPT ![t] = s]
      BY <1>5, <2>3 DEF AddEntry, s
    <3>2. Moves(t) /\ SlotsRight(t)
      BY <1>3, <2>1, <2>3, <3>1
    <3> QED
      BY <1>0, <1>5, <2>2, <3>1, <3>2 DEF AddEntry, Finished, Right, OtherTypes, TypeOK
  <2>4. CASE op[t].what # "creat"
    <3>1. pc' = [pc EXCEPT ![t] = "linked"] /\ op' = op /\ file' = file /\ running' = NoTask
      BY <1>5, <2>4 DEF AddEntry
    <3>2. op[t].what = "link"
      BY <1>0, <2>1, <2>4 DEF Local
    <3>3. SlotsRight(t) /\ CountsSame
      BY <1>0, <2>1, <3>1, OldSlots DEF OwnEmpty, TypeOK
    <3>4. Moves(t)
      BY <1>0, <2>1, <3>1, <3>2, <3>3, LabelMoves DEF GoesTo, Labels, ReadLabels
    <3> QED
      BY <1>0, <1>5, <2>2, <3>1, <3>3, <3>4 DEF AddEntry, Right, OtherTypes, TypeOK
  <2> QED
    BY <2>3, <2>4
<1>6. CASE OpenDone(t)
  <2>1. UNCHANGED inode /\ pc[t] = "igot" /\ op[t].what = "open"
    BY <1>6 DEF OpenDone
  <2>2. CASE inode[s].nlinks # 0
    <3>1. Finished(t) /\ file' = [file EXCEPT ![t] = s]
      BY <1>6, <2>2 DEF OpenDone, s
    <3>2. Moves(t) /\ SlotsRight(t)
      BY <1>3, <2>1, <3>1
    <3> QED
      BY <1>0, <1>6, <3>1, <3>2 DEF OpenDone, Finished, Right, OtherTypes, TypeOK
  <2>3. CASE inode[s].nlinks = 0
    <3>1. pc' = [pc EXCEPT ![t] = "iput"] /\ op' = op /\ file' = file /\ running' = t
      BY <1>6, <2>3 DEF OpenDone, s
    <3>2. SlotsRight(t) /\ CountsSame
      BY <1>0, <2>1, <3>1, OldSlots DEF OwnEmpty, TypeOK
    <3>3. Moves(t)
      BY <1>0, <2>1, <3>1, <3>2, LabelMoves DEF GoesTo, Labels, WaitLabels
    <3> QED
      BY <1>0, <1>6, <3>1, <3>2, <3>3 DEF OpenDone, Right, OtherTypes, TypeOK
  <2> QED
    BY <2>2, <2>3
\* sync_inodes goes on with the next slot, or returns.
<1>7. ASSUME SyncGoesOn(t), UNCHANGED file, pc[t] \in {"sync", "s_write"},
             pc'[t] \in {"sync", "user"} => CountsSame
      PROVE  Moves(t) /\ pc'[t] \in {"sync", "user"} /\ running' \in Task \cup {NoTask}
  <2>1. CASE s < NR_INODE
    <3>1. SetOp(t, "inode", s + 1) /\ pc' = [pc EXCEPT ![t] = "sync"] /\ running' = t
      BY <1>7, <2>1 DEF SyncGoesOn, s
    <3>2. s \in Slot /\ s + 1 \in Slot
      BY <1>1, <1>7, <2>1, InodeAssumption DEF Slot
    <3>3. /\ OthersOp(t) /\ op'[t] \in Op /\ op'[t].inode = s + 1 /\ op'[t].what = op[t].what
          /\ op'[t].new = op[t].new
      BY <1>0, <3>1, <3>2, SetInode
    <3>4. OthersSame(t) /\ CallTypes' /\ pc'[t] = "sync"
      BY <1>0, <1>7, <3>1, <3>3, OpMoves DEF Labels, WaitLabels
    <3>5. Local(t)'
      BY <1>0, <1>7, <3>2, <3>3, <3>4, NoOpIsNone DEF Local, WithEmpty, WithInode, LooksUp
    <3>6. \A r \in Slot : Refs(t, r)' = Refs(t, r)
      BY <1>7, <3>4 DEF Refs, HasOpen, HasEmpty, HasInode, WithEmpty, WithInode
    <3> QED
      BY <1>0, <1>7, <3>1, <3>4, <3>5, <3>6, SameMoves DEF Moves
  <2>2. CASE ~(s < NR_INODE)
    <3>1. Finished(t)
      BY <1>7, <2>2 DEF SyncGoesOn, s
    <3>2. pc'[t] = "user"
      BY <1>0, <1>7, <3>1, FinishMoves
    <3> QED
      BY <1>2, <1>7, <3>1, <3>2 DEF Finished
  <2> QED
    BY <2>1, <2>2
<1>8. CASE SyncSkips(t)
  <2>1. SyncGoesOn(t) /\ UNCHANGED <<inode, file>> /\ pc[t] = "sync"
    BY <1>8 DEF SyncSkips
  <2>2. CountsSame
    BY <2>1 DEF CountsSame
  <2>3. Moves(t) /\ pc'[t] \in {"sync", "user"} /\ running' \in Task \cup {NoTask}
    BY <1>7, <2>1, <2>2
  <2>4. SlotsRight(t)
    BY <2>1, <2>3, OldSlots DEF OwnEmpty
  <2> QED
    BY <1>0, <1>8, <2>3, <2>4 DEF SyncSkips, Right, OtherTypes, TypeOK
<1>9. CASE SyncWritten(t)
  <2>1. SyncGoesOn(t) /\ UNCHANGED file /\ pc[t] = "s_write" /\ Written(s) /\ s \in Slot
    BY <1>1, <1>9 DEF SyncWritten, s
  <2>2. pc'[t] \notin {"got", "scan_wait"}
    BY <1>0, <2>1 DEF SyncGoesOn, Finished, TypeOK
  <2>3. SlotsRight(t) /\ CountsSame /\ disk' \in [Num -> Links]
    BY <2>1, <2>2, WrittenSlot
  <2>4. Moves(t) /\ running' \in Task \cup {NoTask}
    BY <1>7, <2>1, <2>3
  <2> QED
    BY <1>0, <1>9, <2>3, <2>4 DEF SyncWritten, Right, OtherTypes, TypeOK
<1> QED
  BY <1>4, <1>5, <1>6, <1>8, <1>9

-----------------------------------------------------------------------------
\* One slot changes, with its count.
LEMMA OneSlotCounts ==
    ASSUME Counted, NEW t \in Task, NEW s \in Slot, NEW i \in MInode, NEW n \in {1, -1},
           inode' = [inode EXCEPT ![s] = i], i.count = inode[s].count + n,
           i.count # 0 \/ (~i.dirt /\ ~i.lock),
           Refs(t, s) # 0 \/ inode[s] # Empty, OwnEmpty(t)'
    PROVE  SlotsRight(t) /\ OneCounts(s, n)
<1>1. \A r \in Slot : inode'[r] = IF r = s THEN i ELSE inode[r]
  BY DEF Counted, TypeOK
<1>2. inode' \in [Slot -> MInode]
  BY DEF Counted, TypeOK
<1>3. OneCounts(s, n)
  BY <1>1 DEF OneCounts
<1>4. FreeInodesAreClean' /\ Spare(t)
  BY <1>1 DEF Counted, Spare, FreeInodesAreClean
<1> QED
  BY <1>2, <1>3, <1>4 DEF SlotsRight

\* find_entry, and get_empty_inode.
LEMMA SearchesRight ==
    ASSUME Counted, NEW t \in Task, FindEntry(t) \/ TakeEmpty(t) \/ FoundInTable(t)
    PROVE  Right(t)
<1> USE DEF GoTo, GoesOn, MaySleep, In, Resumes, Unlocked
<1>0. /\ TypeOK /\ Local(t) /\ op[t] \in Op /\ op[t] # NoOp
      /\ pc[t] \in {"find", "empty", "got"} /\ OwnEmpty(t)
  <2>1. pc[t] \in {"find", "empty", "got"}
    BY DEF FindEntry, TakeEmpty, FoundInTable
  <2> QED
    BY <2>1, InCall DEF Counted, EmptyIsEmpty, OwnEmpty
<1>1. CASE FindEntry(t)
  <2> DEFINE e == Min(Named(op[t].name))
  <2>1. e \in Entry /\ dir[e].num # 0
    <3>1. Named(op[t].name) \subseteq Nat /\ Named(op[t].name) # {}
      <4>1. Entry \subseteq Nat
        BY InodeAssumption DEF Entry
      <4> QED
        BY <1>1, <4>1 DEF FindEntry, Named
    <3>2. e \in Named(op[t].name)
      BY <3>1, LeastIn
    <3> QED
      BY <3>2 DEF Named
  <2>2. /\ op' = [op EXCEPT ![t].nr = dir[e].num, ![t].entry = e,
                            ![t].what = IF @ = "creat" THEN "open" ELSE @]
        /\ pc' = [pc EXCEPT ![t] = "empty"] /\ UNCHANGED <<inode, file>> /\ pc[t] = "find"
    BY <1>1 DEF FindEntry
  <2> HIDE DEF e
  <2>3. /\ OthersOp(t) /\ op'[t] \in Op /\ op'[t].nr = dir[e].num /\ op'[t].entry = e
        /\ op'[t].what = IF op[t].what = "creat" THEN "open" ELSE op[t].what
        /\ op'[t].name = op[t].name /\ op'[t].new = op[t].new
    BY <1>0, <2>1, <2>2, SetFound
  <2>4. OthersSame(t) /\ CallTypes' /\ pc'[t] = "empty"
    BY <1>0, <2>2, <2>3, OpMoves DEF Labels
  <2>5. op'[t].nr \in Num
    BY <1>0, <2>1, <2>3 DEF TypeOK
  <2>6. Local(t)'
    BY <1>0, <2>1, <2>2, <2>3, <2>4, <2>5, NoOpIsNone
       DEF Local, WithEmpty, WithInode, LooksUp, WantsInode
  <2>7. SlotsRight(t) /\ CountsSame
    BY <2>2, <2>4, OldSlots DEF OwnEmpty
  <2>8. \A r \in Slot : Refs(t, r)' = Refs(t, r)
    BY <2>2, <2>4 DEF Refs, HasOpen, HasEmpty, HasInode, WithEmpty, WithInode
  <2>9. Moves(t)
    BY <1>0, <2>4, <2>6, <2>7, <2>8, SameMoves DEF Moves
  <2> QED
    BY <1>0, <1>1, <2>7, <2>9 DEF FindEntry, Right, OtherTypes, TypeOK
<1>2. CASE TakeEmpty(t)
  <2> DEFINE s == Nearest(Free)
  <2>1. s \in Slot /\ inode[s].count = 0
    BY <1>0, <1>2, NearestIsFree DEF TakeEmpty
  <2>2. /\ inode' = [inode EXCEPT ![s] = Empty] /\ last_inode' = s /\ SetOp(t, "empty", s)
        /\ pc' = [pc EXCEPT ![t] = "got"] /\ pc[t] = "empty" /\ file' = file
    BY <1>2 DEF TakeEmpty, Empty
  <2> HIDE DEF s
  <2>3. /\ OthersOp(t) /\ op'[t] \in Op /\ op'[t].empty = s
        /\ op'[t].what = op[t].what /\ op'[t].name = op[t].name /\ op'[t].new = op[t].new
        /\ op'[t].nr = op[t].nr /\ op'[t].entry = op[t].entry
    BY <1>0, <2>1, <2>2, SetEmpty
  <2>4. OthersSame(t) /\ CallTypes' /\ pc'[t] = "got"
    BY <1>0, <2>2, <2>3, OpMoves DEF Labels
  <2>5. Local(t)'
    BY <1>0, <2>1, <2>2, <2>3, <2>4, NoOpIsNone
       DEF Local, WithEmpty, WithInode, LooksUp, WantsInode
  <2>6. Empty \in MInode /\ Empty.count = 1
    BY EmptyFields
  <2>7. Refs(t, s) = 0
    BY <1>0, <2>1, <2>2, HeldIsUsed DEF Refs
  <2>8. \A r \in Slot : Refs(t, r)' = IF r = s THEN Refs(t, r) + 1 ELSE Refs(t, r)
    BY <1>0, <2>2, <2>3, <2>4, NoOpIsNone
       DEF Refs, HasOpen, HasEmpty, HasInode, WithEmpty, WithInode
  <2>9. inode[s] # Empty
    BY <2>1, <2>6
  <2>10. OwnEmpty(t)'
    BY <1>0, <2>1, <2>2, <2>3 DEF OwnEmpty, TypeOK
  <2>11. SlotsRight(t) /\ OneCounts(s, 1)
    <3>1. Empty.count = inode[s].count + 1 /\ Empty.count # 0 /\ 1 \in {1, -1}
      BY <2>1, <2>6
    <3>2. inode' = [inode EXCEPT ![s] = Empty]
      BY <2>2
    <3> QED
      BY <2>1, <2>6, <2>9, <2>10, <3>1, <3>2, OneSlotCounts
  <2>12. Moves(t)
    BY <1>0, <2>4, <2>5, <2>8, <2>11, OneMoves DEF Moves
  <2> QED
    BY <1>0, <1>2, <2>1, <2>2, <2>11, <2>12 DEF TakeEmpty, Right, OtherTypes, TypeOK
<1>3. CASE FoundInTable(t)
  <2> DEFINE s == Min(InTable(op[t].nr))
  <2>1. s \in Slot
    <3>1. InTable(op[t].nr) \subseteq Nat /\ InTable(op[t].nr) # {}
      BY <1>3 DEF FoundInTable, InTable, Slot
    <3>2. s \in InTable(op[t].nr)
      BY <3>1, LeastIn
    <3> QED
      BY <3>2 DEF InTable
  <2>2. /\ SetOp(t, "inode", s) /\ pc' = [pc EXCEPT ![t] = "scan_wait"] /\ pc[t] = "got"
        /\ UNCHANGED <<inode, file>> /\ WantsInode(t)
    BY <1>3 DEF FoundInTable
  <2> HIDE DEF s
  <2>3. /\ OthersOp(t) /\ op'[t] \in Op /\ op'[t].inode = s /\ op'[t].empty = op[t].empty
        /\ op'[t].what = op[t].what /\ op'[t].name = op[t].name /\ op'[t].new = op[t].new
        /\ op'[t].nr = op[t].nr /\ op'[t].entry = op[t].entry
    BY <1>0, <2>1, <2>2, SetInode
  <2>4. OthersSame(t) /\ CallTypes' /\ pc'[t] = "scan_wait"
    BY <1>0, <2>2, <2>3, OpMoves DEF Labels, WaitLabels
  <2>5. Local(t)'
    BY <1>0, <2>1, <2>2, <2>3, <2>4, NoOpIsNone
       DEF Local, WithEmpty, WithInode, LooksUp, WantsInode
  <2>6. OwnEmpty(t)' /\ UNCHANGED inode
    BY <1>0, <2>2, <2>3 DEF OwnEmpty
  <2>7. SlotsRight(t) /\ CountsSame
    BY <2>6, OldSlots
  <2>8. \A r \in Slot : Refs(t, r)' = Refs(t, r)
    BY <1>0, <2>2, <2>3, <2>4, NoOpIsNone
       DEF Refs, HasOpen, HasEmpty, HasInode, WithEmpty, WithInode
  <2>9. Moves(t)
    BY <1>0, <2>4, <2>5, <2>7, <2>8, SameMoves DEF Moves
  <2> QED
    BY <1>0, <1>3, <2>7, <2>9 DEF FoundInTable, Right, OtherTypes, TypeOK
<1> QED
  BY <1>1, <1>2, <1>3

\* The rest of iget.
LEMMA GetsRight ==
    ASSUME Counted, NEW t \in Task, ReadStarts(t) \/ ReadEnds(t) \/ TakeFound(t)
    PROVE  Right(t)
<1> USE DEF GoTo, GoesOn, MaySleep, In, Resumes, Unlocked
<1> DEFINE e == op[t].empty
<1>0. /\ TypeOK /\ Local(t) /\ op[t] \in Op /\ op[t] # NoOp
      /\ pc[t] \in WithEmpty /\ OwnEmpty(t) /\ WantsInode(t)
      /\ e \in Slot /\ inode[e] \in MInode /\ HasEmpty(t, e) /\ op[t].nr \in Num
  <2>1. pc[t] \in WithEmpty /\ (pc[t] = "got" => WantsInode(t))
    BY DEF ReadStarts, ReadEnds, TakeFound, WithEmpty
  <2>2. TypeOK /\ Local(t) /\ op[t] \in Op /\ op[t] # NoOp
    BY <2>1, InCall DEF Counted, WithEmpty
  <2> QED
    BY <2>1, <2>2 DEF Counted, EmptyIsEmpty, OwnEmpty, Local, WithEmpty, LooksUp, TypeOK, HasEmpty
<1>1. Refs(t, e) # 0 /\ inode[e].count # 0
  BY <1>0, HeldIsUsed
<1> HIDE DEF e
<1>2. CASE ReadStarts(t)
  <2> DEFINE i == [inode[e] EXCEPT !.num = op[t].nr, !.lock = TRUE]
  <2>1. /\ inode' = [inode EXCEPT ![e] = i] /\ pc' = [pc EXCEPT ![t] = "read"] /\ pc[t] = "got"
        /\ UNCHANGED <<op, file>>
    BY <1>0, <1>2 DEF ReadStarts, e, TypeOK
  <2>2. i \in MInode /\ i.count = inode[e].count
    BY <1>0 DEF MInode
  <2>3. OthersSame(t) /\ CallTypes' /\ pc'[t] = "read"
    BY <1>0, <2>1 DEF OthersSame, CallTypes, TypeOK, Labels, ReadLabels
  <2>4. Local(t)'
    BY <1>0, <2>1, <2>3 DEF Local, WithEmpty, WithInode, LooksUp, WantsInode
  <2> HIDE DEF i
  <2>5. SlotsRight(t) /\ CountsSame
    BY <1>0, <1>1, <2>1, <2>2, <2>3, OneSlot
  <2>6. \A r \in Slot : Refs(t, r)' = Refs(t, r)
    BY <2>1, <2>3 DEF Refs, HasOpen, HasEmpty, HasInode, WithEmpty, WithInode
  <2>7. Moves(t)
    BY <1>0, <2>3, <2>4, <2>5, <2>6, SameMoves DEF Moves
  <2> QED
    BY <1>0, <1>2, <2>5, <2>7 DEF ReadStarts, Right, OtherTypes, TypeOK
<1>3. CASE ReadEnds(t)
  <2> DEFINE i == [inode[e] EXCEPT !.nlinks = disk[op[t].nr], !.lock = FALSE]
  <2>1. /\ inode' = [inode EXCEPT ![e] = i] /\ pc' = [pc EXCEPT ![t] = "igot"] /\ pc[t] = "read"
        /\ op' = [op EXCEPT ![t].inode = e, ![t].empty = NoSlot] /\ file' = file
    BY <1>0, <1>3 DEF ReadEnds, e, TypeOK
  <2>2. i \in MInode /\ i.count = inode[e].count
    BY <1>0 DEF MInode, TypeOK
  <2> HIDE DEF i
  <2>3. /\ OthersOp(t) /\ op'[t] \in Op /\ op'[t].inode = e /\ op'[t].empty = NoSlot
        /\ op'[t].what = op[t].what /\ op'[t].name = op[t].name /\ op'[t].new = op[t].new
        /\ op'[t].nr = op[t].nr /\ op'[t].entry = op[t].entry
    BY <1>0, <2>1, SetGot
  <2>4. OthersSame(t) /\ CallTypes' /\ pc'[t] = "igot"
    BY <1>0, <2>1, <2>3, OpMoves DEF Labels
  <2>5. Local(t)'
    BY <1>0, <2>1, <2>3, <2>4, NoOpIsNone DEF Local, WithEmpty, WithInode, LooksUp, WantsInode
  <2>6. SlotsRight(t) /\ CountsSame
    BY <1>0, <1>1, <2>1, <2>2, <2>4, OneSlot
  <2>7. \A r \in Slot : Refs(t, r)' = Refs(t, r)
    BY <1>0, <2>1, <2>3, <2>4, NoOpIsNone
       DEF Refs, HasOpen, HasEmpty, HasInode, WithEmpty, WithInode, e, NoSlot, Slot
  <2>8. Moves(t)
    BY <1>0, <2>4, <2>5, <2>6, <2>7, SameMoves DEF Moves
  <2> QED
    BY <1>0, <1>3, <2>6, <2>8 DEF ReadEnds, Right, OtherTypes, TypeOK
<1>4. CASE TakeFound(t) /\ StillThatOne(t)
  <2> DEFINE s == op[t].inode
  <2>1. /\ Found(s, e) /\ SetOp(t, "empty", NoSlot) /\ pc' = [pc EXCEPT ![t] = "igot"]
        /\ pc[t] = "scan_wait" /\ file' = file /\ inode[s].num = op[t].nr
    BY <1>4 DEF TakeFound, StillThatOne, e
  <2>2. s \in Slot /\ inode[e] = Empty
    BY <1>0, <2>1 DEF Local, OwnEmpty, e
  <2>3. s # e /\ inode[s] \in MInode
    BY <1>0, <2>1, <2>2, EmptyFields DEF TypeOK
  <2>4. /\ OthersOp(t) /\ op'[t] \in Op /\ op'[t].inode = s /\ op'[t].empty = NoSlot
        /\ op'[t].what = op[t].what /\ op'[t].name = op[t].name /\ op'[t].new = op[t].new
        /\ op'[t].nr = op[t].nr /\ op'[t].entry = op[t].entry
    BY <1>0, <2>1, SetEmpty
  <2> HIDE DEF s
  <2>5. OthersSame(t) /\ CallTypes' /\ pc'[t] = "igot"
    BY <1>0, <2>1, <2>4, OpMoves DEF Labels
  <2>6. Local(t)'
    BY <1>0, <2>1, <2>2, <2>4, <2>5, NoOpIsNone DEF Local, WithEmpty, WithInode, LooksUp, WantsInode
  <2>7. /\ inode[s].count \in Nat /\ inode[s].count + 1 \in Nat
        /\ inode'[s] = [inode[s] EXCEPT !.count = inode[s].count + 1]
        /\ inode'[e] = Zeros
        /\ \A r \in Slot \ {s, e} : inode'[r] = inode[r]
    <3>1. inode[s].count \in Nat
      BY <2>3 DEF MInode
    <3>2. inode' = [inode EXCEPT ![s] = [inode[s] EXCEPT !.count = inode[s].count + 1],
                                 ![e] = [inode[e] EXCEPT !.count = inode[e].count - 1]]
      BY <1>0, <2>1, <2>2, <2>3 DEF Found, TypeOK
    <3>3. [inode[e] EXCEPT !.count = inode[e].count - 1] = Zeros
      BY <2>2, EmptyFields
    <3>4. \A r \in Slot : inode'[r] = IF r = e THEN Zeros
                                  ELSE IF r = s THEN [inode[s] EXCEPT !.count = inode[s].count + 1]
                                                ELSE inode[r]
      BY <1>0, <2>2, <2>3, <3>2, <3>3 DEF TypeOK
    <3>5. inode[s].count + 1 \in Nat
      BY <3>1
    <3> QED
      BY <1>0, <2>2, <2>3, <3>1, <3>4, <3>5
  <2>8. /\ inode'[s] \in MInode /\ inode'[s].count = inode[s].count + 1
        /\ Zeros \in MInode /\ Zeros.count = 0 /\ ~Zeros.dirt /\ ~Zeros.lock
        /\ inode[e].count = 1
    <3>1. inode'[s] \in MInode /\ inode'[s].count = inode[s].count + 1
      BY <2>3, <2>7, InodeFields
    <3> QED
      BY <2>2, <3>1, EmptyFields
  <2>9. SlotsRight(t)
    <3>1. inode' \in [Slot -> MInode]
      <4>1. inode' = [r \in Slot |-> inode'[r]]
        BY <1>0, <2>1 DEF Found, TypeOK
      <4>2. \A r \in Slot : inode'[r] \in MInode
        BY <1>0, <2>7, <2>8 DEF TypeOK
      <4> QED
        BY <4>1, <4>2
    <3>2. FreeInodesAreClean'
      <4>1. inode'[s].count # 0
        BY <2>7, <2>8
      <4> QED
        BY <2>7, <2>8, <4>1 DEF Counted, FreeInodesAreClean
    <3>3. inode[s] # Empty
      BY <1>0, <2>1, EmptyFields
    <3>4. Spare(t)
      BY <1>1, <2>7, <3>3 DEF Spare
    <3> QED
      BY <2>5, <3>1, <3>2, <3>4 DEF SlotsRight, OwnEmpty
  <2>10. ASSUME NEW r \in Slot
         PROVE  inode'[r].count = inode[r].count + Refs(t, r)' - Refs(t, r)
    <3>1. Refs(t, r)' = IF HasOpen(t, r) THEN (IF r = s THEN 2 ELSE 1) ELSE (IF r = s THEN 1 ELSE 0)
      BY <2>1, <2>4, <2>5, NoOpIsNone DEF Refs, HasOpen, HasEmpty, HasInode, WithEmpty, WithInode, s
    <3>2. Refs(t, r) = IF HasOpen(t, r) THEN (IF r = e THEN 2 ELSE 1) ELSE (IF r = e THEN 1 ELSE 0)
      BY <1>0, <2>1 DEF Refs, HasOpen, HasEmpty, HasInode, WithEmpty, WithInode, e
    <3>3. inode[r].count \in Nat
      BY <1>0, CountsAreNumbers
    <3>4. CASE r = s
      <4>1. Refs(t, r)' = (IF HasOpen(t, r) THEN 2 ELSE 1) /\ Refs(t, r) = (IF HasOpen(t, r) THEN 1 ELSE 0)
        BY <2>3, <3>1, <3>2, <3>4
      <4> QED
        BY <2>8, <3>3, <3>4, <4>1
    <3>5. CASE r = e
      <4>1. Refs(t, r)' = (IF HasOpen(t, r) THEN 1 ELSE 0) /\ Refs(t, r) = (IF HasOpen(t, r) THEN 2 ELSE 1)
        BY <2>3, <3>1, <3>2, <3>5
      <4> QED
        BY <2>7, <2>8, <3>5, <4>1
    <3>6. CASE r # s /\ r # e
      <4>1. Refs(t, r)' = Refs(t, r) /\ Refs(t, r) \in Nat
        BY <3>1, <3>2, <3>6
      <4> QED
        BY <2>7, <3>3, <3>6, <4>1
    <3> QED
      BY <3>4, <3>5, <3>6
  <2>11. Moves(t)
    BY <2>5, <2>6, <2>10 DEF Moves, CountsMove
  <2> QED
    BY <1>0, <1>4, <2>9, <2>11 DEF TakeFound, Right, OtherTypes, TypeOK
<1>5. CASE TakeFound(t) /\ ~StillThatOne(t)
  <2>1. pc' = [pc EXCEPT ![t] = "got"] /\ pc[t] = "scan_wait" /\ UNCHANGED <<inode, op, file>>
    BY <1>5 DEF TakeFound
  <2>2. OwnEmpty(t)' /\ UNCHANGED inode
    BY <1>0, <2>1 DEF OwnEmpty
  <2>3. SlotsRight(t) /\ CountsSame
    BY <2>2, OldSlots
  <2>4. Moves(t)
    BY <1>0, <2>1, <2>3, LabelMoves DEF GoesTo, Labels
  <2> QED
    BY <1>0, <1>5, <2>3, <2>4 DEF TakeFound, Right, OtherTypes, TypeOK
<1> QED
  BY <1>2, <1>3, <1>4, <1>5

\* new_inode.
LEMMA NewInodeRight ==
    ASSUME Counted, NEW t \in Task, NewInode(t)
    PROVE  Right(t)
<1> USE DEF GoTo, MaySleep, In
<1> DEFINE s == op[t].empty
<1>0. /\ TypeOK /\ Local(t) /\ op[t] \in Op /\ op[t] # NoOp
      /\ pc[t] = "got" /\ op[t].what = "creat" /\ file' = file
      /\ s \in Slot /\ inode[s] = Empty /\ HasEmpty(t, s)
  <2>1. pc[t] = "got" /\ op[t].what = "creat" /\ file' = file
    BY DEF NewInode
  <2>2. TypeOK /\ Local(t) /\ op[t] \in Op /\ op[t] # NoOp
    BY <2>1, InCall DEF Counted
  <2> QED
    BY <2>1, <2>2 DEF Counted, EmptyIsEmpty, Local, WithEmpty, HasEmpty
<1>1. Refs(t, s) # 0 /\ file[t] = NoSlot /\ s # NoSlot
  BY <1>0, HeldIsUsed DEF Local, Slot, NoSlot
<1>2. CASE imap = Num
  <2> DEFINE i == [inode[s] EXCEPT !.count = inode[s].count - 1]
  <2>1. inode' = [inode EXCEPT ![s] = i] /\ Finished(t) /\ imap' = imap
    BY <1>0, <1>2 DEF NewInode, TypeOK
  <2>2. i = Zeros
    BY <1>0, EmptyFields
  <2>3. /\ i \in MInode /\ i.count = inode[s].count + (-1) /\ ~i.dirt /\ ~i.lock /\ -1 \in {1, -1}
    BY <1>0, <2>2, EmptyFields
  <2> HIDE DEF i, s
  <2>4. /\ OthersSame(t) /\ CallTypes' /\ Local(t)' /\ pc'[t] = "user"
        /\ \A r : Refs(t, r)' = IF HasOpen(t, r) THEN 1 ELSE 0
    BY <1>0, <2>1, FinishMoves
  <2>5. OwnEmpty(t)'
    BY <2>4 DEF OwnEmpty
  <2>6. SlotsRight(t) /\ OneCounts(s, -1)
    BY <1>0, <1>1, <2>1, <2>3, <2>5, OneSlotCounts
  <2>7. \A r \in Slot : Refs(t, r)' = IF r = s THEN Refs(t, r) + (-1) ELSE Refs(t, r)
    <3>1. \A r : Refs(t, r) = (IF HasOpen(t, r) THEN 1 ELSE 0) + (IF r = s THEN 1 ELSE 0)
      BY <1>0 DEF Refs, HasEmpty, HasInode, WithEmpty, WithInode, s
    <3> QED
      BY <2>4, <3>1
  <2>8. Moves(t)
    BY <1>0, <2>3, <2>4, <2>6, <2>7, OneMoves DEF Moves
  <2> QED
    BY <1>0, <2>1, <2>6, <2>8 DEF NewInode, Finished, Right, OtherTypes, TypeOK
<1>3. CASE imap # Num
  <2> DEFINE n == Min(Num \ imap)
             i == [num |-> n, count |-> 1, lock |-> FALSE, dirt |-> TRUE, nlinks |-> 1]
  <2>1. n \in Num
    <3>1. Num \ imap \subseteq Nat /\ Num \ imap # {}
      <4>1. Num \subseteq Nat
        BY InodeAssumption DEF Num
      <4> QED
        BY <1>0, <1>3, <4>1 DEF TypeOK
    <3>2. n \in Num \ imap
      BY <3>1, LeastIn
    <3> QED
      BY <3>2
  <2>2. /\ inode' = [inode EXCEPT ![s] = i] /\ imap' = imap \cup {n}
        /\ op' = [op EXCEPT ![t].inode = s, ![t].empty = NoSlot]
        /\ pc' = [pc EXCEPT ![t] = "add"] /\ running' = NoTask
    BY <1>3 DEF NewInode
  <2>3. i \in MInode /\ i.count = 1
    BY <2>1 DEF MInode, Links
  <2> HIDE DEF i, n, s
  <2>4. /\ OthersOp(t) /\ op'[t] \in Op /\ op'[t].inode = s /\ op'[t].empty = NoSlot
        /\ op'[t].what = op[t].what /\ op'[t].name = op[t].name /\ op'[t].new = op[t].new
        /\ op'[t].nr = op[t].nr /\ op'[t].entry = op[t].entry
    BY <1>0, <2>2, SetGot
  <2>5. OthersSame(t) /\ CallTypes' /\ pc'[t] = "add"
    BY <1>0, <2>2, <2>4, OpMoves DEF Labels, ReadLabels
  <2>6. Local(t)'
    BY <1>0, <2>2, <2>4, <2>5, NoOpIsNone DEF Local, WithEmpty, WithInode, LooksUp, WantsInode
  <2>7. i.count = inode[s].count
    BY <1>0, <2>3, EmptyFields
  <2>8. SlotsRight(t) /\ CountsSame
    <3>1. s \in Slot /\ i.count # 0 /\ Refs(t, s) # 0 /\ pc'[t] \notin {"got", "scan_wait"}
      BY <1>0, <1>1, <2>3, <2>5
    <3> QED
      BY <2>2, <2>3, <2>7, <3>1, OneSlot
  <2>9. \A r \in Slot : Refs(t, r)' = Refs(t, r)
    BY <1>0, <1>1, <2>4, <2>5, NoOpIsNone
       DEF Refs, HasOpen, HasEmpty, HasInode, WithEmpty, WithInode, s, Slot, NoSlot
  <2>10. Moves(t)
    BY <1>0, <2>5, <2>6, <2>8, <2>9, SameMoves DEF Moves
  <2> QED
    BY <1>0, <2>1, <2>2, <2>8, <2>10 DEF NewInode, Right, OtherTypes, TypeOK
<1> QED
  BY <1>2, <1>3

\* iput gives the reference back, and free_inode the inode with it.
LEMMA PutsRight ==
    ASSUME Counted, NEW t \in Task, PutDown(t) \/ FreeInode(t)
    PROVE  Right(t)
<1> USE DEF GoTo, In, Resumes, Unlocked
<1> DEFINE s == op[t].inode
<1>0. /\ TypeOK /\ Local(t) /\ op[t] \in Op /\ op[t] # NoOp
      /\ pc[t] \in {"iput", "repeat", "truncate"} /\ Finished(t) /\ file' = file
      /\ s \in Slot /\ inode[s] \in MInode /\ HasInode(t, s)
  <2>1. pc[t] \in {"iput", "repeat", "truncate"} /\ Finished(t) /\ file' = file
    BY DEF PutDown, FreeInode, Puts
  <2>2. TypeOK /\ Local(t) /\ op[t] \in Op /\ op[t] # NoOp
    BY <2>1, InCall DEF Counted
  <2> QED
    BY <2>1, <2>2 DEF Local, WithInode, HasInode, TypeOK
<1>1. Refs(t, s) # 0 /\ inode[s].count \in Nat /\ inode[s].count # 0
  BY <1>0, HeldIsUsed
<1>2. /\ OthersSame(t) /\ CallTypes' /\ Local(t)' /\ pc'[t] = "user"
      /\ \A r : Refs(t, r)' = IF HasOpen(t, r) THEN 1 ELSE 0
  BY <1>0, FinishMoves
<1>3. OwnEmpty(t)'
  BY <1>2 DEF OwnEmpty
<1>4. \A r \in Slot : Refs(t, r)' = IF r = s THEN Refs(t, r) + (-1) ELSE Refs(t, r)
  <2>1. \A r : Refs(t, r) = (IF HasOpen(t, r) THEN 1 ELSE 0) + (IF r = s THEN 1 ELSE 0)
    BY <1>0 DEF Refs, HasEmpty, HasInode, WithEmpty, WithInode
  <2> QED
    BY <1>2, <2>1
<1> HIDE DEF s
<1>5. ASSUME NEW i \in MInode, inode' = [inode EXCEPT ![s] = i], i.count = inode[s].count + (-1),
             i.count # 0 \/ (~i.dirt /\ ~i.lock)
      PROVE  SlotsRight(t) /\ Moves(t)
  <2>1. -1 \in {1, -1}
    OBVIOUS
  <2>2. SlotsRight(t) /\ OneCounts(s, -1)
    BY <1>0, <1>1, <1>3, <1>5, <2>1, OneSlotCounts
  <2> QED
    BY <1>0, <1>2, <1>4, <2>1, <2>2, OneMoves DEF Moves
<1>6. CASE PutDown(t)
  <2> DEFINE i == [inode[s] EXCEPT !.count = inode[s].count - 1]
  <2>1. inode' = [inode EXCEPT ![s] = i]
    BY <1>0, <1>6 DEF PutDown, CountDown, TypeOK, s
  <2>2. inode[s].count - 1 \in Nat
    BY <1>1
  <2>3. /\ i \in MInode /\ i.count = inode[s].count - 1
        /\ i.dirt = inode[s].dirt /\ i.lock = inode[s].lock
    BY <1>0, <2>2, InodeFields
  <2>4. /\ ~inode[s].lock
        /\ inode[s].count > 1 \/ ~inode[s].dirt
    BY <1>6 DEF PutDown, Puts, Modified, s
  <2> HIDE DEF i
  <2>5. i.count = inode[s].count + (-1) /\ (i.count # 0 \/ (~i.dirt /\ ~i.lock))
    BY <1>1, <2>3, <2>4
  <2>6. SlotsRight(t) /\ Moves(t)
    BY <1>5, <2>1, <2>3, <2>5
  <2> QED
    BY <1>0, <1>6, <2>6 DEF PutDown, Finished, Right, OtherTypes, TypeOK
<1>7. CASE FreeInode(t)
  <2>1. inode' = [inode EXCEPT ![s] = Zeros] /\ inode[s].count <= 1 /\ raced' \in BOOLEAN
        /\ imap' \subseteq Num
    BY <1>0, <1>7 DEF FreeInode, TypeOK, s
  <2>2. Zeros.count = inode[s].count + (-1) /\ Zeros \in MInode /\ ~Zeros.dirt /\ ~Zeros.lock
    BY <1>1, <2>1, EmptyFields
  <2>3. SlotsRight(t) /\ Moves(t)
    BY <1>5, <2>1, <2>2
  <2> QED
    BY <1>0, <1>7, <2>1, <2>3 DEF FreeInode, Finished, Right, OtherTypes, TypeOK
<1> QED
  BY <1>6, <1>7

\* The calls begin.
LEMMA CallsRight ==
    ASSUME Counted, NEW t \in Task, Calls(t)
    PROVE  Right(t)
<1> USE DEF GoTo, GoesOn, MaySleep
<1>0. TypeOK /\ pc[t] = "user" /\ op[t] = NoOp
  BY DEF Calls, OpenCall, UnlinkCall, LinkCall, CloseCall, SyncCall, Call, MayCall, Counted,
         Locals, Local
<1>1. \A r : Refs(t, r) = IF HasOpen(t, r) THEN 1 ELSE 0
  BY <1>0 DEF Refs, HasEmpty, HasInode
<1>2. ASSUME NEW what \in {"open", "creat", "unlink", "link"}, NEW n \in Name,
             NEW m \in Name \cup {NoName}, Call(t, what, n, m), MaySleep(t, "find"),
             UNCHANGED file, what = "link" => m \in Name,
             what \in {"open", "creat"} => file[t] = NoSlot
      PROVE  Right(t)
  <2> DEFINE o == [what |-> what, name |-> n, new |-> m, nr |-> 0,
                   entry |-> NoEntry, empty |-> NoSlot, inode |-> NoSlot]
  <2>1. o \in Op /\ o.what = what /\ o.name = n /\ o.new = m /\ o.nr = 0
    BY DEF Op
  <2>2. op' = [op EXCEPT ![t] = o] /\ inode' = inode
    BY <1>2 DEF Call
  <2> HIDE DEF o
  <2>3. OthersOp(t) /\ op'[t] = o
    BY <1>0, <2>1, <2>2 DEF OthersOp, TypeOK
  <2>4. OthersSame(t) /\ CallTypes' /\ pc'[t] = "find"
    BY <1>0, <1>2, <2>3, OpMoves DEF Labels, ReadLabels
  <2>5. Local(t)'
    BY <1>2, <2>1, <2>3, <2>4, NoOpIsNone DEF Local, WithEmpty, WithInode, LooksUp, WantsInode
  <2>6. SlotsRight(t) /\ CountsSame
    BY <2>2, <2>4, OldSlots DEF OwnEmpty
  <2>7. \A r \in Slot : Refs(t, r)' = Refs(t, r)
    BY <1>1, <1>2, <2>4 DEF Refs, HasOpen, HasEmpty, HasInode, WithEmpty, WithInode
  <2>8. Moves(t)
    BY <1>0, <2>4, <2>5, <2>6, <2>7, SameMoves DEF Moves
  <2> QED
    BY <1>0, <1>2, <2>6, <2>8 DEF Call, Right, OtherTypes, TypeOK
<1>3. ASSUME NEW n \in Name, OpenCall(t, n) PROVE Right(t)
  BY <1>2, <1>3 DEF OpenCall
<1>4. ASSUME NEW n \in Name, UnlinkCall(t, n) PROVE Right(t)
  BY <1>2, <1>4 DEF UnlinkCall
<1>5. ASSUME NEW n \in Name, NEW m \in Name, LinkCall(t, n, m) PROVE Right(t)
  BY <1>2, <1>5 DEF LinkCall
<1>6. CASE CloseCall(t)
  <2> DEFINE s == file[t]
             o == [what |-> "close", name |-> NoName, new |-> NoName, nr |-> 0,
                   entry |-> NoEntry, empty |-> NoSlot, inode |-> s]
  <2>1. s \in Slot
    BY <1>0, <1>6 DEF CloseCall, TypeOK
  <2>2. /\ op' = [op EXCEPT ![t] = o] /\ inode' = inode /\ file' = [file EXCEPT ![t] = NoSlot]
        /\ pc' = [pc EXCEPT ![t] = "iput"] /\ running' = t
    BY <1>6 DEF CloseCall
  <2>3. o \in Op /\ o.what = "close" /\ o.inode = s /\ o.nr = 0 /\ o.empty = NoSlot
    BY <2>1 DEF Op
  <2> HIDE DEF o, s
  <2>4. OthersOp(t) /\ op'[t] = o
    BY <1>0, <2>2, <2>3 DEF OthersOp, TypeOK
  <2>5. OthersSame(t) /\ CallTypes' /\ pc'[t] = "iput" /\ file'[t] = NoSlot
    BY <1>0, <2>2, <2>4 DEF OthersSame, CallTypes, OthersOp, TypeOK, Labels, WaitLabels
  <2>6. Local(t)'
    BY <2>1, <2>3, <2>4, <2>5, NoOpIsNone DEF Local, WithEmpty, WithInode, LooksUp, WantsInode
  <2>7. SlotsRight(t) /\ CountsSame
    BY <2>2, <2>5, OldSlots DEF OwnEmpty
  <2>8. \A r \in Slot : Refs(t, r)' = Refs(t, r)
    BY <1>1, <2>1, <2>3, <2>4, <2>5, NoOpIsNone
       DEF Refs, HasOpen, HasEmpty, HasInode, WithEmpty, WithInode, s, Slot, NoSlot
  <2>9. Moves(t)
    BY <1>0, <2>5, <2>6, <2>7, <2>8, SameMoves DEF Moves
  <2> QED
    BY <1>0, <1>6, <2>7, <2>9 DEF CloseCall, Right, OtherTypes, TypeOK
<1>7. CASE SyncCall(t)
  <2> DEFINE o == [what |-> "sync", name |-> NoName, new |-> NoName, nr |-> 0,
                   entry |-> NoEntry, empty |-> NoSlot, inode |-> 1]
  <2>1. /\ op' = [op EXCEPT ![t] = o] /\ UNCHANGED <<inode, file>>
        /\ pc' = [pc EXCEPT ![t] = "sync"] /\ running' = t
    BY <1>7 DEF SyncCall
  <2>2. o \in Op /\ o.what = "sync" /\ o.inode \in Slot /\ o.nr = 0
    BY InodeAssumption DEF Op, Slot
  <2> HIDE DEF o
  <2>3. OthersOp(t) /\ op'[t] = o
    BY <1>0, <2>1, <2>2 DEF OthersOp, TypeOK
  <2>4. OthersSame(t) /\ CallTypes' /\ pc'[t] = "sync"
    BY <1>0, <2>1, <2>3, OpMoves DEF Labels, WaitLabels
  <2>5. Local(t)'
    BY <2>2, <2>3, <2>4, NoOpIsNone DEF Local, WithEmpty, WithInode, LooksUp, WantsInode
  <2>6. SlotsRight(t) /\ CountsSame
    BY <2>1, <2>4, OldSlots DEF OwnEmpty
  <2>7. \A r \in Slot : Refs(t, r)' = Refs(t, r)
    BY <1>1, <2>1, <2>4 DEF Refs, HasOpen, HasEmpty, HasInode, WithEmpty, WithInode
  <2>8. Moves(t)
    BY <1>0, <2>4, <2>5, <2>6, <2>7, SameMoves DEF Moves
  <2> QED
    BY <1>0, <1>7, <2>6, <2>8 DEF SyncCall, Right, OtherTypes, TypeOK
<1> QED
  BY <1>3, <1>4, <1>5, <1>6, <1>7 DEF Calls

LEMMA StepsRight ==
    ASSUME Counted, NEW t \in Task, Step(t)
    PROVE  Right(t)
BY WaitsRight, ModifiesRight, ReturnsRight, SearchesRight, GetsRight, NewInodeRight, PutsRight,
   CallsRight DEF Step, Gets, PutsInode, Names, Syncs

-----------------------------------------------------------------------------
LEMMA CountedInit == Init => Counted
<1> SUFFICES ASSUME Init PROVE Counted
  OBVIOUS
<1> USE DEF Init
<1>1. Zeros \in MInode /\ ~Zeros.dirt /\ ~Zeros.lock /\ Zeros.count = 0
  BY EmptyFields
<1>2. TypeOK
  <2>1. 1 \in Num /\ 1 \in Slot /\ 1 \in Links /\ 0 \in Links
    BY InodeAssumption DEF Num, Slot, Links
  <2>2. dir \in [Entry -> [name : Name \cup {NoName}, num : Num \cup {0}]]
    BY <2>1
  <2> QED
    BY <1>1, <2>1, <2>2 DEF TypeOK, Labels
<1>3. Locals
  BY DEF Locals, Local, WithEmpty, WithInode, LooksUp
<1>4. CountIsReferences
  <2>1. ASSUME NEW s \in Slot PROVE References(s) = 0
    <3>1. /\ {t \in Task : HasOpen(t, s)} = {} /\ {t \in Task : HasEmpty(t, s)} = {}
          /\ {t \in Task : HasInode(t, s)} = {}
      BY InodeAssumption DEF HasOpen, HasEmpty, HasInode, Slot, NoSlot
    <3> QED
      BY <3>1, ReferencesSplit, FS_EmptySet
  <2> QED
    BY <1>1, <2>1 DEF CountIsReferences
<1> QED
  BY <1>1, <1>2, <1>3, <1>4 DEF Counted, EmptyIsEmpty, FreeInodesAreClean

LEMMA CountedStep ==
    ASSUME Counted, NEW t \in Task, Right(t)
    PROVE  Counted'
<1>1. TypeOK'
  BY DEF Right, Moves, SlotsRight, CallTypes, OtherTypes, TypeOK
<1>2. Locals'
  <2>1. ASSUME NEW u \in Task \ {t} PROVE Local(u)'
    BY DEF Right, Moves, OthersSame, Counted, Locals, Local, WantsInode
  <2> QED
    BY <2>1 DEF Right, Moves, Locals
<1>3. CountIsReferences'
  BY CountsStep DEF Right, Moves, Counted
<1>4. EmptyIsEmpty'
  <2>1. ASSUME NEW u \in Task \ {t}, pc'[u] \in {"got", "scan_wait"}
        PROVE  inode'[op'[u].empty] = Empty
    <3> DEFINE s == op[u].empty
    <3>1. pc[u] \in {"got", "scan_wait"} /\ op'[u] = op[u]
      BY <2>1 DEF Right, Moves, OthersSame
    <3>2. s \in Slot /\ inode[s] = Empty /\ op[u] # NoOp
      BY <3>1 DEF Counted, EmptyIsEmpty, Locals, Local, WithEmpty
    <3>3. Refs(u, s) \in Nat /\ Refs(u, s) # 0
      BY <3>1, <3>2 DEF Refs, HasEmpty, WithEmpty
    <3>4. Refs(t, s) \in Nat /\ 1 >= Refs(t, s) + Refs(u, s)
      BY <3>2, Referred, EmptyFields DEF Counted
    <3>5. Refs(t, s) = 0
      BY <3>3, <3>4
    <3> QED
      BY <3>1, <3>2, <3>5 DEF Right, SlotsRight, Spare
  <2> QED
    BY <2>1 DEF EmptyIsEmpty, Right, SlotsRight, OwnEmpty
<1> QED
  BY <1>1, <1>2, <1>3, <1>4 DEF Counted, Right, SlotsRight

LEMMA CountedNext == Counted /\ [Next]_vars => Counted'
<1> SUFFICES ASSUME Counted, [Next]_vars PROVE Counted'
  OBVIOUS
<1>1. CASE UNCHANGED vars
  <2>1. TypeOK' /\ Locals'
    BY <1>1 DEF vars, Counted, TypeOK, Locals, Local, WantsInode
  <2>2. CountIsReferences'
    BY <1>1 DEF vars, Counted, CountIsReferences, References
  <2>3. EmptyIsEmpty' /\ FreeInodesAreClean'
    BY <1>1 DEF vars, Counted, EmptyIsEmpty, FreeInodesAreClean
  <2> QED
    BY <2>1, <2>2, <2>3 DEF Counted
<1> QED
  BY <1>1, StepsRight, CountedStep DEF Next

LEMMA SpecCounted == Spec => []Counted
BY CountedInit, CountedNext, PTL DEF Spec

\* The variables keep their types: a task between two sleeps is at a label of the
\* function it runs, the slots, blocks and numbers it holds exist.
THEOREM TypeCorrect == Spec => []TypeOK
<1>1. Counted => TypeOK
  BY DEF Counted
<1> QED
  BY <1>1, SpecCounted, PTL

\* i_count is the number of references to an inode, from open files and from calls
\* that sleep in iget, iput and the calls between them.
THEOREM CountsAreReferences == Spec => []CountIsReferences
<1>1. Counted => CountIsReferences
  BY DEF Counted
<1> QED
  BY <1>1, SpecCounted, PTL

\* A free slot is clean and unlocked, so that get_empty_inode loses no change
\* to an inode and need not wait.
THEOREM FreeSlotsAreClean == Spec => []FreeInodesAreClean
<1>1. Counted => FreeInodesAreClean
  BY DEF Counted
<1> QED
  BY <1>1, SpecCounted, PTL

-----------------------------------------------------------------------------
(***************************************************************************)
(* What holds until a race the code does not exclude has happened.          *)
(***************************************************************************)
LockedBy(t) == IF pc[t] = "read" THEN op[t].empty
               ELSE IF pc[t] \in {"i_write", "s_write"} THEN op[t].inode ELSE NoSlot

\* An inode new_inode has made, until its name is in the directory: nobody else
\* can know of it.
Fresh(t) ==
    LET s == op[t].inode
    IN  /\ inode[s].count = 1 /\ inode[s].nlinks = 1
        /\ \A e \in Entry : dir[e].num # inode[s].num
        /\ \A u \in Task : pc[u] \in LooksUp => op[u].nr # inode[s].num

CallRight(t) ==
    /\ pc[t] \in LooksUp /\ WantsInode(t) => op[t].nr \in imap
    /\ pc[t] \in WithInode => inode[op[t].inode].num # 0
    /\ pc[t] = "igot" => inode[op[t].inode].num = op[t].nr
    /\ file[t] # NoSlot => inode[file[t]].num # 0
    /\ pc[t] = "read" => LET i == inode[op[t].empty]
                         IN  i.lock /\ ~i.dirt /\ i.count = 1 /\ i.num = op[t].nr
    /\ pc[t] \in {"i_write", "s_write"} => inode[op[t].inode].lock /\ inode[op[t].inode].num # 0
    /\ pc[t] = "truncate" => LET i == inode[op[t].inode]
                             IN  i.count = 1 /\ i.nlinks = 0 /\ ~i.lock
    /\ pc[t] = "add" /\ op[t].what = "creat" => Fresh(t)

CallsAreRight == \A t \in Task : CallRight(t)

LocksApart == \A t, u \in Task : LockedBy(t) = LockedBy(u) /\ LockedBy(t) # NoSlot => t = u

Unique == \A s, r \in Slot : inode[s].num = inode[r].num /\ inode[s].num # 0 => s = r

\* An inode in the table is allocated; its links are those on the disk, unless
\* it is dirty, or has none and goes away; with none it does not stay.
SlotRight(s) ==
    IF inode[s].num = 0 THEN ~inode[s].dirt /\ ~inode[s].lock
    ELSE /\ inode[s].num \in imap
         /\ ~BeingRead(s) /\ ~inode[s].dirt /\ inode[s].nlinks # 0
               => disk[inode[s].num] = inode[s].nlinks
         /\ inode[s].count = 0 => inode[s].nlinks # 0

SlotsAreRight == \A s \in Slot : SlotRight(s)

EntriesOf(n) == {e \in Entry : dir[e].num = n}

Balanced(n) ==
    IF n \in imap
    THEN LinksOf(n) + Cardinality(Early(n)) = Cardinality(EntriesOf(n)) + Cardinality(Pending(n))
    ELSE Cardinality(EntriesOf(n)) = 0

LinksBalance == \A n \in Num : Balanced(n)

Peaceful == CallsAreRight /\ LocksApart /\ Unique /\ SlotsAreRight /\ LinksBalance
            /\ panicked \in {"no", "No free inodes in mem"}

-----------------------------------------------------------------------------
(***************************************************************************)
(* What a step of a task may do to a slot.                                  *)
(***************************************************************************)
Taken(t, s) == pc[t] = "empty" /\ inode[s].count = 0 /\ inode'[s] = Empty

ReadIn(t, s) ==
    /\ pc[t] = "got" /\ s = op[t].empty /\ WantsInode(t) /\ InTable(op[t].nr) = {}
    /\ pc'[t] = "read" /\ op'[t] = op[t]
    /\ inode'[s].num = op[t].nr /\ inode'[s].count = 1 /\ inode'[s].lock /\ ~inode'[s].dirt

Made(t, s) ==
    /\ pc[t] = "got" /\ s = op[t].empty
    /\ inode'[s].num \in Num \ imap /\ imap' = imap \cup {inode'[s].num}
    /\ inode'[s].count = 1 /\ ~inode'[s].lock /\ inode'[s].dirt /\ inode'[s].nlinks = 1

WasRead(t, s) ==
    /\ pc[t] = "read" /\ s = op[t].empty /\ pc'[t] = "igot"
    /\ inode'[s].nlinks = disk[op[t].nr] /\ ~inode'[s].lock
    /\ inode'[s].num = inode[s].num /\ inode'[s].count = inode[s].count
    /\ inode'[s].dirt = inode[s].dirt

Gotten(t, s) ==
    /\ pc[t] = "scan_wait" /\ s = op[t].inode /\ ~inode[s].lock /\ inode[s].num = op[t].nr
    /\ inode'[s] = [inode[s] EXCEPT !.count = inode[s].count + 1]
    /\ BeingFreed(s) => raced'

GivenBack(t, s) == pc[t] \in {"got", "scan_wait"} /\ s = op[t].empty /\ inode'[s] = Zeros

PutBack(t, s) ==
    /\ pc[t] \in {"iput", "repeat"} /\ s = op[t].inode /\ ~inode[s].lock
    /\ inode[s].count > 1 \/ (inode[s].nlinks # 0 /\ ~inode[s].dirt)
    /\ inode'[s] = [inode[s] EXCEPT !.count = inode[s].count - 1]

LocksIt(t, s) ==
    /\ pc[t] \in {"iput", "repeat", "sync"} /\ s = op[t].inode /\ ~inode[s].lock /\ inode[s].dirt
    /\ pc'[t] \in {"i_write", "s_write"} /\ op'[t] = op[t]
    /\ inode'[s] = [inode[s] EXCEPT !.lock = TRUE]
    /\ BeingFreed(s) => raced' \/ pc[t] # "sync"

WritesIt(t, s) ==
    /\ pc[t] \in {"i_write", "s_write"} /\ s = op[t].inode
    /\ disk' = [disk EXCEPT ![inode[s].num] = inode[s].nlinks]
    /\ inode'[s] = [inode[s] EXCEPT !.dirt = FALSE, !.lock = FALSE]

FreesIt(t, s) ==
    /\ pc[t] = "truncate" /\ s = op[t].inode /\ inode'[s] = Zeros /\ pc'[t] = "user"
    /\ imap' = imap \ {inode[s].num}
    /\ LookedUp(inode[s].num, t) => raced'

Modifies(t, s) ==
    /\ pc[t] \in {"igot", "add", "linked"} /\ s = op[t].inode
    /\ inode'[s].num = inode[s].num /\ inode'[s].count = inode[s].count
    /\ inode'[s].lock = inode[s].lock
    /\ inode'[s].dirt \/ inode'[s].nlinks = 0

Kind(t, s) ==
    \/ inode'[s] = inode[s]
    \/ Taken(t, s) \/ ReadIn(t, s) \/ Made(t, s) \/ WasRead(t, s)
    \/ Gotten(t, s) \/ GivenBack(t, s) \/ PutBack(t, s)
    \/ LocksIt(t, s) \/ WritesIt(t, s) \/ FreesIt(t, s) \/ Modifies(t, s)

\* What it may do to the disk, to the bitmap and to the search for an inode.
DiskStep(t) == disk' = disk \/ WritesIt(t, op[t].inode)

ImapStep(t) == imap' = imap \/ Made(t, op[t].empty) \/ FreesIt(t, op[t].inode)

ReadStep(t) ==
    \/ pc'[t] = "read" /\ pc[t] = "read" /\ op'[t] = op[t]
    \/ pc'[t] # "read" /\ pc[t] # "read"
    \/ ReadIn(t, op[t].empty)
    \/ WasRead(t, op[t].empty)

LookStep(t) ==
    pc'[t] \in LooksUp =>
        \/ pc[t] \in LooksUp /\ op'[t].nr = op[t].nr
        \/ op'[t].nr = 0
        \/ \E e \in Entry : op'[t].nr = dir[e].num

Kinds(t) == (\A s \in Slot : Kind(t, s)) /\ DiskStep(t) /\ ImapStep(t) /\ ReadStep(t) /\ LookStep(t)

-----------------------------------------------------------------------------
LEMMA OldKinds ==
    ASSUME UNCHANGED <<inode, disk, imap>>, NEW t, pc[t] # "read", pc'[t] # "read", LookStep(t)
    PROVE  Kinds(t)
BY DEF Kinds, Kind, DiskStep, ImapStep, ReadStep

\* Steps that leave the table alone.
LEMMA WaitKinds ==
    ASSUME Counted, NEW t \in Task,
           \/ SleepOnInode(t) \/ NoneEmpty(t) \/ PutPanics(t) \/ PutTruncates(t)
           \/ LinkFinds(t) \/ LinkAdds(t) \/ FindEntry(t) \/ FoundInTable(t)
           \/ NoEntryFound(t) \/ AddEntry(t) \/ OpenDone(t) \/ SyncSkips(t) \/ Calls(t)
    PROVE  Kinds(t)
<1> USE DEF GoTo, GoesOn, MaySleep, In, Resumes, Unlocked, Finished
<1>0. TypeOK /\ Local(t)
  BY DEF Counted, Locals
<1>1. CASE SleepOnInode(t)
  BY <1>0, <1>1, OldKinds DEF SleepOnInode, WaitLabels, LookStep
<1>2. CASE NoneEmpty(t)
  BY <1>0, <1>2, OldKinds DEF NoneEmpty, Panic, LookStep
<1>3. CASE PutPanics(t)
  <2>1. pc[t] \in {"iput", "truncate"}
    BY <1>3 DEF PutPanics, Wrong
  <2> QED
    BY <1>0, <1>3, <2>1, OldKinds DEF PutPanics, Panic, LookStep
<1>4. CASE PutTruncates(t)
  <2>1. pc[t] \in {"iput", "repeat"} /\ pc'[t] = "truncate" /\ UNCHANGED <<inode, disk, imap>>
    BY <1>0, <1>4 DEF PutTruncates, Puts, TypeOK
  <2> QED
    BY <2>1, OldKinds DEF LookStep, LooksUp
<1>5. CASE LinkFinds(t) \/ LinkAdds(t) \/ OpenDone(t) \/ AddEntry(t)
  <2>1. pc[t] \in {"igot", "find_new", "add"} /\ UNCHANGED <<inode, disk, imap>>
        /\ pc'[t] \in {"find_new", "add", "iput", "user", "linked"}
    BY <1>0, <1>5 DEF LinkFinds, LinkAdds, OpenDone, AddEntry, TypeOK
  <2> QED
    BY <2>1, OldKinds DEF LookStep, LooksUp
<1>6. CASE FindEntry(t)
  <2> DEFINE e == Min(Named(op[t].name))
  <2>1. e \in Entry /\ dir[e].num # 0
    <3>1. Named(op[t].name) \subseteq Nat /\ Named(op[t].name) # {}
      <4>1. Entry \subseteq Nat
        BY InodeAssumption DEF Entry
      <4> QED
        BY <1>6, <4>1 DEF FindEntry, Named
    <3>2. e \in Named(op[t].name)
      BY <3>1, LeastIn
    <3> QED
      BY <3>2 DEF Named
  <2>2. /\ op' = [op EXCEPT ![t].nr = dir[e].num, ![t].entry = e,
                            ![t].what = IF @ = "creat" THEN "open" ELSE @]
        /\ pc' = [pc EXCEPT ![t] = "empty"] /\ UNCHANGED <<inode, disk, imap>> /\ pc[t] = "find"
    BY <1>6 DEF FindEntry
  <2>3. op[t] \in Op
    BY <2>2, InCall
  <2> HIDE DEF e
  <2>4. op'[t].nr = dir[e].num
    BY <1>0, <2>1, <2>2, <2>3, SetFound
  <2>5. pc'[t] = "empty"
    BY <1>0, <2>2 DEF TypeOK
  <2> QED
    BY <2>1, <2>2, <2>4, <2>5, OldKinds DEF LookStep
<1>7. CASE FoundInTable(t)
  <2> DEFINE s == Min(InTable(op[t].nr))
  <2>1. s \in Slot
    <3>1. InTable(op[t].nr) \subseteq Nat /\ InTable(op[t].nr) # {}
      BY <1>7 DEF FoundInTable, InTable, Slot
    <3>2. s \in InTable(op[t].nr)
      BY <3>1, LeastIn
    <3> QED
      BY <3>2 DEF InTable
  <2>2. /\ SetOp(t, "inode", s) /\ pc' = [pc EXCEPT ![t] = "scan_wait"] /\ pc[t] = "got"
        /\ UNCHANGED <<inode, disk, imap>>
    BY <1>7 DEF FoundInTable
  <2> HIDE DEF s
  <2>3. op[t] \in Op
    BY <2>2, InCall
  <2>4. op'[t].nr = op[t].nr
    BY <1>0, <2>1, <2>2, <2>3, SetInode
  <2>5. pc'[t] = "scan_wait"
    BY <1>0, <2>2 DEF TypeOK
  <2> QED
    BY <2>2, <2>4, <2>5, OldKinds DEF LookStep, LooksUp
<1>8. CASE NoEntryFound(t)
  <2>1. /\ pc[t] = "find" /\ UNCHANGED <<inode, disk, imap>>
        /\ pc'[t] = "user" \/ (pc'[t] = "empty" /\ op'[t] = op[t])
    BY <1>0, <1>8 DEF NoEntryFound, TypeOK
  <2>2. op[t].nr = 0
    BY <1>0, <2>1 DEF Local
  <2>3. LookStep(t)
    BY <2>1, <2>2 DEF LookStep, LooksUp
  <2> QED
    BY <2>1, <2>3, OldKinds
<1>9. CASE SyncSkips(t)
  <2>1. pc[t] = "sync" /\ UNCHANGED <<inode, disk, imap>> /\ pc'[t] \in {"sync", "user"}
    BY <1>0, <1>9 DEF SyncSkips, SyncGoesOn, TypeOK
  <2> QED
    BY <2>1, OldKinds DEF LookStep, LooksUp
<1>10. CASE Calls(t)
  <2>1. pc[t] = "user" /\ UNCHANGED <<inode, disk, imap>> /\ pc'[t] \in {"find", "iput", "sync"}
    BY <1>0, <1>10
       DEF Calls, OpenCall, UnlinkCall, LinkCall, CloseCall, SyncCall, Call, MayCall, TypeOK
  <2> QED
    BY <2>1, OldKinds DEF LookStep, LooksUp
<1> QED
  BY <1>1, <1>2, <1>3, <1>4, <1>5, <1>6, <1>7, <1>8, <1>9, <1>10

\* Steps that change one slot.
LEMMA OneKind ==
    ASSUME TypeOK, NEW t, NEW s \in Slot, NEW i, inode' = [inode EXCEPT ![s] = i], Kind(t, s),
           DiskStep(t), ImapStep(t), ReadStep(t), LookStep(t)
    PROVE  Kinds(t)
<1>1. \A r \in Slot \ {s} : inode'[r] = inode[r]
  BY DEF TypeOK
<1> QED
  BY <1>1 DEF Kinds, Kind

LEMMA WriteKinds ==
    ASSUME Counted, NEW t \in Task, CallRight(t),
           PutWrites(t) \/ SyncWrites(t) \/ PutWritten(t) \/ SyncWritten(t)
    PROVE  Kinds(t)
<1> USE DEF GoTo, GoesOn, MaySleep, In, Resumes, Unlocked, Finished
<1> DEFINE s == op[t].inode
<1>0. /\ TypeOK /\ s \in Slot /\ imap' = imap
      /\ pc[t] \in {"iput", "repeat", "sync", "i_write", "s_write"}
  <2>1. pc[t] \in {"iput", "repeat", "sync", "i_write", "s_write"} /\ imap' = imap
    BY DEF PutWrites, SyncWrites, PutWritten, SyncWritten, Puts
  <2> QED
    BY <2>1 DEF Counted, Locals, Local, WithInode
<1> HIDE DEF s
<1>1. CASE PutWrites(t) \/ SyncWrites(t)
  <2>1. /\ pc[t] \in {"iput", "repeat", "sync"} /\ ~inode[s].lock /\ inode[s].dirt
        /\ pc'[t] \in {"i_write", "s_write"} /\ op'[t] = op[t] /\ disk' = disk
        /\ inode' = [inode EXCEPT ![s] = [inode[s] EXCEPT !.lock = TRUE]]
        /\ BeingFreed(s) => raced' \/ pc[t] # "sync"
    BY <1>0, <1>1 DEF PutWrites, SyncWrites, Puts, Modified, Locked, s, TypeOK
  <2>2. Kind(t, s)
    BY <1>0, <2>1 DEF Kind, LocksIt, s, TypeOK
  <2> QED
    BY <1>0, <2>1, <2>2, OneKind DEF DiskStep, ImapStep, ReadStep, LookStep, LooksUp
<1>2. CASE PutWritten(t) \/ SyncWritten(t)
  <2>1. /\ pc[t] \in {"i_write", "s_write"} /\ Written(s)
        /\ pc'[t] \in {"repeat", "sync", "user"}
    BY <1>0, <1>2 DEF PutWritten, SyncWritten, SyncGoesOn, s, TypeOK
  <2>2. Place(s) = inode[s].num
    BY <2>1 DEF CallRight, Place, s
  <2>3. /\ disk' = [disk EXCEPT ![inode[s].num] = inode[s].nlinks]
        /\ inode' = [inode EXCEPT ![s] = [inode[s] EXCEPT !.dirt = FALSE, !.lock = FALSE]]
    BY <1>0, <2>1, <2>2 DEF Written, TypeOK
  <2>4. WritesIt(t, s)
    BY <1>0, <2>1, <2>3 DEF WritesIt, s, TypeOK
  <2> QED
    BY <1>0, <2>1, <2>3, <2>4, OneKind DEF Kind, DiskStep, ImapStep, ReadStep, LookStep, LooksUp, s
<1> QED
  BY <1>1, <1>2

LEMMA ModifyKinds ==
    ASSUME Counted, NEW t \in Task, CallRight(t), LinkCounts(t) \/ DirectoryFull(t) \/ Unlink(t)
    PROVE  Kinds(t)
<1> USE DEF GoTo, GoesOn, In, Resumes
<1> DEFINE s == op[t].inode
<1>0. /\ TypeOK /\ Local(t) /\ s \in Slot /\ imap' = imap /\ disk' = disk
      /\ pc[t] \in {"linked", "add", "igot"} /\ pc'[t] = "iput"
  <2>1. pc[t] \in {"linked", "add", "igot"} /\ imap' = imap /\ disk' = disk
    BY DEF LinkCounts, DirectoryFull, Unlink
  <2>2. TypeOK /\ Local(t) /\ pc'[t] = "iput"
    BY DEF Counted, Locals, LinkCounts, DirectoryFull, Unlink, TypeOK
  <2> QED
    BY <2>1, <2>2 DEF Local, WithInode
<1>1. inode[s] \in MInode
  BY <1>0 DEF TypeOK
<1> HIDE DEF s
<1>2. DiskStep(t) /\ ImapStep(t) /\ ReadStep(t) /\ LookStep(t)
  BY <1>0 DEF DiskStep, ImapStep, ReadStep, LookStep, LooksUp
<1>3. ASSUME NEW n \in Links, NEW d \in BOOLEAN, d \/ n = 0,
             inode' = [inode EXCEPT ![s] = [inode[s] EXCEPT !.nlinks = n, !.dirt = d]]
      PROVE  Kinds(t)
  <2> DEFINE j == [inode[s] EXCEPT !.nlinks = n]
             i == [j EXCEPT !.dirt = d]
  <2>1. /\ j \in MInode /\ j.num = inode[s].num /\ j.count = inode[s].count /\ j.lock = inode[s].lock
        /\ j.nlinks = n
    BY <1>1, InodeFields
  <2>2. /\ i.num = inode[s].num /\ i.count = inode[s].count /\ i.lock = inode[s].lock
        /\ i.dirt = d /\ i.nlinks = n
    <3> HIDE DEF j
    <3> QED
      BY <2>1, InodeFields
  <2>3. inode' = [inode EXCEPT ![s] = i]
    BY <1>3
  <2> HIDE DEF i
  <2>4. inode'[s] = i
    BY <1>0, <2>3 DEF TypeOK
  <2>5. Modifies(t, s)
    BY <1>0, <1>3, <2>2, <2>4 DEF Modifies, s
  <2> QED
    BY <1>0, <1>2, <2>3, <2>5, OneKind DEF Kind
<1>4. CASE LinkCounts(t)
  <2>1. OneMore(inode[s].nlinks) \in Links
    BY <1>1 DEF OneMore, Links, MInode
  <2>2. inode' = [inode EXCEPT ![s] = [inode[s] EXCEPT !.nlinks = OneMore(inode[s].nlinks), !.dirt = TRUE]]
    BY <1>0, <1>4 DEF LinkCounts, TypeOK, s
  <2> QED
    BY <1>3, <2>1, <2>2
<1>5. CASE DirectoryFull(t) /\ op[t].what = "creat"
  <2>1. inode[s].nlinks = 1
    BY <1>5 DEF DirectoryFull, CallRight, Fresh, s
  <2>2. OneLess(inode[s].nlinks) = 0 /\ inode[s].dirt \in BOOLEAN /\ 0 \in Links
    BY <1>1, <2>1 DEF OneLess, Links, MInode
  <2>3. [inode[s] EXCEPT !.nlinks = 0] = [inode[s] EXCEPT !.nlinks = 0, !.dirt = inode[s].dirt]
    BY <1>1 DEF MInode
  <2>4. inode' = [inode EXCEPT ![s] = [inode[s] EXCEPT !.nlinks = 0]]
    BY <1>0, <1>5, <2>2 DEF DirectoryFull, TypeOK, s
  <2> QED
    BY <1>3, <2>2, <2>3, <2>4
<1>6. CASE DirectoryFull(t) /\ op[t].what # "creat"
  BY <1>0, <1>6, OldKinds DEF DirectoryFull, LookStep, LooksUp
<1>7. CASE Unlink(t)
  <2> DEFINE n == (IF inode[s].nlinks = 0 THEN 1 ELSE inode[s].nlinks) - 1
  <2>1. n \in Links
    BY <1>1 DEF Links, MInode
  <2>2. inode' = [inode EXCEPT ![s] = [inode[s] EXCEPT !.nlinks = n, !.dirt = TRUE]]
    BY <1>0, <1>7 DEF Unlink, TypeOK, s
  <2> HIDE DEF n
  <2> QED
    BY <1>3, <2>1, <2>2
<1> QED
  BY <1>4, <1>5, <1>6, <1>7

LEMMA EmptyKinds ==
    ASSUME Counted, NEW t \in Task, TakeEmpty(t) \/ NewInode(t)
    PROVE  Kinds(t)
<1> USE DEF GoTo, GoesOn, MaySleep, In, Finished
<1>0. TypeOK /\ Local(t) /\ op[t] \in Op /\ pc[t] \in {"empty", "got"}
  <2>1. pc[t] \in {"empty", "got"}
    BY DEF TakeEmpty, NewInode
  <2> QED
    BY <2>1, InCall DEF Counted
<1>1. CASE TakeEmpty(t)
  <2> DEFINE s == Nearest(Free)
  <2>1. s \in Slot /\ inode[s].count = 0
    BY <1>0, <1>1, NearestIsFree DEF TakeEmpty
  <2>2. /\ inode' = [inode EXCEPT ![s] = Empty] /\ SetOp(t, "empty", s)
        /\ pc' = [pc EXCEPT ![t] = "got"] /\ pc[t] = "empty" /\ disk' = disk /\ imap' = imap
    BY <1>1 DEF TakeEmpty, Empty
  <2> HIDE DEF s
  <2>3. op'[t].nr = op[t].nr /\ pc'[t] = "got"
    BY <1>0, <2>1, <2>2, SetEmpty DEF TypeOK
  <2>4. Taken(t, s)
    BY <1>0, <2>1, <2>2 DEF Taken, TypeOK
  <2> QED
    BY <1>0, <2>1, <2>2, <2>3, <2>4, OneKind DEF Kind, DiskStep, ImapStep, ReadStep, LookStep, LooksUp
<1>2. CASE NewInode(t)
  <2> DEFINE s == op[t].empty
  <2>1. /\ s \in Slot /\ inode[s] = Empty /\ pc[t] = "got" /\ disk' = disk
        /\ pc'[t] \in {"user", "add"}
    BY <1>0, <1>2 DEF NewInode, Local, WithEmpty, Counted, EmptyIsEmpty, TypeOK
  <2>2. DiskStep(t) /\ ReadStep(t) /\ LookStep(t)
    BY <2>1 DEF DiskStep, ReadStep, LookStep, LooksUp
  <2>3. CASE imap = Num
    <3>1. inode' = [inode EXCEPT ![s] = Zeros] /\ imap' = imap
      <4>1. inode' = [inode EXCEPT ![s] = [Empty EXCEPT !.count = Empty.count - 1]]
        BY <1>0, <1>2, <2>1, <2>3 DEF NewInode, TypeOK
      <4>2. [Empty EXCEPT !.count = Empty.count - 1] = Zeros
        BY EmptyFields
      <4> QED
        BY <1>2, <2>3, <4>1, <4>2 DEF NewInode
    <3>2. GivenBack(t, s)
      BY <1>0, <2>1, <3>1 DEF GivenBack, TypeOK
    <3> HIDE DEF s
    <3> QED
      BY <1>0, <2>1, <2>2, <3>1, <3>2, OneKind DEF Kind, ImapStep
  <2>4. CASE imap # Num
    <3> DEFINE n == Min(Num \ imap)
               i == [num |-> n, count |-> 1, lock |-> FALSE, dirt |-> TRUE, nlinks |-> 1]
    <3>1. n \in Num \ imap
      <4>1. Num \ imap \subseteq Nat /\ Num \ imap # {}
        <5>1. Num \subseteq Nat
          BY InodeAssumption DEF Num
        <5> QED
          BY <1>0, <2>4, <5>1 DEF TypeOK
      <4> QED
        BY <4>1, LeastIn
    <3>2. inode' = [inode EXCEPT ![s] = i] /\ imap' = imap \cup {n}
      BY <1>2, <2>4 DEF NewInode
    <3> HIDE DEF n
    <3>3. i.num = n /\ i.count = 1 /\ ~i.lock /\ i.dirt /\ i.nlinks = 1
      OBVIOUS
    <3> HIDE DEF i
    <3>4. Made(t, s)
      BY <1>0, <2>1, <3>1, <3>2, <3>3 DEF Made, TypeOK
    <3>5. ImapStep(t)
      BY <3>4 DEF ImapStep
    <3> HIDE DEF s
    <3> QED
      BY <1>0, <2>1, <2>2, <3>2, <3>4, <3>5, OneKind DEF Kind
  <2> QED
    BY <2>3, <2>4
<1> QED
  BY <1>1, <1>2

LEMMA GetKinds ==
    ASSUME Counted, NEW t \in Task, ReadStarts(t) \/ ReadEnds(t) \/ TakeFound(t)
    PROVE  Kinds(t)
<1> USE DEF GoTo, GoesOn, MaySleep, In, Resumes, Unlocked
<1> DEFINE e == op[t].empty
<1>0. /\ TypeOK /\ Local(t) /\ op[t] \in Op /\ pc[t] \in WithEmpty /\ WantsInode(t)
      /\ OwnEmpty(t) /\ e \in Slot /\ inode[e] \in MInode /\ op[t].nr \in Num /\ imap' = imap
      /\ disk' = disk
  <2>1. pc[t] \in WithEmpty /\ (pc[t] = "got" => WantsInode(t)) /\ imap' = imap /\ disk' = disk
    BY DEF ReadStarts, ReadEnds, TakeFound, WithEmpty
  <2>2. TypeOK /\ Local(t) /\ op[t] \in Op /\ op[t] # NoOp
    BY <2>1, InCall DEF Counted, WithEmpty
  <2> QED
    BY <2>1, <2>2 DEF Counted, EmptyIsEmpty, OwnEmpty, Local, WithEmpty, LooksUp, TypeOK
<1>1. DiskStep(t) /\ ImapStep(t)
  BY <1>0 DEF DiskStep, ImapStep
<1>2. CASE ReadStarts(t)
  <2> DEFINE i == [inode[e] EXCEPT !.num = op[t].nr, !.lock = TRUE]
  <2>1. /\ inode' = [inode EXCEPT ![e] = i] /\ pc'[t] = "read" /\ pc[t] = "got"
        /\ op'[t] = op[t] /\ InTable(op[t].nr) = {} /\ inode[e] = Empty
    BY <1>0, <1>2 DEF ReadStarts, TypeOK, OwnEmpty
  <2>2. i.num = op[t].nr /\ i.count = inode[e].count /\ i.lock /\ i.dirt = inode[e].dirt
    BY <1>0 DEF MInode
  <2>3. ReadIn(t, e)
    <3>1. inode'[e] = i
      BY <1>0, <2>1 DEF TypeOK
    <3> HIDE DEF i
    <3> QED
      BY <1>0, <2>1, <2>2, <3>1, EmptyFields DEF ReadIn
  <2>4. ReadStep(t) /\ LookStep(t)
    BY <2>1, <2>3 DEF ReadStep, LookStep, LooksUp
  <2> HIDE DEF i, e
  <2> QED
    BY <1>0, <1>1, <2>1, <2>3, <2>4, OneKind DEF Kind
<1>3. CASE ReadEnds(t)
  <2> DEFINE i == [inode[e] EXCEPT !.nlinks = disk[op[t].nr], !.lock = FALSE]
  <2>1. inode' = [inode EXCEPT ![e] = i] /\ pc'[t] = "igot" /\ pc[t] = "read"
    BY <1>0, <1>3 DEF ReadEnds, TypeOK
  <2>2. /\ i.num = inode[e].num /\ i.count = inode[e].count /\ ~i.lock /\ i.dirt = inode[e].dirt
        /\ i.nlinks = disk[op[t].nr]
    BY <1>0 DEF MInode
  <2>3. WasRead(t, e)
    <3>1. inode'[e] = i
      BY <1>0, <2>1 DEF TypeOK
    <3> HIDE DEF i
    <3> QED
      BY <1>0, <2>1, <2>2, <3>1 DEF WasRead
  <2>4. ReadStep(t) /\ LookStep(t)
    BY <2>1, <2>3 DEF ReadStep, LookStep, LooksUp
  <2> HIDE DEF i, e
  <2> QED
    BY <1>0, <1>1, <2>1, <2>3, <2>4, OneKind DEF Kind
<1>4. CASE TakeFound(t) /\ StillThatOne(t)
  <2> DEFINE s == op[t].inode
  <2>1. /\ Found(s, e) /\ pc'[t] = "igot" /\ pc[t] = "scan_wait" /\ ~inode[s].lock
        /\ inode[s].num = op[t].nr /\ raced' = (raced \/ BeingFreed(s))
    BY <1>0, <1>4 DEF TakeFound, StillThatOne, TypeOK
  <2>2. s \in Slot /\ inode[e] = Empty
    BY <1>0, <2>1 DEF Local, OwnEmpty
  <2>3. s # e
    BY <1>0, <2>1, <2>2, EmptyFields
  <2> HIDE DEF s, e
  <2>4. \A r \in Slot : inode'[r] = IF r = e THEN Zeros
                                  ELSE IF r = s THEN [inode[s] EXCEPT !.count = inode[s].count + 1]
                                                ELSE inode[r]
    <3>1. inode' = [inode EXCEPT ![s] = [inode[s] EXCEPT !.count = inode[s].count + 1],
                                 ![e] = [Empty EXCEPT !.count = Empty.count - 1]]
      BY <1>0, <2>1, <2>2, <2>3 DEF Found, TypeOK
    <3>2. [Empty EXCEPT !.count = Empty.count - 1] = Zeros
      BY EmptyFields
    <3> QED
      BY <1>0, <2>2, <2>3, <3>1, <3>2 DEF TypeOK
  <2>5. Gotten(t, s) /\ GivenBack(t, e)
    BY <1>0, <2>1, <2>2, <2>3, <2>4 DEF Gotten, GivenBack, s, e
  <2>6. \A r \in Slot : Kind(t, r)
    BY <2>4, <2>5 DEF Kind
  <2> QED
    BY <1>1, <2>1, <2>6 DEF Kinds, ReadStep, LookStep, LooksUp
<1>5. CASE TakeFound(t) /\ ~StillThatOne(t)
  <2>1. pc'[t] = "got" /\ pc[t] = "scan_wait" /\ UNCHANGED <<inode, op>>
    BY <1>0, <1>5 DEF TakeFound, TypeOK
  <2> QED
    BY <1>0, <2>1, OldKinds DEF LookStep, LooksUp
<1> QED
  BY <1>2, <1>3, <1>4, <1>5

LEMMA PutKinds ==
    ASSUME Counted, NEW t \in Task, PutDown(t) \/ FreeInode(t)
    PROVE  Kinds(t)
<1> USE DEF GoTo, In, Resumes, Unlocked, Finished
<1> DEFINE s == op[t].inode
<1>0. /\ TypeOK /\ Local(t) /\ s \in Slot /\ disk' = disk
      /\ pc[t] \in {"iput", "repeat", "truncate"} /\ pc'[t] = "user"
  <2>1. pc[t] \in {"iput", "repeat", "truncate"} /\ disk' = disk
    BY DEF PutDown, FreeInode, Puts
  <2>2. TypeOK /\ Local(t) /\ pc'[t] = "user"
    BY DEF Counted, Locals, PutDown, FreeInode, TypeOK
  <2> QED
    BY <2>1, <2>2 DEF Local, WithInode
<1>1. DiskStep(t) /\ ReadStep(t) /\ LookStep(t)
  BY <1>0 DEF DiskStep, ReadStep, LookStep, LooksUp
<1>2. CASE PutDown(t)
  <2>1. /\ inode' = [inode EXCEPT ![s] = [inode[s] EXCEPT !.count = inode[s].count - 1]]
        /\ pc[t] \in {"iput", "repeat"} /\ ~inode[s].lock /\ imap' = imap
        /\ inode[s].count > 1 \/ (inode[s].nlinks # 0 /\ ~inode[s].dirt)
    BY <1>0, <1>2 DEF PutDown, CountDown, Puts, Modified, TypeOK
  <2>2. PutBack(t, s)
    BY <1>0, <2>1 DEF PutBack, TypeOK
  <2> HIDE DEF s
  <2> QED
    BY <1>0, <1>1, <2>1, <2>2, OneKind DEF Kind, ImapStep
<1>3. CASE FreeInode(t)
  <2>1. /\ inode' = [inode EXCEPT ![s] = Zeros] /\ pc[t] = "truncate"
        /\ imap' = imap \ {inode[s].num} /\ raced' = (raced \/ LookedUp(inode[s].num, t))
    BY <1>3 DEF FreeInode
  <2>2. FreesIt(t, s)
    BY <1>0, <2>1 DEF FreesIt, TypeOK
  <2>3. ImapStep(t)
    BY <2>2 DEF ImapStep
  <2> HIDE DEF s
  <2> QED
    BY <1>0, <1>1, <2>1, <2>2, <2>3, OneKind DEF Kind
<1> QED
  BY <1>2, <1>3

LEMMA StepKinds ==
    ASSUME Counted, NEW t \in Task, CallRight(t), Step(t)
    PROVE  Kinds(t)
BY WaitKinds, WriteKinds, ModifyKinds, EmptyKinds, GetKinds, PutKinds
   DEF Step, Gets, PutsInode, Names, Syncs

-----------------------------------------------------------------------------
(***************************************************************************)
(* What a step leaves to the other tasks.                                   *)
(***************************************************************************)
LEMMA KindFields ==
    ASSUME Counted, NEW t \in Task, NEW s \in Slot
    PROVE  /\ Gotten(t, s) \/ PutBack(t, s) \/ LocksIt(t, s) \/ WritesIt(t, s)
                => inode'[s].num = inode[s].num /\ inode'[s].nlinks = inode[s].nlinks
           /\ Gotten(t, s) \/ PutBack(t, s) \/ LocksIt(t, s) => inode'[s].dirt = inode[s].dirt
           /\ Gotten(t, s) \/ PutBack(t, s) => ~inode'[s].lock
           /\ LocksIt(t, s) \/ WritesIt(t, s) => inode'[s].count = inode[s].count
           /\ Gotten(t, s) => inode'[s].count = inode[s].count + 1
           /\ PutBack(t, s) => inode'[s].count = inode[s].count - 1
           /\ LocksIt(t, s) => inode'[s].lock
           /\ WritesIt(t, s) => ~inode'[s].dirt /\ ~inode'[s].lock
<1>1. inode[s] \in MInode
  BY DEF Counted, TypeOK
<1> QED
  BY <1>1 DEF Gotten, PutBack, LocksIt, WritesIt, MInode

LEMMA SoleOwner ==
    ASSUME Counted, NEW t \in Task, NEW u \in Task \ {t}, NEW s \in Slot, inode[s].count = 1,
           Refs(u, s) # 0
    PROVE  Refs(t, s) = 0
BY Referred, RefsAreNumbers DEF Counted

LEMMA RefsOf ==
    ASSUME Counted, NEW t \in Task
    PROVE  /\ pc[t] \in WithEmpty => op[t].empty \in Slot /\ Refs(t, op[t].empty) # 0
           /\ pc[t] \in WithInode => op[t].inode \in Slot /\ Refs(t, op[t].inode) # 0
           /\ file[t] # NoSlot => file[t] \in Slot /\ Refs(t, file[t]) # 0
<1>1. Local(t) /\ TypeOK
  BY DEF Counted, Locals
<1>2. ASSUME pc[t] \in WithEmpty PROVE op[t].empty \in Slot /\ Refs(t, op[t].empty) # 0
  <2>1. op[t].empty \in Slot /\ op[t] # NoOp
    BY <1>1, <1>2 DEF Local, WithEmpty
  <2> QED
    BY <1>2, <2>1 DEF Refs, HasEmpty
<1>3. ASSUME pc[t] \in WithInode PROVE op[t].inode \in Slot /\ Refs(t, op[t].inode) # 0
  <2>1. op[t].inode \in Slot /\ op[t] # NoOp
    BY <1>1, <1>3 DEF Local, WithInode
  <2> QED
    BY <1>3, <2>1 DEF Refs, HasInode
<1>4. ASSUME file[t] # NoSlot PROVE file[t] \in Slot /\ Refs(t, file[t]) # 0
  <2>1. file[t] \in Slot
    BY <1>1, <1>4 DEF TypeOK
  <2>2. Refs(t, file[t]) # 0
    BY DEF Refs, HasOpen
  <2> QED
    BY <2>1, <2>2
<1> QED
  BY <1>2, <1>3, <1>4

LEMMA RefsUsed ==
    ASSUME Counted, NEW t \in Task, NEW s \in Slot, Refs(t, s) # 0
    PROVE  inode[s].count # 0
BY HeldIsUsed DEF Refs

\* A slot another task refers to keeps its inode.
OnShared(t, s) ==
    \/ inode'[s] = inode[s] \/ Gotten(t, s) \/ PutBack(t, s)
    \/ LocksIt(t, s) \/ WritesIt(t, s) \/ Modifies(t, s)

LEMMA SharedSlot ==
    ASSUME Counted, NEW t \in Task, CallRight(t), NEW u \in Task \ {t}, NEW s \in Slot,
           Refs(u, s) # 0, Kind(t, s)
    PROVE  OnShared(t, s) /\ inode'[s].num = inode[s].num
<1>1. inode[s].count # 0 /\ inode[s].count \in Nat /\ inode[s] \in MInode
  <2>1. inode[s].count \in Nat /\ Refs(u, s) \in Nat /\ inode[s].count >= Refs(u, s)
    BY Referred DEF Counted
  <2>2. inode[s] \in MInode
    BY DEF Counted, TypeOK
  <2> QED
    BY <2>1, <2>2
<1>2. ~Taken(t, s)
  BY <1>1 DEF Taken
<1>3. ASSUME pc[t] \in {"got", "scan_wait"}, s = op[t].empty PROVE FALSE
  <2>1. inode[s].count = 1 /\ Refs(t, s) # 0
    BY <1>3, RefsOf, EmptyFields DEF Counted, EmptyIsEmpty, WithEmpty
  <2> QED
    BY <2>1, SoleOwner
<1>4. ~WasRead(t, s)
  <2>1. ASSUME pc[t] = "read", s = op[t].empty PROVE FALSE
    <3>1. inode[s].count = 1 /\ Refs(t, s) # 0
      BY <2>1, RefsOf DEF CallRight, WithEmpty
    <3> QED
      BY <3>1, SoleOwner
  <2> QED
    BY <2>1 DEF WasRead
<1>5. ~FreesIt(t, s)
  <2>1. ASSUME pc[t] = "truncate", s = op[t].inode PROVE FALSE
    <3>1. inode[s].count = 1 /\ Refs(t, s) # 0
      BY <2>1, RefsOf DEF CallRight, WithInode
    <3> QED
      BY <3>1, SoleOwner
  <2> QED
    BY <2>1 DEF FreesIt
<1>6. OnShared(t, s)
  BY <1>2, <1>3, <1>4, <1>5 DEF Kind, OnShared, ReadIn, Made, GivenBack
<1>7. inode'[s].num = inode[s].num
  BY <1>6, KindFields DEF OnShared, Modifies
<1> QED
  BY <1>6, <1>7

\* If that is the only reference, it is left alone, but for its lock and dirt.
LEMMA SoleSlot ==
    ASSUME Counted, NEW t \in Task, CallRight(t), NEW u \in Task \ {t}, NEW s \in Slot,
           Refs(u, s) # 0, inode[s].count = 1, Kind(t, s)
    PROVE  \/ inode'[s] = inode[s]
           \/ Gotten(t, s)
           \/ LocksIt(t, s) /\ pc[t] = "sync"
           \/ WritesIt(t, s) /\ inode[s].lock
<1>1. OnShared(t, s)
  BY SharedSlot
<1>2. Refs(t, s) = 0
  BY SoleOwner
<1>3. ASSUME pc[t] \in WithInode, s = op[t].inode PROVE FALSE
  BY <1>2, <1>3, RefsOf
<1>4. WritesIt(t, s) => inode[s].lock
  BY DEF WritesIt, CallRight
<1> QED
  BY <1>1, <1>3, <1>4 DEF OnShared, PutBack, Modifies, LocksIt, WithInode

\* What a step may do to the directory.
DirStep(t) ==
    \A e \in Entry : \/ dir'[e].num = dir[e].num \/ dir'[e].num = 0
                     \/ pc[t] = "add" /\ dir'[e].num = inode[op[t].inode].num

LEMMA StepDir ==
    ASSUME Counted, NEW t \in Task, Step(t)
    PROVE  DirStep(t)
<1>0. dir \in [Entry -> [name : Name \cup {NoName}, num : Num \cup {0}]]
  BY DEF Counted, TypeOK
<1>1. CASE AddEntry(t)
  BY <1>0, <1>1 DEF AddEntry, DirStep, Resumes
<1>2. CASE Unlink(t)
  BY <1>0, <1>2 DEF Unlink, DirStep
<1>3. ASSUME ~AddEntry(t), ~Unlink(t) PROVE dir' = dir
  <2>1. CASE SleepOnInode(t) \/ Gets(t)
    BY <2>1 DEF SleepOnInode, Gets, TakeEmpty, NoneEmpty, ReadStarts, ReadEnds, FoundInTable,
                TakeFound, Panic
  <2>2. CASE PutsInode(t)
    BY <2>2 DEF PutsInode, PutDown, PutWrites, PutWritten, PutTruncates, FreeInode, PutPanics, Panic
  <2>3. CASE Names(t)
    BY <1>3, <2>3 DEF Names, FindEntry, NoEntryFound, NewInode, DirectoryFull, OpenDone, LinkFinds,
                      LinkAdds, LinkCounts
  <2>4. CASE Syncs(t)
    BY <2>4 DEF Syncs, SyncSkips, SyncWrites, SyncWritten
  <2>5. CASE Calls(t)
    BY <2>5 DEF Calls, OpenCall, UnlinkCall, LinkCall, CloseCall, SyncCall, Call
  <2> QED
    BY <2>1, <2>2, <2>3, <2>4, <2>5 DEF Step
<1> QED
  BY <1>1, <1>2, <1>3 DEF DirStep

\* Allocated inodes stay allocated, but for the one free_inode frees.
LEMMA StillAllocated ==
    ASSUME NEW t, ImapStep(t), NEW n \in imap
    PROVE  n \in imap' \/ (FreesIt(t, op[t].inode) /\ n = inode[op[t].inode].num)
BY DEF ImapStep, Made, FreesIt

LEMMA OtherCall ==
    ASSUME Counted, CallsAreRight, LocksApart, Unique, ~raced',
           NEW t \in Task, Kinds(t), DirStep(t), OthersSame(t), NEW u \in Task \ {t}
    PROVE  CallRight(u)'
<1>0. CallRight(t) /\ CallRight(u) /\ Local(u)
  BY DEF CallsAreRight, Counted, Locals
<1>1. pc'[u] = pc[u] /\ op'[u] = op[u] /\ file'[u] = file[u]
  BY DEF OthersSame
<1>2. ASSUME NEW s \in Slot PROVE Kind(t, s)
  BY DEF Kinds
<1>3. ASSUME NEW s \in Slot, Refs(u, s) # 0 PROVE inode'[s].num = inode[s].num
  BY <1>0, <1>2, <1>3, SharedSlot
<1>4. pc[u] \in LooksUp /\ WantsInode(u) => op[u].nr \in imap'
  <2>1. ASSUME pc[u] \in LooksUp, WantsInode(u), op[u].nr \notin imap' PROVE FALSE
    <3>1. op[u].nr \in imap /\ op[u] # NoOp
      BY <1>0, <2>1 DEF CallRight, Local, LooksUp
    <3>2. FreesIt(t, op[t].inode) /\ op[u].nr = inode[op[t].inode].num
      BY <2>1, <3>1, StillAllocated DEF Kinds
    <3>3. LookedUp(inode[op[t].inode].num, t)
      BY <2>1, <3>1, <3>2 DEF LookedUp, LooksUp
    <3> QED
      BY <3>2, <3>3 DEF FreesIt
  <2> QED
    BY <2>1
<1>5. pc[u] \in WithInode => inode'[op[u].inode].num = inode[op[u].inode].num
  BY <1>3, RefsOf
<1>6. file[u] # NoSlot => inode'[file[u]].num = inode[file[u]].num
  BY <1>3, RefsOf
<1>7. ASSUME pc[u] = "read" PROVE inode'[op[u].empty] = inode[op[u].empty]
  <2> DEFINE s == op[u].empty
  <2>1. s \in Slot /\ Refs(u, s) # 0
    BY <1>7, RefsOf DEF WithEmpty
  <2>2. inode[s].count = 1 /\ inode[s].lock /\ ~inode[s].dirt
    BY <1>0, <1>7 DEF CallRight
  <2>3. LockedBy(u) = s
    BY <1>7 DEF LockedBy
  <2> HIDE DEF s
  <2>4. ~WritesIt(t, s)
    <3>1. ASSUME WritesIt(t, s) PROVE FALSE
      <4>1. LockedBy(t) = s
        BY <3>1 DEF WritesIt, LockedBy
      <4>2. s # NoSlot
        BY <2>1 DEF Slot, NoSlot
      <4> QED
        BY <2>3, <4>1, <4>2 DEF LocksApart
    <3> QED
      BY <3>1
  <2>5. inode'[s] = inode[s]
    BY <1>0, <1>2, <2>1, <2>2, <2>4, SoleSlot DEF Gotten, LocksIt
  <2> QED
    BY <2>5 DEF s
<1>8. ASSUME pc[u] \in {"i_write", "s_write"}
      PROVE  inode'[op[u].inode].lock /\ inode'[op[u].inode].num # 0
  <2> DEFINE s == op[u].inode
  <2>1. s \in Slot /\ inode[s].lock /\ inode[s].num # 0 /\ LockedBy(u) = s /\ s # NoSlot
    BY <1>0, <1>8 DEF CallRight, Local, WithInode, LockedBy, Slot, NoSlot
  <2> HIDE DEF s
  <2>2. Kind(t, s) /\ LockedBy(t) # s
    BY <1>2, <2>1 DEF LocksApart
  <2>3. inode[s] \in MInode
    BY <2>1 DEF Counted, TypeOK
  <2>4. ~Taken(t, s)
    BY <2>1 DEF Taken, Counted, FreeInodesAreClean
  <2>5. ~ReadIn(t, s) /\ ~Made(t, s) /\ ~GivenBack(t, s)
    BY <2>1, EmptyFields DEF ReadIn, Made, GivenBack, Counted, EmptyIsEmpty
  <2>6. ~WasRead(t, s) /\ ~WritesIt(t, s)
    BY <2>2 DEF WasRead, WritesIt, LockedBy
  <2>7. ~FreesIt(t, s)
    BY <1>0, <2>1 DEF FreesIt, CallRight
  <2>8. ~Gotten(t, s) /\ ~PutBack(t, s) /\ ~LocksIt(t, s)
    BY <2>1 DEF Gotten, PutBack, LocksIt
  <2>9. inode'[s] = inode[s] \/ Modifies(t, s)
    BY <2>2, <2>4, <2>5, <2>6, <2>7, <2>8 DEF Kind
  <2>10. inode'[s].lock /\ inode'[s].num # 0
    BY <2>1, <2>9 DEF Modifies
  <2> QED
    BY <2>10 DEF s
<1>9. ASSUME pc[u] = "truncate" PROVE inode'[op[u].inode] = inode[op[u].inode]
  <2> DEFINE s == op[u].inode
  <2>1. s \in Slot /\ Refs(u, s) # 0
    BY <1>9, RefsOf DEF WithInode
  <2>2. inode[s].count = 1 /\ ~inode[s].lock /\ BeingFreed(s)
    BY <1>0, <1>9 DEF CallRight, BeingFreed
  <2> HIDE DEF s
  <2>3. inode'[s] = inode[s]
    BY <1>0, <1>2, <2>1, <2>2, SoleSlot DEF Gotten, LocksIt
  <2> QED
    BY <2>3 DEF s
<1>10. ASSUME pc[u] = "add", op[u].what = "creat" PROVE Fresh(u)'
  <2> DEFINE s == op[u].inode
  <2>1. s \in Slot /\ Refs(u, s) # 0
    BY <1>10, RefsOf DEF WithInode
  <2>2. /\ inode[s].count = 1 /\ inode[s].nlinks = 1 /\ inode[s].num # 0
        /\ \A e \in Entry : dir[e].num # inode[s].num
        /\ \A v \in Task : pc[v] \in LooksUp => op[v].nr # inode[s].num
    BY <1>0, <1>10 DEF CallRight, Fresh, WithInode
  <2>3. inode[s] \in MInode
    BY <2>1 DEF Counted, TypeOK
  <2> HIDE DEF s
  <2>4. ~Gotten(t, s)
    BY <2>2 DEF Gotten, LooksUp
  <2>5. /\ inode'[s].count = 1 /\ inode'[s].nlinks = 1 /\ inode'[s].num = inode[s].num
    <3>1. Kind(t, s)
      BY <1>2, <2>1
    <3>2. inode'[s] = inode[s] \/ LocksIt(t, s) \/ WritesIt(t, s)
      BY <1>0, <2>1, <2>2, <2>4, <3>1, SoleSlot
    <3> QED
      BY <2>1, <2>2, <3>2, KindFields
  <2>6. ASSUME NEW e \in Entry, dir'[e].num = inode[s].num PROVE FALSE
    <3>1. pc[t] = "add" /\ inode[op[t].inode].num = inode[s].num
      BY <2>2, <2>6 DEF DirStep
    <3>2. op[t].inode \in Slot /\ Refs(t, op[t].inode) # 0
      BY <3>1, RefsOf DEF WithInode
    <3>3. op[t].inode = s
      BY <2>1, <2>2, <3>1, <3>2 DEF Unique
    <3> QED
      BY <2>1, <2>2, <3>2, <3>3, SoleOwner
  <2>7. ASSUME NEW v \in Task, pc'[v] \in LooksUp, op'[v].nr = inode[s].num PROVE FALSE
    <3>1. CASE v # t
      BY <2>2, <2>7, <3>1 DEF OthersSame
    <3>2. CASE v = t
      BY <2>2, <2>7, <3>2 DEF Kinds, LookStep
    <3> QED
      BY <3>1, <3>2
  <2>8. op'[u].inode = s
    BY <1>1 DEF s
  <2> QED
    BY <2>5, <2>6, <2>7, <2>8 DEF Fresh
<1>11. /\ (pc[u] \in LooksUp /\ WantsInode(u) => op[u].nr \in imap)'
       /\ (pc[u] \in WithInode => inode[op[u].inode].num # 0)'
       /\ (pc[u] = "igot" => inode[op[u].inode].num = op[u].nr)'
       /\ (file[u] # NoSlot => inode[file[u]].num # 0)'
  <2>1. pc[u] = "igot" => pc[u] \in WithInode
    BY DEF WithInode
  <2> QED
    BY <1>0, <1>1, <1>4, <1>5, <1>6, <2>1 DEF CallRight, WantsInode
<1>12. (pc[u] = "read" => LET i == inode[op[u].empty]
                          IN  i.lock /\ ~i.dirt /\ i.count = 1 /\ i.num = op[u].nr)'
  BY <1>0, <1>1, <1>7 DEF CallRight
<1>13. (pc[u] = "truncate" => LET i == inode[op[u].inode]
                              IN  i.count = 1 /\ i.nlinks = 0 /\ ~i.lock)'
  BY <1>0, <1>1, <1>9 DEF CallRight
<1> QED
  BY <1>1, <1>8, <1>10, <1>11, <1>12, <1>13 DEF CallRight

-----------------------------------------------------------------------------
(***************************************************************************)
(* What a step does to the call that makes it.                              *)
(***************************************************************************)
InodeStep(t) ==
    pc'[t] \in WithInode =>
        \/ /\ pc[t] \in WithInode /\ op'[t] = op[t]
           /\ pc'[t] = "igot" => pc[t] = "igot"
           /\ pc'[t] = "add" => op[t].what = "link"
        \/ /\ pc[t] = "scan_wait" /\ pc'[t] = "igot" /\ op'[t].nr = op[t].nr
           /\ op'[t].inode = op[t].inode /\ inode[op[t].inode].num = op[t].nr
        \/ /\ pc[t] = "read" /\ pc'[t] = "igot" /\ op'[t].nr = op[t].nr
           /\ op'[t].inode = op[t].empty
        \/ /\ pc[t] = "got" /\ pc'[t] = "add" /\ op'[t].inode = op[t].empty
           /\ imap' # imap /\ dir' = dir
        \/ /\ pc[t] = "user" /\ pc'[t] = "iput" /\ file[t] # NoSlot
           /\ op'[t].inode = file[t] /\ inode' = inode

FileStep(t) ==
    \/ file'[t] \in {file[t], NoSlot}
    \/ pc[t] \in {"add", "igot"} /\ file'[t] = op[t].inode /\ inode' = inode

LockStep(t) ==
    pc'[t] \in {"i_write", "s_write"} =>
        /\ pc[t] \in {"iput", "repeat", "sync"} /\ op'[t] = op[t]
        /\ inode[op[t].inode].dirt /\ ~inode[op[t].inode].lock /\ inode'[op[t].inode].lock

TruncateStep(t) ==
    pc'[t] = "truncate" =>
        /\ inode' = inode /\ op'[t] = op[t] /\ pc[t] \in WithInode
        /\ pc[t] # "truncate" => LET i == inode[op[t].inode]
                                 IN  i.count = 1 /\ i.nlinks = 0 /\ ~i.lock

OwnStep(t) == InodeStep(t) /\ FileStep(t) /\ LockStep(t) /\ TruncateStep(t)

LEMMA OwnKeeps ==
    ASSUME NEW t, pc[t] \in WithInode, op'[t] = op[t], file'[t] = file[t],
           pc'[t] = "igot" => pc[t] = "igot", pc'[t] = "add" => op[t].what = "link",
           LockStep(t), TruncateStep(t)
    PROVE  OwnStep(t)
BY DEF OwnStep, InodeStep, FileStep

LEMMA OwnLeaves ==
    ASSUME NEW t, pc'[t] \notin WithInode \cup {"s_write"}, file'[t] = file[t]
    PROVE  OwnStep(t)
BY DEF OwnStep, InodeStep, FileStep, LockStep, TruncateStep, WithInode

LEMMA OwnSteps ==
    ASSUME Counted, NEW t \in Task, Step(t)
    PROVE  OwnStep(t)
<1> USE DEF GoTo, GoesOn, MaySleep, In, Resumes, Unlocked, Finished
<1>0. TypeOK /\ Local(t)
  BY DEF Counted, Locals
<1>1. CASE SleepOnInode(t)
  <2>1. pc' = pc /\ op' = op /\ file' = file /\ pc[t] \in WaitLabels
    BY <1>1 DEF SleepOnInode
  <2> QED
    BY <2>1, OwnKeeps, OwnLeaves DEF WaitLabels, WithInode, LockStep, TruncateStep
<1>2. CASE NoneEmpty(t) \/ PutPanics(t)
  <2>1. pc' = pc /\ op' = op /\ file' = file /\ inode' = inode
    BY <1>2 DEF NoneEmpty, PutPanics, Panic
  <2>2. pc[t] \in {"empty", "iput", "truncate"}
    BY <1>2 DEF NoneEmpty, PutPanics, Wrong
  <2> QED
    BY <2>1, <2>2, OwnKeeps, OwnLeaves DEF WithInode, LockStep, TruncateStep
<1>3. CASE TakeEmpty(t) \/ ReadStarts(t) \/ FoundInTable(t) \/ (TakeFound(t) /\ ~StillThatOne(t))
  <2>1. pc'[t] \in {"got", "read", "scan_wait"} /\ file' = file
    BY <1>0, <1>3 DEF TakeEmpty, ReadStarts, FoundInTable, TakeFound, TypeOK
  <2> QED
    BY <2>1, OwnLeaves DEF WithInode
<1>4. CASE PutDown(t) \/ FreeInode(t)
  <2>1. pc'[t] = "user" /\ file' = file
    BY <1>0, <1>4 DEF PutDown, FreeInode, TypeOK
  <2> QED
    BY <2>1, OwnLeaves DEF WithInode
<1>5. CASE FindEntry(t) \/ NoEntryFound(t) \/ SyncSkips(t) \/ SyncWritten(t)
  <2>1. pc'[t] \in {"empty", "user", "sync"} /\ file' = file
    BY <1>0, <1>5 DEF FindEntry, NoEntryFound, SyncSkips, SyncWritten, SyncGoesOn, TypeOK
  <2> QED
    BY <2>1, OwnLeaves DEF WithInode
<1>6. CASE SyncWrites(t)
  <2>1. /\ pc'[t] = "s_write" /\ pc[t] = "sync" /\ op' = op /\ file' = file
        /\ inode[op[t].inode].dirt /\ ~inode[op[t].inode].lock
        /\ inode' = [inode EXCEPT ![op[t].inode].lock = TRUE]
    BY <1>0, <1>6 DEF SyncWrites, Locked, TypeOK
  <2>2. inode'[op[t].inode].lock
    <3>1. op[t].inode \in Slot /\ inode[op[t].inode] \in MInode
      BY <1>0, <2>1 DEF Local, TypeOK
    <3> QED
      BY <1>0, <2>1, <3>1 DEF MInode, TypeOK
  <2> QED
    BY <2>1, <2>2 DEF OwnStep, InodeStep, FileStep, LockStep, TruncateStep, WithInode
<1>7. CASE PutWrites(t)
  <2>1. /\ pc'[t] = "i_write" /\ pc[t] \in {"iput", "repeat"} /\ op' = op /\ file' = file
        /\ inode[op[t].inode].dirt /\ ~inode[op[t].inode].lock
        /\ inode' = [inode EXCEPT ![op[t].inode].lock = TRUE]
    BY <1>0, <1>7 DEF PutWrites, Puts, Modified, Locked, TypeOK
  <2>2. inode'[op[t].inode].lock
    <3>1. op[t].inode \in Slot /\ inode[op[t].inode] \in MInode
      BY <1>0, <2>1 DEF Local, TypeOK, WithInode
    <3> QED
      BY <1>0, <2>1, <3>1 DEF MInode, TypeOK
  <2> QED
    BY <2>1, <2>2 DEF OwnStep, InodeStep, FileStep, LockStep, TruncateStep, WithInode
<1>8. CASE PutWritten(t) \/ LinkFinds(t) \/ LinkCounts(t) \/ DirectoryFull(t) \/ Unlink(t)
  <2>1. /\ pc[t] \in {"i_write", "igot", "linked", "add"} /\ op' = op /\ file' = file
        /\ pc'[t] \in {"repeat", "find_new", "iput"}
    BY <1>0, <1>8 DEF PutWritten, LinkFinds, LinkCounts, DirectoryFull, Unlink, TypeOK
  <2> QED
    BY <2>1, OwnKeeps DEF WithInode, LockStep, TruncateStep
<1>9. CASE LinkAdds(t)
  <2>1. pc[t] = "find_new" /\ op' = op /\ file' = file /\ pc'[t] \in {"add", "iput"}
    BY <1>0, <1>9 DEF LinkAdds, TypeOK
  <2>2. op[t].what = "link"
    BY <1>0, <2>1 DEF Local
  <2> QED
    BY <2>1, <2>2, OwnKeeps DEF WithInode, LockStep, TruncateStep
<1>10. CASE PutTruncates(t)
  <2>1. /\ pc[t] \in {"iput", "repeat"} /\ op' = op /\ file' = file /\ inode' = inode
        /\ pc'[t] = "truncate"
        /\ LET i == inode[op[t].inode] IN i.count = 1 /\ i.nlinks = 0 /\ ~i.lock
    BY <1>0, <1>10 DEF PutTruncates, Puts, LastUser, TypeOK
  <2> QED
    BY <2>1 DEF OwnStep, InodeStep, FileStep, LockStep, TruncateStep, WithInode
<1>11. CASE ReadEnds(t)
  <2>1. /\ pc[t] = "read" /\ pc'[t] = "igot" /\ file' = file
        /\ op' = [op EXCEPT ![t].inode = op[t].empty, ![t].empty = NoSlot]
    BY <1>0, <1>11 DEF ReadEnds, TypeOK
  <2>2. op[t] \in Op /\ op[t].empty \in Slot
    BY <1>0, <2>1, InCall DEF Local, WithEmpty
  <2>3. op'[t].inode = op[t].empty /\ op'[t].nr = op[t].nr
    BY <1>0, <2>1, <2>2, SetGot
  <2> QED
    BY <2>1, <2>3 DEF OwnStep, InodeStep, FileStep, LockStep, TruncateStep, WithInode
<1>12. CASE TakeFound(t) /\ StillThatOne(t)
  <2>1. /\ pc[t] = "scan_wait" /\ pc'[t] = "igot" /\ file' = file
        /\ SetOp(t, "empty", NoSlot) /\ inode[op[t].inode].num = op[t].nr
    BY <1>0, <1>12 DEF TakeFound, StillThatOne, TypeOK
  <2>2. op[t] \in Op /\ NoSlot \in Slot \cup {NoSlot}
    BY <2>1, InCall
  <2>3. op'[t].inode = op[t].inode /\ op'[t].nr = op[t].nr
    BY <1>0, <2>1, <2>2, SetEmpty
  <2> QED
    BY <2>1, <2>3 DEF OwnStep, InodeStep, FileStep, LockStep, TruncateStep, WithInode
<1>13. CASE NewInode(t)
  <2>1. CASE imap = Num
    <3>1. pc'[t] = "user" /\ file' = file
      BY <1>0, <1>13, <2>1 DEF NewInode, TypeOK
    <3> QED
      BY <3>1, OwnLeaves DEF WithInode
  <2>2. CASE imap # Num
    <3> DEFINE n == Min(Num \ imap)
    <3>1. n \in Num \ imap
      <4>1. Num \subseteq Nat
        BY InodeAssumption DEF Num
      <4>2. Num \ imap \subseteq Nat /\ Num \ imap # {}
        BY <1>0, <2>2, <4>1 DEF TypeOK
      <4> QED
        BY <4>2, LeastIn
    <3>2. /\ pc[t] = "got" /\ pc'[t] = "add" /\ file' = file /\ imap' = imap \cup {n}
          /\ op' = [op EXCEPT ![t].inode = op[t].empty, ![t].empty = NoSlot] /\ dir' = dir
      BY <1>0, <1>13, <2>2 DEF NewInode, TypeOK
    <3> HIDE DEF n
    <3>3. op[t] \in Op /\ op[t].empty \in Slot
      BY <1>0, <3>2, InCall DEF Local, WithEmpty
    <3>4. op'[t].inode = op[t].empty
      BY <1>0, <3>2, <3>3, SetGot
    <3>5. imap' # imap
      BY <3>1, <3>2
    <3> QED
      BY <3>2, <3>4, <3>5 DEF OwnStep, InodeStep, FileStep, LockStep, TruncateStep, WithInode
  <2> QED
    BY <2>1, <2>2
<1>14. CASE AddEntry(t)
  <2>1. /\ pc[t] = "add" /\ inode' = inode
        /\ \/ pc'[t] = "user" /\ file'[t] = op[t].inode
           \/ pc'[t] = "linked" /\ op' = op /\ file' = file
    BY <1>0, <1>14 DEF AddEntry, TypeOK
  <2> QED
    BY <2>1 DEF OwnStep, InodeStep, FileStep, LockStep, TruncateStep, WithInode
<1>15. CASE OpenDone(t)
  <2>1. /\ pc[t] = "igot" /\ inode' = inode
        /\ \/ pc'[t] = "user" /\ file'[t] = op[t].inode
           \/ pc'[t] = "iput" /\ op' = op /\ file' = file
    BY <1>0, <1>15 DEF OpenDone, TypeOK
  <2> QED
    BY <2>1 DEF OwnStep, InodeStep, FileStep, LockStep, TruncateStep, WithInode
<1>16. CASE CloseCall(t)
  <2> DEFINE o == [what |-> "close", name |-> NoName, new |-> NoName, nr |-> 0,
                   entry |-> NoEntry, empty |-> NoSlot, inode |-> file[t]]
  <2>1. /\ pc[t] = "user" /\ pc'[t] = "iput" /\ file'[t] = NoSlot /\ inode' = inode
        /\ file[t] # NoSlot /\ op' = [op EXCEPT ![t] = o]
    BY <1>0, <1>16 DEF CloseCall, MayCall, TypeOK
  <2>2. op'[t].inode = file[t]
    BY <1>0, <2>1 DEF TypeOK
  <2> QED
    BY <2>1, <2>2 DEF OwnStep, InodeStep, FileStep, LockStep, TruncateStep, WithInode
<1>17. CASE Calls(t) /\ ~CloseCall(t)
  <2>1. pc'[t] \in {"find", "sync"} /\ file' = file
    BY <1>0, <1>17 DEF Calls, OpenCall, UnlinkCall, LinkCall, SyncCall, TypeOK
  <2> QED
    BY <2>1, OwnLeaves DEF WithInode
<1> QED
  BY <1>1, <1>2, <1>3, <1>4, <1>5, <1>6, <1>7, <1>8, <1>9, <1>10, <1>11, <1>12, <1>13, <1>14,
     <1>15, <1>16, <1>17 DEF Step, Gets, PutsInode, Names, Syncs

LEMMA EntriesFinite == \A n : /\ IsFiniteSet(EntriesOf(n)) /\ Cardinality(EntriesOf(n)) \in Nat
                              /\ Cardinality(EntriesOf(n)) = 0 <=> EntriesOf(n) = {}
                              /\ Cardinality(EntriesOf(n)) <= NR_ENTRY
<1> SUFFICES ASSUME NEW n
             PROVE  /\ IsFiniteSet(EntriesOf(n)) /\ Cardinality(EntriesOf(n)) \in Nat
                    /\ Cardinality(EntriesOf(n)) = 0 <=> EntriesOf(n) = {}
                    /\ Cardinality(EntriesOf(n)) <= NR_ENTRY
  OBVIOUS
<1>1. IsFiniteSet(Entry) /\ Cardinality(Entry) = NR_ENTRY
  BY InodeAssumption, FS_Interval DEF Entry
<1>2. EntriesOf(n) \subseteq Entry
  BY DEF EntriesOf
<1>3. IsFiniteSet(EntriesOf(n)) /\ Cardinality(EntriesOf(n)) <= NR_ENTRY
  BY <1>1, <1>2, FS_Subset
<1> QED
  BY <1>3, FS_CardinalityType, FS_EmptySet

LEMMA OwnSlot ==
    ASSUME Counted, NEW t \in Task, CallRight(t), NEW s \in Slot, Kind(t, s)
    PROVE  /\ pc[t] \in WithInode /\ s = op[t].inode /\ pc'[t] # "user"
                => inode'[s].num = inode[s].num
           /\ s = file[t] => inode'[s].num = inode[s].num
<1>1. ASSUME pc[t] \in WithInode, s = op[t].inode, pc'[t] # "user"
      PROVE  inode'[s].num = inode[s].num
  <2>1. ~Taken(t, s) /\ ~ReadIn(t, s) /\ ~Made(t, s) /\ ~WasRead(t, s) /\ ~GivenBack(t, s)
        /\ ~FreesIt(t, s)
    BY <1>1 DEF Taken, ReadIn, Made, WasRead, GivenBack, FreesIt, WithInode
  <2> QED
    BY <2>1, KindFields DEF Kind, Modifies
<1>2. ASSUME s = file[t] PROVE inode'[s].num = inode[s].num
  <2>1. inode[s].count \in Nat /\ Refs(t, s) \in Nat /\ inode[s].count >= Refs(t, s)
    BY Referred DEF Counted
  <2>2. Refs(t, s) >= 1
    BY <1>2 DEF Refs, HasOpen
  <2>3. ASSUME inode[s].count = 1 PROVE ~HasEmpty(t, s) /\ ~HasInode(t, s)
    <3>1. HasEmpty(t, s) \/ HasInode(t, s) => Refs(t, s) >= 2
      BY <1>2 DEF Refs, HasOpen
    <3> QED
      BY <2>1, <2>3, <3>1
  <2>4. Local(t)
    BY DEF Counted, Locals
  <2>5. ~Taken(t, s)
    BY <2>1, <2>2 DEF Taken
  <2>6. ASSUME pc[t] \in {"got", "scan_wait"}, s = op[t].empty PROVE FALSE
    <3>1. inode[s].count = 1 /\ HasEmpty(t, s)
      BY <2>4, <2>6, EmptyFields DEF Counted, EmptyIsEmpty, HasEmpty, WithEmpty, Local
    <3> QED
      BY <2>3, <3>1
  <2>7. ~FreesIt(t, s)
    <3>1. ASSUME FreesIt(t, s) PROVE FALSE
      <4>1. inode[s].count = 1 /\ HasInode(t, s)
        BY <2>4, <3>1 DEF FreesIt, CallRight, HasInode, WithInode, Local
      <4> QED
        BY <2>3, <4>1
    <3> QED
      BY <3>1
  <2> QED
    BY <2>5, <2>6, <2>7, KindFields DEF Kind, Modifies, ReadIn, Made, WasRead, GivenBack
<1> QED
  BY <1>1, <1>2

LEMMA OwnCall ==
    ASSUME Counted, Counted', CallsAreRight, SlotsAreRight, LinksBalance,
           NEW t \in Task, Kinds(t), OwnStep(t), OthersSame(t)
    PROVE  CallRight(t)'
<1>0. CallRight(t) /\ Local(t) /\ Local(t)' /\ TypeOK /\ TypeOK'
  BY DEF CallsAreRight, Counted, Locals
<1>1. ASSUME NEW s \in Slot PROVE Kind(t, s)
  BY DEF Kinds
<1>2. ASSUME pc'[t] \in LooksUp, WantsInode(t)' PROVE op'[t].nr \in imap'
  <2> DEFINE n == op'[t].nr
  <2>1. n \in Num /\ n # 0
    BY <1>0, <1>2, EmptyFields DEF Local
  <2> HIDE DEF n
  <2>2. LookStep(t)
    BY DEF Kinds
  <2>3. n \in imap
    <3>1. CASE pc[t] \in LooksUp /\ n = op[t].nr
      BY <1>0, <2>1, <3>1 DEF CallRight, Local
    <3>2. ASSUME NEW e \in Entry, n = dir[e].num PROVE n \in imap
      <4>1. EntriesOf(n) # {}
        BY <3>2 DEF EntriesOf
      <4> QED
        BY <2>1, <4>1, EntriesFinite DEF LinksBalance, Balanced
    <3> QED
      BY <1>2, <2>1, <2>2, <3>1, <3>2 DEF LookStep, n
  <2>4. ~FreesIt(t, op[t].inode)
    BY <1>2 DEF FreesIt, LooksUp
  <2>5. n \in imap'
    BY <2>3, <2>4, StillAllocated DEF Kinds
  <2> QED
    BY <2>5 DEF n
<1>3. ASSUME pc'[t] \in WithInode
      PROVE  /\ inode'[op'[t].inode].num # 0
             /\ pc'[t] = "igot" => inode'[op'[t].inode].num = op'[t].nr
  <2>1. pc'[t] # "user"
    BY <1>3 DEF WithInode
  <2>2. CASE /\ pc[t] \in WithInode /\ op'[t] = op[t]
             /\ pc'[t] = "igot" => pc[t] = "igot"
    <3>1. op[t].inode \in Slot
      BY <1>0, <2>2 DEF Local
    <3>2. inode'[op[t].inode].num = inode[op[t].inode].num
      BY <1>0, <1>1, <2>1, <2>2, <3>1, OwnSlot
    <3> QED
      BY <1>0, <2>2, <3>2 DEF CallRight
  <2>3. CASE /\ pc[t] = "scan_wait" /\ pc'[t] = "igot" /\ op'[t].nr = op[t].nr
             /\ op'[t].inode = op[t].inode /\ inode[op[t].inode].num = op[t].nr
    <3> DEFINE s == op[t].inode
    <3>1. s \in Slot /\ op[t].nr \in Num
      BY <1>0, <2>3 DEF Local, LooksUp
    <3>2. op[t].nr # 0 /\ inode[op[t].empty] = Empty
      BY <2>3, <3>1, EmptyFields DEF Counted, EmptyIsEmpty
    <3>3. inode[s].num = op[t].nr
      BY <2>3
    <3> HIDE DEF s
    <3>4. s # op[t].empty
      BY <3>2, <3>3, EmptyFields
    <3>5. inode'[s].num = inode[s].num
      BY <1>1, <2>3, <3>1, <3>4, KindFields
         DEF Kind, Taken, ReadIn, Made, WasRead, GivenBack, FreesIt, Modifies
    <3> QED
      BY <2>3, <3>2, <3>3, <3>5 DEF s
  <2>4. CASE pc[t] = "read" /\ pc'[t] = "igot" /\ op'[t].nr = op[t].nr
             /\ op'[t].inode = op[t].empty
    <3> DEFINE s == op[t].empty
    <3>1. s \in Slot /\ inode[s].num = op[t].nr /\ op[t].nr \in Num
      BY <1>0, <2>4 DEF Local, WithEmpty, LooksUp, CallRight
    <3> HIDE DEF s
    <3>2. inode'[s].num = inode[s].num
      BY <1>1, <2>4, <3>1, KindFields
         DEF Kind, Taken, ReadIn, Made, WasRead, GivenBack, FreesIt, Modifies
    <3> QED
      BY <2>4, <3>1, <3>2, EmptyFields DEF s
  <2>5. CASE /\ pc[t] = "got" /\ pc'[t] = "add" /\ op'[t].inode = op[t].empty
             /\ imap' # imap
    <3>1. Made(t, op[t].empty)
      BY <2>5 DEF Kinds, ImapStep, FreesIt
    <3> QED
      BY <2>5, <3>1, EmptyFields DEF Made
  <2>6. CASE pc[t] = "user" /\ pc'[t] = "iput" /\ file[t] # NoSlot
             /\ op'[t].inode = file[t] /\ inode' = inode
    BY <1>0, <2>6 DEF CallRight
  <2> QED
    BY <1>3, <2>2, <2>3, <2>4, <2>5, <2>6 DEF OwnStep, InodeStep
<1>4. ASSUME file'[t] # NoSlot PROVE inode'[file'[t]].num # 0
  <2>1. CASE file'[t] = file[t]
    <3>1. file[t] \in Slot /\ inode[file[t]].num # 0
      BY <1>0, <1>4, <2>1 DEF TypeOK, CallRight
    <3>2. inode'[file[t]].num = inode[file[t]].num
      BY <1>0, <1>1, <3>1, OwnSlot
    <3> QED
      BY <2>1, <3>1, <3>2
  <2>2. CASE pc[t] \in {"add", "igot"} /\ file'[t] = op[t].inode /\ inode' = inode
    BY <1>0, <2>2 DEF CallRight, WithInode
  <2> QED
    BY <1>4, <2>1, <2>2 DEF OwnStep, FileStep
<1>5. ASSUME pc'[t] = "read"
      PROVE  LET i == inode'[op'[t].empty]
             IN  i.lock /\ ~i.dirt /\ i.count = 1 /\ i.num = op'[t].nr
  <2>1. CASE pc[t] = "read" /\ op'[t] = op[t]
    <3> DEFINE s == op[t].empty
    <3>1. s \in Slot /\ op'[t].empty = s
      BY <1>0, <2>1 DEF Local, WithEmpty
    <3>2. LET i == inode[s] IN i.lock /\ ~i.dirt /\ i.count = 1 /\ i.num = op[t].nr
      BY <1>0, <2>1 DEF CallRight
    <3> HIDE DEF s
    <3>3. inode'[s] = inode[s]
      BY <1>1, <1>5, <2>1, <3>1 DEF Kind, Taken, ReadIn, Made, WasRead, GivenBack, FreesIt,
         Modifies, Gotten, PutBack, LocksIt, WritesIt
    <3> QED
      BY <2>1, <3>1, <3>2, <3>3
  <2>2. CASE ReadIn(t, op[t].empty)
    BY <2>2 DEF ReadIn
  <2> QED
    BY <1>5, <2>1, <2>2 DEF Kinds, ReadStep, WasRead
<1>6. ASSUME pc'[t] \in {"i_write", "s_write"}
      PROVE  inode'[op'[t].inode].lock /\ inode'[op'[t].inode].num # 0
  <2> DEFINE s == op[t].inode
  <2>1. /\ pc[t] \in {"iput", "repeat", "sync"} /\ op'[t] = op[t]
        /\ inode[s].dirt /\ inode'[s].lock
    BY <1>6 DEF OwnStep, LockStep
  <2>2. s \in Slot
    BY <1>0, <2>1 DEF Local, WithInode
  <2>3. inode[s].num # 0
    BY <2>1, <2>2 DEF SlotsAreRight, SlotRight
  <2> HIDE DEF s
  <2>4. inode'[s].num = inode[s].num
    BY <1>1, <2>1, <2>2, KindFields
       DEF Kind, Taken, ReadIn, Made, WasRead, GivenBack, FreesIt, Modifies
  <2> QED
    BY <2>1, <2>3, <2>4 DEF s
<1>7. ASSUME pc'[t] = "truncate"
      PROVE  LET i == inode'[op'[t].inode] IN i.count = 1 /\ i.nlinks = 0 /\ ~i.lock
  BY <1>0, <1>7 DEF OwnStep, TruncateStep, CallRight
<1>8. ASSUME pc'[t] = "add", op'[t].what = "creat" PROVE Fresh(t)'
  <2> DEFINE s == op[t].empty
             n == inode'[s].num
  <2>1. pc[t] = "got" /\ op'[t].inode = s /\ imap' # imap /\ dir' = dir
    BY <1>8 DEF OwnStep, InodeStep, WithInode
  <2>2. Made(t, s)
    BY <2>1 DEF Kinds, ImapStep, FreesIt
  <2>3. n \in Num \ imap /\ inode'[s].count = 1 /\ inode'[s].nlinks = 1
    BY <2>2 DEF Made
  <2> HIDE DEF n, s
  <2>4. \A e \in Entry : dir'[e].num # n
    <3>1. Cardinality(EntriesOf(n)) = 0
      BY <2>3 DEF LinksBalance, Balanced
    <3>2. EntriesOf(n) = {}
      BY <3>1, EntriesFinite
    <3> QED
      BY <2>1, <3>2 DEF EntriesOf
  <2>5. ASSUME NEW u \in Task, pc'[u] \in LooksUp PROVE op'[u].nr # n
    <3>1. u # t
      BY <1>8, <2>5 DEF LooksUp
    <3>2. pc[u] \in LooksUp /\ op'[u] = op[u]
      BY <2>5, <3>1 DEF OthersSame
    <3>3. CallRight(u) /\ Local(u)
      BY DEF CallsAreRight, Counted, Locals
    <3> QED
      BY <2>3, <3>2, <3>3, EmptyFields DEF CallRight, Local
  <2> QED
    BY <2>1, <2>3, <2>4, <2>5 DEF Fresh, n
<1>9. /\ (pc[t] \in LooksUp /\ WantsInode(t) => op[t].nr \in imap)'
      /\ (pc[t] \in WithInode => inode[op[t].inode].num # 0)'
      /\ (pc[t] = "igot" => inode[op[t].inode].num = op[t].nr)'
      /\ (file[t] # NoSlot => inode[file[t]].num # 0)'
  BY <1>2, <1>3, <1>4 DEF WithInode
<1> QED
  BY <1>5, <1>6, <1>7, <1>8, <1>9 DEF CallRight

-----------------------------------------------------------------------------
(***************************************************************************)
(* What a step does to the table.                                           *)
(***************************************************************************)
LEMMA LockHeld ==
    ASSUME Counted, NEW u \in Task, CallRight(u), LockedBy(u) # NoSlot
    PROVE  LockedBy(u) \in Slot /\ inode[LockedBy(u)].lock
<1>1. Local(u)
  BY DEF Counted, Locals
<1> QED
  BY <1>1 DEF Local, CallRight, LockedBy, WithEmpty, WithInode

LEMMA LocksApartStep ==
    ASSUME Counted, CallsAreRight, LocksApart, NEW t \in Task, Kinds(t), OwnStep(t), OthersSame(t)
    PROVE  LocksApart'
<1>1. ASSUME NEW u \in Task \ {t} PROVE LockedBy(u)' = LockedBy(u)
  BY DEF OthersSame, LockedBy
<1>2. ASSUME LockedBy(t)' # NoSlot, LockedBy(t)' # LockedBy(t)
      PROVE  ~inode[LockedBy(t)'].lock
  <2>1. CASE pc'[t] = "read"
    <3>1. ReadIn(t, op[t].empty)
      BY <1>2, <2>1 DEF Kinds, ReadStep, WasRead, LockedBy
    <3>2. pc[t] = "got" /\ LockedBy(t)' = op[t].empty
      BY <3>1 DEF ReadIn, LockedBy
    <3> QED
      BY <3>2, EmptyFields DEF Counted, EmptyIsEmpty
  <2>2. CASE pc'[t] \in {"i_write", "s_write"}
    BY <2>2 DEF OwnStep, LockStep, LockedBy
  <2> QED
    BY <1>2, <2>1, <2>2 DEF LockedBy
<1>3. ASSUME NEW u \in Task \ {t}, LockedBy(u)' = LockedBy(t)', LockedBy(t)' # NoSlot PROVE FALSE
  <2>1. LockedBy(u) = LockedBy(t)' /\ LockedBy(u) # NoSlot
    BY <1>1, <1>3
  <2>2. inode[LockedBy(u)].lock
    BY <2>1, LockHeld DEF CallsAreRight
  <2>3. LockedBy(u) # LockedBy(t)
    BY <2>1 DEF LocksApart
  <2> QED
    BY <1>2, <1>3, <2>1, <2>2, <2>3
<1>4. ASSUME NEW u \in Task, NEW v \in Task, LockedBy(u)' = LockedBy(v)', LockedBy(u)' # NoSlot
      PROVE  u = v
  <2>1. CASE u # t /\ v # t
    <3>1. LockedBy(u) = LockedBy(v) /\ LockedBy(u) # NoSlot
      BY <1>1, <1>4, <2>1
    <3> QED
      BY <3>1 DEF LocksApart
  <2>2. CASE u = t /\ v # t
    BY <1>3, <1>4, <2>2
  <2>3. CASE u # t /\ v = t
    BY <1>3, <1>4, <2>3
  <2> QED
    BY <2>1, <2>2, <2>3
<1> QED
  BY <1>4 DEF LocksApart

\* A slot gets another inode from iget or from new_inode only.
LEMMA NumStep ==
    ASSUME Counted, NEW t \in Task, NEW s \in Slot, Kind(t, s)
    PROVE  \/ inode'[s].num = inode[s].num
           \/ inode'[s].num = 0
           \/ ReadIn(t, s)
           \/ Made(t, s)
BY KindFields, EmptyFields DEF Kind, Taken, WasRead, GivenBack, FreesIt, Modifies

LEMMA UniqueStep ==
    ASSUME Counted, Unique, SlotsAreRight, NEW t \in Task, Kinds(t)
    PROVE  Unique'
<1>1. ASSUME NEW s \in Slot
      PROVE  \/ inode'[s].num = inode[s].num \/ inode'[s].num = 0
             \/ ReadIn(t, s) \/ Made(t, s)
  BY NumStep DEF Kinds
<1>2. ASSUME NEW s \in Slot, NEW r \in Slot, s # r, inode'[s].num = inode'[r].num,
             inode'[s].num # 0, ReadIn(t, s) \/ Made(t, s)
      PROVE  FALSE
  <2>1. inode'[r].num = inode[r].num
    BY <1>1, <1>2 DEF ReadIn, Made
  <2>2. inode[r].num \in imap
    BY <1>2, <2>1 DEF SlotsAreRight, SlotRight
  <2>3. ReadIn(t, s)
    BY <1>2, <2>1, <2>2 DEF Made
  <2>4. r \in InTable(op[t].nr)
    BY <1>2, <2>1, <2>3 DEF ReadIn, InTable
  <2> QED
    BY <2>3, <2>4 DEF ReadIn
<1>3. ASSUME NEW s \in Slot, NEW r \in Slot, inode'[s].num = inode'[r].num, inode'[s].num # 0
      PROVE  s = r
  <2>1. CASE ReadIn(t, s) \/ Made(t, s)
    BY <1>2, <1>3, <2>1
  <2>2. CASE ReadIn(t, r) \/ Made(t, r)
    BY <1>2, <1>3, <2>2
  <2>3. CASE ~(ReadIn(t, s) \/ Made(t, s)) /\ ~(ReadIn(t, r) \/ Made(t, r))
    <3>1. inode'[s].num = inode[s].num /\ inode'[r].num = inode[r].num
      BY <1>1, <1>3, <2>3
    <3> QED
      BY <1>3, <3>1 DEF Unique
  <2> QED
    BY <2>1, <2>2, <2>3
<1> QED
  BY <1>3 DEF Unique

LEMMA ReadersStep ==
    ASSUME Counted, LocksApart, NEW t \in Task, Kinds(t), OthersSame(t), NEW s \in Slot
    PROVE  BeingRead(s)' <=> (BeingRead(s) /\ ~WasRead(t, s)) \/ ReadIn(t, s)
<1>0. s # NoSlot /\ ReadStep(t)
  BY DEF Slot, NoSlot, Kinds
<1>1. ASSUME NEW u \in Task, pc'[u] = "read", op'[u].empty = s
      PROVE  (BeingRead(s) /\ ~WasRead(t, s)) \/ ReadIn(t, s)
  <2>1. CASE u # t
    <3>1. pc[u] = "read" /\ op[u].empty = s
      BY <1>1, <2>1 DEF OthersSame
    <3>2. ASSUME WasRead(t, s) PROVE FALSE
      <4>1. LockedBy(t) = s /\ LockedBy(u) = s
        BY <3>1, <3>2 DEF WasRead, LockedBy
      <4> QED
        BY <1>0, <2>1, <4>1 DEF LocksApart
    <3> QED
      BY <3>1, <3>2 DEF BeingRead
  <2>2. CASE u = t
    <3>1. CASE pc[t] = "read" /\ op'[t] = op[t]
      BY <1>1, <2>2, <3>1 DEF BeingRead, WasRead
    <3>2. CASE ReadIn(t, op[t].empty)
      BY <1>1, <2>2, <3>2 DEF ReadIn
    <3> QED
      BY <1>0, <1>1, <2>2, <3>1, <3>2 DEF ReadStep, WasRead
  <2> QED
    BY <2>1, <2>2
<1>2. ASSUME NEW u \in Task, pc[u] = "read", op[u].empty = s, ~WasRead(t, s)
      PROVE  BeingRead(s)'
  <2>1. CASE u # t
    BY <1>2, <2>1 DEF OthersSame, BeingRead
  <2>2. CASE u = t
    BY <1>0, <1>2, <2>2 DEF ReadStep, ReadIn, BeingRead
  <2> QED
    BY <2>1, <2>2
<1>3. ASSUME ReadIn(t, s) PROVE BeingRead(s)'
  BY <1>3 DEF ReadIn, BeingRead
<1> QED
  BY <1>1, <1>2, <1>3 DEF BeingRead

\* The block of an inode is written by write_inode only, for the slot that has it.
LEMMA DiskKept ==
    ASSUME Counted, NEW t \in Task, Kinds(t), NEW n \in Num,
           \A s \in Slot : inode[s].num = n => ~WritesIt(t, s)
    PROVE  disk'[n] = disk[n]
<1>1. CASE disk' = disk
  BY <1>1
<1>2. CASE WritesIt(t, op[t].inode)
  <2> DEFINE s == op[t].inode
  <2>1. pc[t] \in {"i_write", "s_write"} /\ disk' = [disk EXCEPT ![inode[s].num] = inode[s].nlinks]
    BY <1>2 DEF WritesIt
  <2>2. s \in Slot
    BY <2>1 DEF Counted, Locals, Local, WithInode
  <2>3. inode[s].num # n
    BY <1>2, <2>2
  <2> QED
    BY <2>1, <2>3 DEF Counted, TypeOK
<1> QED
  BY <1>1, <1>2 DEF Kinds, DiskStep

\* What is left to show of a slot that has an inode after the step.
LEMMA SlotStays ==
    ASSUME Counted, CallsAreRight, Unique, SlotsAreRight,
           NEW t \in Task, Kinds(t), NEW s \in Slot,
           inode'[s].num = inode[s].num, inode[s].num # 0, ~FreesIt(t, s)
    PROVE  inode'[s].num \in imap' /\ inode[s].num \in Num
<1> DEFINE n == inode[s].num
<1>1. n \in imap /\ n \in Num
  BY DEF SlotsAreRight, SlotRight, Counted, TypeOK
<1>2. ASSUME FreesIt(t, op[t].inode), n = inode[op[t].inode].num PROVE FALSE
  <2>1. op[t].inode \in Slot
    BY <1>2 DEF FreesIt, Counted, Locals, Local, WithInode
  <2>2. op[t].inode = s
    BY <1>2, <2>1 DEF Unique
  <2> QED
    BY <1>2, <2>2
<1> HIDE DEF n
<1>3. n \in imap'
  BY <1>1, <1>2, StillAllocated DEF Kinds
<1> QED
  BY <1>1, <1>3 DEF n

LEMMA SlotStep ==
    ASSUME Counted, CallsAreRight, LocksApart, Unique, SlotsAreRight,
           NEW t \in Task, Kinds(t), OthersSame(t), NEW s \in Slot
    PROVE  SlotRight(s)'
<1> DEFINE n == inode[s].num
<1>0. /\ CallRight(t) /\ Local(t) /\ SlotRight(s) /\ Kind(t, s) /\ inode[s] \in MInode
      /\ BeingRead(s)' <=> (BeingRead(s) /\ ~WasRead(t, s)) \/ ReadIn(t, s)
  BY ReadersStep DEF CallsAreRight, Counted, Locals, SlotsAreRight, Kinds, TypeOK
<1>1. CASE Taken(t, s) \/ GivenBack(t, s) \/ FreesIt(t, s)
  BY <1>1, EmptyFields DEF Taken, GivenBack, FreesIt, SlotRight
<1>2. CASE ReadIn(t, s)
  <2>1. op[t].nr \in imap /\ op[t].nr \in Num
    BY <1>0, <1>2 DEF ReadIn, CallRight, LooksUp, Local
  <2>2. op[t].nr \in imap'
    BY <1>2, <2>1, StillAllocated DEF Kinds, ReadIn, FreesIt
  <2> QED
    BY <1>0, <1>2, <2>1, <2>2, EmptyFields DEF ReadIn, SlotRight
<1>3. CASE Made(t, s)
  BY <1>3, EmptyFields DEF Made, SlotRight
<1>4. CASE WasRead(t, s)
  <2>1. /\ n = op[t].nr /\ n \in Num /\ n # 0 /\ inode'[s].num = n /\ inode'[s].count = 1
        /\ ~inode'[s].dirt /\ inode'[s].nlinks = disk[n] /\ pc[t] = "read"
    BY <1>0, <1>4, EmptyFields DEF WasRead, CallRight, Local, LooksUp
  <2>2. disk' = disk
    BY <2>1 DEF Kinds, DiskStep, WritesIt
  <2>3. inode'[s].num \in imap'
    BY <2>1, SlotStays DEF FreesIt
  <2> QED
    BY <2>1, <2>2, <2>3 DEF SlotRight
<1>5. CASE WritesIt(t, s)
  <2>1. /\ pc[t] \in {"i_write", "s_write"} /\ s = op[t].inode
        /\ disk' = [disk EXCEPT ![n] = inode[s].nlinks]
    BY <1>5 DEF WritesIt
  <2>2. n # 0 /\ inode[s].lock
    BY <1>0, <2>1 DEF CallRight
  <2>3. /\ inode'[s].num = n /\ inode'[s].nlinks = inode[s].nlinks
        /\ inode'[s].count = inode[s].count
    BY <1>5, KindFields
  <2>4. n \in Num /\ inode'[s].num \in imap'
    BY <2>1, <2>2, <2>3, SlotStays DEF FreesIt
  <2>5. disk'[n] = inode[s].nlinks
    BY <2>1, <2>4 DEF Counted, TypeOK
  <2>6. inode[s].count = 0 => inode[s].nlinks # 0
    BY <1>0, <2>2 DEF SlotRight
  <2> QED
    BY <2>2, <2>3, <2>4, <2>5, <2>6 DEF SlotRight
<1>6. CASE Modifies(t, s)
  <2>1. /\ s = op[t].inode /\ pc[t] \in WithInode /\ inode'[s].num = n
        /\ inode'[s].count = inode[s].count /\ pc[t] # "truncate"
        /\ inode'[s].dirt \/ inode'[s].nlinks = 0
    BY <1>6 DEF Modifies, WithInode
  <2>2. n # 0 /\ Refs(t, s) # 0
    BY <1>0, <2>1, RefsOf DEF CallRight
  <2>3. inode[s].count # 0
    BY <2>2, RefsUsed, <1>0
  <2>4. inode'[s].num \in imap'
    BY <2>1, <2>2, SlotStays DEF FreesIt
  <2> QED
    BY <2>1, <2>2, <2>3, <2>4 DEF SlotRight
<1>7. CASE inode'[s] = inode[s] \/ Gotten(t, s) \/ PutBack(t, s) \/ LocksIt(t, s)
  <2>1. /\ inode'[s].num = n /\ inode'[s].dirt = inode[s].dirt
        /\ inode'[s].nlinks = inode[s].nlinks
    BY <1>7, KindFields
  <2>2. CASE n = 0
    <3>1. ~Gotten(t, s)
      BY <1>0, <2>2, EmptyFields DEF Gotten, Local, LooksUp
    <3>2. ~PutBack(t, s)
      BY <1>0, <2>2 DEF PutBack, CallRight, WithInode
    <3>3. ~LocksIt(t, s)
      BY <1>0, <2>2 DEF LocksIt, SlotRight
    <3> QED
      BY <1>0, <1>7, <2>2, <3>1, <3>2, <3>3 DEF SlotRight
  <2>3. CASE n # 0
    <3>1. ~FreesIt(t, s)
      <4>1. ASSUME FreesIt(t, s) PROVE FALSE
        BY <2>1, <2>3, <4>1, EmptyFields DEF FreesIt
      <4> QED
        BY <4>1
    <3>2. n \in Num /\ inode'[s].num \in imap'
      BY <2>1, <2>3, <3>1, SlotStays
    <3>3. CASE WasRead(t, s) \/ WritesIt(t, s)
      BY <1>4, <1>5, <3>3
    <3>4. CASE ~WasRead(t, s) /\ ~WritesIt(t, s)
      <4>1. disk'[n] = disk[n]
        <5>1. ASSUME NEW r \in Slot, inode[r].num = n PROVE r = s
          BY <2>3, <5>1 DEF Unique
        <5> QED
          BY <3>2, <3>4, <5>1, DiskKept
      <4>2. BeingRead(s) => BeingRead(s)'
        BY <1>0, <3>4
      <4>3. inode'[s].count = 0 => inode[s].nlinks # 0
        <5>1. inode[s].count \in Nat
          BY <1>0 DEF MInode
        <5>2. CASE inode'[s] = inode[s]
          BY <1>0, <2>3, <5>2 DEF SlotRight
        <5>3. CASE Gotten(t, s)
          BY <5>1, <5>3, KindFields
        <5>4. CASE PutBack(t, s)
          <6>1. inode'[s].count = inode[s].count - 1
            BY <5>4, KindFields
          <6>2. inode[s].count > 1 \/ inode[s].nlinks # 0
            BY <5>4 DEF PutBack
          <6> QED
            BY <5>1, <6>1, <6>2
        <5>5. CASE LocksIt(t, s)
          BY <1>0, <2>3, <5>5, KindFields DEF SlotRight
        <5> QED
          BY <1>7, <5>2, <5>3, <5>4, <5>5
      <4>4. ~BeingRead(s) /\ ~inode[s].dirt /\ inode[s].nlinks # 0 => disk[n] = inode[s].nlinks
        BY <1>0, <2>3 DEF SlotRight
      <4> HIDE DEF n
      <4> QED
        BY <2>1, <2>3, <3>2, <4>1, <4>2, <4>3, <4>4 DEF SlotRight
    <3> QED
      BY <3>3, <3>4
  <2> QED
    BY <2>2, <2>3
<1> QED
  BY <1>0, <1>1, <1>2, <1>3, <1>4, <1>5, <1>6, <1>7 DEF Kind

\* Nobody puts an inode that is free, or frees one that is used or has links.
LEMMA NoPutPanics ==
    ASSUME Counted, NEW t \in Task, CallRight(t)
    PROVE  ~PutPanics(t)
<1> DEFINE i == inode[op[t].inode]
<1>1. ASSUME PutPanics(t)
      PROVE  \/ pc[t] = "iput" /\ i.count = 0
             \/ pc[t] = "truncate" /\ (i.count > 1 \/ i.nlinks # 0)
  BY <1>1 DEF PutPanics, Wrong
<1>2. ASSUME pc[t] \in {"iput", "truncate"} PROVE i.count \in Nat /\ i.count # 0
  <2>1. op[t].inode \in Slot /\ Refs(t, op[t].inode) # 0
    BY <1>2, RefsOf DEF WithInode
  <2>2. i.count # 0
    BY <2>1, RefsUsed
  <2> QED
    BY <2>1, <2>2, CountsAreNumbers DEF Counted
<1>3. pc[t] = "truncate" => i.count = 1 /\ i.nlinks = 0
  BY DEF CallRight
<1> QED
  BY <1>1, <1>2, <1>3

LEMMA PanicStep ==
    ASSUME Counted, NEW t \in Task, CallRight(t), Step(t),
           panicked \in {"no", "No free inodes in mem"}
    PROVE  panicked' \in {"no", "No free inodes in mem"}
<1>1. ~PutPanics(t)
  BY NoPutPanics
<1>2. CASE NoneEmpty(t)
  BY <1>2 DEF NoneEmpty, Panic
<1>3. CASE ~NoneEmpty(t)
  <2>1. CASE SleepOnInode(t) \/ Gets(t)
    BY <1>3, <2>1 DEF SleepOnInode, Gets, TakeEmpty, ReadStarts, ReadEnds, FoundInTable, TakeFound
  <2>2. CASE PutsInode(t)
    BY <1>1, <2>2 DEF PutsInode, PutDown, PutWrites, PutWritten, PutTruncates, FreeInode
  <2>3. CASE Names(t)
    BY <2>3 DEF Names, FindEntry, NoEntryFound, NewInode, AddEntry, DirectoryFull, OpenDone,
                LinkFinds, LinkAdds, LinkCounts, Unlink
  <2>4. CASE Syncs(t)
    BY <2>4 DEF Syncs, SyncSkips, SyncWrites, SyncWritten
  <2>5. CASE Calls(t)
    BY <2>5 DEF Calls, OpenCall, UnlinkCall, LinkCall, CloseCall, SyncCall, Call
  <2> QED
    BY <2>1, <2>2, <2>3, <2>4, <2>5 DEF Step
<1> QED
  BY <1>2, <1>3

-----------------------------------------------------------------------------
(***************************************************************************)
(* Links and names.  i_nlinks as it is now, and the tasks that are about to *)
(* make a name or to count one.                                             *)
(***************************************************************************)
LinksInTable ==
    \A s \in Slot : inode[s].num # 0 =>
        LinksOf(inode[s].num) = IF BeingRead(s) THEN disk[inode[s].num] ELSE inode[s].nlinks

LinksOnDisk == \A n \in Num : InTable(n) = {} => LinksOf(n) = disk[n]

LinksInRange == \A n \in Num : LinksOf(n) \in Nat

LEMMA LinksAt == Unique => LinksInTable
<1> SUFFICES ASSUME Unique, NEW s \in Slot, inode[s].num # 0
             PROVE  LinksOf(inode[s].num) = IF BeingRead(s) THEN disk[inode[s].num]
                                                          ELSE inode[s].nlinks
  BY DEF LinksInTable
<1> DEFINE n == inode[s].num
<1>1. \A r : r \in InTable(n) <=> r = s
  BY DEF InTable, Unique
<1> HIDE DEF n
<1>2. CASE BeingRead(s)
  BY <1>1, <1>2 DEF LinksOf, n
<1>3. CASE ~BeingRead(s)
  <2>1. \E r \in InTable(n) : ~BeingRead(r)
    BY <1>1, <1>3
  <2>2. (CHOOSE r \in InTable(n) : ~BeingRead(r)) = s
    BY <1>1, <1>3
  <2> QED
    BY <1>3, <2>1, <2>2 DEF LinksOf, n
<1> QED
  BY <1>2, <1>3

LEMMA LinksAway == LinksOnDisk
BY DEF LinksOnDisk, LinksOf

LEMMA LinksTyped == TypeOK => LinksInRange
<1> SUFFICES ASSUME TypeOK, NEW n \in Num PROVE LinksOf(n) \in Nat
  BY DEF LinksInRange
<1>1. disk[n] \in Nat /\ \A s \in Slot : inode[s].nlinks \in Nat
  <2>1. disk[n] \in Links /\ \A s \in Slot : inode[s] \in MInode
    BY DEF TypeOK
  <2>2. \A s \in Slot : inode[s].nlinks \in Links
    BY <2>1 DEF MInode
  <2>3. Links \subseteq Nat
    BY DEF Links
  <2> QED
    BY <2>1, <2>2, <2>3
<1>2. CASE \E s \in InTable(n) : ~BeingRead(s)
  <2>1. (CHOOSE s \in InTable(n) : ~BeingRead(s)) \in Slot
    BY <1>2 DEF InTable
  <2> QED
    BY <1>1, <1>2, <2>1 DEF LinksOf
<1> QED
  BY <1>1, <1>2 DEF LinksOf

IsEarly(t, n)   == pc[t] = "linked" /\ inode[op[t].inode].num = n
IsPending(t, n) == pc[t] = "add" /\ op[t].what = "creat" /\ inode[op[t].inode].num = n

LEMMA TaskSets ==
    ASSUME Counted, CallsAreRight, NEW t \in Task, Kinds(t), OthersSame(t), NEW n
    PROVE  /\ Cardinality(Early(n)) \in Nat /\ Cardinality(Pending(n)) \in Nat
           /\ Cardinality(Early(n)') \in Nat /\ Cardinality(Pending(n)') \in Nat
           /\ Cardinality(Early(n)') = Cardinality(Early(n)) + (IF IsEarly(t, n)' THEN 1 ELSE 0)
                                                             - (IF IsEarly(t, n) THEN 1 ELSE 0)
           /\ Cardinality(Pending(n)') = Cardinality(Pending(n))
                    + (IF IsPending(t, n)' THEN 1 ELSE 0) - (IF IsPending(t, n) THEN 1 ELSE 0)
<1> DEFINE E  == Early(n)
           P  == Pending(n)
<1>1. ASSUME NEW u \in Task \ {t}
      PROVE  (IsEarly(u, n)' <=> IsEarly(u, n)) /\ (IsPending(u, n)' <=> IsPending(u, n))
  <2>1. pc'[u] = pc[u] /\ op'[u] = op[u]
    BY DEF OthersSame
  <2>2. ASSUME pc[u] \in {"linked", "add"} PROVE inode'[op[u].inode].num = inode[op[u].inode].num
    <3>1. op[u].inode \in Slot /\ Refs(u, op[u].inode) # 0
      BY <2>2, RefsOf DEF WithInode
    <3> QED
      BY <3>1, SharedSlot DEF CallsAreRight, Kinds
  <2> QED
    BY <2>1, <2>2 DEF IsEarly, IsPending
<1>2. /\ \A u \in Task : (u \in E <=> IsEarly(u, n)) /\ (u \in P <=> IsPending(u, n))
      /\ \A u \in Task : (u \in E' <=> IsEarly(u, n)') /\ (u \in P' <=> IsPending(u, n)')
      /\ E \in SUBSET Task /\ P \in SUBSET Task /\ E' \in SUBSET Task /\ P' \in SUBSET Task
  BY DEF Early, Pending, IsEarly, IsPending
<1> HIDE DEF E, P
<1>3. /\ Cardinality(E) \in Nat /\ Cardinality(E') \in Nat
      /\ Cardinality(E') = Cardinality(E) + (IF t \in E' THEN 1 ELSE 0) - (IF t \in E THEN 1 ELSE 0)
  BY <1>1, <1>2, CardinalityStep
<1>4. /\ Cardinality(P) \in Nat /\ Cardinality(P') \in Nat
      /\ Cardinality(P') = Cardinality(P) + (IF t \in P' THEN 1 ELSE 0) - (IF t \in P THEN 1 ELSE 0)
  BY <1>1, <1>2, CardinalityStep
<1>5. /\ Cardinality(E') = Cardinality(E) + (IF IsEarly(t, n)' THEN 1 ELSE 0)
                                          - (IF IsEarly(t, n) THEN 1 ELSE 0)
      /\ Cardinality(P') = Cardinality(P) + (IF IsPending(t, n)' THEN 1 ELSE 0)
                                          - (IF IsPending(t, n) THEN 1 ELSE 0)
  BY <1>2, <1>3, <1>4
<1> QED
  BY <1>3, <1>4, <1>5 DEF E, P

\* i_nlinks stays as it is, wherever it is: iget reads what write_inode has written,
\* and get_empty_inode throws away an inode that is the same on the disk.
LEMMA LinksKept ==
    ASSUME Counted, CallsAreRight, LocksApart, Unique, Unique', SlotsAreRight,
           NEW t \in Task, Kinds(t), OthersSame(t), NEW n \in imap, n \in imap',
           \A s \in Slot : inode[s].num = n /\ Modifies(t, s) => inode'[s].nlinks = inode[s].nlinks
    PROVE  LinksOf(n)' = LinksOf(n)
<1>0. n \in Num /\ n # 0 /\ LinksInTable /\ LinksInTable' /\ LinksOnDisk /\ LinksOnDisk'
  <2>1. LinksInTable /\ LinksOnDisk
    BY LinksAt, LinksAway
  <2>2. LinksInTable'
    BY LinksAt, PTL
  <2>3. LinksOnDisk'
    BY LinksAway, PTL
  <2> QED
    BY <2>1, <2>2, <2>3, EmptyFields DEF Counted, TypeOK
<1>1. ASSUME NEW s \in Slot
      PROVE  /\ Kind(t, s) /\ inode[s] \in MInode
             /\ \/ inode'[s].num = inode[s].num \/ inode'[s].num = 0
                \/ ReadIn(t, s) \/ Made(t, s)
  BY NumStep DEF Kinds, Counted, TypeOK
<1>2. CASE \A s \in Slot : inode[s].num # n
  <2>1. LinksOf(n) = disk[n] /\ disk'[n] = disk[n]
    BY <1>0, <1>2, DiskKept DEF LinksOnDisk, InTable
  <2>2. CASE \A s \in Slot : inode'[s].num # n
    BY <1>0, <2>1, <2>2 DEF LinksOnDisk, InTable
  <2>3. ASSUME NEW s \in Slot, inode'[s].num = n PROVE LinksOf(n)' = LinksOf(n)
    <3>1. ReadIn(t, s)
      BY <1>0, <1>1, <1>2, <2>3 DEF Made
    <3>2. BeingRead(s)'
      BY <3>1, ReadersStep
    <3> QED
      BY <1>0, <2>1, <2>3, <3>2 DEF LinksInTable
  <2> QED
    BY <2>2, <2>3
<1>3. ASSUME NEW s \in Slot, inode[s].num = n, inode'[s].num # n PROVE LinksOf(n)' = LinksOf(n)
  <2>1. Taken(t, s)
    <3>1. ~GivenBack(t, s) /\ ~ReadIn(t, s) /\ ~Made(t, s)
      BY <1>0, <1>3, EmptyFields
         DEF GivenBack, ReadIn, Made, Counted, EmptyIsEmpty
    <3>2. ~FreesIt(t, s)
      BY <1>3 DEF FreesIt
    <3> QED
      BY <1>1, <1>3, <3>1, <3>2, KindFields DEF Kind, WasRead, Modifies
  <2>2. ~inode[s].dirt /\ inode[s].nlinks # 0 /\ pc[t] = "empty" /\ inode[s].count = 0
    BY <1>0, <1>3, <2>1 DEF Taken, Counted, FreeInodesAreClean, SlotsAreRight, SlotRight
  <2>3. ~BeingRead(s)
    BY <2>2 DEF BeingRead, CallsAreRight, CallRight
  <2>4. LinksOf(n) = inode[s].nlinks
    BY <1>0, <1>3, <2>3 DEF LinksInTable
  <2>5. disk[n] = inode[s].nlinks
    BY <1>0, <1>3, <2>2, <2>3 DEF SlotsAreRight, SlotRight
  <2>6. disk'[n] = disk[n]
    BY <1>0, <2>2, DiskKept DEF WritesIt
  <2>7. ASSUME NEW r \in Slot PROVE inode'[r].num # n
    BY <1>0, <1>1, <1>3, <2>2 DEF ReadIn, Made, Unique
  <2>8. LinksOf(n)' = disk'[n]
    BY <1>0, <2>7 DEF LinksOnDisk, InTable
  <2> QED
    BY <2>4, <2>5, <2>6, <2>8
<1>4. ASSUME NEW s \in Slot, inode[s].num = n, inode'[s].num = n PROVE LinksOf(n)' = LinksOf(n)
  <2>1. /\ LinksOf(n) = IF BeingRead(s) THEN disk[n] ELSE inode[s].nlinks
        /\ LinksOf(n)' = IF BeingRead(s)' THEN disk'[n] ELSE inode'[s].nlinks
    BY <1>0, <1>4 DEF LinksInTable
  <2>2. BeingRead(s)' <=> (BeingRead(s) /\ ~WasRead(t, s)) \/ ReadIn(t, s)
    BY ReadersStep
  <2>3. ~ReadIn(t, s) /\ ~Made(t, s) /\ ~GivenBack(t, s) /\ ~Taken(t, s) /\ ~FreesIt(t, s)
    BY <1>0, <1>4, EmptyFields
       DEF ReadIn, Made, GivenBack, Taken, FreesIt, Counted, EmptyIsEmpty
  <2>4. ASSUME BeingRead(s) PROVE ~WritesIt(t, s)
    <3>1. PICK u \in Task : pc[u] = "read" /\ op[u].empty = s
      BY <2>4 DEF BeingRead
    <3>2. ASSUME WritesIt(t, s) PROVE FALSE
      <4>1. LockedBy(t) = s /\ LockedBy(u) = s /\ pc[t] # "read" /\ s # NoSlot
        BY <3>1, <3>2 DEF WritesIt, LockedBy, Slot, NoSlot
      <4> QED
        BY <3>1, <4>1 DEF LocksApart
    <3> QED
      BY <3>2
  <2>5. CASE WasRead(t, s)
    <3>1. BeingRead(s) /\ op[t].nr = n
      BY <1>4, <2>5 DEF WasRead, BeingRead, CallsAreRight, CallRight
    <3> QED
      BY <2>1, <2>2, <2>3, <2>5, <3>1 DEF WasRead
  <2>6. CASE ~WasRead(t, s) /\ BeingRead(s)
    <3>1. disk'[n] = disk[n]
      BY <1>0, <1>4, <2>4, <2>6, DiskKept DEF Unique
    <3> QED
      BY <2>1, <2>2, <2>6, <3>1
  <2>7. CASE ~WasRead(t, s) /\ ~BeingRead(s)
    <3>1. inode'[s].nlinks = inode[s].nlinks
      BY <1>1, <1>4, <2>3, <2>7, KindFields DEF Kind
    <3> QED
      BY <2>1, <2>2, <2>3, <2>7, <3>1
  <2> QED
    BY <2>5, <2>6, <2>7
<1> QED
  BY <1>2, <1>3, <1>4

-----------------------------------------------------------------------------
(***************************************************************************)
(* The steps that neither make nor count a name.                            *)
(***************************************************************************)
\* The call has still to make a name, or to count one it has made.
Promised(t) == pc[t] = "linked" \/ (pc[t] = "add" /\ op[t].what = "creat")

Quiet(t) ==
    /\ dir' = dir /\ imap' \subseteq imap
    /\ pc[t] \in {"igot", "add", "linked"} => inode' = inode
    /\ ~Promised(t) /\ ~Promised(t)'

LEMMA QuietBalance ==
    ASSUME Counted, CallsAreRight, LocksApart, Unique, Unique', SlotsAreRight, LinksBalance,
           NEW t \in Task, Kinds(t), OthersSame(t), Quiet(t)
    PROVE  LinksBalance'
<1> SUFFICES ASSUME NEW n \in Num PROVE Balanced(n)'
  BY DEF LinksBalance
<1>0. Balanced(n) /\ EntriesOf(n)' = EntriesOf(n)
  BY DEF LinksBalance, EntriesOf, Quiet
<1>1. CASE n \notin imap
  BY <1>0, <1>1 DEF Balanced, Quiet
<1>2. CASE n \in imap /\ n \in imap'
  <2>1. LinksOf(n)' = LinksOf(n)
    BY <1>2, LinksKept DEF Quiet, Modifies
  <2>2. ~IsEarly(t, n) /\ ~IsEarly(t, n)' /\ ~IsPending(t, n) /\ ~IsPending(t, n)'
    BY DEF Quiet, Promised, IsEarly, IsPending
  <2>3. Cardinality(Early(n)') = Cardinality(Early(n))
        /\ Cardinality(Pending(n)') = Cardinality(Pending(n))
    BY <2>2, TaskSets
  <2> QED
    BY <1>0, <1>2, <2>1, <2>3 DEF Balanced
<1>3. CASE n \in imap /\ n \notin imap'
  <2> DEFINE s == op[t].inode
  <2>1. FreesIt(t, s) /\ n = inode[s].num
    BY <1>3, StillAllocated DEF Kinds
  <2>2. pc[t] = "truncate" /\ s \in Slot /\ Refs(t, s) # 0
    BY <2>1, RefsOf DEF FreesIt, WithInode
  <2>3. inode[s].count = 1 /\ inode[s].nlinks = 0 /\ ~inode[s].lock
    BY <2>2 DEF CallsAreRight, CallRight
  <2>4. n # 0 /\ LinksInTable
    BY <1>3, EmptyFields, LinksAt
  <2> HIDE DEF s
  <2>5. LinksOf(n) = 0
    <3>1. ~BeingRead(s)
      BY <2>3 DEF BeingRead, CallsAreRight, CallRight
    <3> QED
      BY <2>1, <2>2, <2>3, <2>4, <3>1 DEF LinksInTable
  <2>6. Early(n) = {}
    <3>1. ASSUME NEW u \in Early(n) PROVE FALSE
      <4>1. u \in Task /\ pc[u] = "linked" /\ inode[op[u].inode].num = n
        BY DEF Early
      <4>2. op[u].inode \in Slot /\ Refs(u, op[u].inode) # 0
        BY <4>1, RefsOf DEF WithInode
      <4>3. op[u].inode = s
        BY <2>1, <2>2, <2>4, <4>1, <4>2 DEF Unique
      <4> QED
        BY <2>2, <2>3, <4>1, <4>2, <4>3, SoleOwner
    <3> QED
      BY <3>1
  <2>7. Cardinality(Early(n)) = 0 /\ Cardinality(Pending(n)) \in Nat
    BY <2>6, FS_EmptySet, TaskSets
  <2>8. Cardinality(EntriesOf(n)) = 0
    <3>1. LinksOf(n) + Cardinality(Early(n)) = Cardinality(EntriesOf(n)) + Cardinality(Pending(n))
      BY <1>0, <1>3 DEF Balanced
    <3>2. Cardinality(EntriesOf(n)) \in Nat
      BY EntriesFinite
    <3> QED
      BY <2>5, <2>7, <3>1, <3>2
  <2> QED
    BY <1>0, <1>3, <2>8 DEF Balanced
<1> QED
  BY <1>1, <1>2, <1>3

LEMMA QuietSteps ==
    ASSUME Counted, NEW t \in Task, Step(t),
           ~(NewInode(t) /\ imap # Num), ~AddEntry(t), ~(DirectoryFull(t) /\ op[t].what = "creat"),
           ~LinkCounts(t), ~Unlink(t)
    PROVE  Quiet(t)
<1> USE DEF GoTo, GoesOn, MaySleep, In, Resumes, Unlocked, Finished
<1>0. TypeOK /\ Local(t)
  BY DEF Counted, Locals
<1>1. CASE SleepOnInode(t)
  BY <1>0, <1>1 DEF SleepOnInode, WaitLabels, Quiet, Promised
<1>2. CASE Gets(t)
  <2>1. /\ dir' = dir /\ imap' = imap /\ pc[t] \in {"empty", "got", "read", "scan_wait"}
        /\ pc'[t] \in {"empty", "got", "read", "scan_wait", "igot"}
    BY <1>0, <1>2 DEF Gets, TakeEmpty, NoneEmpty, ReadStarts, ReadEnds, FoundInTable, TakeFound,
                      Panic, TypeOK
  <2> QED
    BY <2>1 DEF Quiet, Promised
<1>3. CASE PutsInode(t)
  <2>1. PutPanics(t) => pc[t] \in {"iput", "truncate"}
    BY DEF PutPanics, Wrong
  <2>2. /\ dir' = dir /\ imap' \subseteq imap
        /\ pc[t] \in {"iput", "repeat", "i_write", "truncate"}
        /\ pc'[t] \in {"user", "iput", "repeat", "i_write", "truncate"}
    BY <1>0, <1>3, <2>1 DEF PutsInode, PutDown, PutWrites, PutWritten, PutTruncates, FreeInode,
                            PutPanics, Puts, Panic, TypeOK
  <2> QED
    BY <2>2 DEF Quiet, Promised
<1>4. CASE Names(t)
  <2>1. CASE FindEntry(t) \/ NoEntryFound(t)
    <3>1. pc[t] = "find" /\ pc'[t] \in {"empty", "user"} /\ dir' = dir /\ imap' = imap
      BY <1>0, <2>1 DEF FindEntry, NoEntryFound, TypeOK
    <3> QED
      BY <3>1 DEF Quiet, Promised
  <2>2. CASE NewInode(t)
    <3>1. pc[t] = "got" /\ pc'[t] = "user" /\ dir' = dir /\ imap' = imap
      BY <1>0, <2>2 DEF NewInode, TypeOK
    <3> QED
      BY <3>1 DEF Quiet, Promised
  <2>3. CASE DirectoryFull(t)
    <3>1. pc[t] = "add" /\ pc'[t] = "iput" /\ dir' = dir /\ imap' = imap /\ inode' = inode
      BY <1>0, <2>3 DEF DirectoryFull, TypeOK
    <3> QED
      BY <2>3, <3>1 DEF Quiet, Promised
  <2>4. CASE OpenDone(t) \/ LinkFinds(t)
    <3>1. /\ pc[t] = "igot" /\ pc'[t] \in {"user", "iput", "find_new"} /\ dir' = dir
          /\ imap' = imap /\ inode' = inode
      BY <1>0, <2>4 DEF OpenDone, LinkFinds, TypeOK
    <3> QED
      BY <3>1 DEF Quiet, Promised
  <2>5. CASE LinkAdds(t)
    <3>1. /\ pc[t] = "find_new" /\ pc'[t] \in {"add", "iput"} /\ dir' = dir /\ imap' = imap
          /\ op' = op
      BY <1>0, <2>5 DEF LinkAdds, TypeOK
    <3>2. op[t].what = "link"
      BY <1>0, <3>1 DEF Local
    <3> QED
      BY <3>1, <3>2 DEF Quiet, Promised
  <2> QED
    BY <1>4, <2>1, <2>2, <2>3, <2>4, <2>5 DEF Names
<1>5. CASE Syncs(t)
  <2>1. /\ pc[t] \in {"sync", "s_write"} /\ pc'[t] \in {"sync", "s_write", "user"}
        /\ dir' = dir /\ imap' = imap
    BY <1>0, <1>5 DEF Syncs, SyncSkips, SyncWrites, SyncWritten, SyncGoesOn, TypeOK
  <2> QED
    BY <2>1 DEF Quiet, Promised
<1>6. CASE Calls(t)
  <2>1. pc[t] = "user" /\ pc'[t] \in {"find", "iput", "sync"} /\ dir' = dir /\ imap' = imap
    BY <1>0, <1>6
       DEF Calls, OpenCall, UnlinkCall, LinkCall, CloseCall, SyncCall, Call, MayCall, TypeOK
  <2> QED
    BY <2>1 DEF Quiet, Promised
<1> QED
  BY <1>1, <1>2, <1>3, <1>4, <1>5, <1>6 DEF Step

-----------------------------------------------------------------------------
(***************************************************************************)
(* The steps that make a name or count one.                                 *)
(***************************************************************************)
\* The inode of a call has been read.
LEMMA UserReads ==
    ASSUME Counted, CallsAreRight, NEW t \in Task, pc[t] \in WithInode
    PROVE  op[t].inode \in Slot /\ ~BeingRead(op[t].inode)
<1> DEFINE s == op[t].inode
<1>1. s \in Slot /\ Refs(t, s) # 0
  BY RefsOf
<1>2. ASSUME NEW u \in Task, pc[u] = "read", op[u].empty = s PROVE FALSE
  <2>1. Refs(u, s) # 0 /\ inode[s].count = 1
    BY <1>2, RefsOf DEF CallsAreRight, CallRight, WithEmpty
  <2>2. u # t
    BY <1>2 DEF WithInode
  <2> QED
    BY <1>1, <2>1, <2>2, SoleOwner
<1> QED
  BY <1>1, <1>2 DEF BeingRead

LEMMA NewInodeBalance ==
    ASSUME Counted, Counted', CallsAreRight, LocksApart, Unique, Unique', SlotsAreRight, LinksBalance,
           NEW t \in Task, Kinds(t), OwnStep(t), OthersSame(t), NewInode(t), imap # Num
    PROVE  LinksBalance'
<1> SUFFICES ASSUME NEW s, s = op[t].empty, NEW n, n = inode'[s].num PROVE LinksBalance'
  OBVIOUS
<1>1. pc[t] = "got" /\ op[t].what = "creat" /\ dir' = dir /\ imap' # imap
  <2>1. Num \ imap \subseteq Nat /\ Num \ imap # {}
    <3>1. Num \subseteq Nat
      BY InodeAssumption DEF Num
    <3> QED
      BY <3>1 DEF Counted, TypeOK
  <2>2. Min(Num \ imap) \in Num \ imap
    BY <2>1, LeastIn
  <2> QED
    BY <2>2 DEF NewInode, In
<1>2. Made(t, s)
  BY <1>1 DEF Kinds, ImapStep, FreesIt
<1>3. s \in Slot /\ inode[s] = Empty /\ op[t] \in Op
  BY <1>1, RefsOf, InCall DEF Counted, EmptyIsEmpty, WithEmpty
<1>4. pc'[t] = "add" /\ op'[t].inode = s /\ op'[t].what = "creat"
  <2>1. pc' = [pc EXCEPT ![t] = "add"] /\ op' = [op EXCEPT ![t].inode = s, ![t].empty = NoSlot]
    BY DEF NewInode, MaySleep, GoTo
  <2>2. op'[t].inode = s /\ op'[t].what = op[t].what
    BY <1>3, <2>1, SetGot DEF Counted
  <2> QED
    BY <1>1, <2>1, <2>2 DEF Counted, TypeOK
<1>5. n \in Num \ imap /\ imap' = imap \cup {n} /\ inode'[s].nlinks = 1
  BY <1>2 DEF Made
<1>6. \A m \in Num : /\ ~IsEarly(t, m) /\ ~IsPending(t, m) /\ ~IsEarly(t, m)'
                     /\ IsPending(t, m)' <=> m = n
  BY <1>1, <1>4 DEF IsEarly, IsPending
<1>7. ASSUME NEW m \in Num PROVE Balanced(m) /\ EntriesOf(m)' = EntriesOf(m)
  BY <1>1 DEF LinksBalance, EntriesOf
<1>8. ASSUME NEW m \in Num, m # n PROVE Balanced(m)'
  <2>1. CASE m \notin imap
    BY <1>5, <1>7, <1>8, <2>1 DEF Balanced
  <2>2. CASE m \in imap
    <3>1. LinksOf(m)' = LinksOf(m)
      BY <1>1, <1>5, <2>2, LinksKept DEF Modifies
    <3>2. Cardinality(Early(m)') = Cardinality(Early(m))
          /\ Cardinality(Pending(m)') = Cardinality(Pending(m))
      BY <1>6, <1>8, TaskSets
    <3> QED
      BY <1>5, <1>7, <2>2, <3>1, <3>2 DEF Balanced
  <2> QED
    BY <2>1, <2>2
<1>9. Balanced(n)'
  <2>1. LinksOf(n)' = 1
    <3>1. ~BeingRead(s)
      BY <1>3, EmptyFields DEF BeingRead, CallsAreRight, CallRight
    <3>2. ~BeingRead(s)'
      BY <1>3, <1>4, <3>1, ReadersStep DEF ReadIn
    <3>3. LinksInTable'
      BY LinksAt, PTL
    <3> QED
      BY <1>3, <1>5, <3>2, <3>3, EmptyFields DEF LinksInTable
  <2>2. Early(n) = {} /\ Pending(n) = {}
    <3>1. ASSUME NEW u \in Task, pc[u] \in {"linked", "add"} PROVE inode[op[u].inode].num # n
      <4>1. op[u].inode \in Slot /\ inode[op[u].inode].num # 0
        BY <3>1, RefsOf DEF WithInode, CallsAreRight, CallRight
      <4>2. inode[op[u].inode].num \in imap
        BY <4>1 DEF SlotsAreRight, SlotRight
      <4> QED
        BY <1>5, <4>2
    <3> QED
      BY <3>1 DEF Early, Pending
  <2>3. Cardinality(Early(n)) = 0 /\ Cardinality(Pending(n)) = 0
    BY <2>2, FS_EmptySet
  <2>4. Cardinality(Early(n)') = 0 /\ Cardinality(Pending(n)') = 1
    BY <1>5, <1>6, <2>3, TaskSets
  <2>5. Cardinality(EntriesOf(n)') = 0
    BY <1>5, <1>7 DEF Balanced
  <2> QED
    BY <1>5, <2>1, <2>4, <2>5 DEF Balanced
<1> QED
  BY <1>8, <1>9 DEF LinksBalance

LEMMA AddEntryBalance ==
    ASSUME Counted, CallsAreRight, LocksApart, Unique, Unique', SlotsAreRight, LinksBalance,
           NEW t \in Task, Kinds(t), OthersSame(t), AddEntry(t)
    PROVE  LinksBalance'
<1> SUFFICES ASSUME NEW s, s = op[t].inode, NEW n, n = inode[s].num, NEW e, e = Min(Unused)
             PROVE  LinksBalance'
  OBVIOUS
<1>1. pc[t] = "add" /\ inode' = inode /\ imap' = imap /\ op[t].what \in {"creat", "link"}
  BY DEF AddEntry, Resumes, Counted, Locals, Local
<1>2. s \in Slot /\ n # 0 /\ n \in imap /\ n \in Num
  <2>1. s \in Slot /\ n # 0
    BY <1>1, RefsOf DEF WithInode, CallsAreRight, CallRight
  <2> QED
    BY <2>1 DEF SlotsAreRight, SlotRight, Counted, TypeOK
<1>3. e \in Entry /\ dir[e].num = 0
  <2>1. Unused \subseteq Nat /\ Unused # {}
    <3>1. Entry \subseteq Nat
      BY InodeAssumption DEF Entry
    <3> QED
      BY <3>1 DEF Unused, AddEntry
  <2>2. e \in Unused
    BY <2>1, LeastIn
  <2> QED
    BY <2>2 DEF Unused
<1>4. \A f \in Entry : dir'[f].num = IF f = e THEN n ELSE dir[f].num
  <2> DEFINE d == [num  |-> n, name |-> IF op[t].what = "creat" THEN op[t].name ELSE op[t].new]
  <2>1. dir' = [dir EXCEPT ![e] = d] /\ d.num = n
    BY DEF AddEntry
  <2> HIDE DEF d
  <2> QED
    BY <1>3, <2>1 DEF Counted, TypeOK
<1>5. \/ op[t].what = "creat" /\ pc'[t] = "user"
      \/ op[t].what = "link" /\ pc'[t] = "linked" /\ op' = op
  BY <1>1 DEF AddEntry, Finished, MaySleep, GoTo, Counted, TypeOK
<1>6. \A m \in Num : /\ ~IsEarly(t, m) /\ ~IsPending(t, m)'
                     /\ IsPending(t, m) <=> (m = n /\ op[t].what = "creat")
                     /\ IsEarly(t, m)' <=> (m = n /\ op[t].what = "link")
  BY <1>1, <1>5 DEF IsEarly, IsPending
<1>7. ASSUME NEW m \in Num PROVE Balanced(m) /\ (m \in imap => LinksOf(m)' = LinksOf(m))
  BY <1>1, LinksKept DEF LinksBalance
<1>8. ASSUME NEW m \in Num, m # n PROVE Balanced(m)'
  <2>1. EntriesOf(m)' = EntriesOf(m)
    BY <1>2, <1>3, <1>4, <1>8, EmptyFields DEF EntriesOf
  <2>2. Cardinality(Early(m)') = Cardinality(Early(m))
        /\ Cardinality(Pending(m)') = Cardinality(Pending(m))
    BY <1>6, <1>8, TaskSets
  <2> QED
    BY <1>1, <1>7, <2>1, <2>2 DEF Balanced
<1>9. Balanced(n)'
  <2>1. e \notin EntriesOf(n) /\ EntriesOf(n)' = EntriesOf(n) \cup {e}
    BY <1>2, <1>3, <1>4 DEF EntriesOf
  <2>2. Cardinality(EntriesOf(n)') = Cardinality(EntriesOf(n)) + 1
        /\ Cardinality(EntriesOf(n)) \in Nat
    <3>1. IsFiniteSet(EntriesOf(n)) /\ Cardinality(EntriesOf(n)) \in Nat
      BY EntriesFinite
    <3>2. Cardinality(EntriesOf(n) \cup {e}) = Cardinality(EntriesOf(n)) + 1
      BY <2>1, <3>1, FS_AddElement
    <3> QED
      BY <2>1, <3>1, <3>2
  <2>3. /\ Cardinality(Early(n)) \in Nat /\ Cardinality(Pending(n)) \in Nat
        /\ Cardinality(Early(n)') = Cardinality(Early(n))
                                       + (IF op[t].what = "link" THEN 1 ELSE 0)
        /\ Cardinality(Pending(n)') = Cardinality(Pending(n))
                                       - (IF op[t].what = "creat" THEN 1 ELSE 0)
    BY <1>2, <1>6, TaskSets
  <2>4. LinksOf(n) \in Nat
    BY <1>2, LinksTyped DEF LinksInRange, Counted
  <2>5. LinksOf(n) + Cardinality(Early(n)) = Cardinality(EntriesOf(n)) + Cardinality(Pending(n))
    BY <1>2, <1>7 DEF Balanced
  <2>6. LinksOf(n)' + Cardinality(Early(n)') = Cardinality(EntriesOf(n)') + Cardinality(Pending(n)')
    BY <1>1, <1>2, <1>7, <2>2, <2>3, <2>4, <2>5
  <2> QED
    BY <1>1, <1>2, <2>6 DEF Balanced
<1> QED
  BY <1>8, <1>9 DEF LinksBalance

\* The links of the inode of a call, and of the others.
LEMMA ModifyBalance ==
    ASSUME Counted, CallsAreRight, LocksApart, Unique, Unique', SlotsAreRight, LinksBalance,
           NEW t \in Task, Kinds(t), OthersSame(t), imap' = imap,
           pc[t] \in {"igot", "add", "linked"}, pc'[t] = "iput",
           NEW s, s = op[t].inode, NEW n, n = inode[s].num
    PROVE  /\ s \in Slot /\ n # 0 /\ n \in imap /\ n \in Num
           /\ LinksOf(n) = inode[s].nlinks /\ inode[s].nlinks \in Nat
           /\ LinksOf(n)' = inode'[s].nlinks
           /\ LinksOf(n) + Cardinality(Early(n)) = Cardinality(EntriesOf(n))
                                                      + Cardinality(Pending(n))
           /\ \A m \in Num \ {n} : EntriesOf(m)' = EntriesOf(m) => Balanced(m)'
<1>1. s \in Slot /\ n # 0 /\ ~BeingRead(s) /\ pc[t] \in WithInode
  BY RefsOf, UserReads DEF WithInode, CallsAreRight, CallRight
<1>2. n \in imap /\ n \in Num /\ Balanced(n)
  BY <1>1 DEF SlotsAreRight, SlotRight, Counted, TypeOK, LinksBalance
<1>3. LinksOf(n) = inode[s].nlinks
  BY <1>1, LinksAt DEF LinksInTable
<1>4. LinksOf(n) \in Nat
  BY <1>2, LinksTyped DEF LinksInRange, Counted
<1>5. inode'[s].num = n
  BY <1>1, OwnSlot DEF CallsAreRight, Kinds
<1>6. LinksOf(n)' = inode'[s].nlinks
  <2>1. ~BeingRead(s)'
    BY <1>1, ReadersStep DEF ReadIn
  <2>2. LinksInTable'
    BY LinksAt, PTL
  <2> QED
    BY <1>1, <1>5, <2>1, <2>2 DEF LinksInTable
<1>7. ASSUME NEW m \in Num \ {n}, EntriesOf(m)' = EntriesOf(m) PROVE Balanced(m)'
  <2>1. Balanced(m)
    BY DEF LinksBalance
  <2>2. CASE m \in imap
    <3>1. LinksOf(m)' = LinksOf(m)
      BY <2>2, LinksKept DEF Modifies
    <3>2. ~IsEarly(t, m) /\ ~IsPending(t, m) /\ ~IsEarly(t, m)' /\ ~IsPending(t, m)'
      BY DEF IsEarly, IsPending
    <3>3. Cardinality(Early(m)') = Cardinality(Early(m))
          /\ Cardinality(Pending(m)') = Cardinality(Pending(m))
      BY <3>2, TaskSets
    <3> QED
      BY <1>7, <2>1, <2>2, <3>1, <3>3 DEF Balanced
  <2>3. CASE m \notin imap
    BY <1>7, <2>1, <2>3 DEF Balanced
  <2> QED
    BY <2>2, <2>3
<1>8. LinksOf(n) + Cardinality(Early(n)) = Cardinality(EntriesOf(n)) + Cardinality(Pending(n))
  BY <1>2 DEF Balanced
<1> QED
  BY <1>1, <1>2, <1>3, <1>4, <1>6, <1>7, <1>8

LEMMA DirectoryFullBalance ==
    ASSUME Counted, CallsAreRight, LocksApart, Unique, Unique', SlotsAreRight, LinksBalance,
           NEW t \in Task, Kinds(t), OthersSame(t), DirectoryFull(t), op[t].what = "creat"
    PROVE  LinksBalance'
<1> SUFFICES ASSUME NEW s, s = op[t].inode, NEW n, n = inode[s].num PROVE LinksBalance'
  OBVIOUS
<1>1. /\ pc[t] = "add" /\ pc'[t] = "iput" /\ dir' = dir /\ imap' = imap
      /\ inode' = [inode EXCEPT ![s] = [inode[s] EXCEPT !.nlinks = OneLess(inode[s].nlinks)]]
  <2>1. op[t].inode \in Slot
    BY RefsOf DEF DirectoryFull, Resumes, WithInode
  <2> QED
    BY <2>1 DEF DirectoryFull, Resumes, GoesOn, GoTo, Counted, TypeOK
<1>2. /\ s \in Slot /\ n # 0 /\ n \in imap /\ n \in Num
      /\ LinksOf(n) = inode[s].nlinks /\ inode[s].nlinks \in Nat
      /\ LinksOf(n)' = inode'[s].nlinks
      /\ LinksOf(n) + Cardinality(Early(n)) = Cardinality(EntriesOf(n)) + Cardinality(Pending(n))
      /\ \A m \in Num \ {n} : EntriesOf(m)' = EntriesOf(m) => Balanced(m)'
  BY <1>1, ModifyBalance
<1>3. inode[s].nlinks = 1
  BY <1>1 DEF CallsAreRight, CallRight, Fresh
<1>4. inode'[s].nlinks = 0
  <2>1. inode'[s] = [inode[s] EXCEPT !.nlinks = OneLess(inode[s].nlinks)] /\ inode[s] \in MInode
    BY <1>1, <1>2 DEF Counted, TypeOK
  <2>2. OneLess(1) = 0 /\ 0 \in Links
    BY DEF OneLess, Links
  <2> QED
    BY <1>3, <2>1, <2>2, InodeFields
<1>5. \A m : EntriesOf(m)' = EntriesOf(m)
  BY <1>1 DEF EntriesOf
<1>6. Balanced(n)'
  <2>1. IsPending(t, n) /\ ~IsPending(t, n)' /\ ~IsEarly(t, n) /\ ~IsEarly(t, n)'
    BY <1>1 DEF IsPending, IsEarly
  <2>2. /\ Cardinality(Early(n)) \in Nat /\ Cardinality(Pending(n)) \in Nat
        /\ Cardinality(Early(n)') = Cardinality(Early(n))
        /\ Cardinality(Pending(n)') = Cardinality(Pending(n)) - 1
    BY <2>1, TaskSets
  <2>3. Cardinality(EntriesOf(n)) \in Nat
    BY EntriesFinite
  <2>4. LinksOf(n)' + Cardinality(Early(n)') = Cardinality(EntriesOf(n)') + Cardinality(Pending(n)')
    BY <1>2, <1>3, <1>4, <1>5, <2>2, <2>3
  <2> QED
    BY <1>1, <1>2, <2>4 DEF Balanced
<1> QED
  BY <1>2, <1>5, <1>6 DEF LinksBalance

LEMMA LinkNumbers ==
    \A k \in Links : OneMore(k) \in Links /\ (k # 0 => k - 1 \in Links)
BY DEF Links, OneMore

\* i_nlinks does not wrap: the names for an inode are entries of one directory.
LEMMA LinkCountsBalance ==
    ASSUME Counted, CallsAreRight, LocksApart, Unique, Unique', SlotsAreRight, LinksBalance,
           NEW t \in Task, Kinds(t), OthersSame(t), LinkCounts(t), NR_ENTRY <= 255
    PROVE  LinksBalance'
<1> SUFFICES ASSUME NEW s, s = op[t].inode, NEW n, n = inode[s].num PROVE LinksBalance'
  OBVIOUS
<1>0. s \in Slot /\ inode[s] \in MInode /\ Refs(t, s) # 0
  BY RefsOf DEF LinkCounts, Resumes, WithInode, Counted, TypeOK
<1>1. /\ pc[t] = "linked" /\ pc'[t] = "iput" /\ dir' = dir /\ imap' = imap
      /\ inode'[s].nlinks = OneMore(inode[s].nlinks)
  <2> DEFINE i == [inode[s] EXCEPT !.nlinks = OneMore(inode[s].nlinks)]
  <2>1. inode' = [inode EXCEPT ![s] = [i EXCEPT !.dirt = TRUE]]
    BY <1>0 DEF LinkCounts, Counted, TypeOK
  <2>2. OneMore(inode[s].nlinks) \in Links
    <3>1. inode[s].nlinks \in Links
      BY <1>0 DEF MInode
    <3> QED
      BY <3>1, LinkNumbers
  <2>3. i \in MInode /\ i.nlinks = OneMore(inode[s].nlinks)
    BY <1>0, <2>2, InodeFields
  <2> HIDE DEF i
  <2>4. [i EXCEPT !.dirt = TRUE].nlinks = i.nlinks
    BY <2>3, InodeFields
  <2>5. inode'[s].nlinks = OneMore(inode[s].nlinks)
    BY <1>0, <2>1, <2>3, <2>4 DEF Counted, TypeOK
  <2> QED
    BY <2>5 DEF LinkCounts, Resumes, GoesOn, GoTo, Counted, TypeOK
<1>2. /\ s \in Slot /\ n # 0 /\ n \in imap /\ n \in Num
      /\ LinksOf(n) = inode[s].nlinks /\ inode[s].nlinks \in Nat
      /\ LinksOf(n)' = inode'[s].nlinks
      /\ LinksOf(n) + Cardinality(Early(n)) = Cardinality(EntriesOf(n)) + Cardinality(Pending(n))
      /\ \A m \in Num \ {n} : EntriesOf(m)' = EntriesOf(m) => Balanced(m)'
  BY <1>1, ModifyBalance
<1>3. \A m : EntriesOf(m)' = EntriesOf(m)
  BY <1>1 DEF EntriesOf
<1>4. IsEarly(t, n) /\ ~IsEarly(t, n)' /\ ~IsPending(t, n) /\ ~IsPending(t, n)'
  BY <1>1 DEF IsPending, IsEarly
<1>5. /\ Cardinality(Early(n)) \in Nat /\ Cardinality(Pending(n)) \in Nat
      /\ Cardinality(Early(n)') \in Nat
      /\ Cardinality(Early(n)') = Cardinality(Early(n)) - 1
      /\ Cardinality(Pending(n)') = Cardinality(Pending(n))
  BY <1>4, TaskSets
<1>6. Cardinality(Pending(n)) = 0
  <2>1. ASSUME NEW u \in Pending(n) PROVE FALSE
    <3>1. u \in Task /\ pc[u] = "add" /\ op[u].what = "creat" /\ inode[op[u].inode].num = n
      BY DEF Pending
    <3>2. op[u].inode \in Slot /\ Refs(u, op[u].inode) # 0 /\ inode[op[u].inode].count = 1
      BY <3>1, RefsOf DEF CallsAreRight, CallRight, Fresh, WithInode
    <3>3. op[u].inode = s
      BY <1>2, <3>1, <3>2 DEF Unique
    <3> QED
      BY <1>0, <1>1, <3>1, <3>2, <3>3, SoleOwner
  <2>2. Pending(n) = {}
    BY <2>1
  <2> QED
    BY <2>2, FS_EmptySet
<1>7. Cardinality(EntriesOf(n)) \in Nat /\ Cardinality(EntriesOf(n)) <= 255
  <2>1. Cardinality(EntriesOf(n)) \in Nat /\ Cardinality(EntriesOf(n)) <= NR_ENTRY /\ NR_ENTRY \in Nat
    BY EntriesFinite, InodeAssumption
  <2> QED
    BY <2>1
<1>8. inode[s].nlinks < 255
  BY <1>2, <1>5, <1>6, <1>7
<1>9. inode'[s].nlinks = inode[s].nlinks + 1
  BY <1>1, <1>2, <1>8 DEF OneMore
<1>10. Balanced(n)'
  <2>1. LinksOf(n)' + Cardinality(Early(n)') = Cardinality(EntriesOf(n)') + Cardinality(Pending(n)')
    BY <1>2, <1>3, <1>5, <1>7, <1>9
  <2> QED
    BY <1>1, <1>2, <2>1 DEF Balanced
<1> QED
  BY <1>2, <1>3, <1>10 DEF LinksBalance

LEMMA UnlinkBalance ==
    ASSUME Counted, CallsAreRight, LocksApart, Unique, Unique', SlotsAreRight, LinksBalance,
           NEW t \in Task, Kinds(t), OthersSame(t), Unlink(t), ~raced'
    PROVE  LinksBalance'
<1> SUFFICES ASSUME NEW s, s = op[t].inode, NEW n, n = inode[s].num, NEW e, e = op[t].entry
             PROVE  LinksBalance'
  OBVIOUS
<1>0. s \in Slot /\ inode[s] \in MInode /\ pc[t] = "igot" /\ op[t].what = "unlink"
  BY RefsOf DEF Unlink, In, WithInode, Counted, TypeOK
<1>1. /\ pc'[t] = "iput" /\ imap' = imap
      /\ dir' = [dir EXCEPT ![e] = [name |-> NoName, num |-> 0]]
      /\ inode[s].nlinks # 0 /\ dir[e].num = op[t].nr
  BY DEF Unlink, GoesOn, GoTo, Counted, TypeOK
<1>2. /\ s \in Slot /\ n # 0 /\ n \in imap /\ n \in Num
      /\ LinksOf(n) = inode[s].nlinks /\ inode[s].nlinks \in Nat
      /\ LinksOf(n)' = inode'[s].nlinks
      /\ LinksOf(n) + Cardinality(Early(n)) = Cardinality(EntriesOf(n)) + Cardinality(Pending(n))
      /\ \A m \in Num \ {n} : EntriesOf(m)' = EntriesOf(m) => Balanced(m)'
  BY <1>0, <1>1, ModifyBalance
<1>3. inode'[s].nlinks = inode[s].nlinks - 1
  <2> DEFINE i == [inode[s] EXCEPT !.nlinks = inode[s].nlinks - 1]
  <2>1. inode' = [inode EXCEPT ![s] = [i EXCEPT !.dirt = TRUE]]
    BY <1>0, <1>1 DEF Unlink, Counted, TypeOK
  <2>2. inode[s].nlinks - 1 \in Links
    <3>1. inode[s].nlinks \in Links
      BY <1>0 DEF MInode
    <3> QED
      BY <1>1, <3>1, LinkNumbers
  <2>3. i \in MInode /\ i.nlinks = inode[s].nlinks - 1
    BY <1>0, <2>2, InodeFields
  <2> HIDE DEF i
  <2>4. [i EXCEPT !.dirt = TRUE].nlinks = i.nlinks
    BY <2>3, InodeFields
  <2> QED
    BY <1>0, <2>1, <2>3, <2>4 DEF Counted, TypeOK
<1>4. e \in Entry /\ dir[e].num = n
  <2>1. Local(t) /\ CallRight(t)
    BY DEF Counted, Locals, CallsAreRight
  <2>2. e \in Entry
    BY <1>0, <2>1 DEF Local, WantsInode
  <2>3. inode[s].num = op[t].nr
    BY <1>0, <2>1 DEF CallRight
  <2> QED
    BY <1>1, <2>2, <2>3
<1>5. \A f \in Entry : dir'[f].num = IF f = e THEN 0 ELSE dir[f].num
  BY <1>1, <1>4 DEF Counted, TypeOK
<1>6. /\ EntriesOf(n)' = EntriesOf(n) \ {e} /\ e \in EntriesOf(n)
      /\ \A m \in Num \ {n} : EntriesOf(m)' = EntriesOf(m)
  BY <1>2, <1>4, <1>5, EmptyFields DEF EntriesOf
<1>7. Cardinality(EntriesOf(n)) \in Nat
      /\ Cardinality(EntriesOf(n)') = Cardinality(EntriesOf(n)) - 1
  <2>1. IsFiniteSet(EntriesOf(n)) /\ Cardinality(EntriesOf(n)) \in Nat
    BY EntriesFinite
  <2>2. Cardinality(EntriesOf(n) \ {e}) = Cardinality(EntriesOf(n)) - 1
    BY <1>6, <2>1, FS_RemoveElement
  <2> QED
    BY <1>6, <2>1, <2>2
<1>8. Balanced(n)'
  <2>1. ~IsPending(t, n) /\ ~IsPending(t, n)' /\ ~IsEarly(t, n) /\ ~IsEarly(t, n)'
    BY <1>0, <1>1 DEF IsPending, IsEarly
  <2>2. /\ Cardinality(Early(n)) \in Nat /\ Cardinality(Pending(n)) \in Nat
        /\ Cardinality(Early(n)') = Cardinality(Early(n))
        /\ Cardinality(Pending(n)') = Cardinality(Pending(n))
    BY <2>1, TaskSets
  <2>3. LinksOf(n)' + Cardinality(Early(n)') = Cardinality(EntriesOf(n)') + Cardinality(Pending(n)')
    BY <1>2, <1>3, <1>7, <2>2
  <2> QED
    BY <1>1, <1>2, <2>3 DEF Balanced
<1> QED
  BY <1>2, <1>6, <1>8 DEF LinksBalance

-----------------------------------------------------------------------------
LEMMA LinksStep ==
    ASSUME Counted, Counted', Peaceful, Unique', NEW t \in Task, Step(t), Kinds(t), OwnStep(t),
           OthersSame(t), ~raced', NR_ENTRY <= 255
    PROVE  LinksBalance'
<1>1. CASE NewInode(t) /\ imap # Num
  BY <1>1, NewInodeBalance DEF Peaceful
<1>2. CASE AddEntry(t)
  BY <1>2, AddEntryBalance DEF Peaceful
<1>3. CASE DirectoryFull(t) /\ op[t].what = "creat"
  BY <1>3, DirectoryFullBalance DEF Peaceful
<1>4. CASE LinkCounts(t)
  BY <1>4, LinkCountsBalance DEF Peaceful
<1>5. CASE Unlink(t)
  BY <1>5, UnlinkBalance DEF Peaceful
<1>6. CASE /\ ~(NewInode(t) /\ imap # Num) /\ ~AddEntry(t)
           /\ ~(DirectoryFull(t) /\ op[t].what = "creat") /\ ~LinkCounts(t) /\ ~Unlink(t)
  <2>1. Quiet(t)
    BY <1>6, QuietSteps
  <2> QED
    BY <2>1, QuietBalance DEF Peaceful
<1> QED
  BY <1>1, <1>2, <1>3, <1>4, <1>5, <1>6

LEMMA PeacefulStep ==
    ASSUME Counted, Counted', Peaceful, NEW t \in Task, Step(t), ~raced', NR_ENTRY <= 255
    PROVE  Peaceful'
<1>1. /\ Kinds(t) /\ OwnStep(t) /\ DirStep(t) /\ OthersSame(t)
  <2>1. CallRight(t)
    BY DEF Peaceful, CallsAreRight
  <2>2. Right(t)
    BY StepsRight
  <2> QED
    BY <2>1, <2>2, StepKinds, OwnSteps, StepDir DEF Right, Moves
<1>2. CallsAreRight'
  <2>1. CallRight(t)'
    BY <1>1, OwnCall DEF Peaceful
  <2>2. ASSUME NEW u \in Task \ {t} PROVE CallRight(u)'
    BY <1>1, OtherCall DEF Peaceful
  <2> QED
    BY <2>1, <2>2 DEF CallsAreRight
<1>3. LocksApart'
  BY <1>1, LocksApartStep DEF Peaceful
<1>4. Unique'
  BY <1>1, UniqueStep DEF Peaceful
<1>5. SlotsAreRight'
  <2>1. ASSUME NEW s \in Slot PROVE SlotRight(s)'
    BY <1>1, SlotStep DEF Peaceful
  <2> QED
    BY <2>1 DEF SlotsAreRight
<1>6. LinksBalance'
  BY <1>1, <1>4, LinksStep
<1>7. panicked' \in {"no", "No free inodes in mem"}
  BY PanicStep DEF Peaceful, CallsAreRight
<1> QED
  BY <1>2, <1>3, <1>4, <1>5, <1>6, <1>7 DEF Peaceful

LEMMA PeacefulInit == Init => Peaceful
<1> SUFFICES ASSUME Init PROVE Peaceful
  OBVIOUS
<1> USE DEF Init
<1>1. \A s \in Slot : inode[s].num = 0 /\ ~inode[s].lock /\ ~inode[s].dirt
  BY EmptyFields
<1>2. CallsAreRight /\ LocksApart
  BY DEF CallsAreRight, CallRight, LooksUp, WithInode, LocksApart, LockedBy
<1>3. Unique /\ SlotsAreRight
  BY <1>1 DEF Unique, SlotsAreRight, SlotRight
<1>4. ASSUME NEW n \in Num PROVE Balanced(n)
  <2>1. LinksOf(n) = disk[n]
    BY <1>1, LinksAway, EmptyFields DEF LinksOnDisk, InTable
  <2>2. Early(n) = {} /\ Pending(n) = {}
    BY DEF Early, Pending
  <2>3. Cardinality(Early(n)) = 0 /\ Cardinality(Pending(n)) = 0
    BY <2>2, FS_EmptySet
  <2>4. \A e \in Entry : dir[e].num = IF e = 1 THEN 1 ELSE 0
    OBVIOUS
  <2>5. CASE n = 1
    <3>1. 1 \in Entry
      BY InodeAssumption DEF Entry
    <3>2. EntriesOf(n) = {1}
      BY <2>4, <2>5, <3>1 DEF EntriesOf
    <3>3. Cardinality(EntriesOf(n)) = 1
      BY <3>2, FS_Singleton
    <3> QED
      BY <2>1, <2>3, <2>5, <3>3 DEF Balanced
  <2>6. CASE n # 1
    <3>1. EntriesOf(n) = {}
      BY <2>4, <2>6, EmptyFields DEF EntriesOf
    <3> QED
      BY <2>6, <3>1, FS_EmptySet DEF Balanced
  <2> QED
    BY <2>5, <2>6
<1> QED
  BY <1>2, <1>3, <1>4 DEF Peaceful, LinksBalance

\* A race is never forgotten.
LEMMA RacedStays ==
    ASSUME NEW t, Step(t), ~raced'
    PROVE  ~raced
<1>1. CASE SleepOnInode(t) \/ Gets(t)
  BY <1>1 DEF SleepOnInode, Gets, TakeEmpty, NoneEmpty, ReadStarts, ReadEnds, FoundInTable,
              TakeFound, Panic
<1>2. CASE PutsInode(t)
  BY <1>2 DEF PutsInode, PutDown, PutWrites, PutWritten, PutTruncates, FreeInode, PutPanics, Panic
<1>3. CASE Names(t)
  BY <1>3 DEF Names, FindEntry, NoEntryFound, NewInode, AddEntry, DirectoryFull, OpenDone,
              LinkFinds, LinkAdds, LinkCounts, Unlink
<1>4. CASE Syncs(t)
  BY <1>4 DEF Syncs, SyncSkips, SyncWrites, SyncWritten
<1>5. CASE Calls(t)
  BY <1>5 DEF Calls, OpenCall, UnlinkCall, LinkCall, CloseCall, SyncCall, Call
<1> QED
  BY <1>1, <1>2, <1>3, <1>4, <1>5 DEF Step

IInv == Counted /\ (~raced => Peaceful)

LEMMA IInvNext ==
    ASSUME NR_ENTRY <= 255
    PROVE  IInv /\ [Next]_vars => IInv'
<1> SUFFICES ASSUME IInv, [Next]_vars, ~raced' PROVE Peaceful'
  BY CountedNext DEF IInv
<1>1. Counted /\ Counted'
  BY CountedNext DEF IInv
<1>2. CASE UNCHANGED vars
  <2>1. Peaceful
    BY <1>2 DEF vars, IInv
  <2>2. CallsAreRight' /\ LocksApart'
    BY <1>2, <2>1 DEF vars, Peaceful, CallsAreRight, CallRight, WantsInode, Fresh, LocksApart, LockedBy
  <2>3. Unique' /\ SlotsAreRight'
    BY <1>2, <2>1 DEF vars, Peaceful, Unique, SlotsAreRight, SlotRight, BeingRead
  <2>4. LinksBalance'
    <3>1. ASSUME NEW n \in Num PROVE Balanced(n)'
      <4>1. inode' = inode /\ imap' = imap /\ disk' = disk /\ dir' = dir /\ pc' = pc /\ op' = op
        BY <1>2 DEF vars
      <4>2. LinksOf(n)' = LinksOf(n)
        BY <4>1 DEF LinksOf, InTable, BeingRead
      <4>3. Early(n)' = Early(n) /\ Pending(n)' = Pending(n) /\ EntriesOf(n)' = EntriesOf(n)
        BY <4>1 DEF Early, Pending, EntriesOf
      <4>4. Balanced(n)
        BY <2>1 DEF Peaceful, LinksBalance
      <4> QED
        BY <4>1, <4>2, <4>3, <4>4 DEF Balanced
    <3> QED
      BY <3>1 DEF LinksBalance
  <2> QED
    BY <1>2, <2>1, <2>2, <2>3, <2>4 DEF vars, Peaceful
<1>3. ASSUME NEW t \in Task, Step(t) PROVE Peaceful'
  BY <1>1, <1>3, RacedStays, PeacefulStep DEF IInv
<1> QED
  BY <1>2, <1>3 DEF Next

LEMMA SpecIInv ==
    ASSUME NR_ENTRY <= 255
    PROVE  Spec => []IInv
<1>1. Init => IInv
  BY CountedInit, PeacefulInit DEF IInv
<1> QED
  BY <1>1, IInvNext, PTL DEF Spec

\* Tasks that ask for an inode at the same time share its slot: iget may sleep in
\* get_empty_inode, while it waits for a lock and in read_inode.  (255 names are what
\* i_nlinks can count; an inode with names and no links would be freed under its user.)
THEOREM InodesHaveOneSlot ==
    ASSUME NR_ENTRY <= 255
    PROVE  Spec => []OneSlotPerInode
<1>1. IInv => OneSlotPerInode
  BY DEF IInv, Peaceful, Unique, OneSlotPerInode
<1> QED
  BY <1>1, SpecIInv, PTL

\* i_nlinks is the number of names, wherever the inode is, but for the names that
\* creat and link are about to make or to count.  (A byte counts no more than 255.)
THEOREM LinksCountNames ==
    ASSUME NR_ENTRY <= 255
    PROVE  Spec => []LinksAreNames
<1>1. IInv => LinksAreNames
  BY DEF IInv, Peaceful, LinksBalance, Balanced, EntriesOf, LinksAreNames
<1> QED
  BY <1>1, SpecIInv, PTL

\* Neither iput nor free_inode finds what it panics at: the only panic is that of
\* get_empty_inode with all inodes in use.  (With 256 names i_nlinks is 0, and free_inode
\* is called for an inode that has names.)
THEOREM OnlyFullTablePanics ==
    ASSUME NR_ENTRY <= 255
    PROVE  Spec => []PanicsWhenFullOnly
<1>1. IInv => PanicsWhenFullOnly
  BY DEF IInv, Peaceful, PanicsWhenFullOnly
<1> QED
  BY <1>1, SpecIInv, PTL
=============================================================================
