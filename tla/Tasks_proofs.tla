---------------------------- MODULE Tasks_proofs ----------------------------
(***************************************************************************)
(* Proofs about what tasks do to each other: in the task table (Process),   *)
(* at the locks their system calls sleep on (SleepLock), and in the blocks  *)
(* of files (Zones).  The three specifications share no constant and no     *)
(* variable; each theorem is about one of them.                             *)
(*                                                                         *)
(* Process, for any number of slots and pids, and any signals that the      *)
(* programs send, catch and block.  The inductive invariant, Sound, speaks  *)
(* of a table of task structs rather than of the variable: an action makes  *)
(* one, hands it to schedule(), and schedule() keeps it sound.  Most        *)
(* actions keep what Alike compares, and the lemma AlikeSound is their      *)
(* proof; fork, exit, the end of exit, the sleep in waitpid and the release *)
(* of a zombie have a lemma each.                                           *)
(*                                                                         *)
(* SleepLock, for any number of tasks and objects.  MutualExclusion is      *)
(* inductive together with LockTypeOK: the flag says whether there is a     *)
(* holder, so a task that finds it clear finds no holder.  What the wait    *)
(* queues do plays no part in it, only that a task that resumes in sleep_on *)
(* tests the flag again.  The last theorem is about the queues, and holds   *)
(* for objects with at most two users.                                      *)
(*                                                                         *)
(* Zones, for any number of tasks and files, trees of any shape and depth,  *)
(* and devices of any size.  While nothing has gone wrong, the invariant is *)
(* ZonesRight: the locals of each call have the shape its label allows and  *)
(* agree with the tree of its file, and no two numbers are one block.  Once *)
(* something has, two calls still overlap, and the model stops.  The tree   *)
(* is a function, T[f][p] = BlockAt(f, p): the fold in BlockAt is unrolled  *)
(* into the block at each path from the one at the path before, and every   *)
(* step is then what it makes of T and of its own call, against every other *)
(* call.                                                                    *)
(***************************************************************************)
EXTENDS Process, SleepLock, Zones, FiniteSetTheorems, FunctionTheorems, SequenceTheorems,
        NaturalsInduction, WellFoundedInduction, TLAPS

Tables == [Slot -> TaskStruct \cup {NULL}]

\* A zombie has been through do_exit, and nobody is his own father.
ZombiesAreDying(T) == \A s \in In(T) : T[s].state = ZOMBIE => Dying(T[s])
NobodysOwnFather(T) == \A s \in In(T) : T[s].father # T[s].pid

DistinctPids(T) == \A s, r \in In(T) : T[s].pid = T[r].pid => s = r

HaveFathers(T) ==
    \A s \in In(T) \ {Init1} :
        \E f \in In(T) : T[f].pid = T[s].father /\ ~Dying(T[f])

Waits(t) == t.state = INTERRUPTIBLE /\ t.at = "wait"

AreTold(T) ==
    \A s \in In(T) : Waits(T[s]) /\ Zombies(T, Children(T, s)) # {}
                        => SIGCHLD \in T[s].signal

\* Init hears of its children only, and nothing makes it exit.
IsInit(t) == /\ t # NULL /\ t.pid = 1 /\ t.father = 0
             /\ t.signal \subseteq {SIGCHLD} /\ ~t.alarm
             /\ t.at \in {"user", "ret", "wait"}
             /\ t.state \in {RUNNING, INTERRUPTIBLE}

Sound(T) == /\ T \in Tables
            /\ IsInit(T[Init1])
            /\ ZombiesAreDying(T)
            /\ NobodysOwnFather(T)
            /\ DistinctPids(T)
            /\ HaveFathers(T)
            /\ AreTold(T)

RunnerRuns == /\ current \in Slot \cup {0}
              /\ current # 0 => task[current] # NULL /\ task[current].state = RUNNING

IInv == /\ Sound(task)
        /\ RunnerRuns
        /\ last_pid \in Pid
        /\ shell \in Pid \cup {0}
        /\ IdleOwesNobody

-----------------------------------------------------------------------------
(***************************************************************************)
(* Least and greatest elements, and a pid for a new task.                   *)
(***************************************************************************)
LEMMA HasLeast ==
    ASSUME NEW S, S \subseteq Nat, S # {}
    PROVE  \E x \in S : \A y \in S : x <= y
<1> DEFINE R == {ss \in Nat \X Nat : ss[1] < ss[2]}
<1>1. IsWellFoundedOn(R, Nat)
  BY NatLessThanWellFounded DEF OpToRel
<1>2. PICK x \in S : \A y \in S : ~(<<y, x>> \in R)
  BY <1>1, WFMin
<1>3. ASSUME NEW y \in S PROVE x <= y
  <2>1. ~(<<y, x>> \in R)
    BY <1>2
  <2>2. <<y, x>> \in Nat \X Nat
    OBVIOUS
  <2>3. ~(y < x)
    BY <2>1, <2>2
  <2> QED
    BY <2>3
<1> QED
  BY <1>3

LEMMA HasGreatest ==
    ASSUME NEW S, S \subseteq Nat, S # {}, NEW n \in Nat, \A x \in S : x <= n
    PROVE  \E x \in S : \A y \in S : x >= y
<1> DEFINE D == {d \in Nat : n - d \in S}
<1>1. PICK d \in D : \A e \in D : d <= e
  <2>1. PICK x \in S : TRUE
    OBVIOUS
  <2>2. n - x \in D
    BY <2>1
  <2> QED
    BY <2>2, HasLeast
<1>2. \A y \in S : n - y \in D
  OBVIOUS
<1>3. n - d \in S
  OBVIOUS
<1>4. \A y \in S : n - d >= y
  BY <1>1, <1>2, <1>3
<1> QED
  BY <1>3, <1>4

LEMMA MinMember ==
    ASSUME NEW S, S \subseteq Nat, S # {}
    PROVE  Min(S) \in S
BY HasLeast DEF Min

LEMMA MaxMember ==
    ASSUME NEW S, S \subseteq Slot, S # {}
    PROVE  Max(S) \in S
<1>1. NR_TASKS - 1 \in Nat /\ S \subseteq Nat /\ \A x \in S : x <= NR_TASKS - 1
  BY ProcessAssumption DEF Slot
<1> QED
  BY <1>1, HasGreatest DEF Max

\* There are more pids than slots, so one is free.
LEMMA APidIsFree ==
    ASSUME Sound(task) PROVE \E p \in Pid : FreePid(p)
<1> SUFFICES ASSUME \A p \in Pid : WithPid(task, p) # {} PROVE FALSE
  BY DEF FreePid
<1> DEFINE who == [p \in Pid |-> CHOOSE s \in In(task) : task[s].pid = p]
<1>1. \A p \in Pid : who[p] \in In(task) /\ task[who[p]].pid = p
  BY DEF WithPid
<1>2. who \in [Pid -> Slot]
  BY <1>1 DEF In
<1>3. IsFiniteSet(Slot) /\ Cardinality(Slot) = NR_TASKS - 1
  BY FS_Interval, ProcessAssumption DEF Slot
<1>4. IsFiniteSet(Pid) /\ Cardinality(Pid) = MaxPid
  BY FS_Interval, ProcessAssumption DEF Pid
<1>5. Cardinality(Slot) < Cardinality(Pid)
  BY <1>3, <1>4, ProcessAssumption
<1>6. \E p, q \in Pid : p # q /\ who[p] = who[q]
  <2> HIDE DEF who
  <2> QED
    BY <1>2, <1>3, <1>4, <1>5, FS_PigeonHole
<1> QED
  BY <1>1, <1>6

LEMMA NextPidIsFree ==
    ASSUME Sound(task), last_pid \in Pid PROVE NextPid \in Pid /\ FreePid(NextPid)
<1> DEFINE distance(p) == (p + MaxPid - last_pid - 1) % MaxPid
           free == {p \in Pid : FreePid(p)}
           D == {distance(p) : p \in free}
<1>1. \A p \in Pid : distance(p) \in Nat
  BY ProcessAssumption DEF Pid
<1>2. D # {} /\ D \subseteq Nat
  BY <1>1, APidIsFree
<1>3. PICK d \in D : \A e \in D : d <= e
  <2> HIDE DEF D
  <2> QED
    BY <1>2, HasLeast
<1>4. \E p \in free : \A q \in free : distance(p) <= distance(q)
  <2>1. PICK p \in free : d = distance(p)
    OBVIOUS
  <2> HIDE DEF distance
  <2> QED
    BY <1>3, <2>1
<1>5. NextPid = CHOOSE p \in Pid : /\ FreePid(p)
                                  /\ \A q \in Pid : FreePid(q) => distance(p) <= distance(q)
  BY DEF NextPid
<1> HIDE DEF distance
<1> QED
  BY <1>4, <1>5

-----------------------------------------------------------------------------
(***************************************************************************)
(* What most of the kernel does to a task struct leaves the family alone,   *)
(* and starts no wait and takes no SIGCHLD from one.                        *)
(***************************************************************************)
Alike(t, u) == /\ u.pid = t.pid /\ u.father = t.father
               /\ Dying(u) <=> Dying(t)
               /\ u.state = ZOMBIE <=> t.state = ZOMBIE
               /\ Waits(u) => /\ Waits(t) /\ u.want = t.want
                              /\ SIGCHLD \in t.signal => SIGCHLD \in u.signal

LEMMA InitIsThere ==
    ASSUME NEW T, Sound(T)
    PROVE  Init1 \in In(T) /\ T[Init1] \in TaskStruct
<1>1. Init1 \in Slot
  BY ProcessAssumption DEF Init1, Slot
<1> QED
  BY <1>1 DEF Sound, IsInit, In, Tables

LEMMA TypedTask ==
    ASSUME NEW T \in Tables, NEW s \in In(T)
    PROVE  T[s] \in TaskStruct
BY DEF In, Tables

\* A signal arrives, an alarm runs out, a father changes.
LEMMA Signalled ==
    ASSUME NEW t \in TaskStruct, NEW sig \in Signal
    PROVE  [t EXCEPT !.signal = @ \cup {sig}] \in TaskStruct
BY DEF TaskStruct

LEMMA Expired ==
    ASSUME NEW t \in TaskStruct
    PROVE  [t EXCEPT !.signal = @ \cup {SIGALRM}, !.alarm = FALSE] \in TaskStruct
BY DEF TaskStruct, Signal

LEMMA Adopted ==
    ASSUME NEW t \in TaskStruct, 1 \in Pid
    PROVE  LET u == [t EXCEPT !.father = 1]
           IN  /\ u \in TaskStruct /\ u.father = 1 /\ u.pid = t.pid /\ u.at = t.at
               /\ u.state = t.state /\ u.signal = t.signal /\ u.want = t.want
BY DEF TaskStruct

LEMMA AlikeSound ==
    ASSUME NEW T, Sound(T), NEW U \in Tables, IsInit(U[Init1]),
           \A s \in Slot : U[s] = NULL <=> T[s] = NULL,
           \A s \in In(T) : Alike(T[s], U[s])
    PROVE  Sound(U)
<1>1. In(U) = In(T)
  BY DEF In
<1>2. ZombiesAreDying(U) /\ NobodysOwnFather(U)
  BY <1>1 DEF Sound, ZombiesAreDying, NobodysOwnFather, Alike
<1>3. DistinctPids(U)
  BY <1>1 DEF Sound, DistinctPids, Alike
<1>4. HaveFathers(U)
  BY <1>1 DEF Sound, HaveFathers, Alike
<1>5. ASSUME NEW s \in In(U), Waits(U[s]), Zombies(U, Children(U, s)) # {}
      PROVE  SIGCHLD \in U[s].signal
  <2>1. Waits(T[s]) /\ U[s].want = T[s].want
    BY <1>1, <1>5 DEF Alike
  <2>2. Zombies(U, Children(U, s)) \subseteq Zombies(T, Children(T, s))
    BY <1>1, <2>1 DEF Zombies, Children, Alike
  <2> QED
    BY <1>1, <1>5, <2>1, <2>2 DEF Sound, AreTold, Alike
<1> QED
  BY <1>2, <1>3, <1>4, <1>5 DEF Sound, AreTold

\* A signal changes nothing of this either, but no one may send init more
\* than SIGCHLD.
LEMMA SendSound ==
    ASSUME NEW T, Sound(T), NEW S, S \subseteq In(T), NEW sig \in Signal,
           Init1 \in S => sig = SIGCHLD
    PROVE  Sound(Send(T, S, sig))
<1> DEFINE U == Send(T, S, sig)
<1>1. U \in Tables
  BY DEF Sound, Send, Tables, TaskStruct, In
<1>2. \A s \in Slot : U[s] = NULL <=> T[s] = NULL
  BY NullAssumption DEF Sound, Send, Tables, TaskStruct, In
<1>3. \A s \in In(T) : Alike(T[s], U[s])
  BY DEF Sound, Send, Tables, TaskStruct, In, Alike, Waits, Dying
<1>4. IsInit(U[Init1])
  <2>1. U[Init1] # NULL
    BY <1>2, InitIsThere DEF In
  <2>2. U[Init1] = T[Init1] \/ U[Init1] = [T[Init1] EXCEPT !.signal = @ \cup {SIGCHLD}]
    BY InitIsThere DEF Send, In
  <2> QED
    BY <2>1, <2>2, InitIsThere DEF Sound, IsInit, TaskStruct
<1> QED
  BY <1>1, <1>2, <1>3, <1>4, AlikeSound

LEMMA ScheduleSound ==
    ASSUME NEW T, Sound(T), Schedule(T)
    PROVE  /\ Sound(task') /\ RunnerRuns'
           /\ In(task') = In(T)
           /\ IdleOwesNobody'
<1>1. PICK due \in SUBSET {s \in In(T) : T[s].alarm} :
        LET W     == WakeSignalled(Expire(T, due))
            ready == {s \in In(W) : W[s].state = RUNNING}
        IN  /\ task' = W
            /\ current' \in IF ready = {} THEN {0} ELSE ready
  BY DEF Schedule
<1> DEFINE E == Expire(T, due)
           W == WakeSignalled(E)
<1>2. E \in Tables /\ \A s \in Slot : E[s] = NULL <=> T[s] = NULL
  <2>1. ASSUME NEW s \in due PROVE E[s] \in TaskStruct
    <3>1. T[s] \in TaskStruct
      BY TypedTask DEF Sound
    <3>2. E[s] = [T[s] EXCEPT !.signal = @ \cup {SIGALRM}, !.alarm = FALSE]
      BY DEF Expire, In
    <3> QED
      BY <3>1, <3>2, Expired
  <2>2. \A s \in Slot \ due : E[s] = T[s]
    BY DEF Expire
  <2>3. \A s \in due : T[s] # NULL
    BY DEF In
  <2> QED
    BY <2>1, <2>2, <2>3, NullAssumption DEF Sound, Expire, Tables
<1>3. \A s \in In(T) : Alike(T[s], E[s])
  BY DEF Sound, Expire, Tables, TaskStruct, In, Alike, Waits, Dying
<1>4. IsInit(E[Init1])
  BY InitIsThere DEF Sound, Expire, IsInit, In
<1>5. Sound(E)
  BY <1>2, <1>3, <1>4, AlikeSound
<1> HIDE DEF E
<1>w. /\ W = [s \in Slot |-> W[s]]
      /\ \A s \in Slot : W[s] = IF E[s] # NULL /\ Wakes(E[s])
                                 THEN [E[s] EXCEPT !.state = RUNNING] ELSE E[s]
  BY DEF WakeSignalled
<1> HIDE DEF W
<1>6. W \in Tables /\ \A s \in Slot : W[s] = NULL <=> E[s] = NULL
  <2>1. ASSUME NEW s \in Slot
        PROVE  W[s] \in TaskStruct \cup {NULL} /\ (W[s] = NULL <=> E[s] = NULL)
    <3>1. E[s] \in TaskStruct \cup {NULL}
      BY <1>2 DEF Tables
    <3>2. CASE E[s] # NULL /\ Wakes(E[s])
      <4>1. W[s] = [E[s] EXCEPT !.state = RUNNING]
        BY <1>w, <3>2
      <4>2. W[s] \in TaskStruct
        BY <3>1, <3>2, <4>1 DEF TaskStruct
      <4> QED
        BY <3>2, <4>2, NullAssumption
    <3> QED
      BY <1>w, <3>1, <3>2
  <2> QED
    BY <1>w, <2>1 DEF Tables
<1> USE DEF W
<1>7. \A s \in In(E) : Alike(E[s], W[s])
  BY <1>2 DEF WakeSignalled, Tables, TaskStruct, In, Alike, Waits, Dying, Wakes,
              RUNNING, INTERRUPTIBLE, ZOMBIE
<1>8. IsInit(W[Init1])
  <2>1. Init1 \in Slot
    BY ProcessAssumption DEF Slot, Init1
  <2>2. E[Init1] \in TaskStruct
    BY <1>2, <1>4, <2>1 DEF Tables, IsInit
  <2>3. CASE W[Init1] = E[Init1]
    BY <1>4, <2>3
  <2>4. CASE W[Init1] = [E[Init1] EXCEPT !.state = RUNNING]
    BY <1>4, <1>6, <2>1, <2>2, <2>4 DEF IsInit, TaskStruct
  <2> QED
    BY <1>w, <2>1, <2>3, <2>4
<1> USE DEF E
<1>9. Sound(W)
  BY <1>5, <1>6, <1>7, <1>8, AlikeSound
<1>10. In(W) = In(T)
  BY <1>2, <1>6 DEF In
<1>11. RunnerRuns'
  BY <1>1 DEF RunnerRuns, In
<1>12. IdleOwesNobody'
  <2> SUFFICES ASSUME NEW s \in Slot, NEW sig \in Signal \ {SIGKILL},
                      W[s] # NULL, W[s].state = INTERRUPTIBLE,
                      sig \in W[s].signal \ W[s].blocked
               PROVE  FALSE
    BY <1>1 DEF IdleOwesNobody, SleepsWith
  <2>1. E[s] # NULL /\ E[s] \in TaskStruct
    BY <1>2, <1>6 DEF Tables
  <2>2. ~Wakes(E[s])
    BY <2>1 DEF WakeSignalled, TaskStruct, RUNNING, INTERRUPTIBLE
  <2>3. W[s] = E[s]
    BY <2>2 DEF WakeSignalled
  <2> QED
    BY <2>2, <2>3 DEF Wakes
<1> QED
  BY <1>1, <1>9, <1>10, <1>11, <1>12

-----------------------------------------------------------------------------
(***************************************************************************)
(* The steps that change the family.                                        *)
(***************************************************************************)
\* A new task has a pid that nobody has and a father that lives.
LEMMA BornSound ==
    ASSUME NEW T, Sound(T), NEW s \in In(T), ~Dying(T[s]),
           NEW c \in Slot \ In(T), NEW p \in Pid, \A r \in In(T) : T[r].pid # p
    PROVE  Sound([T EXCEPT ![c] = NewTask(p, T[s].pid, T[s].blocked, T[s].handler)])
<1> DEFINE new == NewTask(p, T[s].pid, T[s].blocked, T[s].handler)
           U   == [T EXCEPT ![c] = new]
<1>1. new \in TaskStruct
  BY TypedTask DEF Sound, NewTask, TaskStruct
<1>2. U \in Tables /\ U[c] = new /\ In(U) = In(T) \cup {c}
  BY <1>1, NullAssumption DEF Sound, Tables, In
<1>3. \A r \in In(T) : U[r] = T[r] /\ r # c
  BY DEF Sound, Tables, In
<1>4. /\ new.pid = p /\ new.father = T[s].pid /\ new.state = RUNNING
      /\ ~Dying(new) /\ ~Waits(new)
  BY DEF NewTask, Dying, Waits, RUNNING, INTERRUPTIBLE
<1>5. IsInit(U[Init1])
  BY <1>3, InitIsThere DEF Sound
<1>6. ZombiesAreDying(U) /\ NobodysOwnFather(U)
  BY <1>2, <1>3, <1>4 DEF Sound, ZombiesAreDying, NobodysOwnFather, RUNNING, ZOMBIE
<1>7. DistinctPids(U)
  BY <1>2, <1>3, <1>4 DEF Sound, DistinctPids
<1>8. ASSUME NEW r \in In(U) \ {Init1}
      PROVE  \E f \in In(U) : U[f].pid = U[r].father /\ ~Dying(U[f])
  <2>1. CASE r = c
    BY <1>2, <1>3, <1>4, <2>1
  <2>2. CASE r # c
    BY <1>2, <1>3, <2>2 DEF Sound, HaveFathers
  <2> QED
    BY <2>1, <2>2
<1>9. ASSUME NEW r \in In(U), Waits(U[r]), Zombies(U, Children(U, r)) # {}
      PROVE  SIGCHLD \in U[r].signal
  <2>1. r \in In(T)
    BY <1>2, <1>4, <1>9
  <2>2. Zombies(U, Children(U, r)) \subseteq Zombies(T, Children(T, r))
    BY <1>2, <1>3, <1>4, <2>1 DEF Zombies, Children, RUNNING, ZOMBIE
  <2> QED
    BY <1>3, <1>9, <2>1, <2>2 DEF Sound, AreTold
<1> QED
  BY <1>2, <1>5, <1>6, <1>7, <1>8, <1>9 DEF Sound, AreTold, HaveFathers

\* A task that begins to exit leaves its children to init, which hears of the
\* zombies among them.
LEMMA ExitSound ==
    ASSUME NEW T, Sound(T), NEW s \in In(T) \ {Init1}, ~Dying(T[s]), ExitBegins(T, s)
    PROVE  Sound(task') /\ In(task') = In(T) /\ task'[s].state = RUNNING
<1> DEFINE mine  == {c \in In(T) : T[c].father = T[s].pid}
           T1    == [c \in Slot |-> IF c \in mine THEN [T[c] EXCEPT !.father = 1]
                                                  ELSE T[c]]
           R     == Reparented(T, s)
           dying == [NewTask(T[s].pid, T[s].father, {}, {}) EXCEPT !.at = "exit"]
           U     == [R EXCEPT ![s] = dying]
           told  == \E c \in mine : T[c].state = ZOMBIE
<1>1. task' = U
  BY DEF ExitBegins
<1>2. R = IF told THEN Send(T1, {Init1}, SIGCHLD) ELSE T1
  BY DEF Reparented
<1>3. s \notin mine /\ Init1 \notin mine /\ 1 \in Pid /\ T[Init1].pid = 1 /\ T[s].pid # 1
  BY InitIsThere, TypedTask, ProcessAssumption
     DEF Sound, NobodysOwnFather, DistinctPids, IsInit, TaskStruct, Pid
<1>4. \A c \in Slot : T1[c] \in TaskStruct \cup {NULL} /\ (T1[c] = NULL <=> T[c] = NULL)
  <2>1. \A c \in mine : T1[c] = [T[c] EXCEPT !.father = 1] /\ T[c] \in TaskStruct
    BY TypedTask DEF Sound, In
  <2>2. \A c \in mine : T1[c] \in TaskStruct
    BY <1>3, <2>1, SMTT(40) DEF TaskStruct
  <2>3. \A c \in Slot \ mine : T1[c] = T[c]
    OBVIOUS
  <2>4. \A c \in mine : T[c] # NULL
    BY DEF In
  <2> QED
    BY <2>2, <2>3, <2>4, NullAssumption DEF Sound, Tables
<1>5. R \in Tables /\ \A c \in Slot : R[c] = NULL <=> T[c] = NULL
  <2>1. CASE ~told
    BY <1>2, <1>4, <2>1 DEF Tables
  <2>2. CASE told
    <3>1. R[Init1] \in TaskStruct
      <4>1. T1[Init1] = T[Init1]
        BY <1>3, InitIsThere DEF In
      <4>2. R[Init1] = T[Init1] \/ R[Init1] = [T[Init1] EXCEPT !.signal = @ \cup {SIGCHLD}]
        BY <1>2, <2>2, <4>1, InitIsThere DEF Send, In
      <4> QED
        BY <4>2, InitIsThere, Signalled DEF Signal
    <3>2. \A c \in Slot \ {Init1} : R[c] = T1[c]
      BY <1>2, <2>2 DEF Send
    <3>3. R = [c \in Slot |-> R[c]]
      BY <1>2, <2>2 DEF Send
    <3> QED
      BY <1>4, <3>1, <3>2, <3>3, NullAssumption, InitIsThere DEF Tables, In
  <2> QED
    BY <2>1, <2>2
<1>6. \A c \in mine \ {s} : U[c] = [T[c] EXCEPT !.father = 1]
  BY <1>2, <1>3, <1>5 DEF Send, Tables, In
<1>7. \A c \in In(T) : c \notin mine \cup {s, Init1} => U[c] = T[c]
  BY <1>2, <1>5 DEF Send, Tables, In
<1>8. U[Init1] = IF told THEN [T[Init1] EXCEPT !.signal = @ \cup {SIGCHLD}] ELSE T[Init1]
  <2>1. ~Dying(T[Init1]) /\ T1[Init1] = T[Init1]
    BY <1>3, InitIsThere DEF Sound, IsInit, Dying, In
  <2> QED
    BY <1>2, <1>5, <2>1, InitIsThere, ZenonT(60) DEF Send, Tables, In
<1>9. U[s] = dying /\ dying \in TaskStruct
  BY <1>5, TypedTask DEF Sound, In, Tables, NewTask, TaskStruct
<1>10. /\ dying.pid = T[s].pid /\ dying.father = T[s].father /\ dying.state = RUNNING
       /\ Dying(dying) /\ ~Waits(dying)
  BY DEF NewTask, Dying, Waits, RUNNING, INTERRUPTIBLE
<1>11. U \in Tables /\ In(U) = In(T)
  BY <1>5, <1>9, NullAssumption DEF Tables, In
<1> HIDE DEF R, U, T1, dying
<1>12. \A c \in mine : /\ U[c].father = 1 /\ U[c].pid = T[c].pid /\ U[c].state = T[c].state
                       /\ U[c].at = T[c].at /\ U[c].signal = T[c].signal
                       /\ U[c].want = T[c].want
  <2>1. \A c \in mine : T[c] \in TaskStruct
    BY TypedTask DEF Sound
  <2> HIDE DEF mine
  <2>2. SUFFICES ASSUME NEW c \in mine, U[c] = [T[c] EXCEPT !.father = 1],
                        T[c] \in TaskStruct
                 PROVE  /\ U[c].father = 1 /\ U[c].pid = T[c].pid
                        /\ U[c].state = T[c].state /\ U[c].at = T[c].at
                        /\ U[c].signal = T[c].signal /\ U[c].want = T[c].want
    BY <1>3, <1>6, <2>1
  <2> QED
    BY <1>3, <2>2, Adopted
<1>13. /\ U[Init1].father = 0 /\ U[Init1].pid = 1 /\ U[Init1].state = T[Init1].state
       /\ U[Init1].at = T[Init1].at /\ U[Init1].want = T[Init1].want
       /\ T[Init1].signal \subseteq U[Init1].signal
       /\ told => SIGCHLD \in U[Init1].signal
       /\ IsInit(U[Init1])
  <2>1. U[Init1] # NULL /\ IsInit(T[Init1]) /\ T[Init1] \in TaskStruct
    BY <1>11, InitIsThere DEF Sound, In
  <2>2. CASE told
    BY <1>8, <2>1, <2>2 DEF TaskStruct, IsInit
  <2>3. CASE ~told
    BY <1>8, <2>1, <2>3 DEF IsInit
  <2> QED
    BY <2>2, <2>3
<1>14. \A c \in In(T) : /\ U[c].pid = T[c].pid
                        /\ c # s => /\ U[c].at = T[c].at /\ U[c].state = T[c].state
                                    /\ U[c].want = T[c].want
                                    /\ T[c].signal \subseteq U[c].signal
                        /\ U[c].father = IF c \in mine THEN 1 ELSE T[c].father
  BY <1>3, <1>7, <1>9, <1>10, <1>12, <1>13 DEF Sound, IsInit
<1> HIDE DEF mine, told
<1>15. ZombiesAreDying(U)
  BY <1>9, <1>10, <1>11, <1>14 DEF Sound, ZombiesAreDying, Dying, RUNNING, ZOMBIE
<1>16. DistinctPids(U)
  BY <1>11, <1>14 DEF Sound, DistinctPids
<1>17. NobodysOwnFather(U)
  <2>1. \A c \in mine : T[c].pid # 1
    BY <1>3, InitIsThere DEF Sound, DistinctPids, mine
  <2> QED
    BY <1>11, <1>14, <2>1 DEF Sound, NobodysOwnFather
<1>18. ASSUME NEW c \in In(U) \ {Init1}
       PROVE  \E f \in In(U) : U[f].pid = U[c].father /\ ~Dying(U[f])
  <2>1. CASE c \in mine
    <3>1. U[Init1].pid = U[c].father /\ ~Dying(U[Init1])
      BY <1>13, <1>12, <2>1 DEF IsInit, Dying
    <3> QED
      BY <1>11, <3>1, InitIsThere
  <2>2. CASE c \notin mine
    <3>1. PICK f \in In(T) : T[f].pid = T[c].father /\ ~Dying(T[f])
      BY <1>11 DEF Sound, HaveFathers
    <3>2. f # s
      BY <1>11, <2>2, <3>1 DEF mine
    <3>3. U[f].pid = U[c].father /\ ~Dying(U[f])
      BY <1>11, <1>14, <2>2, <3>1, <3>2 DEF Dying
    <3> QED
      BY <1>11, <3>3
  <2> QED
    BY <2>1, <2>2
<1>19. ASSUME NEW r \in In(U), Waits(U[r]), NEW z \in Zombies(U, Children(U, r))
       PROVE  SIGCHLD \in U[r].signal
  <2>1. r # s /\ z # s /\ r \in In(T) /\ z \in In(T) \ {r}
    BY <1>9, <1>10, <1>11, <1>19 DEF Zombies, Children, RUNNING, ZOMBIE
  <2>2. Waits(T[r])
    BY <1>14, <1>19, <2>1 DEF Waits
  <2>3. /\ T[z].state = ZOMBIE /\ U[z].father = T[r].pid
        /\ T[r].want \in {AnyChild, T[z].pid}
    BY <1>14, <1>19, <2>1 DEF Zombies, Children
  <2>4. CASE z \in mine
    <3>1. T[r].pid = 1
      BY <1>12, <2>3, <2>4
    <3>2. r = Init1
      BY <1>3, <2>1, <3>1, InitIsThere DEF Sound, DistinctPids
    <3>3. told
      BY <2>3, <2>4 DEF told
    <3> QED
      BY <1>13, <3>2, <3>3
  <2>5. CASE z \notin mine
    <3>1. z \in Zombies(T, Children(T, r))
      BY <1>14, <2>1, <2>3, <2>5 DEF Zombies, Children
    <3>2. SIGCHLD \in T[r].signal
      BY <2>1, <2>2, <3>1 DEF Sound, AreTold
    <3> QED
      BY <1>14, <2>1, <3>2
  <2> QED
    BY <2>4, <2>5
<1>20. Sound(U)
  BY <1>11, <1>13, <1>15, <1>16, <1>17, <1>18, <1>19 DEF Sound, HaveFathers, AreTold
<1> QED
  BY <1>1, <1>9, <1>10, <1>11, <1>20

\* A task that becomes a zombie finds its father and tells him.
LEMMA DeathSound ==
    ASSUME NEW T, Sound(T), NEW s \in In(T), Dying(T[s])
    PROVE  LET U == TellFather([T EXCEPT ![s].state = ZOMBIE, ![s].at = "closed"], s)
           IN  Sound(U) /\ In(U) = In(T)
<1> DEFINE dead == [T[s] EXCEPT !.state = ZOMBIE, !.at = "closed"]
           Z    == [T EXCEPT ![s].state = ZOMBIE, ![s].at = "closed"]
           U    == TellFather(Z, s)
<1>1. dead \in TaskStruct /\ dead.pid = T[s].pid /\ dead.father = T[s].father
  BY TypedTask DEF Sound, TaskStruct
<1>2. Z = [T EXCEPT ![s] = dead]
  BY DEF Sound, Tables
<1>3. /\ Z \in Tables /\ In(Z) = In(T) /\ Z[s] = dead
      /\ \A c \in Slot \ {s} : Z[c] = T[c]
  BY <1>1, <1>2, NullAssumption DEF Sound, Tables, In
<1>4. s # Init1 /\ IsInit(Z[Init1])
  BY <1>3, InitIsThere DEF Sound, IsInit, Dying, In
<1>5. PICK f \in In(T) : T[f].pid = T[s].father /\ ~Dying(T[f])
  BY <1>4 DEF Sound, HaveFathers
<1>6. f # s /\ Z[f] = T[f]
  BY <1>3, <1>5 DEF In
<1>7. WithPid(Z, Z[s].father) = {f}
  <2>1. \A c \in In(T) : Z[c].pid = T[c].pid
    BY <1>1, <1>3 DEF In
  <2>2. \A c \in In(T) : T[c].pid = T[f].pid => c = f
    BY DEF Sound, DistinctPids
  <2>3. Z[s].father = T[f].pid
    BY <1>1, <1>3, <1>5
  <2> QED
    BY <1>3, <2>1, <2>2, <2>3 DEF WithPid
<1>8. U = Send(Z, {f}, SIGCHLD)
  BY <1>7 DEF TellFather
<1> HIDE DEF dead, Z, U
<1>9. U[f] = [T[f] EXCEPT !.signal = @ \cup {SIGCHLD}]
  BY <1>5, <1>6, <1>8 DEF Send, In
<1>10. \A c \in Slot \ {f} : U[c] = Z[c]
  BY <1>8 DEF Send
<1>11. U \in Tables /\ In(U) = In(T)
  <2>1. U[f] \in TaskStruct
    BY <1>9, TypedTask, Signalled DEF Sound, Signal
  <2> QED
    BY <1>3, <1>5, <1>8, <1>10, <2>1, NullAssumption DEF Send, Tables, In
<1>12. dead.state = ZOMBIE /\ dead.at = "closed"
  BY TypedTask DEF dead, Sound, TaskStruct
<1>13. \A c \in In(T) : /\ U[c].pid = T[c].pid /\ U[c].father = T[c].father
                        /\ U[c].want = T[c].want
                        /\ c # s => /\ U[c].at = T[c].at /\ U[c].state = T[c].state
                                    /\ T[c].signal \subseteq U[c].signal
  <2>1. ASSUME NEW c \in In(T), c # s, c # f PROVE U[c] = T[c]
    BY <1>3, <1>10, <2>1 DEF In
  <2>2. U[s] = dead
    BY <1>3, <1>6, <1>10 DEF In
  <2>3. dead.want = T[s].want
    BY TypedTask DEF dead, Sound, TaskStruct
  <2>4. T[f] \in TaskStruct
    BY TypedTask DEF Sound
  <2>5. /\ U[f].pid = T[f].pid /\ U[f].father = T[f].father /\ U[f].want = T[f].want
        /\ U[f].at = T[f].at /\ U[f].state = T[f].state
        /\ T[f].signal \subseteq U[f].signal
    BY <1>9, <2>4 DEF TaskStruct
  <2> QED
    BY <1>1, <2>1, <2>2, <2>3, <2>5
<1>14. U[s].state = ZOMBIE /\ U[s].at = "closed" /\ SIGCHLD \in U[f].signal
  <2>1. U[s] = dead
    BY <1>3, <1>6, <1>10 DEF In
  <2>2. T[f] \in TaskStruct
    BY TypedTask DEF Sound
  <2> QED
    BY <1>9, <1>12, <2>1, <2>2 DEF TaskStruct
<1>15. IsInit(U[Init1])
  <2>1. CASE f = Init1
    <3>1. U[Init1] # NULL /\ IsInit(T[Init1])
      BY <1>11, InitIsThere DEF Sound, In
    <3> QED
      BY <1>9, <2>1, <3>1, InitIsThere DEF TaskStruct, IsInit
  <2>2. CASE f # Init1
    BY <1>4, <1>10, <2>2, InitIsThere DEF In
  <2> QED
    BY <2>1, <2>2
<1>16. ZombiesAreDying(U)
  BY <1>11, <1>13, <1>14 DEF Sound, ZombiesAreDying, Dying
<1>17. DistinctPids(U) /\ NobodysOwnFather(U)
  BY <1>11, <1>13 DEF Sound, DistinctPids, NobodysOwnFather
<1>18. HaveFathers(U)
  BY <1>11, <1>13 DEF Sound, HaveFathers, Dying
<1>19. ASSUME NEW r \in In(U), Waits(U[r]), NEW z \in Zombies(U, Children(U, r))
       PROVE  SIGCHLD \in U[r].signal
  <2>1. r # s /\ r \in In(T) /\ z \in In(T) \ {r}
    BY <1>11, <1>14, <1>19 DEF Zombies, Children, Waits, INTERRUPTIBLE, ZOMBIE
  <2>2. Waits(T[r]) /\ z \in Children(T, r)
    BY <1>13, <1>19, <2>1 DEF Waits, Zombies, Children
  <2>3. CASE z = s
    <3>1. r = f
      BY <1>5, <2>1, <2>2, <2>3 DEF Children, Sound, DistinctPids
    <3> QED
      BY <1>14, <3>1
  <2>4. CASE z # s
    BY <1>13, <1>19, <2>1, <2>2, <2>4 DEF Zombies, Sound, AreTold
  <2> QED
    BY <2>3, <2>4
<1>20. Sound(U)
  BY <1>11, <1>15, <1>16, <1>17, <1>18, <1>19 DEF Sound, AreTold
<1> QED
  BY <1>11, <1>20 DEF U, Z

\* waitpid goes to sleep when it has found no zombie.
LEMMA WaitSound ==
    ASSUME NEW T, Sound(T), NEW s \in In(T), ~Dying(T[s]), T[s].state = RUNNING,
           Zombies(T, Children(T, s)) = {}
    PROVE  LET U == [T EXCEPT ![s].state = INTERRUPTIBLE, ![s].at = "wait"]
           IN  Sound(U) /\ In(U) = In(T)
<1> DEFINE asleep == [T[s] EXCEPT !.state = INTERRUPTIBLE, !.at = "wait"]
           U      == [T EXCEPT ![s].state = INTERRUPTIBLE, ![s].at = "wait"]
<1>1. /\ asleep \in TaskStruct /\ asleep.pid = T[s].pid /\ asleep.father = T[s].father
      /\ asleep.signal = T[s].signal /\ asleep.alarm = T[s].alarm
      /\ asleep.want = T[s].want /\ asleep.at = "wait" /\ asleep.state = INTERRUPTIBLE
  BY TypedTask DEF Sound, TaskStruct
<1>2. U = [T EXCEPT ![s] = asleep]
  BY DEF Sound, Tables
<1>3. /\ U \in Tables /\ In(U) = In(T) /\ U[s] = asleep
      /\ \A c \in Slot \ {s} : U[c] = T[c]
  BY <1>1, <1>2, NullAssumption DEF Sound, Tables, In
<1> HIDE DEF asleep, U
<1>4. IsInit(U[Init1])
  BY <1>1, <1>3, InitIsThere, NullAssumption DEF Sound, IsInit, In
<1>5. \A c \in In(T) : /\ U[c].pid = T[c].pid /\ U[c].father = T[c].father
                       /\ U[c].want = T[c].want /\ U[c].signal = T[c].signal
                       /\ Dying(U[c]) <=> Dying(T[c])
                       /\ U[c].state = ZOMBIE <=> T[c].state = ZOMBIE
  BY <1>1, <1>3 DEF In, Dying, RUNNING, INTERRUPTIBLE, ZOMBIE
<1>6. /\ ZombiesAreDying(U) /\ NobodysOwnFather(U) /\ DistinctPids(U) /\ HaveFathers(U)
  <2>1. ZombiesAreDying(U) /\ NobodysOwnFather(U) /\ DistinctPids(U)
    BY <1>3, <1>5 DEF Sound, ZombiesAreDying, NobodysOwnFather, DistinctPids
  <2>2. HaveFathers(U)
    BY <1>3, <1>5 DEF Sound, HaveFathers
  <2> QED
    BY <2>1, <2>2
<1>7. ASSUME NEW r \in In(U), Waits(U[r]), Zombies(U, Children(U, r)) # {}
      PROVE  SIGCHLD \in U[r].signal
  <2>1. Zombies(U, Children(U, r)) \subseteq Zombies(T, Children(T, r))
    BY <1>3, <1>5 DEF Zombies, Children
  <2>2. r # s /\ U[r] = T[r]
    BY <1>3, <1>7, <2>1 DEF In
  <2> QED
    BY <1>3, <1>7, <2>1, <2>2 DEF Sound, AreTold
<1>8. Sound(U)
  BY <1>3, <1>4, <1>6, <1>7 DEF Sound, AreTold
<1> QED
  BY <1>3, <1>8 DEF U

\* The release of a zombie: it is nobody's living father.
LEMMA ReapSound ==
    ASSUME NEW T, Sound(T), NEW z \in In(T), T[z].state = ZOMBIE
    PROVE  Sound([T EXCEPT ![z] = NULL]) /\ In([T EXCEPT ![z] = NULL]) = In(T) \ {z}
<1> DEFINE U == [T EXCEPT ![z] = NULL]
<1>1. /\ U \in Tables /\ In(U) = In(T) \ {z}
      /\ \A c \in In(U) : U[c] = T[c]
  BY DEF Sound, Tables, In
<1>2. z # Init1 /\ Dying(T[z])
  BY DEF Sound, IsInit, ZombiesAreDying, RUNNING, INTERRUPTIBLE, ZOMBIE
<1> HIDE DEF U
<1>3. IsInit(U[Init1])
  BY <1>1, <1>2, InitIsThere DEF Sound
<1>4. ZombiesAreDying(U) /\ NobodysOwnFather(U) /\ DistinctPids(U)
  BY <1>1 DEF Sound, ZombiesAreDying, NobodysOwnFather, DistinctPids
<1>5. HaveFathers(U)
  BY <1>1, <1>2 DEF Sound, HaveFathers
<1>6. ASSUME NEW r \in In(U), Waits(U[r]), Zombies(U, Children(U, r)) # {}
      PROVE  SIGCHLD \in U[r].signal
  <2>1. Zombies(U, Children(U, r)) \subseteq Zombies(T, Children(T, r))
    BY <1>1 DEF Zombies, Children
  <2> QED
    BY <1>1, <1>6, <2>1 DEF Sound, AreTold
<1>7. Sound(U)
  BY <1>1, <1>3, <1>4, <1>5, <1>6 DEF Sound, AreTold
<1> QED
  BY <1>1, <1>7 DEF U

-----------------------------------------------------------------------------
(***************************************************************************)
(* One lemma per action: the table stays sound, the processor has a         *)
(* runnable task or idles rightly, and only a father frees a slot.          *)
(***************************************************************************)
FreedByFather ==
    \A s \in Slot : task[s] # NULL /\ task'[s] = NULL
                       => /\ task[s].state = ZOMBIE
                          /\ current # 0 /\ task[s].father = task[current].pid

Kept == /\ Sound(task') /\ RunnerRuns' /\ IdleOwesNobody' /\ FreedByFather

LEMMA OneChanged ==
    ASSUME NEW T, Sound(T), NEW s \in In(T), NEW u \in TaskStruct,
           Alike(T[s], u), s = Init1 => IsInit(u)
    PROVE  /\ Sound([T EXCEPT ![s] = u]) /\ In([T EXCEPT ![s] = u]) = In(T)
<1> DEFINE U == [T EXCEPT ![s] = u]
<1>1. /\ U \in Tables /\ U[s] = u
      /\ \A c \in Slot \ {s} : U[c] = T[c]
  BY DEF Sound, Tables, In
<1> HIDE DEF U
<1>2. \A c \in Slot : U[c] = NULL <=> T[c] = NULL
  BY <1>1, NullAssumption DEF In
<1>3. \A c \in In(T) : Alike(T[c], U[c])
  BY <1>1 DEF In, Alike
<1>4. IsInit(U[Init1])
  BY <1>1, InitIsThere DEF Sound, In
<1>5. Sound(U) /\ In(U) = In(T)
  BY <1>1, <1>2, <1>3, <1>4, AlikeSound DEF In
<1> QED
  BY <1>5 DEF U

LEMMA Scheduled ==
    ASSUME NEW T, Sound(T), In(T) = In(task), Schedule(T)
    PROVE  Kept
BY ScheduleSound DEF Kept, FreedByFather, In

\* The task that runs, and it goes on running.
Runner(s) == s \in In(task) /\ current = s /\ task[s].state = RUNNING

LEMMA RunsOn ==
    ASSUME IInv, NEW s, Runner(s), NEW T, T[s].state = RUNNING, Sound(T), In(T) = In(task),
           task' = T, UNCHANGED current
    PROVE  Kept
<1>1. current # 0 /\ current \in Slot
  BY ProcessAssumption DEF Runner, In, Slot
<1>2. FreedByFather
  BY DEF FreedByFather, In
<1>3. RunnerRuns'
  BY <1>1 DEF Runner, RunnerRuns, In
<1>4. IdleOwesNobody'
  BY <1>1 DEF IdleOwesNobody
<1> QED
  BY <1>2, <1>3, <1>4 DEF Kept

\* The end of a system call, for a task that does not wait.
LEMMA Returned ==
    ASSUME IInv, NEW s, Runner(s), NEW T, T[s].state = RUNNING, Sound(T), In(T) = In(task),
           ~Dying(T[s]), Returns(T, s)
    PROVE  Kept
<1> DEFINE u == [T[s] EXCEPT !.at = "ret"]
<1>1. T[s] \in TaskStruct
  BY TypedTask DEF Sound, Runner
<1>2. u \in TaskStruct /\ Alike(T[s], u) /\ u.state = RUNNING
  BY <1>1 DEF TaskStruct, Alike, Dying, Waits, RUNNING, INTERRUPTIBLE
<1>3. s = Init1 => IsInit(u)
  BY <1>1, NullAssumption, <1>2 DEF Sound, IsInit, TaskStruct
<1>4. task' = [T EXCEPT ![s] = u] /\ UNCHANGED current
  BY DEF Returns, Sound, Tables
<1>5. s \in In(T)
  BY DEF Runner
<1> HIDE DEF u
<1>6. Sound(task') /\ In(task') = In(task)
  BY <1>2, <1>3, <1>4, <1>5, OneChanged
<1>7. task'[s].state = RUNNING
  BY <1>2, <1>4, <1>5 DEF Sound, Tables, In
<1> QED
  BY <1>4, <1>6, <1>7, RunsOn

\* The runner changes something of its own before it goes on or calls schedule().
SameKin(T) == /\ Sound(T) /\ In(T) = In(task)
              /\ \A c \in In(task) : /\ T[c].pid = task[c].pid
                                     /\ T[c].father = task[c].father
                                     /\ T[c].state = task[c].state

LEMMA OwnChange ==
    ASSUME IInv, NEW s, Runner(s), NEW u \in TaskStruct,
           u.pid = task[s].pid, u.father = task[s].father, u.state = RUNNING,
           Dying(u) <=> Dying(task[s]), s = Init1 => IsInit(u)
    PROVE  SameKin([task EXCEPT ![s] = u])
<1>1. Alike(task[s], u)
  BY DEF Alike, Waits, Runner, RUNNING, INTERRUPTIBLE, ZOMBIE
<1>2. s \in In(task) /\ Sound(task)
  BY DEF Runner, IInv
<1> DEFINE T == [task EXCEPT ![s] = u]
<1>3. Sound(T) /\ In(T) = In(task)
  BY <1>1, <1>2, OneChanged
<1>4. T[s] = u /\ \A c \in Slot \ {s} : T[c] = task[c]
  BY <1>2 DEF Sound, Tables, In
<1>5. \A c \in In(task) : /\ T[c].pid = task[c].pid
                          /\ T[c].father = task[c].father
                          /\ T[c].state = task[c].state
  BY <1>4 DEF Runner, In
<1> QED
  BY <1>3, <1>5 DEF SameKin

LEMMA ForkKeeps ==
    ASSUME IInv, NEW s, Runner(s), Fork(s)
    PROVE  Kept /\ last_pid' \in Pid /\ shell' \in Pid \cup {0}
<1>1. NextPid \in Pid /\ FreePid(NextPid)
  BY NextPidIsFree DEF IInv
<1>2. task[s] \in TaskStruct /\ ~Dying(task[s]) /\ task[s].state = RUNNING
  BY TypedTask DEF IInv, Sound, Runner, Fork, Dying
<1>3. ASSUME Returns(task, s) PROVE Kept
  BY <1>2, <1>3, Returned DEF IInv
<1>4. ASSUME FreeSlots # {},
             Returns([task EXCEPT ![Min(FreeSlots)] =
                        NewTask(NextPid, task[s].pid, task[s].blocked, task[s].handler)], s)
      PROVE  Kept
  <2> DEFINE c == Min(FreeSlots)
             T == [task EXCEPT ![c] =
                     NewTask(NextPid, task[s].pid, task[s].blocked, task[s].handler)]
  <2>1. c \in FreeSlots
    BY <1>4, MinMember, ProcessAssumption DEF FreeSlots, Slot
  <2>2. c \in Slot \ In(task) /\ c # s
    BY <2>1 DEF FreeSlots, In, Runner
  <2>3. \A r \in In(task) : task[r].pid # NextPid
    BY <1>1 DEF FreePid, WithPid
  <2>4. Sound(T)
    BY <1>1, <1>2, <2>2, <2>3, BornSound DEF IInv, Runner
  <2> HIDE DEF c
  <2>5. /\ In(task) \subseteq In(T)
        /\ T[s] = task[s]
    BY <2>2, <2>4, InitIsThere, NullAssumption DEF IInv, Sound, Tables, In, NewTask, TaskStruct, Runner
  <2>6. Kept
    <3> DEFINE u == [T[s] EXCEPT !.at = "ret"]
    <3>1. u \in TaskStruct /\ Alike(T[s], u) /\ u.state = RUNNING
      BY <1>2, <2>5 DEF TaskStruct, Alike, Dying, Waits, RUNNING, INTERRUPTIBLE
    <3>2. s = Init1 => IsInit(u)
      BY <1>2, <2>4, <2>5, <3>1, NullAssumption DEF Sound, IsInit, TaskStruct
    <3>3. task' = [T EXCEPT ![s] = u] /\ UNCHANGED current
      BY <1>4 DEF Returns, Sound, Tables, c
    <3>4. s \in In(T)
      BY <2>5 DEF Runner
    <3> HIDE DEF u, T
    <3>5. Sound(task') /\ In(task') = In(T)
      BY <2>4, <3>1, <3>2, <3>3, <3>4, OneChanged
    <3>6. task'[s].state = RUNNING
      BY <2>4, <3>1, <3>3, <3>4 DEF Sound, Tables, In
    <3>7. current # 0 /\ current \in Slot
      BY ProcessAssumption DEF Runner, In, Slot
    <3>8. FreedByFather
      BY <2>5, <3>5 DEF FreedByFather, In
    <3>9. RunnerRuns' /\ IdleOwesNobody'
      BY <3>3, <3>4, <3>5, <3>6, <3>7 DEF Runner, RunnerRuns, In, IdleOwesNobody
    <3> QED
      BY <3>5, <3>8, <3>9 DEF Kept
  <2> QED
    BY <2>6
<1>5. shell' \in Pid \cup {0} /\ last_pid' \in Pid
  BY <1>1 DEF Fork, IInv
<1> QED
  BY <1>3, <1>4, <1>5 DEF Fork

LEMMA ScanKeeps ==
    ASSUME IInv, NEW s, Runner(s), NEW u \in TaskStruct,
           u.pid = task[s].pid, u.father = task[s].father, u.state = RUNNING,
           ~Dying(task[s]), ~Dying(u), s = Init1 => IsInit(u),
           Scan([task EXCEPT ![s] = u], s)
    PROVE  Kept /\ shell' \in Pid \cup {0}
<1> DEFINE T == [task EXCEPT ![s] = u]
           children == Children(T, s)
           zombies  == Zombies(T, children)
           over == [u EXCEPT !.at = "ret", !.want = AnyChild]
<1>1. SameKin(T) /\ T[s] = u
  <2>1. Dying(u) <=> Dying(task[s])
    BY DEF Dying
  <2>2. SameKin(T)
    BY <2>1, OwnChange
  <2> QED
    BY <2>2 DEF Runner, IInv, Sound, Tables, In
<1>2. /\ over \in TaskStruct /\ over.pid = u.pid /\ over.father = u.father
      /\ over.state = RUNNING /\ ~Dying(over) /\ over.at = "ret"
      /\ over.signal = u.signal /\ over.alarm = u.alarm
  BY DEF TaskStruct, Dying
<1>3. s = Init1 => IsInit(over)
  BY <1>2, NullAssumption DEF IsInit
<1>4. Over(T, s) = [T EXCEPT ![s] = over]
  BY <1>1 DEF Over, SameKin, Sound, Tables
<1>5. Over(T, s) = [task EXCEPT ![s] = over]
  BY <1>4 DEF IInv, Sound, Tables
<1> DEFINE O == Over(T, s)
<1>6. SameKin(O) /\ O[s] = over
  <2>1. Dying(over) <=> Dying(task[s])
    BY <1>2 DEF Dying
  <2>2. over.pid = task[s].pid /\ over.father = task[s].father
    BY <1>2
  <2> HIDE DEF over
  <2>3. SameKin(O)
    BY <1>2, <1>3, <1>5, <2>1, <2>2, OwnChange
  <2> QED
    BY <1>5, <2>3 DEF Runner, IInv, Sound, Tables, In
<1> HIDE DEF T, over
<1> USE DEF SameKin
<1>7. ASSUME zombies # {}, LET z == Max(zombies) IN Schedule([O EXCEPT ![z] = NULL])
      PROVE  Kept
  <2> DEFINE z == Max(zombies)
             R == [O EXCEPT ![z] = NULL]
  <2>1. z \in zombies
    <3>1. zombies \subseteq Slot
      BY DEF Zombies, Children, In
    <3> QED
      BY <1>7, <3>1, MaxMember
  <2>2. /\ z \in In(O) /\ O[z].state = ZOMBIE /\ task[z].state = ZOMBIE
        /\ task[z].father = task[s].pid
    BY <1>1, <1>6, <2>1 DEF Zombies, Children
  <2> HIDE DEF z, O
  <2>3. Sound(R) /\ In(R) = In(O) \ {z}
    BY <1>6, <2>2, ReapSound
  <2>4. Schedule(R)
    BY <1>7 DEF z, O
  <2> HIDE DEF R
  <2>5. Sound(task') /\ RunnerRuns' /\ IdleOwesNobody' /\ In(task') = In(task) \ {z}
    BY <1>6, <2>3, <2>4, ScheduleSound
  <2>6. FreedByFather
    <3>1. current # 0
      BY ProcessAssumption DEF Runner, In, Slot
    <3>2. ASSUME NEW r \in Slot, task[r] # NULL, task'[r] = NULL PROVE r = z
      BY <2>5, <3>2 DEF In
    <3> QED
      BY <2>2, <3>1, <3>2 DEF FreedByFather, Runner
  <2> QED
    BY <2>5, <2>6 DEF Kept
<1>8. ASSUME zombies = {}, Sleep(T, s, INTERRUPTIBLE, "wait")
      PROVE  Kept
  <2> DEFINE W == [T EXCEPT ![s].state = INTERRUPTIBLE, ![s].at = "wait"]
  <2>1. Sound(W) /\ In(W) = In(T)
    BY <1>1, <1>8, WaitSound DEF Runner
  <2>2. Schedule(W)
    BY <1>8 DEF Sleep
  <2> HIDE DEF W
  <2> QED
    BY <1>1, <2>1, <2>2, Scheduled
<1>9. ASSUME Returns(O, s) PROVE Kept
  <2> HIDE DEF O
  <2> QED
    BY <1>2, <1>6, <1>9, Returned
<1>10. Kept
  BY <1>7, <1>8, <1>9 DEF Scan, T
<1>11. shell' \in Pid \cup {0}
  BY DEF Scan, IInv
<1> QED
  BY <1>10, <1>11

\* Fork aside, a system call that returns has changed the caller's own struct.
LEMMA OwnCallKeeps ==
    ASSUME IInv, NEW s, Runner(s), task[s].at = "user", NEW u \in TaskStruct,
           u.pid = task[s].pid, u.father = task[s].father, u.state = RUNNING,
           u.at = "user", s # Init1,
           Returns([task EXCEPT ![s] = u], s)
    PROVE  Kept
<1> DEFINE T == [task EXCEPT ![s] = u]
<1>1. ~Dying(u) /\ ~Dying(task[s])
  BY DEF Dying
<1>2. SameKin(T)
  BY <1>1, OwnChange DEF Dying
<1>3. T[s] = u
  BY DEF Runner, IInv, Sound, Tables, In
<1> HIDE DEF T
<1>4. Sound(T) /\ In(T) = In(task) /\ T[s].state = RUNNING /\ ~Dying(T[s])
  BY <1>1, <1>2, <1>3 DEF SameKin
<1> QED
  BY <1>4, Returned DEF T

\* What the runner does to itself before it calls schedule().
LEMMA SleepKeeps ==
    ASSUME IInv, NEW s, Runner(s), NEW u \in TaskStruct,
           Alike(task[s], u), s = Init1 => IsInit(u),
           Schedule([task EXCEPT ![s] = u])
    PROVE  Kept
<1> DEFINE T == [task EXCEPT ![s] = u]
<1>1. Sound(T) /\ In(T) = In(task)
  BY OneChanged DEF IInv, Runner
<1> HIDE DEF T
<1> QED
  BY <1>1, Scheduled DEF T

LEMMA RunnerTyped ==
    ASSUME IInv, NEW s, Runner(s)
    PROVE  /\ task[s] \in TaskStruct /\ task[s].state = RUNNING
           /\ s = Init1 => IsInit(task[s])
           /\ \A u : [task EXCEPT ![s] = u][s] = u
BY TypedTask DEF IInv, Runner, Sound, Tables, In

LEMMA KernelKeeps ==
    ASSUME IInv, NEW s, Runner(s), Kernel(s)
    PROVE  Kept /\ last_pid' \in Pid /\ shell' \in Pid \cup {0}
<1> DEFINE t == task[s]
<1>1. t \in TaskStruct /\ t.state = RUNNING /\ (s = Init1 => IsInit(t))
  BY RunnerTyped
<1>2. ASSUME ExitSleeps(s) PROVE Kept
  <2> DEFINE u == [t EXCEPT !.state = UNINTERRUPTIBLE, !.at = "closed"]
  <2>1. Schedule([task EXCEPT ![s] = u])
    BY <1>2 DEF ExitSleeps, Sleep, IInv, Sound, Tables
  <2>2. u \in TaskStruct /\ Alike(t, u)
    BY <1>1, <1>2 DEF ExitSleeps, TaskStruct, Alike, Waits, Dying, RUNNING,
                      UNINTERRUPTIBLE, INTERRUPTIBLE, ZOMBIE
  <2>3. s # Init1
    BY <1>1, <1>2 DEF ExitSleeps, IsInit
  <2> HIDE DEF u
  <2> QED
    BY <2>1, <2>2, <2>3, SleepKeeps
<1>3. ASSUME ExitEnds(s) PROVE Kept
  <2> DEFINE U == TellFather([task EXCEPT ![s].state = ZOMBIE, ![s].at = "closed"], s)
  <2>1. Sound(U) /\ In(U) = In(task)
    BY <1>3, DeathSound DEF ExitEnds, IInv, Runner
  <2>2. Schedule(U)
    BY <1>3 DEF ExitEnds
  <2> HIDE DEF U
  <2> QED
    BY <2>1, <2>2, Scheduled
<1>4. ASSUME WaitResumes(s) PROVE Kept /\ shell' \in Pid \cup {0}
  <2> DEFINE u == [t EXCEPT !.signal = @ \ {SIGCHLD}]
             T == [task EXCEPT ![s].signal = @ \ {SIGCHLD}]
  <2>1. T = [task EXCEPT ![s] = u] /\ T[s] = u
    BY DEF IInv, Sound, Tables, Runner, In
  <2>2. /\ u \in TaskStruct /\ u.pid = t.pid /\ u.father = t.father
        /\ u.state = RUNNING /\ u.at = t.at /\ u.alarm = t.alarm
        /\ u.signal = t.signal \ {SIGCHLD}
    BY <1>1 DEF TaskStruct
  <2>3. ~Dying(t) /\ ~Dying(u)
    BY <1>4, <2>2 DEF WaitResumes, Dying
  <2>4. s = Init1 => IsInit(u)
    BY <1>1, <2>2, NullAssumption DEF IsInit
  <2>5. ASSUME Scan(T, s) PROVE Kept /\ shell' \in Pid \cup {0}
    <3> HIDE DEF u, T
    <3> QED
      BY <2>1, <2>2, <2>3, <2>4, <2>5, ScanKeeps
  <2>6. ASSUME Returns(Over(T, s), s) PROVE Kept
    <3> DEFINE over == [u EXCEPT !.at = "ret", !.want = AnyChild]
    <3>1. Over(T, s) = [T EXCEPT ![s] = over]
      BY <2>1 DEF Over, IInv, Sound, Tables
    <3>2. Over(T, s) = [task EXCEPT ![s] = over]
      BY <2>1, <3>1 DEF IInv, Sound, Tables
    <3>3. /\ over \in TaskStruct /\ over.pid = u.pid /\ over.father = u.father
          /\ over.state = RUNNING /\ over.at = "ret" /\ over.signal = u.signal
          /\ over.alarm = u.alarm
      <4> HIDE DEF u
      <4> QED
        BY <2>2 DEF TaskStruct
    <3>4. (s = Init1 => IsInit(over)) /\ ~Dying(over)
      BY <2>4, <3>3, NullAssumption DEF IsInit, Dying
    <3> HIDE DEF over, u, T
    <3>5. Dying(over) <=> Dying(task[s])
      BY <2>3, <3>4 DEF Dying
    <3>6. over.pid = task[s].pid /\ over.father = task[s].father
      BY <2>2, <3>3
    <3>7. SameKin(Over(T, s))
      <4>1. SameKin([task EXCEPT ![s] = over])
        BY <3>3, <3>4, <3>5, <3>6, OwnChange
      <4> QED
        BY <3>2, <4>1
    <3>8. Over(T, s)[s] = over
      BY <3>2, RunnerTyped
    <3> QED
      BY <2>6, <3>3, <3>4, <3>7, <3>8, Returned DEF SameKin
  <2> QED
    BY <1>4, <2>5, <2>6 DEF WaitResumes, IInv
<1>5. ASSUME Return(s) PROVE Kept
  <2> DEFINE open == t.signal \ t.blocked
             sig  == Min(open)
             T    == [task EXCEPT ![s].signal = @ \ {sig}]
             v    == [t EXCEPT !.signal = @ \ {sig}]
  <2>1. ~Dying(t) /\ t.at = "ret"
    BY <1>5 DEF Return, Dying
  <2>2. /\ v \in TaskStruct /\ v.pid = t.pid /\ v.father = t.father
        /\ v.state = RUNNING /\ v.at = "ret" /\ v.alarm = t.alarm
        /\ v.signal = t.signal \ {sig}
    BY <1>1, <2>1 DEF TaskStruct
  <2>3. T = [task EXCEPT ![s] = v] /\ T[s] = v
    BY DEF IInv, Sound, Tables, Runner, In
  <2> HIDE DEF v, sig
  <2>4. ASSUME NEW u \in TaskStruct, u.pid = t.pid, u.father = t.father,
               u.state = RUNNING, u.at = "user", u.alarm = t.alarm,
               u.signal \subseteq t.signal,
               task' = [task EXCEPT ![s] = u], UNCHANGED current
        PROVE  Kept
    <3>1. Dying(u) <=> Dying(t)
      BY <2>1, <2>4 DEF Dying
    <3>2. s = Init1 => IsInit(u)
      BY <1>1, <2>4, NullAssumption DEF IsInit
    <3>3. SameKin(task') /\ task'[s] = u
      BY <2>4, <3>1, <3>2, OwnChange, RunnerTyped
    <3> QED
      BY <2>4, <3>3, RunsOn DEF SameKin
  <2>5. ASSUME task' = [task EXCEPT ![s].at = "user"], UNCHANGED current PROVE Kept
    <3> DEFINE u == [t EXCEPT !.at = "user"]
    <3>1. task' = [task EXCEPT ![s] = u]
      BY <2>5 DEF IInv, Sound, Tables
    <3>2. /\ u \in TaskStruct /\ u.pid = t.pid /\ u.father = t.father
          /\ u.state = RUNNING /\ u.at = "user" /\ u.alarm = t.alarm
          /\ u.signal \subseteq t.signal
      BY <1>1 DEF TaskStruct
    <3> HIDE DEF u
    <3> QED
      BY <2>4, <2>5, <3>1, <3>2
  <2>6. ASSUME task' = [T EXCEPT ![s].at = "user", ![s].handler = @ \ {sig}],
               UNCHANGED current
        PROVE  Kept
    <3> DEFINE u == [v EXCEPT !.at = "user", !.handler = @ \ {sig}]
    <3>1. task' = [task EXCEPT ![s] = u]
      <4> HIDE DEF T
      <4>1. task' = [T EXCEPT ![s] = u]
        BY <2>3, <2>6 DEF IInv, Sound, Tables
      <4> QED
        BY <2>3, <4>1 DEF IInv, Sound, Tables
    <3>2. /\ u \in TaskStruct /\ u.pid = t.pid /\ u.father = t.father
          /\ u.state = RUNNING /\ u.at = "user" /\ u.alarm = t.alarm
          /\ u.signal \subseteq t.signal
      BY <2>2 DEF TaskStruct
    <3> HIDE DEF u
    <3> QED
      BY <2>4, <2>6, <3>1, <3>2
  <2>7. ASSUME task' = [T EXCEPT ![s].at = "user"], UNCHANGED current PROVE Kept
    <3> DEFINE u == [v EXCEPT !.at = "user"]
    <3>1. task' = [task EXCEPT ![s] = u]
      BY <2>3, <2>7 DEF IInv, Sound, Tables
    <3>2. /\ u \in TaskStruct /\ u.pid = t.pid /\ u.father = t.father
          /\ u.state = RUNNING /\ u.at = "user" /\ u.alarm = t.alarm
          /\ u.signal \subseteq t.signal
      BY <2>2 DEF TaskStruct
    <3> HIDE DEF u
    <3> QED
      BY <2>4, <2>7, <3>1, <3>2
  <2>8. ASSUME open # {}, sig # SIGCHLD, ExitBegins(T, s) PROVE Kept
    <3>1. sig \in open
      <4>1. open \subseteq Nat
        BY <1>1 DEF TaskStruct, Signal, SIGKILL, SIGALRM, SIGCHLD
      <4> QED
        BY <2>8, <4>1, MinMember DEF sig
    <3>2. s # Init1
      BY <1>1, <2>8, <3>1 DEF IsInit
    <3>3. SameKin(T)
      <4>1. Dying(v) <=> Dying(t)
        BY <2>1, <2>2 DEF Dying
      <4> QED
        BY <2>2, <2>3, <3>2, <4>1, OwnChange
    <3>4. ~Dying(T[s]) /\ s \in In(T)
      BY <2>1, <2>2, <2>3, <3>3 DEF Dying, SameKin, Runner
    <3>5. ExitBegins(T, s)
      BY <2>8
    <3> HIDE DEF T
    <3>6. Sound(task') /\ In(task') = In(task) /\ task'[s].state = RUNNING
      BY <3>2, <3>3, <3>4, <3>5, ExitSound DEF SameKin
    <3>7. UNCHANGED current
      BY <3>5 DEF ExitBegins
    <3> QED
      BY <3>6, <3>7, RunsOn
  <2>9. /\ t.at = "ret"
        /\ \/ /\ open = {}
              /\ task' = [task EXCEPT ![s].at = "user"] /\ UNCHANGED current
           \/ /\ open # {} /\ sig \in t.handler
              /\ task' = [T EXCEPT ![s].at = "user", ![s].handler = @ \ {sig}]
              /\ UNCHANGED current
           \/ /\ open # {} /\ sig \notin t.handler /\ sig = SIGCHLD
              /\ task' = [T EXCEPT ![s].at = "user"] /\ UNCHANGED current
           \/ /\ open # {} /\ sig \notin t.handler /\ sig # SIGCHLD
              /\ ExitBegins(T, s)
    BY <1>5 DEF Return, sig
  <2> HIDE DEF T, open
  <2> QED
    BY <2>5, <2>6, <2>7, <2>8, <2>9
<1>6. last_pid' \in Pid
  BY DEF Kernel, ExitSleeps, ExitEnds, WaitResumes, Return, IInv
<1>7. WaitResumes(s) \/ shell' = shell
  BY DEF Kernel, ExitSleeps, ExitEnds, Return
<1> QED
  BY <1>2, <1>3, <1>4, <1>5, <1>6, <1>7 DEF Kernel, IInv

LEMMA PreemptKeeps ==
    ASSUME IInv, NEW s, Runner(s), Preempt(s)
    PROVE  Kept
<1> DEFINE u == [task[s] EXCEPT !.at = "ret"]
<1>1. task[s] \in TaskStruct /\ (s = Init1 => IsInit(task[s]))
  BY RunnerTyped
<1>2. u \in TaskStruct /\ Alike(task[s], u)
  BY <1>1 DEF Preempt, TaskStruct, Alike, Dying, Waits
<1>3. s = Init1 => IsInit(u)
  BY <1>1, <1>2, NullAssumption DEF IsInit, TaskStruct
<1>4. Schedule([task EXCEPT ![s] = u])
  BY DEF Preempt, IInv, Sound, Tables
<1> HIDE DEF u
<1> QED
  BY <1>2, <1>3, <1>4, SleepKeeps

LEMMA WaitKeeps ==
    ASSUME IInv, NEW s, Runner(s), NEW want \in {AnyChild} \cup Pid, Wait(s, want)
    PROVE  Kept /\ shell' \in Pid \cup {0}
<1> DEFINE u == [task[s] EXCEPT !.want = want]
<1>1. task[s] \in TaskStruct /\ task[s].state = RUNNING /\ (s = Init1 => IsInit(task[s]))
  BY RunnerTyped
<1>2. /\ u \in TaskStruct /\ u.pid = task[s].pid /\ u.father = task[s].father
      /\ u.state = RUNNING /\ ~Dying(task[s]) /\ ~Dying(u)
  BY <1>1 DEF Wait, TaskStruct, Dying
<1>3. s = Init1 => IsInit(u)
  BY <1>1, <1>2, NullAssumption DEF IsInit, TaskStruct
<1>4. Scan([task EXCEPT ![s] = u], s)
  <2>1. [task EXCEPT ![s] = u] = [task EXCEPT ![s].want = want]
    BY DEF IInv, Sound, Tables
  <2> QED
    BY <2>1 DEF Wait
<1> HIDE DEF u
<1> QED
  BY <1>2, <1>3, <1>4, ScanKeeps

LEMMA CallsKeep ==
    ASSUME IInv, NEW s, Runner(s), s # Init1, Calls(s)
    PROVE  Kept /\ last_pid' \in Pid /\ shell' \in Pid \cup {0}
<1> DEFINE t == task[s]
<1>1. t \in TaskStruct /\ t.state = RUNNING
  BY RunnerTyped
<1>2. ASSUME Exit(s) PROVE Kept
  <2>1. ~Dying(t) /\ ExitBegins(task, s)
    BY <1>2 DEF Exit, Dying
  <2>2. Sound(task') /\ In(task') = In(task) /\ task'[s].state = RUNNING
    BY <2>1, ExitSound DEF IInv, Runner
  <2>3. UNCHANGED current
    BY <2>1 DEF ExitBegins
  <2> QED
    BY <2>2, <2>3, RunsOn
<1>3. ASSUME Pause(s) PROVE Kept
  <2> DEFINE u == [t EXCEPT !.state = INTERRUPTIBLE, !.at = "ret"]
  <2>1. u \in TaskStruct /\ Alike(t, u)
    BY <1>1, <1>3 DEF Pause, TaskStruct, Alike, Dying, Waits, RUNNING, INTERRUPTIBLE,
                      ZOMBIE
  <2>2. Schedule([task EXCEPT ![s] = u])
    BY <1>3 DEF Pause, Sleep, IInv, Sound, Tables
  <2> HIDE DEF u
  <2> QED
    BY <2>1, <2>2, SleepKeeps
<1>4. ASSUME NEW p, NEW sig \in Sendable, Kill(s, p, sig) PROVE Kept
  <2> DEFINE S == WithPid(task, p) \ {Init1}
             T == Send(task, S, sig)
  <2>1. S \subseteq In(task) /\ Init1 \notin S /\ sig \in Signal
    BY ProcessAssumption DEF WithPid
  <2>2. Sound(T)
    <3> HIDE DEF S
    <3> QED
      BY <2>1, SendSound DEF IInv
  <2>3. T[s] = t \/ T[s] = [t EXCEPT !.signal = @ \cup {sig}]
    BY DEF Send, Runner, In
  <2>4. /\ T[s].state = RUNNING /\ T[s].at = "user"
    BY <1>1, <1>4, <2>3 DEF Kill, TaskStruct
  <2>5. In(T) = In(task)
    <3>1. ASSUME NEW c \in Slot PROVE T[c] = NULL <=> task[c] = NULL
      <4>1. CASE c \in S /\ ~Dying(task[c])
        <5>1. task[c] \in TaskStruct
          BY <2>1, <4>1, TypedTask DEF IInv, Sound
        <5>2. T[c] = [task[c] EXCEPT !.signal = @ \cup {sig}]
          BY <4>1 DEF Send
        <5> QED
          BY <2>1, <5>1, <5>2, Signalled, NullAssumption
      <4>2. CASE ~(c \in S /\ ~Dying(task[c]))
        BY <4>2 DEF Send
      <4> QED
        BY <4>1, <4>2
    <3> QED
      BY <3>1 DEF In
  <2>6. Returns(T, s)
    BY <1>4 DEF Kill
  <2> HIDE DEF T
  <2> QED
    BY <2>2, <2>4, <2>5, <2>6, Returned DEF Dying
<1>5. ASSUME NEW u \in TaskStruct, u.pid = t.pid, u.father = t.father,
             u.state = RUNNING, u.at = t.at, t.at = "user",
             Returns([task EXCEPT ![s] = u], s)
      PROVE  Kept
  BY <1>5, OwnCallKeeps
<1>6. ASSUME NEW on \in BOOLEAN, SetAlarm(s, on) PROVE Kept
  <2> DEFINE u == [t EXCEPT !.alarm = on]
  <2>1. /\ u \in TaskStruct /\ u.pid = t.pid /\ u.father = t.father
        /\ u.state = RUNNING /\ u.at = t.at
    BY <1>1 DEF TaskStruct
  <2>2. Returns([task EXCEPT ![s] = u], s) /\ t.at = "user"
    BY <1>6 DEF SetAlarm, IInv, Sound, Tables
  <2> HIDE DEF u
  <2> QED
    BY <1>5, <2>1, <2>2
<1>7. ASSUME NEW sig \in Catchable, CatchSignal(s, sig) PROVE Kept
  <2> DEFINE u == [t EXCEPT !.handler = @ \cup {sig}]
  <2>1. /\ u \in TaskStruct /\ u.pid = t.pid /\ u.father = t.father
        /\ u.state = RUNNING /\ u.at = t.at
    BY <1>1 DEF TaskStruct
  <2>2. Returns([task EXCEPT ![s] = u], s) /\ t.at = "user"
    BY <1>7 DEF CatchSignal, IInv, Sound, Tables
  <2> HIDE DEF u
  <2> QED
    BY <1>5, <2>1, <2>2
<1>8. ASSUME NEW mask \in SUBSET Maskable, SetMask(s, mask) PROVE Kept
  <2> DEFINE u == [t EXCEPT !.blocked = mask]
  <2>1. /\ u \in TaskStruct /\ u.pid = t.pid /\ u.father = t.father
        /\ u.state = RUNNING /\ u.at = t.at
    BY <1>1 DEF TaskStruct
  <2>2. Returns([task EXCEPT ![s] = u], s) /\ t.at = "user"
    BY <1>8 DEF SetMask, IInv, Sound, Tables
  <2> HIDE DEF u
  <2> QED
    BY <1>5, <2>1, <2>2
<1>9. ASSUME NEW want \in {AnyChild} \cup Pid, Wait(s, want)
      PROVE  Kept /\ last_pid' \in Pid /\ shell' \in Pid \cup {0}
  <2>1. last_pid' \in Pid
    BY <1>9 DEF Wait, IInv
  <2> QED
    BY <1>9, <2>1, WaitKeeps
<1>10. Fork(s) \/ (\E want \in {AnyChild} \cup Pid : Wait(s, want)) \/ UNCHANGED <<last_pid, shell>>
  BY DEF Calls, Exit, Pause, Kill, SetAlarm, CatchSignal, SetMask
<1> QED
  BY <1>2, <1>3, <1>4, <1>6, <1>7, <1>8, <1>9, <1>10, ForkKeeps DEF Calls, IInv

LEMMA InterruptKeeps ==
    ASSUME IInv, NEW s \in Slot, Interrupt(s)
    PROVE  Kept
<1> DEFINE u == [task[s] EXCEPT !.state = RUNNING]
<1>1. s \in In(task) /\ task[s] \in TaskStruct /\ task[s].state = UNINTERRUPTIBLE
  BY TypedTask DEF Interrupt, In, IInv, Sound
<1>2. u \in TaskStruct /\ Alike(task[s], u) /\ u.state = RUNNING
  BY <1>1 DEF TaskStruct, Alike, Dying, Waits, RUNNING, UNINTERRUPTIBLE,
              INTERRUPTIBLE, ZOMBIE
<1>3. s # Init1
  BY <1>1 DEF IInv, Sound, IsInit, RUNNING, UNINTERRUPTIBLE, INTERRUPTIBLE
<1>4. task' = [task EXCEPT ![s] = u] /\ UNCHANGED current
  BY DEF Interrupt, IInv, Sound, Tables
<1> HIDE DEF u
<1>5. Sound(task') /\ In(task') = In(task)
  BY <1>1, <1>2, <1>3, <1>4, OneChanged DEF IInv
<1>6. task'[s] = u /\ \A c \in Slot \ {s} : task'[c] = task[c]
  BY <1>4 DEF IInv, Sound, Tables
<1>7. RunnerRuns'
  BY <1>2, <1>4, <1>5, <1>6 DEF IInv, RunnerRuns, In
<1>8. IdleOwesNobody'
  BY <1>2, <1>4, <1>6 DEF IInv, IdleOwesNobody, SleepsWith, RUNNING, INTERRUPTIBLE
<1>9. FreedByFather
  BY <1>5 DEF FreedByFather, In
<1> QED
  BY <1>5, <1>7, <1>8, <1>9 DEF Kept

-----------------------------------------------------------------------------
LEMMA IInvInit == Init => IInv
<1> SUFFICES ASSUME Init PROVE IInv
  OBVIOUS
<1> DEFINE t == NewTask(1, 0, {}, {})
<1>1. 1 \in Pid /\ Init1 \in Slot /\ Init1 # 0
  BY ProcessAssumption DEF Pid, Init1, Slot
<1>2. t \in TaskStruct /\ t # NULL
  <2>1. t \in TaskStruct
    BY <1>1 DEF NewTask, TaskStruct, Init1, AnyChild
  <2> QED
    BY <2>1, NullAssumption
<1>3. /\ t.pid = 1 /\ t.father = 0 /\ t.signal = {} /\ t.at = "user"
      /\ t.state = RUNNING /\ t.alarm = FALSE
  BY DEF NewTask
<1> HIDE DEF t
<1>4. task \in Tables /\ In(task) = {Init1} /\ task[Init1] = t
  BY <1>1, <1>2 DEF Init, t, Tables, In
<1>5. IsInit(t)
  BY <1>2, <1>3 DEF IsInit
<1>6. Sound(task)
  BY <1>3, <1>4, <1>5 DEF Sound, ZombiesAreDying, NobodysOwnFather, DistinctPids,
     HaveFathers, AreTold, Waits, RUNNING, INTERRUPTIBLE, ZOMBIE
<1> QED
  BY <1>1, <1>2, <1>3, <1>4, <1>6 DEF Init, IInv, RunnerRuns, IdleOwesNobody

LEMMA NextKeeps ==
    ASSUME IInv, Next
    PROVE  Kept /\ last_pid' \in Pid /\ shell' \in Pid \cup {0}
<1>1. ASSUME NEW s \in Slot, Runs(s)
      PROVE  Kept /\ last_pid' \in Pid /\ shell' \in Pid \cup {0}
  <2>1. Runner(s)
    BY <1>1, ProcessAssumption DEF Runs, Runner, IInv, RunnerRuns, In, Slot
  <2>2. ASSUME Preempt(s) PROVE Kept /\ UNCHANGED <<last_pid, shell>>
    BY <2>1, <2>2, PreemptKeeps DEF Preempt
  <2>3. ASSUME Wait(s, AnyChild) PROVE Kept /\ shell' \in Pid \cup {0} /\ last_pid' = last_pid
    BY <2>1, <2>3, WaitKeeps DEF Wait
  <2> QED
    BY <1>1, <2>1, <2>2, <2>3, KernelKeeps, CallsKeep, ForkKeeps
       DEF Runs, InitCalls, IInv
<1>2. ASSUME Idle PROVE Kept /\ UNCHANGED <<last_pid, shell>>
  BY <1>2, Scheduled DEF Idle, IInv
<1>3. ASSUME NEW s \in Slot, Interrupt(s) PROVE Kept /\ UNCHANGED <<last_pid, shell>>
  BY <1>3, InterruptKeeps DEF Interrupt
<1> QED
  BY <1>1, <1>2, <1>3 DEF Next, IInv

LEMMA IInvNext == IInv /\ [Next]_vars => IInv'
<1>1. IInv /\ Next => IInv'
  BY NextKeeps DEF Kept, IInv
<1>2. IInv /\ UNCHANGED vars => IInv'
  BY DEF IInv, vars, RunnerRuns, IdleOwesNobody, SleepsWith
<1> QED
  BY <1>1, <1>2

LEMMA SpecIInv == Spec => []IInv
BY IInvInit, IInvNext, PTL DEF Spec

\* The variables keep their types: however pids wrap and slots are used again.
THEOREM TypeCorrect == Spec => []TypeOK
<1>1. IInv => TypeOK
  BY DEF IInv, Sound, Tables, RunnerRuns, TypeOK
<1> QED
  BY <1>1, SpecIInv, PTL

\* Nobody but init is without a father that has not begun to exit: the
\* children of a task are given to init in the same step in which it begins.
THEOREM SomebodyWaitsForAll == Spec => []FathersLive
<1>1. IInv => FathersLive
  BY DEF IInv, Sound, HaveFathers, FathersLive
<1> QED
  BY <1>1, SpecIInv, PTL

\* find_empty_process gives no pid twice, however often last_pid wraps and
\* however long zombies keep theirs; there are more pids than slots, so it
\* never searches for ever.
THEOREM PidsAreUnique == Spec => []PidsUnique
<1>1. IInv => PidsUnique
  BY DEF IInv, Sound, DistinctPids, PidsUnique
<1> QED
  BY <1>1, SpecIInv, PTL

\* No father sleeps in waitpid beside a dead child that he has not been told of.
THEOREM WaitersAreTold == Spec => []WaiterIsTold
<1>1. IInv => WaiterIsTold
  BY DEF IInv, Sound, AreTold, Waits, WaiterIsTold
<1> QED
  BY <1>1, SpecIInv, PTL

\* When schedule() finds nothing to run, no task sleeps interruptibly beside a
\* signal that it does not block.
THEOREM IdleIsRight == Spec => []IdleOwesNobody
<1>1. IInv => IdleOwesNobody
  BY DEF IInv
<1> QED
  BY <1>1, SpecIInv, PTL

\* A task struct is released once, by the father of the zombie in it.
THEOREM ReleasedByFathers == Spec => OnlyFathersReap
<1>1. IInv /\ Next => FreedByFather
  BY NextKeeps DEF Kept
<1>2. UNCHANGED vars => FreedByFather
  BY DEF vars, FreedByFather
<1>3. IInv /\ [Next]_vars => [FreedByFather]_vars
  BY <1>1, <1>2
<1> QED
  BY <1>3, SpecIInv, PTL DEF Spec, OnlyFathersReap, FreedByFather

-----------------------------------------------------------------------------
(***************************************************************************)
(* The locks.                                                               *)
(***************************************************************************)
\* The queue operations yield wait queues.
LEMMA FallAsleepType ==
    ASSUME NEW w \in WaitQueues, NEW q \in Queue, NEW t \in Task,
           NEW how \in TaskState
    PROVE  FallAsleep(w, q, t, how) \in WaitQueues
BY DEF FallAsleep, WaitQueues

LEMMA MakeRunningType ==
    ASSUME NEW w \in WaitQueues, NEW t \in Task \cup {NoTask}
    PROVE  MakeRunning(w, t) \in WaitQueues
BY DEF MakeRunning, WaitQueues, TaskState, RUNNING

LEMMA SleepOnType ==
    ASSUME NEW w \in WaitQueues, NEW q \in Queue, NEW t \in Task
    PROVE  SleepOn(w, q, t) \in WaitQueues
BY FallAsleepType DEF SleepOn, TaskState

LEMMA SleepReturnsType ==
    ASSUME NEW w \in WaitQueues, NEW q \in Queue, NEW t \in Task
    PROVE  SleepReturns(w, q, t) \in WaitQueues
<1>1. w.tmp[t] \in Task \cup {NoTask}
  BY DEF WaitQueues
<1>2. MakeRunning(w, w.tmp[t]) \in WaitQueues
  BY <1>1, MakeRunningType
<1> QED
  BY <1>1, <1>2 DEF SleepReturns, WaitQueues

LEMMA WakeUpType ==
    ASSUME NEW w \in WaitQueues, NEW q \in Queue
    PROVE  WakeUp(w, q) \in WaitQueues
<1>1. w.head[q] \in Task \cup {NoTask}
  BY DEF WaitQueues
<1>2. MakeRunning(w, w.head[q]) \in WaitQueues
  BY <1>1, MakeRunningType
<1> QED
  BY <1>2 DEF WakeUp, WaitQueues

\* The initial queues are empty.
LEMMA NobodyWaitsType == NobodyWaits \in WaitQueues
BY DEF NobodyWaits, WaitQueues, TaskState

-----------------------------------------------------------------------------
LEMMA LockTypesInit == LockInit => LockTypeOK
BY NobodyWaitsType DEF LockInit, LockTypeOK

LEMMA LockTypesNext == LockTypeOK /\ [LockNext]_lockVars => LockTypeOK'
<1> SUFFICES ASSUME LockTypeOK, [LockNext]_lockVars PROVE LockTypeOK'
  OBVIOUS
<1> USE DEF LockTypeOK
<1>1. ASSUME NEW t \in Task, NEW o \in Queue, LockAtOnce(t, o) PROVE LockTypeOK'
  BY <1>1 DEF LockAtOnce, Take, GoTo
<1>2. ASSUME NEW t \in Task, NEW o \in Queue, NEW label \in {"locking", "waiting"},
             Sleeps(t, o, label)
      PROVE  LockTypeOK'
  BY <1>2, SleepOnType DEF Sleeps, GoTo
<1>3. ASSUME NEW t \in Task, LockResumes(t) PROVE LockTypeOK'
  <2>1. wq' \in WaitQueues
    BY <1>3, SleepReturnsType DEF LockResumes
  <2> QED
    BY <1>3, <2>1 DEF LockResumes, Take, GoTo
<1>4. ASSUME NEW t \in Task, WaitReturns(t) PROVE LockTypeOK'
  <2>1. wq' \in WaitQueues
    BY <1>4, SleepReturnsType DEF WaitReturns
  <2> QED
    BY <1>4, <2>1 DEF WaitReturns, GoTo
<1>5. ASSUME NEW t \in Task, SleepsOnceMore(t) PROVE LockTypeOK'
  <2>1. SleepReturns(wq, obj[t], t) \in WaitQueues
    BY SleepReturnsType
  <2>2. wq' \in WaitQueues
    BY <1>5, <2>1, SleepOnType DEF SleepsOnceMore
  <2> QED
    BY <1>5, <2>2 DEF SleepsOnceMore
<1>6. ASSUME NEW t \in Task, Unlock(t) PROVE LockTypeOK'
  <2>1. wq' \in WaitQueues
    BY <1>6, WakeUpType DEF Unlock
  <2> QED
    BY <1>6, <2>1 DEF Unlock, GoTo
<1>7. CASE UNCHANGED lockVars
  BY <1>7 DEF lockVars
<1> QED
  BY <1>1, <1>2, <1>3, <1>4, <1>5, <1>6, <1>7
     DEF LockNext, LockStep, LockSleeps, WaitSleeps

\* The variables keep their types, the wait queues among them.
THEOREM LockTypesCorrect == LockSpec => []LockTypeOK
BY LockTypesInit, LockTypesNext, PTL DEF LockSpec

-----------------------------------------------------------------------------
LEMMA MutualExclusionInit == LockInit => MutualExclusion
BY DEF LockInit, MutualExclusion, Holders

LEMMA MutualExclusionNext ==
    LockTypeOK /\ MutualExclusion /\ [LockNext]_lockVars => MutualExclusion'
<1> SUFFICES ASSUME LockTypeOK, MutualExclusion, [LockNext]_lockVars PROVE MutualExclusion'
  OBVIOUS
<1> USE DEF LockTypeOK, MutualExclusion, Holders
<1>1. ASSUME NEW t \in Task, NEW o \in Queue, LockAtOnce(t, o)
      PROVE  MutualExclusion'
  BY <1>1 DEF LockAtOnce, Take, GoTo
<1>2. ASSUME NEW t \in Task, NEW o \in Queue, NEW label \in {"locking", "waiting"},
             Sleeps(t, o, label)
      PROVE  MutualExclusion'
  BY <1>2 DEF Sleeps, GoTo
<1>3. ASSUME NEW t \in Task, LockResumes(t) PROVE MutualExclusion'
  BY <1>3 DEF LockResumes, Take, GoTo
<1>4. ASSUME NEW t \in Task, WaitReturns(t) PROVE MutualExclusion'
  BY <1>4 DEF WaitReturns, GoTo
<1>5. ASSUME NEW t \in Task, SleepsOnceMore(t) PROVE MutualExclusion'
  BY <1>5 DEF SleepsOnceMore
<1>6. ASSUME NEW t \in Task, Unlock(t) PROVE MutualExclusion'
  BY <1>6 DEF Unlock, GoTo
<1>7. CASE UNCHANGED lockVars
  BY <1>7 DEF lockVars
<1> QED
  BY <1>1, <1>2, <1>3, <1>4, <1>5, <1>6, <1>7
     DEF LockNext, LockStep, LockSleeps, WaitSleeps

\* However many tasks contend for however many objects, and whatever the wait
\* queues do, at most one task is between lock_x and unlock_x of an object,
\* and its flag is set exactly then.
THEOREM LocksExclude == LockSpec => []MutualExclusion
BY LockTypesInit, LockTypesNext, MutualExclusionInit, MutualExclusionNext, PTL DEF LockSpec

-----------------------------------------------------------------------------
(***************************************************************************)
(* Two users of one object never sleep for it at the same time: who falls   *)
(* asleep finds the other one holding the lock.  So the pointer names the   *)
(* only sleeper until it is awake, and no tmp is ever set.  A third user    *)
(* can find the pointer set, and then it is the tmp's that count.           *)
(***************************************************************************)
AtMostTwoUsers == \A o \in Queue : \A t, u, v \in Users[o] : t = u \/ t = v \/ u = v

UsersOnly == \A t \in Task : pc[t] # "idle" => t \in Users[obj[t]]

OneSleeper ==
    \A t, u \in Task : Asleep(t) /\ Asleep(u) /\ obj[t] = obj[u] => t = u

PointerNamesSleeper ==
    /\ \A t \in Task : wq.tmp[t] = NoTask
    /\ \A t \in Task : Asleep(t) => Runnable(wq, t) \/ wq.head[obj[t]] = t
    /\ \A o \in Queue, h \in Task : wq.head[o] = h => Asleep(h) /\ obj[h] = o

Pairs == LockTypeOK /\ MutualExclusion /\ UsersOnly /\ OneSleeper /\ PointerNamesSleeper

LEMMA PairsInit == LockInit => Pairs
<1> SUFFICES ASSUME LockInit PROVE Pairs
  OBVIOUS
<1>1. LockTypeOK /\ MutualExclusion
  BY LockTypesInit, MutualExclusionInit
<1>2. \A t \in Task : pc[t] = "idle"
  BY DEF LockInit
<1>3. wq = NobodyWaits
  BY DEF LockInit
<1>4. UsersOnly /\ OneSleeper
  BY <1>2 DEF UsersOnly, OneSleeper, Asleep
<1>5. PointerNamesSleeper
  BY <1>2, <1>3, NoTaskAssumption DEF PointerNamesSleeper, Asleep, NobodyWaits
<1> QED
  BY <1>1, <1>4, <1>5 DEF Pairs

\* Who finds the lock taken finds nobody asleep.
LEMMA NobodySleeps ==
    ASSUME AtMostTwoUsers, Pairs, NEW t \in Task, NEW o \in Queue, t \in Users[o],
           lock[o], ~(pc[t] = "holding" /\ obj[t] = o)
    PROVE  \A u \in Task : Asleep(u) /\ obj[u] = o => u = t
<1> SUFFICES ASSUME NEW u \in Task, Asleep(u), obj[u] = o PROVE u = t
  OBVIOUS
<1>1. PICK h \in Task : pc[h] = "holding" /\ obj[h] = o
  BY DEF Pairs, MutualExclusion, Holders
<1>2. h \in Users[o] /\ u \in Users[o]
  BY <1>1 DEF Pairs, UsersOnly, Asleep
<1>3. h # t /\ h # u
  BY <1>1 DEF Asleep
<1> QED
  BY <1>2, <1>3 DEF AtMostTwoUsers

\* What the queue operations do where no tmp is set.
LEMMA SleeperWaits ==
    ASSUME NEW w \in WaitQueues, NEW q \in Queue, NEW t \in Task,
           NEW n, n = SleepOn(w, q, t)
    PROVE  /\ n.state = [w.state EXCEPT ![t] = UNINTERRUPTIBLE]
           /\ n.head = [w.head EXCEPT ![q] = t]
           /\ n.tmp = [w.tmp EXCEPT ![t] = w.head[q]]
BY DEF SleepOn, FallAsleep, WaitQueues

LEMMA SleeperReturns ==
    ASSUME NEW w \in WaitQueues, NEW q \in Queue, NEW t \in Task, w.tmp[t] = NoTask,
           NEW n, n = SleepReturns(w, q, t)
    PROVE  /\ n \in WaitQueues
           /\ n.state = w.state
           /\ n.head = [w.head EXCEPT ![q] = NoTask]
           /\ n.tmp = [w.tmp EXCEPT ![t] = NoTask]
<1>1. MakeRunning(w, w.tmp[t]) = w
  BY DEF MakeRunning
<1>2. SleepReturns(w, q, t) \in WaitQueues
  BY SleepReturnsType
<1> QED
  BY <1>1, <1>2 DEF SleepReturns, WaitQueues

LEMMA HolderWakes ==
    ASSUME NEW w \in WaitQueues, NEW q \in Queue, NEW n, n = WakeUp(w, q)
    PROVE  /\ \A t \in Task : n.state[t] = IF t = w.head[q] THEN RUNNING ELSE w.state[t]
           /\ n.head = [w.head EXCEPT ![q] = NoTask]
           /\ n.tmp = w.tmp
<1>1. CASE w.head[q] = NoTask
  BY <1>1, NoTaskAssumption DEF WakeUp, MakeRunning, WaitQueues
<1>2. CASE w.head[q] # NoTask
  <2>1. w.head[q] \in Task
    BY <1>2 DEF WaitQueues
  <2> QED
    BY <1>2, <2>1 DEF WakeUp, MakeRunning, WaitQueues
<1> QED
  BY <1>1, <1>2

LEMMA PairsNext == ASSUME AtMostTwoUsers, Pairs, [LockNext]_lockVars PROVE Pairs'
<1>1. LockTypeOK' /\ MutualExclusion'
  BY LockTypesNext, MutualExclusionNext DEF Pairs
<1> SUFFICES UsersOnly' /\ OneSleeper' /\ PointerNamesSleeper'
  BY <1>1 DEF Pairs
<1>2. /\ wq \in WaitQueues /\ obj \in [Task -> Queue]
      /\ pc \in [Task -> {"idle", "locking", "waiting", "holding"}]
      /\ UsersOnly /\ OneSleeper /\ PointerNamesSleeper
  BY DEF Pairs, LockTypeOK
<1>3. /\ \A o \in Queue : wq.head[o] \in Task \cup {NoTask}
      /\ \A t \in Task : wq.tmp[t] = NoTask
  BY <1>2 DEF WaitQueues, PointerNamesSleeper
<1>4. ASSUME NEW t \in Task, NEW o \in Queue, t \in Users[o], LockAtOnce(t, o)
      PROVE  UsersOnly' /\ OneSleeper' /\ PointerNamesSleeper'
  <2>1. pc[t] = "idle" /\ pc' = [pc EXCEPT ![t] = "holding"] /\ obj' = [obj EXCEPT ![t] = o]
        /\ wq' = wq
    BY <1>4 DEF LockAtOnce, GoTo
  <2>2. \A u \in Task : (Asleep(u)' <=> Asleep(u)) /\ (Asleep(u) => obj'[u] = obj[u])
    BY <1>2, <2>1 DEF Asleep
  <2>3. UsersOnly'
    BY <1>2, <1>4, <2>1 DEF UsersOnly
  <2>4. OneSleeper'
    BY <1>2, <2>2 DEF OneSleeper
  <2>5. PointerNamesSleeper'
    BY <1>2, <1>3, <2>1, <2>2, NoTaskAssumption DEF PointerNamesSleeper
  <2> QED
    BY <2>3, <2>4, <2>5
<1>5. ASSUME NEW t \in Task, NEW o \in Queue, t \in Users[o],
             NEW label \in {"locking", "waiting"}, Sleeps(t, o, label)
      PROVE  UsersOnly' /\ OneSleeper' /\ PointerNamesSleeper'
  <2>1. /\ pc[t] = "idle" /\ lock[o] /\ pc' = [pc EXCEPT ![t] = label]
        /\ obj' = [obj EXCEPT ![t] = o] /\ wq' = SleepOn(wq, o, t)
    BY <1>5 DEF Sleeps, GoTo
  <2>2. \A u \in Task : Asleep(u) /\ obj[u] = o => u = t
    BY <1>5, <2>1, NobodySleeps
  <2>3. ~Asleep(t) /\ Asleep(t)' /\ obj'[t] = o
    BY <1>2, <1>5, <2>1 DEF Asleep
  <2>4. \A u \in Task : u # t => (Asleep(u)' <=> Asleep(u)) /\ obj'[u] = obj[u]
    BY <1>2, <2>1 DEF Asleep
  <2>5. wq.head[o] = NoTask
    BY <1>2, <1>3, <2>2, <2>3 DEF PointerNamesSleeper
  <2>6. /\ wq'.state = [wq.state EXCEPT ![t] = UNINTERRUPTIBLE]
        /\ wq'.head = [wq.head EXCEPT ![o] = t]
        /\ wq'.tmp = [wq.tmp EXCEPT ![t] = NoTask]
    <3>1. PICK n : n = wq'
      OBVIOUS
    <3>2. n = SleepOn(wq, o, t)
      BY <2>1, <3>1
    <3>3. wq \in WaitQueues
      BY <1>2
    <3>4. /\ n.state = [wq.state EXCEPT ![t] = UNINTERRUPTIBLE]
          /\ n.head = [wq.head EXCEPT ![o] = t]
          /\ n.tmp = [wq.tmp EXCEPT ![t] = wq.head[o]]
      BY <3>2, <3>3, SleeperWaits
    <3> QED
      BY <2>5, <3>1, <3>4, Zenon
  <2>7. UsersOnly'
    BY <1>2, <1>5, <2>1 DEF UsersOnly
  <2>8. OneSleeper'
    BY <1>2, <2>2, <2>3, <2>4 DEF OneSleeper
  <2>9. PointerNamesSleeper'
    <3>1. \A u \in Task : wq'.tmp[u] = NoTask
      BY <1>2, <1>3, <2>6 DEF WaitQueues
    <3>2. ASSUME NEW u \in Task, Asleep(u)'
          PROVE  Runnable(wq', u) \/ wq'.head[obj'[u]] = u
      <4>1. CASE u = t
        BY <1>2, <2>3, <2>6, <4>1 DEF WaitQueues
      <4>2. CASE u # t
        <5>1. Asleep(u) /\ obj'[u] = obj[u] /\ obj[u] # o /\ obj[u] \in Queue
          BY <1>2, <2>2, <2>4, <3>2, <4>2
        <5>2. wq'.head[obj[u]] = wq.head[obj[u]] /\ wq'.state[u] = wq.state[u]
          BY <1>2, <2>6, <4>2, <5>1 DEF WaitQueues
        <5> QED
          BY <1>2, <5>1, <5>2 DEF PointerNamesSleeper, Runnable
      <4> QED
        BY <4>1, <4>2
    <3>3. ASSUME NEW q \in Queue, NEW h \in Task, wq'.head[q] = h
          PROVE  Asleep(h)' /\ obj'[h] = q
      <4>1. CASE q = o
        <5>1. h = t
          BY <1>2, <2>6, <3>3, <4>1 DEF WaitQueues
        <5> QED
          BY <2>3, <4>1, <5>1
      <4>2. CASE q # o
        <5>1. wq.head[q] = h
          BY <1>2, <2>6, <3>3, <4>2 DEF WaitQueues
        <5>2. Asleep(h) /\ obj[h] = q
          BY <1>2, <5>1 DEF PointerNamesSleeper
        <5>3. h # t
          BY <2>3, <5>2
        <5> QED
          BY <2>4, <5>2, <5>3
      <4> QED
        BY <4>1, <4>2
    <3> QED
      BY <3>1, <3>2, <3>3 DEF PointerNamesSleeper
  <2> QED
    BY <2>7, <2>8, <2>9
\* A sleeper goes on, or sleeps once more: nobody else sleeps where it did.
<1>6. ASSUME NEW t \in Task, Asleep(t), Runnable(wq, t), UNCHANGED obj,
             NEW label \in {"idle", "holding"}, pc' = [pc EXCEPT ![t] = label],
             wq' = SleepReturns(wq, obj[t], t)
      PROVE  UsersOnly' /\ OneSleeper' /\ PointerNamesSleeper'
  <2>1. PICK o \in Queue : o = obj[t]
    BY <1>2
  <2>2. /\ wq'.state = wq.state
        /\ wq'.head = [wq.head EXCEPT ![o] = NoTask]
        /\ wq'.tmp = [wq.tmp EXCEPT ![t] = NoTask]
    <3>1. PICK n : n = wq'
      OBVIOUS
    <3>2. n = SleepReturns(wq, o, t) /\ wq.tmp[t] = NoTask
      BY <1>3, <1>6, <2>1, <3>1
    <3>3. wq \in WaitQueues
      BY <1>2
    <3>4. /\ n.state = wq.state
          /\ n.head = [wq.head EXCEPT ![o] = NoTask]
          /\ n.tmp = [wq.tmp EXCEPT ![t] = NoTask]
      BY <3>2, <3>3, SleeperReturns
    <3> QED
      BY <3>1, <3>4, Zenon
  <2>3. ~Asleep(t)' /\ \A u \in Task : u # t => (Asleep(u)' <=> Asleep(u))
    BY <1>2, <1>6 DEF Asleep
  <2>4. UsersOnly'
    BY <1>2, <1>6 DEF UsersOnly, Asleep
  <2>5. OneSleeper'
    BY <1>2, <1>6, <2>3 DEF OneSleeper
  <2>6. PointerNamesSleeper'
    <3>1. \A u \in Task : wq'.tmp[u] = NoTask
      BY <1>2, <1>3, <2>2 DEF WaitQueues
    <3>2. ASSUME NEW u \in Task, Asleep(u)'
          PROVE  Runnable(wq', u) \/ wq'.head[obj'[u]] = u
      <4>1. u # t /\ Asleep(u)
        BY <2>3, <3>2
      <4>2. obj[u] # o /\ obj[u] \in Queue
        BY <1>2, <1>6, <2>1, <4>1 DEF OneSleeper
      <4>3. wq'.head[obj[u]] = wq.head[obj[u]] /\ wq'.state[u] = wq.state[u]
        BY <1>2, <2>2, <4>2 DEF WaitQueues
      <4> QED
        BY <1>2, <1>6, <4>1, <4>3 DEF PointerNamesSleeper, Runnable
    <3>3. ASSUME NEW q \in Queue, NEW h \in Task, wq'.head[q] = h
          PROVE  Asleep(h)' /\ obj'[h] = q
      <4>1. q # o /\ wq.head[q] = h
        BY <1>2, <2>2, <3>3, NoTaskAssumption DEF WaitQueues
      <4>2. Asleep(h) /\ obj[h] = q
        BY <1>2, <4>1 DEF PointerNamesSleeper
      <4> QED
        BY <1>6, <2>1, <2>3, <4>1, <4>2
    <3> QED
      BY <3>1, <3>2, <3>3 DEF PointerNamesSleeper
  <2> QED
    BY <2>4, <2>5, <2>6
<1>7. ASSUME NEW t \in Task, LockResumes(t) \/ WaitReturns(t)
      PROVE  UsersOnly' /\ OneSleeper' /\ PointerNamesSleeper'
  BY <1>6, <1>7 DEF LockResumes, WaitReturns, MayRun, GoTo, Asleep
<1>8. ASSUME NEW t \in Task, SleepsOnceMore(t)
      PROVE  UsersOnly' /\ OneSleeper' /\ PointerNamesSleeper'
  <2>1. PICK o \in Queue : o = obj[t]
    BY <1>2
  <2>2. Asleep(t) /\ UNCHANGED <<pc, obj>> /\ wq' = SleepOn(SleepReturns(wq, o, t), o, t)
    BY <1>8, <2>1 DEF SleepsOnceMore, Asleep
  <2>3. PICK w : w = SleepReturns(wq, o, t)
    OBVIOUS
  <2>4. /\ w \in WaitQueues /\ w.state = wq.state
        /\ w.head = [wq.head EXCEPT ![o] = NoTask] /\ w.tmp = [wq.tmp EXCEPT ![t] = NoTask]
    <3>1. wq \in WaitQueues /\ wq.tmp[t] = NoTask
      BY <1>2, <1>3
    <3> QED
      BY <2>3, <3>1, SleeperReturns
  <2>5. /\ wq'.state = [w.state EXCEPT ![t] = UNINTERRUPTIBLE]
        /\ wq'.head = [w.head EXCEPT ![o] = t]
        /\ wq'.tmp = [w.tmp EXCEPT ![t] = w.head[o]]
    <3>1. PICK n : n = wq'
      OBVIOUS
    <3>2. n = SleepOn(w, o, t) /\ w \in WaitQueues
      BY <2>2, <2>3, <2>4, <3>1
    <3>3. /\ n.state = [w.state EXCEPT ![t] = UNINTERRUPTIBLE]
          /\ n.head = [w.head EXCEPT ![o] = t]
          /\ n.tmp = [w.tmp EXCEPT ![t] = w.head[o]]
      BY <3>2 DEF SleepOn, FallAsleep, WaitQueues
    <3> QED
      BY <3>1, <3>3, Zenon
  <2>6. /\ \A u \in Task : u # t => wq'.state[u] = wq.state[u]
        /\ \A q \in Queue : wq'.head[q] = IF q = o THEN t ELSE wq.head[q]
        /\ \A u \in Task : wq'.tmp[u] = NoTask
    BY <1>2, <1>3, <2>4, <2>5 DEF WaitQueues
  <2>7. \A u \in Task : (Asleep(u)' <=> Asleep(u)) /\ obj'[u] = obj[u]
    BY <2>2 DEF Asleep
  <2>8. UsersOnly' /\ OneSleeper'
    BY <1>2, <2>2 DEF UsersOnly, OneSleeper, Asleep
  <2>9. ASSUME NEW u \in Task, Asleep(u)'
        PROVE  Runnable(wq', u) \/ wq'.head[obj'[u]] = u
    <3>1. CASE u = t
      BY <1>2, <2>1, <2>6, <2>7, <3>1
    <3>2. CASE u # t
      <4>1. Asleep(u) /\ obj[u] \in Queue /\ obj[u] # o
        BY <1>2, <2>1, <2>2, <2>7, <2>9, <3>2 DEF OneSleeper
      <4> QED
        BY <1>2, <2>6, <2>7, <3>2, <4>1 DEF PointerNamesSleeper, Runnable
    <3> QED
      BY <3>1, <3>2
  <2>10. ASSUME NEW q \in Queue, NEW h \in Task, wq'.head[q] = h
         PROVE  Asleep(h)' /\ obj'[h] = q
    <3>1. CASE q = o
      <4>1. h = t
        BY <2>6, <2>10, <3>1
      <4> QED
        BY <2>1, <2>2, <2>7, <3>1, <4>1
    <3>2. CASE q # o
      <4>1. wq.head[q] = h
        BY <2>6, <2>10, <3>2
      <4>2. Asleep(h) /\ obj[h] = q
        BY <1>2, <4>1 DEF PointerNamesSleeper
      <4> QED
        BY <2>7, <4>2
    <3> QED
      BY <3>1, <3>2
  <2> QED
    BY <2>6, <2>8, <2>9, <2>10 DEF PointerNamesSleeper
<1>9. ASSUME NEW t \in Task, Unlock(t)
      PROVE  UsersOnly' /\ OneSleeper' /\ PointerNamesSleeper'
  <2>1. PICK o \in Queue : o = obj[t]
    BY <1>2
  <2>2. /\ pc[t] = "holding" /\ pc' = [pc EXCEPT ![t] = "idle"] /\ UNCHANGED obj
        /\ wq' = WakeUp(wq, o)
    BY <1>9, <2>1 DEF Unlock, GoTo
  <2>3. \A u \in Task : (Asleep(u)' <=> Asleep(u)) /\ obj'[u] = obj[u]
    BY <1>2, <2>2 DEF Asleep
  <2>4. /\ \A u \in Task : wq'.state[u] = IF u = wq.head[o] THEN RUNNING ELSE wq.state[u]
        /\ wq'.head = [wq.head EXCEPT ![o] = NoTask]
        /\ wq'.tmp = wq.tmp
    <3>1. PICK n : n = wq'
      OBVIOUS
    <3>2. n = WakeUp(wq, o) /\ wq \in WaitQueues
      BY <1>2, <2>2, <3>1
    <3>3. /\ \A u \in Task : n.state[u] = IF u = wq.head[o] THEN RUNNING ELSE wq.state[u]
          /\ n.head = [wq.head EXCEPT ![o] = NoTask]
          /\ n.tmp = wq.tmp
      BY <3>2, HolderWakes
    <3> QED
      BY <3>1, <3>3, Zenon
  <2>5. UsersOnly' /\ OneSleeper'
    <3>1. UsersOnly'
      BY <1>2, <2>2 DEF UsersOnly
    <3>2. OneSleeper'
      BY <1>2, <2>3 DEF OneSleeper
    <3> QED
      BY <3>1, <3>2
  <2>6. ASSUME NEW u \in Task, Asleep(u)'
        PROVE  Runnable(wq', u) \/ wq'.head[obj'[u]] = u
    <3>1. Asleep(u) /\ obj[u] \in Queue /\ (Runnable(wq, u) \/ wq.head[obj[u]] = u)
      BY <1>2, <2>3, <2>6 DEF PointerNamesSleeper
    <3>2. CASE Runnable(wq, u) \/ obj[u] = o
      BY <2>4, <3>1, <3>2 DEF Runnable
    <3>3. CASE obj[u] # o
      <4>1. wq'.head[obj[u]] = wq.head[obj[u]]
        BY <1>2, <2>4, <3>1, <3>3 DEF WaitQueues
      <4> QED
        BY <2>3, <2>4, <3>1, <4>1 DEF Runnable
    <3> QED
      BY <3>2, <3>3
  <2>7. ASSUME NEW q \in Queue, NEW h \in Task, wq'.head[q] = h
        PROVE  Asleep(h)' /\ obj'[h] = q
    <3>1. q # o /\ wq.head[q] = h
      BY <1>2, <2>4, <2>7, NoTaskAssumption DEF WaitQueues
    <3>2. Asleep(h) /\ obj[h] = q
      BY <1>2, <3>1 DEF PointerNamesSleeper
    <3> QED
      BY <2>3, <3>2
  <2>8. \A u \in Task : wq'.tmp[u] = NoTask
    BY <1>3, <2>4
  <2> QED
    BY <2>5, <2>6, <2>7, <2>8 DEF PointerNamesSleeper
<1>10. CASE UNCHANGED lockVars
  BY <1>2, <1>10 DEF lockVars, UsersOnly, OneSleeper, PointerNamesSleeper, Asleep
<1> QED
  BY <1>4, <1>5, <1>7, <1>8, <1>9, <1>10 DEF LockNext, LockStep, LockSleeps, WaitSleeps

\* Where no object has more than two users, a task that sleeps for a lock can always
\* be found by a wake_up.  With three users sleep_on and wake_up lose sleepers, so the
\* premise is what the code needs, not what the proof needs.
THEOREM SleepersAreFound == ASSUME AtMostTwoUsers PROVE LockSpec => []NoSleeperLost
<1>1. LockInit => Pairs
  BY PairsInit
<1>2. Pairs /\ [LockNext]_lockVars => Pairs'
  BY PairsNext
<1>3. Pairs => NoSleeperLost
  <2> SUFFICES ASSUME Pairs, NEW t \in Task, Asleep(t) PROVE Reachable(wq, obj[t], t)
    BY DEF NoSleeperLost
  <2>1. Runnable(wq, t) \/ wq.head[obj[t]] = t
    BY DEF Pairs, PointerNamesSleeper
  <2> QED
    BY <2>1, NoTaskAssumption DEF Reachable
<1> QED
  BY <1>1, <1>2, <1>3, PTL DEF LockSpec
-----------------------------------------------------------------------------
(***************************************************************************)
(* Zones.                                                                   *)
(***************************************************************************)
\* Induction, for a set in the place of a predicate.
LEMMA SetInduction ==
    ASSUME NEW S, 0 \in S, \A n \in Nat : n \in S => n + 1 \in S
    PROVE  \A n \in Nat : n \in S
<1> DEFINE R == {ss \in Nat \X Nat : ss[1] < ss[2]}
           Out == Nat \ S
<1>1. IsWellFoundedOn(R, Nat)
  BY NatLessThanWellFounded DEF OpToRel
<1>2. SUFFICES ASSUME Out # {} PROVE FALSE
  OBVIOUS
<1>3. Out \subseteq Nat
  OBVIOUS
<1> HIDE DEF Out
<1>4. PICK x \in Out : \A y \in Out : ~(<<y, x>> \in R)
  BY <1>1, <1>2, <1>3, WFMin
<1> USE DEF Out
<1>5. x - 1 \in Nat /\ x - 1 < x
  BY <1>4
<1>6. x - 1 \in S
  BY <1>4, <1>5
<1>7. (x - 1) + 1 \in S
  BY <1>5, <1>6
<1> QED
  BY <1>4, <1>7

-----------------------------------------------------------------------------
(***************************************************************************)
(* The block a path leads to: FoldLeft unrolled.                            *)
(***************************************************************************)
Deref(pt, b, i) == IF b = 0 THEN 0 ELSE pt[b][i]

Folded(pt, base, q) == FoldLeft(LAMBDA b, i : Deref(pt, b, i), base, q)

Raw(zs, pt, p) == Folded(pt, zs[p[1]], Tail(p))

At(zs, pt, F, p) == IF \E q \in F : IsPrefix(q, p) THEN 0 ELSE Raw(zs, pt, p)

LEMMA BlockAtIs ==
    ASSUME NEW f, NEW p
    PROVE  BlockAt(f, p) = At(i_zone[f], ptr, FreedIn(f), p)
BY DEF BlockAt, At, Raw, Folded, Deref

IsFold(f, n, q, base, pt) ==
    f = [s \in SUBSET (1 .. n) |->
            IF s = {} THEN base ELSE LET x == Max(s) IN Deref(pt, f[s \ {x}], q[x])]

LEMMA MaxIsLast ==
    ASSUME NEW n \in Nat, NEW s, s \subseteq 1 .. n + 1, n + 1 \in s
    PROVE  Max(s) = n + 1
<1>1. \A i \in s : n + 1 >= i /\ (i >= n + 1 => i = n + 1)
  OBVIOUS
<1>2. Max(s) \in s /\ \A i \in s : Max(s) >= i
  BY <1>1 DEF Max
<1> QED
  BY <1>1, <1>2

LEMMA FoldExists ==
    ASSUME NEW q, NEW base, NEW pt
    PROVE  \A n \in Nat : \E f : IsFold(f, n, q, base, pt)
<1> DEFINE S == {n \in Nat : \E f : IsFold(f, n, q, base, pt)}
<1>1. 0 \in S
  <2>1. SUBSET (1 .. 0) = {{}}
    OBVIOUS
  <2>2. IsFold([s \in SUBSET (1 .. 0) |-> base], 0, q, base, pt)
    BY <2>1 DEF IsFold
  <2> QED
    BY <2>2
<1>2. ASSUME NEW n \in Nat, n \in S PROVE n + 1 \in S
  <2>1. PICK f : IsFold(f, n, q, base, pt)
    BY <1>2
  <2> DEFINE g == [s \in SUBSET (1 .. n + 1) |->
                      IF n + 1 \in s THEN Deref(pt, f[s \ {n + 1}], q[n + 1]) ELSE f[s]]
             Def(s) == IF s = {} THEN base ELSE Deref(pt, g[s \ {Max(s)}], q[Max(s)])
  <2>2. ASSUME NEW s \in SUBSET (1 .. n) PROVE s \in SUBSET (1 .. n + 1) /\ n + 1 \notin s /\ g[s] = f[s]
    OBVIOUS
  <2>3. ASSUME NEW s \in SUBSET (1 .. n + 1) PROVE g[s] = Def(s)
    <3>1. CASE n + 1 \in s
      <4>1. Max(s) = n + 1
        BY <3>1, MaxIsLast
      <4>2. s \ {n + 1} \in SUBSET (1 .. n)
        OBVIOUS
      <4>3. g[s \ {n + 1}] = f[s \ {n + 1}]
        BY <2>2, <4>2
      <4>4. g[s] = Deref(pt, f[s \ {n + 1}], q[n + 1])
        BY <3>1
      <4> HIDE DEF g
      <4> QED
        BY <3>1, <4>1, <4>3, <4>4
    <3>2. CASE n + 1 \notin s
      <4>1. s \in SUBSET (1 .. n)
        BY <3>2
      <4>2. g[s] = f[s]
        BY <2>2, <4>1
      <4>3. f[s] = IF s = {} THEN base ELSE Deref(pt, f[s \ {Max(s)}], q[Max(s)])
        BY <2>1, <4>1 DEF IsFold
      <4>4. s \ {Max(s)} \in SUBSET (1 .. n)
        BY <4>1
      <4>5. g[s \ {Max(s)}] = f[s \ {Max(s)}]
        BY <2>2, <4>4
      <4> HIDE DEF g
      <4> QED
        BY <4>2, <4>3, <4>5
    <3> QED
      BY <3>1, <3>2
  <2>4. g = [s \in SUBSET (1 .. n + 1) |-> g[s]]
    OBVIOUS
  <2>5. IsFold(g, n + 1, q, base, pt)
    <3> HIDE DEF g
    <3>1. g = [s \in SUBSET (1 .. n + 1) |-> Def(s)]
      BY <2>3, <2>4
    <3> QED
      BY <3>1 DEF IsFold
  <2> QED
    BY <2>5
<1> HIDE DEF S
<1>3. \A n \in Nat : n \in S
  BY <1>1, <1>2, SetInduction
<1> QED
  BY <1>3 DEF S

LEMMA FoldCooks ==
    ASSUME NEW q, NEW n \in Nat, DOMAIN q = 1 .. n, NEW base, NEW pt,
           NEW r, r = Folded(pt, base, q)
    PROVE  \E f : f[0] = base /\ (\A i \in 1 .. n : f[i] = Deref(pt, f[i - 1], q[i])) /\ r = f[n]
<1> DEFINE Def(f) == [s \in SUBSET (1 .. n) |->
                         IF s = {} THEN base ELSE LET x == Max(s) IN Deref(pt, f[s \ {x}], q[x])]
<1>1. \E f : f = Def(f)
  <2>1. PICK f : IsFold(f, n, q, base, pt)
    BY FoldExists
  <2>2. f = Def(f)
    BY <2>1 DEF IsFold
  <2> QED
    BY <2>2
<1>2. PICK h : h = CHOOSE f : f = Def(f)
  OBVIOUS
<1>3. h = Def(h)
  BY <1>1, <1>2
<1>4. r = h[1 .. n]
  BY <1>2 DEF Folded, FoldLeft, MapThenFoldSet
<1> DEFINE f == [i \in 0 .. n |-> h[1 .. i]]
<1>5. f[0] = base
  <2>1. 1 .. 0 = {} /\ 0 \in 0 .. n
    OBVIOUS
  <2> QED
    BY <1>3, <2>1
<1>6. ASSUME NEW i \in 1 .. n PROVE f[i] = Deref(pt, f[i - 1], q[i])
  <2>1. i - 1 \in Nat /\ (i - 1) + 1 = i /\ 1 .. i \subseteq 1 .. n /\ 1 .. i # {}
    <3>1. i \in Nat /\ 1 <= i /\ i <= n /\ i \in 1 .. i
      OBVIOUS
    <3>2. i - 1 \in Nat /\ (i - 1) + 1 = i
      BY <3>1
    <3>3. \A j \in 1 .. i : j \in 1 .. n
      BY <3>1
    <3> QED
      BY <3>1, <3>2, <3>3
  <2>2. Max(1 .. i) = i
    <3>1. PICK m \in Nat : m = i - 1
      BY <2>1
    <3>2. m + 1 = i /\ 1 .. i \subseteq 1 .. m + 1 /\ m + 1 \in 1 .. i
      BY <2>1, <3>1
    <3>3. Max(1 .. i) = m + 1
      BY <3>2, MaxIsLast
    <3> QED
      BY <3>2, <3>3
  <2>3. (1 .. i) \ {i} = 1 .. i - 1
    OBVIOUS
  <2>4. h[1 .. i] = Deref(pt, h[(1 .. i) \ {i}], q[i])
    BY <1>3, <2>1, <2>2
  <2>5. i - 1 \in 0 .. n /\ i \in 0 .. n
    OBVIOUS
  <2> QED
    BY <2>3, <2>4, <2>5
<1>7. r = f[n]
  BY <1>4
<1> HIDE DEF f
<1> QED
  BY <1>5, <1>6, <1>7

LEMMA FoldedTop == \A pt, base : Folded(pt, base, << >>) = base
<1> SUFFICES ASSUME NEW pt, NEW base PROVE Folded(pt, base, << >>) = base
  OBVIOUS
<1>1. DOMAIN << >> = 1 .. 0
  OBVIOUS
<1>2. PICK r : r = Folded(pt, base, << >>)
  OBVIOUS
<1>3. PICK f : f[0] = base /\ r = f[0]
  BY <1>1, <1>2, FoldCooks
<1> QED
  BY <1>2, <1>3

LEMMA FoldedNext ==
    ASSUME NEW C, NEW q \in Seq(C), NEW c \in C, NEW pt, NEW base
    PROVE  Folded(pt, base, Append(q, c)) = Deref(pt, Folded(pt, base, q), c)
<1>1. PICK n \in Nat : n = Len(q) /\ DOMAIN q = 1 .. n
  BY LenProperties
<1>2. PICK w : w = Append(q, c)
  OBVIOUS
<1>3. DOMAIN w = 1 .. n + 1 /\ n + 1 \in Nat /\ w[n + 1] = c /\ \A i \in 1 .. n : w[i] = q[i]
  BY <1>1, <1>2, AppendProperties
<1>4. PICK r : r = Folded(pt, base, q)
  OBVIOUS
<1>5. PICK s : s = Folded(pt, base, w)
  OBVIOUS
<1>6. PICK f : f[0] = base /\ (\A i \in 1 .. n : f[i] = Deref(pt, f[i - 1], q[i])) /\ r = f[n]
  BY <1>1, <1>4, FoldCooks
<1>a. PICK m \in Nat : m = n + 1 /\ DOMAIN w = 1 .. m
  BY <1>3
<1>b. PICK g : g[0] = base /\ (\A i \in 1 .. m : g[i] = Deref(pt, g[i - 1], w[i])) /\ s = g[m]
  BY <1>5, <1>a, FoldCooks
<1>7. g[0] = base /\ (\A i \in 1 .. n + 1 : g[i] = Deref(pt, g[i - 1], w[i])) /\ s = g[n + 1]
  BY <1>a, <1>b
<1> DEFINE S == {i \in Nat : i <= n => f[i] = g[i]}
<1>8. 0 \in S
  BY <1>6, <1>7
<1>9. ASSUME NEW i \in Nat, i \in S PROVE i + 1 \in S
  <2> SUFFICES ASSUME i + 1 <= n PROVE f[i + 1] = g[i + 1]
    OBVIOUS
  <2>1. i + 1 \in 1 .. n /\ i + 1 \in 1 .. n + 1 /\ (i + 1) - 1 = i /\ i <= n
    OBVIOUS
  <2>2. f[i] = g[i]
    BY <1>9, <2>1
  <2>3. f[i + 1] = Deref(pt, f[i], q[i + 1]) /\ g[i + 1] = Deref(pt, g[i], w[i + 1])
    BY <1>6, <1>7, <2>1
  <2> QED
    BY <1>3, <2>1, <2>2, <2>3
<1> HIDE DEF S
<1>10. \A i \in Nat : i \in S
  BY <1>8, <1>9, SetInduction
<1>11. f[n] = g[n]
  BY <1>10 DEF S
<1>12. n + 1 \in 1 .. n + 1 /\ (n + 1) - 1 = n
  OBVIOUS
<1>13. s = Deref(pt, g[n], c)
  BY <1>3, <1>7, <1>12
<1> QED
  BY <1>2, <1>4, <1>5, <1>6, <1>11, <1>13

-----------------------------------------------------------------------------
(***************************************************************************)
(* Paths: an entry of i_zone, then one index per level.                     *)
(***************************************************************************)
LEMMA Depths == \A z \in Zone : Depth[z] \in Nat /\ z \in Nat /\ z >= 1
<1>1. Depth \in Seq(Nat) /\ Len(Depth) \in Nat /\ DOMAIN Depth = 1 .. Len(Depth)
  BY ZonesAssumption, LenProperties
<1> QED
  BY <1>1, ElementOfSeq DEF Zone

LEMMA ZonesAre == Len(Depth) \in Nat /\ Zone = 1 .. Len(Depth)
BY ZonesAssumption, LenProperties DEF Zone

LEMMA IsSequence ==
    ASSUME NEW k \in Nat, NEW S, NEW f \in [1 .. k -> S]
    PROVE  f \in Seq(S) /\ Len(f) = k
<1>1. f \in Seq(S)
  BY SeqDef
<1>2. Len(f) \in Nat /\ DOMAIN f = 1 .. Len(f) /\ DOMAIN f = 1 .. k
  BY <1>1, LenProperties
<1> QED
  BY <1>1, <1>2

PathLike(p) == /\ p \in Seq(Nat) /\ Len(p) >= 1 /\ p[1] \in Zone
               /\ Len(p) <= Depth[p[1]] + 1
               /\ \A k \in 2 .. Len(p) : p[k] \in Index

LEMMA PathIs == \A p \in Path : PathLike(p)
<1> SUFFICES ASSUME NEW p \in Path PROVE PathLike(p)
  OBVIOUS
<1>a. PICK z \in Zone :
        p \in {<<z>> \o q : q \in UNION {[1 .. n -> Index] : n \in 0 .. Depth[z]}}
  BY DEF Path
<1>b. PICK q \in UNION {[1 .. n -> Index] : n \in 0 .. Depth[z]} : p = <<z>> \o q
  BY <1>a
<1>c. PICK n \in 0 .. Depth[z] : q \in [1 .. n -> Index]
  OBVIOUS
<1>1. q \in [1 .. n -> Index] /\ p = <<z>> \o q
  BY <1>b, <1>c
<1>2. Depth[z] \in Nat /\ z \in Nat /\ n \in Nat /\ n <= Depth[z]
  BY Depths
<1>3. Index \subseteq Nat
  BY ZonesAssumption DEF Index
<1>d. q \in [1 .. n -> Nat] /\ \A i \in 1 .. n : q[i] \in Index
  BY <1>1, <1>3
<1>4. q \in Seq(Nat) /\ Len(q) = n /\ \A i \in 1 .. n : q[i] \in Index
  BY <1>2, <1>d, IsSequence
<1>5. <<z>> \in Seq(Nat) /\ Len(<<z>>) = 1 /\ <<z>>[1] = z
  BY <1>2
<1>6. /\ p \in Seq(Nat) /\ Len(p) = 1 + n
      /\ \A i \in 1 .. 1 + n : p[i] = IF i <= 1 THEN <<z>>[i] ELSE q[i - 1]
  BY <1>1, <1>4, <1>5, ConcatProperties
<1>7. p[1] = z
  BY <1>2, <1>5, <1>6
<1>8. ASSUME NEW k \in 2 .. Len(p) PROVE p[k] \in Index
  <2>1. k \in 1 .. 1 + n /\ ~(k <= 1) /\ k - 1 \in 1 .. n
    BY <1>2, <1>6
  <2> QED
    BY <1>4, <1>6, <2>1
<1>9. PICK m \in Nat : m = Len(p)
  BY <1>2, <1>6
<1>10. m >= 1 /\ m <= 1 + Depth[z]
  BY <1>2, <1>6, <1>9
<1> QED
  <2>1. p \in Seq(Nat) /\ Len(p) >= 1 /\ p[1] \in Zone
    BY <1>6, <1>7, <1>9, <1>10
  <2>2. Len(p) <= Depth[p[1]] + 1
    BY <1>2, <1>7, <1>9, <1>10
  <2>3. \A k \in 2 .. Len(p) : p[k] \in Index
    BY <1>8
  <2> QED
    BY <2>1, <2>2, <2>3, Zenon DEF PathLike

LEMMA IsPath == \A p : PathLike(p) => p \in Path
<1> SUFFICES ASSUME NEW p, PathLike(p) PROVE p \in Path
  OBVIOUS
<1> USE DEF PathLike
<1>1. PICK z \in Zone : z = p[1]
  OBVIOUS
<1>2. PICK m \in Nat : m = Len(p) - 1
  BY LenProperties
<1>3. Depth[z] \in Nat /\ z \in Nat /\ m \in 0 .. Depth[z] /\ Len(p) = m + 1
  BY <1>1, <1>2, Depths, LenProperties
<1> DEFINE q == [i \in 1 .. m |-> p[i + 1]]
<1>4. q \in [1 .. m -> Index]
  BY <1>2
<1>5. Index \subseteq Nat
  BY ZonesAssumption DEF Index
<1>6. q \in Seq(Nat) /\ Len(q) = m
  <2>1. q \in [1 .. m -> Nat]
    BY <1>4, <1>5
  <2> HIDE DEF q
  <2> QED
    BY <2>1, IsSequence
<1>7. <<z>> \in Seq(Nat) /\ Len(<<z>>) = 1 /\ <<z>>[1] = z
  BY <1>3
<1>8. PICK r : r = <<z>> \o q
  OBVIOUS
<1>9. /\ r \in Seq(Nat) /\ Len(r) = 1 + m
      /\ \A i \in 1 .. 1 + m : r[i] = IF i <= 1 THEN <<z>>[i] ELSE q[i - 1]
  <2> HIDE DEF q
  <2>0. PICK y : y = <<z>>
    OBVIOUS
  <2>1. y \in Seq(Nat) /\ Len(y) = 1
    BY <1>7, <2>0
  <2>2. /\ y \o q \in Seq(Nat) /\ Len(y \o q) = Len(y) + Len(q)
        /\ \A i \in 1 .. Len(y) + Len(q) : (y \o q)[i] = IF i <= Len(y) THEN y[i] ELSE q[i - Len(y)]
    BY <1>6, <2>1, ConcatProperties
  <2>3. Len(y) + Len(q) = 1 + m
    BY <1>6, <2>1
  <2>4. r = y \o q
    BY <1>8, <2>0
  <2>5. \A i \in 1 .. 1 + m : r[i] = IF i <= 1 THEN y[i] ELSE q[i - 1]
    BY <2>1, <2>2, <2>3, <2>4
  <2> QED
    BY <2>0, <2>2, <2>3, <2>4, <2>5
<1>10. ASSUME NEW i \in 1 .. Len(p) PROVE p[i] = r[i]
  <2>1. CASE i = 1
    <3>1. 1 \in 1 .. 1 + m
      BY <1>3
    <3> HIDE DEF q
    <3>2. r[1] = <<z>>[1]
      BY <1>9, <3>1, Z3
    <3> QED
      BY <1>1, <1>7, <2>1, <3>2
  <2>2. CASE i # 1
    <3>1. i \in 1 .. 1 + m /\ ~(i <= 1) /\ i - 1 \in 1 .. m /\ (i - 1) + 1 = i
      BY <1>3, <2>2
    <3>2. r[i] = q[i - 1]
      BY <1>9, <3>1
    <3> QED
      BY <3>1, <3>2
  <2> QED
    BY <2>1, <2>2
<1>11. Len(p) = Len(r)
  BY <1>3, <1>9
<1>12. p = r
  <2> HIDE DEF q
  <2> QED
    BY <1>9, <1>10, <1>11, SeqEqual
<1> HIDE DEF q
<1>13. q \in UNION {[1 .. n -> Index] : n \in 0 .. Depth[z]}
  BY <1>3, <1>4
<1>14. p = <<z>> \o q
  BY <1>8, <1>12
<1> QED
  BY <1>1, <1>13, <1>14 DEF Path

LEMMA TopIsPath == \A z \in Zone : <<z>> \in Path
<1> SUFFICES ASSUME NEW z \in Zone PROVE <<z>> \in Path
  OBVIOUS
<1>1. z \in Nat /\ Depth[z] \in Nat
  BY Depths
<1>2. PathLike(<<z>>)
  BY <1>1 DEF PathLike
<1> QED
  BY <1>2, IsPath

\* A path from a path and an index, and back.
LEMMA LongerPath ==
    ASSUME NEW p \in Path, NEW i \in Index, Len(p) <= Depth[p[1]]
    PROVE  Append(p, i) \in Path
<1>1. PathLike(p)
  BY PathIs
<1>2. Index \subseteq Nat
  BY ZonesAssumption DEF Index
<1>3. PICK r : r = Append(p, i)
  OBVIOUS
<1>4. r \in Seq(Nat) /\ Len(r) = Len(p) + 1 /\ r[Len(p) + 1] = i /\ (\A k \in 1 .. Len(p) : r[k] = p[k]) /\ Len(p) \in Nat
  BY <1>1, <1>2, <1>3, AppendProperties, LenProperties DEF PathLike
<1>5. r[1] = p[1]
  BY <1>1, <1>4 DEF PathLike
<1>6. \A k \in 2 .. Len(r) : r[k] \in Index
  BY <1>1, <1>4 DEF PathLike
<1>7. PathLike(r)
  BY <1>1, <1>4, <1>5, <1>6, Depths DEF PathLike
<1> QED
  BY <1>3, <1>7, IsPath

LEMMA Appended ==
    ASSUME NEW p \in Path, NEW i \in Index
    PROVE  /\ Append(p, i) \in Seq(Nat) /\ Len(Append(p, i)) = Len(p) + 1 /\ Len(p) \in Nat
           /\ Append(p, i)[Len(p) + 1] = i /\ \A k \in 1 .. Len(p) : Append(p, i)[k] = p[k]
           /\ Append(p, i)[1] = p[1] /\ Append(p, i) # << >>
<1>1. PathLike(p)
  BY PathIs
<1>2. Index \subseteq Nat
  BY ZonesAssumption DEF Index
<1>3. PICK r : r = Append(p, i)
  OBVIOUS
<1>4. /\ r \in Seq(Nat) /\ Len(r) = Len(p) + 1 /\ r[Len(p) + 1] = i
      /\ \A k \in 1 .. Len(p) : r[k] = p[k]
      /\ Len(p) \in Nat /\ r # << >>
  BY <1>1, <1>2, <1>3, AppendProperties, LenProperties DEF PathLike
<1>5. r[1] = p[1]
  BY <1>1, <1>4 DEF PathLike
<1> QED
  BY <1>3, <1>4, <1>5

LEMMA SplitPath ==
    ASSUME NEW p \in Path, Len(p) # 1
    PROVE  \E q \in Path, i \in Index : p = Append(q, i) /\ Len(p) = Len(q) + 1
<1>0. PathLike(p)
  BY PathIs
<1>a. p \in Seq(Nat) /\ Len(p) >= 1
  BY <1>0 DEF PathLike
<1>b. Len(p) \in Nat
  BY <1>a, LenProperties
<1>c. PICK n : n = Len(p) /\ n # 1
  OBVIOUS
<1>d. n \in Nat /\ n > 1
  BY <1>a, <1>b, <1>c
<1>1. PathLike(p) /\ Len(p) \in Nat /\ Len(p) > 1
  BY <1>0, <1>c, <1>d
<1>2. PICK m \in Nat : m = Len(p) - 1 /\ m >= 1
  BY <1>1
<1> DEFINE q == [k \in 1 .. m |-> p[k]]
<1>3. p \in Seq(Nat) /\ Len(p) = m + 1 /\ \A k \in 1 .. m + 1 : p[k] \in Nat
  BY <1>1, <1>2, ElementOfSeq DEF PathLike
<1>4. q \in Seq(Nat) /\ Len(q) = m /\ \A k \in 1 .. m : q[k] = p[k]
  <2>1. q \in [1 .. m -> Nat] /\ \A k \in 1 .. m : q[k] = p[k]
    BY <1>3
  <2> HIDE DEF q
  <2> QED
    BY <2>1, IsSequence
<1>5. q[1] = p[1]
  BY <1>2, <1>4
<1> HIDE DEF q
<1>6. PathLike(q)
  <2>1. p[1] \in Zone /\ m + 1 <= Depth[p[1]] + 1 /\ \A k \in 2 .. m + 1 : p[k] \in Index
    BY <1>1, <1>3 DEF PathLike
  <2>2. Depth[p[1]] \in Nat
    BY <2>1, Depths
  <2> QED
    BY <1>2, <1>4, <1>5, <2>1, <2>2 DEF PathLike
<1>7. p[m + 1] \in Index
  BY <1>1, <1>2, <1>3 DEF PathLike
<1>8. PICK r : r = Append(q, p[m + 1])
  OBVIOUS
<1>9. r \in Seq(Nat) /\ Len(r) = m + 1 /\ r[m + 1] = p[m + 1] /\ \A k \in 1 .. m : r[k] = q[k]
  BY <1>3, <1>4, <1>7, <1>8, AppendProperties
<1>10. \A k \in 1 .. m + 1 : p[k] = r[k]
  BY <1>4, <1>9
<1>11. p = r
  BY <1>3, <1>9, <1>10, SeqEqual
<1> QED
  BY <1>3, <1>4, <1>6, <1>7, <1>8, <1>11, IsPath

\* Induction along paths.
LEMMA PathInduction ==
    ASSUME NEW S, \A z \in Zone : <<z>> \in S,
           \A p \in Path : p \in S => \A i \in Index : Append(p, i) \in Path => Append(p, i) \in S
    PROVE  \A p \in Path : p \in S
<1> DEFINE N == {n \in Nat : \A p \in Path : Len(p) = n => p \in S}
<1>1. 0 \in N
  BY PathIs DEF PathLike
<1>2. ASSUME NEW n \in Nat, n \in N PROVE n + 1 \in N
  <2> SUFFICES ASSUME NEW p \in Path, Len(p) = n + 1 PROVE p \in S
    OBVIOUS
  <2>1. CASE Len(p) = 1
    <3>1. PathLike(p)
      BY PathIs
    <3>2. p[1] \in Zone /\ p[1] \in Nat /\ p \in Seq(Nat)
      BY <3>1, Depths DEF PathLike
    <3>3. <<p[1]>> \in Seq(Nat) /\ Len(<<p[1]>>) = 1 /\ <<p[1]>>[1] = p[1]
      BY <3>2
    <3>4. \A k \in 1 .. Len(p) : p[k] = <<p[1]>>[k]
      <4>0. PICK m : m = Len(p) /\ m = 1
        BY <2>1
      <4>a. \A k \in 1 .. m : k = 1
        BY <4>0
      <4>1. \A k \in 1 .. Len(p) : k = 1
        BY <4>0, <4>a
      <4> QED
        BY <3>3, <4>1
    <3>5. p = <<p[1]>>
      BY <2>1, <3>2, <3>3, <3>4, SeqEqual
    <3> QED
      BY <3>2, <3>5
  <2>2. CASE Len(p) # 1
    <3>1. PICK q \in Path, i \in Index : p = Append(q, i) /\ Len(p) = Len(q) + 1
      BY <2>2, SplitPath
    <3>2. Len(q) \in Nat
      BY PathIs, LenProperties DEF PathLike
    <3>3. q \in S
      BY <1>2, <3>1, <3>2
    <3> QED
      BY <3>1, <3>3
  <2> QED
    BY <2>1, <2>2
<1> HIDE DEF N
<1>3. \A n \in Nat : n \in N
  BY <1>1, <1>2, SetInduction
<1> SUFFICES ASSUME NEW p \in Path PROVE p \in S
  OBVIOUS
<1>4. Len(p) \in Nat
  BY PathIs, LenProperties DEF PathLike
<1> QED
  BY <1>3, <1>4 DEF N

-----------------------------------------------------------------------------
(***************************************************************************)
(* Prefixes.                                                                *)
(***************************************************************************)
LEMMA SubSeqIs ==
    ASSUME NEW S, NEW p \in Seq(S), NEW n \in 0 .. Len(p)
    PROVE  /\ SubSeq(p, 1, n) \in Seq(S) /\ Len(SubSeq(p, 1, n)) = n
           /\ \A k \in 1 .. n : SubSeq(p, 1, n)[k] = p[k]
<1>1. Len(p) \in Nat
  BY LenProperties
<1>2. n \in Nat /\ n \in Int /\ n <= Len(p) /\ \A k \in 1 .. n : p[k] \in S
  BY <1>1, ElementOfSeq
<1>3. PICK r : r = SubSeq(p, 1, n)
  OBVIOUS
<1>4. r \in Seq(S) /\ Len(r) = IF 1 <= n THEN n - 1 + 1 ELSE 0
  BY <1>2, <1>3, SubSeqProperties
<1>5. Len(r) = n
  BY <1>2, <1>4
<1>6. \A k \in 1 .. n - 1 + 1 : r[k] = p[1 + k - 1]
  BY <1>2, <1>3, SubSeqProperties
<1>7. \A k \in 1 .. n : r[k] = p[k]
  <2> SUFFICES ASSUME NEW k \in 1 .. n PROVE r[k] = p[k]
    OBVIOUS
  <2>1. k \in 1 .. n - 1 + 1 /\ 1 + k - 1 = k
    BY <1>2
  <2> QED
    BY <1>6, <2>1
<1> QED
  BY <1>3, <1>4, <1>5, <1>7

LEMMA PrefixIs ==
    ASSUME NEW q \in Seq(Nat), NEW p \in Seq(Nat)
    PROVE  /\ IsPrefix(q, p) <=> Len(q) <= Len(p) /\ \A k \in 1 .. Len(q) : q[k] = p[k]
           /\ IsPrefix(q, p) => SubSeq(p, 1, Len(q)) = q
<1>1. Len(p) \in Nat /\ Len(q) \in Nat
  BY LenProperties
<1>2. SubSeq(q, 1, Len(q)) = q
  BY SubSeqFull
<1>3. SUFFICES ASSUME Len(q) <= Len(p)
               PROVE  SubSeq(p, 1, Len(q)) = q <=> \A k \in 1 .. Len(q) : q[k] = p[k]
  BY <1>2 DEF IsPrefix
<1>4. PICK r : r = SubSeq(p, 1, Len(q))
  OBVIOUS
<1>5. Len(q) \in 0 .. Len(p)
  BY <1>1, <1>3
<1>6. r \in Seq(Nat) /\ Len(r) = Len(q) /\ \A k \in 1 .. Len(q) : r[k] = p[k]
  BY <1>4, <1>5, SubSeqIs
<1>7. (\A k \in 1 .. Len(q) : q[k] = p[k]) => r = q
  <2> SUFFICES ASSUME \A k \in 1 .. Len(q) : q[k] = p[k] PROVE r = q
    OBVIOUS
  <2>1. \A k \in 1 .. Len(r) : r[k] = q[k]
    BY <1>6
  <2> QED
    BY <1>6, <2>1, SeqEqual
<1> QED
  BY <1>4, <1>6, <1>7

LEMMA PathsAreSeqs == \A p \in Path : p \in Seq(Nat) /\ Len(p) \in Nat /\ Len(p) >= 1
<1> SUFFICES ASSUME NEW p \in Path PROVE p \in Seq(Nat) /\ Len(p) \in Nat /\ Len(p) >= 1
  OBVIOUS
<1>1. p \in Seq(Nat) /\ Len(p) >= 1
  BY PathIs DEF PathLike
<1> QED
  BY <1>1, LenProperties

\* What is in front of a path that is one longer.
LEMMA PrefixOfLonger ==
    ASSUME NEW q \in Path, NEW p \in Path, NEW i \in Index
    PROVE  /\ IsPrefix(q, Append(p, i)) <=> IsPrefix(q, p) \/ q = Append(p, i)
           /\ ~ IsPrefix(Append(p, i), p)
<1>1. PICK r : r = Append(p, i)
  OBVIOUS
<1>2. PICK n \in Nat : n = Len(p)
  BY PathsAreSeqs
<1>3. PICK m \in Nat : m = Len(q)
  BY PathsAreSeqs
<1>4. r \in Seq(Nat) /\ Len(r) = n + 1 /\ \A k \in 1 .. n : r[k] = p[k]
  BY <1>1, <1>2, Appended
<1>5. q \in Seq(Nat) /\ p \in Seq(Nat)
  BY PathsAreSeqs
<1>6. IsPrefix(q, r) <=> m <= n + 1 /\ \A k \in 1 .. m : q[k] = r[k]
  BY <1>3, <1>4, <1>5, PrefixIs
<1>7. IsPrefix(q, p) <=> m <= n /\ \A k \in 1 .. m : q[k] = p[k]
  BY <1>2, <1>3, <1>5, PrefixIs
<1>8. IsPrefix(r, p) => n + 1 <= n
  BY <1>2, <1>4, <1>5, PrefixIs
<1>9. m <= n => \A k \in 1 .. m : r[k] = p[k]
  BY <1>4
<1>10. m <= n => (IsPrefix(q, r) <=> IsPrefix(q, p))
  BY <1>6, <1>7, <1>9
<1>11. m = n + 1 => (IsPrefix(q, r) <=> q = r)
  <2> SUFFICES ASSUME m = n + 1 PROVE IsPrefix(q, r) <=> q = r
    OBVIOUS
  <2>1. (\A k \in 1 .. Len(q) : q[k] = r[k]) => q = r
    BY <1>3, <1>4, <1>5, SeqEqual
  <2> QED
    BY <1>3, <1>6, <2>1
<1>12. q = r => m = n + 1
  BY <1>3, <1>4
<1>13. m <= n \/ m = n + 1 \/ m > n + 1
  OBVIOUS
<1> QED
  BY <1>1, <1>6, <1>7, <1>8, <1>10, <1>11, <1>12, <1>13

LEMMA PrefixOfTop ==
    ASSUME NEW q \in Path, NEW z \in Zone
    PROVE  IsPrefix(q, <<z>>) <=> q = <<z>>
<1>1. <<z>> \in Path
  BY TopIsPath
<1>2. PICK r : r = <<z>>
  OBVIOUS
<1>3. r \in Seq(Nat) /\ q \in Seq(Nat) /\ Len(r) = 1 /\ Len(q) \in Nat /\ Len(q) >= 1
  BY <1>1, <1>2, PathsAreSeqs
<1>4. IsPrefix(q, r) <=> Len(q) <= Len(r) /\ \A k \in 1 .. Len(q) : q[k] = r[k]
  BY <1>3, PrefixIs
<1>5. PICK m : m = Len(q) /\ m \in Nat /\ m >= 1
  BY <1>3
<1>6. IsPrefix(q, r) => m = 1 /\ q = r
  <2> SUFFICES ASSUME IsPrefix(q, r) PROVE m = 1 /\ q = r
    OBVIOUS
  <2>1. m = 1 /\ Len(q) = Len(r)
    BY <1>3, <1>4, <1>5
  <2> QED
    BY <1>3, <1>4, <2>1, SeqEqual
<1>7. q = r => IsPrefix(q, r)
  BY <1>3, <1>4
<1> QED
  BY <1>2, <1>6, <1>7

-----------------------------------------------------------------------------
(***************************************************************************)
(* The block at a path, from the block at the path before.                  *)
(***************************************************************************)
LEMMA RawTop ==
    ASSUME NEW zs, NEW pt, NEW z \in Zone
    PROVE  Raw(zs, pt, <<z>>) = zs[z]
<1>1. Tail(<<z>>) = << >> /\ <<z>>[1] = z
  OBVIOUS
<1> QED
  BY <1>1, FoldedTop DEF Raw

LEMMA RawBelow ==
    ASSUME NEW zs, NEW pt, NEW p \in Path, NEW i \in Index
    PROVE  Raw(zs, pt, Append(p, i)) = Deref(pt, Raw(zs, pt, p), i)
<1>1. p \in Seq(Nat) /\ p # << >> /\ i \in Nat
  <2>1. p \in Seq(Nat) /\ Len(p) >= 1
    BY PathIs DEF PathLike
  <2> QED
    BY <2>1, ZonesAssumption DEF Index
<1>2. Tail(p) \in Seq(Nat) /\ Tail(Append(p, i)) = Append(Tail(p), i)
  BY <1>1, HeadTailAppend, HeadTailProperties
<1>3. Append(p, i)[1] = p[1]
  BY Appended
<1>4. PICK w : w = Append(Tail(p), i)
  OBVIOUS
<1>5. Folded(pt, zs[p[1]], w) = Deref(pt, Folded(pt, zs[p[1]], Tail(p)), i)
  BY <1>1, <1>2, <1>4, FoldedNext
<1> QED
  BY <1>2, <1>3, <1>4, <1>5 DEF Raw

LEMMA AtTop ==
    ASSUME NEW zs, NEW pt, NEW F \in SUBSET Path, NEW z \in Zone
    PROVE  At(zs, pt, F, <<z>>) = IF <<z>> \in F THEN 0 ELSE zs[z]
<1>1. (\E q \in F : IsPrefix(q, <<z>>)) <=> <<z>> \in F
  BY PrefixOfTop
<1>2. Raw(zs, pt, <<z>>) = zs[z]
  BY RawTop
<1> QED
  BY <1>1, <1>2 DEF At

LEMMA AtBelow ==
    ASSUME NEW zs, NEW pt, NEW F \in SUBSET Path, NEW p \in Path, NEW i \in Index
    PROVE  At(zs, pt, F, Append(p, i)) =
              IF At(zs, pt, F, p) = 0 \/ Append(p, i) \in F THEN 0 ELSE pt[At(zs, pt, F, p)][i]
<1>1. PICK r : r = Append(p, i)
  OBVIOUS
<1>2. (\E q \in F : IsPrefix(q, r)) <=> (\E q \in F : IsPrefix(q, p)) \/ r \in F
  BY <1>1, PrefixOfLonger
<1>3. Raw(zs, pt, r) = Deref(pt, Raw(zs, pt, p), i)
  BY <1>1, RawBelow
<1> QED
  BY <1>1, <1>2, <1>3 DEF At, Deref

LEMMA AtType ==
    ASSUME NEW zs \in [Zone -> Block \cup {0}], NEW pt \in [Block -> [Index -> Block \cup {0}]],
           NEW F \in SUBSET Path
    PROVE  \A p \in Path : At(zs, pt, F, p) \in Block \cup {0}
<1> DEFINE S == {p \in Path : At(zs, pt, F, p) \in Block \cup {0}}
<1>1. ASSUME NEW z \in Zone PROVE <<z>> \in S
  <2>1. <<z>> \in Path /\ At(zs, pt, F, <<z>>) = IF <<z>> \in F THEN 0 ELSE zs[z]
    BY AtTop, TopIsPath
  <2>2. zs[z] \in Block \cup {0}
    OBVIOUS
  <2>3. At(zs, pt, F, <<z>>) \in Block \cup {0}
    BY <2>1, <2>2
  <2> QED
    BY <2>1, <2>3
<1>2. ASSUME NEW p \in Path, p \in S, NEW i \in Index, Append(p, i) \in Path
      PROVE  Append(p, i) \in S
  <2>1. PICK b \in Block \cup {0} : b = At(zs, pt, F, p)
    BY <1>2
  <2>2. At(zs, pt, F, Append(p, i)) = IF b = 0 \/ Append(p, i) \in F THEN 0 ELSE pt[b][i]
    BY <2>1, AtBelow
  <2>3. b # 0 => pt[b][i] \in Block \cup {0}
    BY <2>1
  <2> QED
    BY <1>2, <2>2, <2>3
<1> HIDE DEF S
<1>3. \A p \in Path : p \in S
  BY <1>1, <1>2, PathInduction
<1> QED
  BY <1>3 DEF S

\* Where there is no block, there is none below.
LEMMA ZeroBelow ==
    ASSUME NEW zs, NEW pt, NEW F \in SUBSET Path, NEW q \in Path, At(zs, pt, F, q) = 0
    PROVE  \A p \in Path : IsPrefix(q, p) => At(zs, pt, F, p) = 0
<1> DEFINE S == {p \in Path : IsPrefix(q, p) => At(zs, pt, F, p) = 0}
<1>1. ASSUME NEW z \in Zone PROVE <<z>> \in S
  <2>1. <<z>> \in Path
    BY TopIsPath
  <2>2. PICK y : y = <<z>>
    OBVIOUS
  <2>3. IsPrefix(q, y) => q = y
    BY <2>2, PrefixOfTop
  <2>4. y \in S
    BY <2>1, <2>2, <2>3
  <2> QED
    BY <2>2, <2>4
<1>2. ASSUME NEW p \in Path, p \in S, NEW i \in Index, Append(p, i) \in Path
      PROVE  Append(p, i) \in S
  <2>1. IsPrefix(q, Append(p, i)) => IsPrefix(q, p) \/ q = Append(p, i)
    BY PrefixOfLonger
  <2>2. At(zs, pt, F, p) = 0 => At(zs, pt, F, Append(p, i)) = 0
    BY AtBelow
  <2> QED
    BY <1>2, <2>1, <2>2
<1> HIDE DEF S
<1>3. \A p \in Path : p \in S
  BY <1>1, <1>2, PathInduction
<1> QED
  BY <1>3 DEF S

-----------------------------------------------------------------------------
(***************************************************************************)
(* What becomes of the tree of a file when an entry of i_zone is cleared,   *)
(* all of the indirect ones are, when a block is freed, and when a hole is  *)
(* filled.                                                                  *)
(***************************************************************************)
\* The entry of i_zone alone decides what is below it.
LEMMA AtDependsOn ==
    ASSUME NEW zs, NEW ys, NEW pt, NEW F, NEW p, ys[p[1]] = zs[p[1]]
    PROVE  At(ys, pt, F, p) = At(zs, pt, F, p)
BY DEF At, Raw

LEMMA NothingBelowZero ==
    ASSUME NEW zs, NEW pt, NEW F \in SUBSET Path, NEW p \in Path, zs[p[1]] = 0
    PROVE  At(zs, pt, F, p) = 0
<1>1. p[1] \in Zone
  BY PathIs DEF PathLike
<1>2. PICK y : y = <<p[1]>>
  OBVIOUS
<1>3. y \in Path /\ At(zs, pt, F, y) = 0
  BY <1>1, <1>2, AtTop, TopIsPath
<1>4. IsPrefix(y, p)
  <2>1. y \in Seq(Nat) /\ p \in Seq(Nat) /\ Len(p) \in Nat /\ Len(p) >= 1
    BY <1>3, PathsAreSeqs
  <2>2. Len(y) = 1 /\ y[1] = p[1]
    BY <1>2
  <2>3. \A k \in 1 .. Len(y) : y[k] = p[k]
    <3>1. \A k \in 1 .. Len(y) : k = 1
      BY <2>2
    <3> QED
      BY <2>2, <3>1
  <2> QED
    BY <2>1, <2>2, <2>3, PrefixIs
<1> QED
  BY <1>3, <1>4, ZeroBelow

\* Freeing hides what is below.
LEMMA AtHidden ==
    ASSUME NEW zs, NEW pt, NEW F, NEW q, NEW p
    PROVE  At(zs, pt, F \cup {q}, p) = IF IsPrefix(q, p) THEN 0 ELSE At(zs, pt, F, p)
BY DEF At

\* A new block that is nowhere in the tree is cleared, and put in one place of a
\* block that is in the tree at parent, if it is.
FillsBelow(zs, pt, F, new, b, i, parent, nt) ==
    /\ zs \in [Zone -> Block \cup {0}] /\ pt \in [Block -> [Index -> Block \cup {0}]]
    /\ F \in SUBSET Path /\ new \in Block /\ b \in Block /\ b # new /\ i \in Index /\ pt[b][i] = 0
    /\ \A p \in Path : At(zs, pt, F, p) # new
    /\ \A p \in Path : At(zs, pt, F, p) = b => p = parent
    /\ \A c \in Block \ {new, b} : nt[c] = pt[c]
    /\ \A j \in Index : nt[new][j] = 0
    /\ nt[b][i] = new /\ \A j \in Index \ {i} : nt[b][j] = pt[b][j]

LEMMA AtFilled ==
    ASSUME NEW zs, NEW pt, NEW F, NEW new, NEW b, NEW i, NEW parent, NEW nt,
           FillsBelow(zs, pt, F, new, b, i, parent, nt)
    PROVE  \A p \in Path : At(zs, nt, F, p) =
              IF /\ p = Append(parent, i) /\ parent \in Path
                 /\ At(zs, pt, F, parent) = b /\ p \notin F
              THEN new ELSE At(zs, pt, F, p)
<1> USE DEF FillsBelow
<1> DEFINE A(p) == At(zs, pt, F, p)
           N(p) == At(zs, nt, F, p)
           Hit(p) == p = Append(parent, i) /\ parent \in Path /\ A(parent) = b /\ p \notin F
           S == {p \in Path : N(p) = IF Hit(p) THEN new ELSE A(p)}
<1>1. /\ \A c \in Block \ {new, b} : nt[c] = pt[c]
      /\ \A j \in Index : nt[new][j] = 0
      /\ nt[b][i] = new /\ \A j \in Index \ {i} : nt[b][j] = pt[b][j]
  OBVIOUS
<1>2. new # 0 /\ b # 0
  BY DEF Block
<1>3. ASSUME NEW z \in Zone PROVE <<z>> \in S
  <2>1. PICK y : y = <<z>> /\ y \in Path
    BY TopIsPath
  <2>2. A(y) = N(y)
    BY <2>1, AtTop
  <2>3. ~ Hit(y)
    <3> SUFFICES ASSUME Hit(y) PROVE FALSE
      OBVIOUS
    <3>1. Len(y) = Len(parent) + 1 /\ Len(parent) \in Nat /\ Len(parent) >= 1
      BY Appended, PathsAreSeqs
    <3>2. Len(y) = 1
      BY <2>1
    <3> QED
      BY <3>1, <3>2
  <2> QED
    BY <2>1, <2>2, <2>3
<1>4. ASSUME NEW p \in Path, p \in S, NEW j \in Index, Append(p, j) \in Path
      PROVE  Append(p, j) \in S
  <2>1. PICK q : q = Append(p, j) /\ q \in Path
    BY <1>4
  <2>2. A(q) = IF A(p) = 0 \/ q \in F THEN 0 ELSE pt[A(p)][j]
    BY <2>1, AtBelow
  <2>3. N(q) = IF N(p) = 0 \/ q \in F THEN 0 ELSE nt[N(p)][j]
    BY <2>1, AtBelow
  <2>4. N(p) = IF Hit(p) THEN new ELSE A(p)
    BY <1>4
  <2>5. Hit(q) <=> p = parent /\ j = i /\ A(p) = b /\ q \notin F
    <3>1. ASSUME Hit(q) PROVE p = parent /\ j = i
      <4>1. p \in Seq(Nat) /\ parent \in Seq(Nat) /\ i \in Nat /\ j \in Nat
        BY <3>1, PathsAreSeqs, ZonesAssumption DEF Index
      <4>2. Append(p, j) = Append(parent, i)
        BY <2>1, <3>1
      <4>3. Append(p, j) = Append(parent, i) <=> p = parent /\ j = i
        <5>1. PICK W : W = Nat
          OBVIOUS
        <5>2. p \in Seq(W) /\ parent \in Seq(W) /\ i \in W /\ j \in W
          BY <4>1, <5>1
        <5> QED
          BY <5>2, AppendInjective
      <4> QED
        BY <4>2, <4>3
    <3> QED
      BY <2>1, <3>1
  <2>6. Hit(p) => A(p) = 0
    <3> SUFFICES ASSUME Hit(p) PROVE A(p) = 0
      OBVIOUS
    <3>1. At(zs, pt, F, Append(parent, i)) = IF At(zs, pt, F, parent) = 0 \/ Append(parent, i) \in F THEN 0
                         ELSE pt[At(zs, pt, F, parent)][i]
      BY AtBelow
    <3> QED
      BY <3>1
  <2>7. CASE Hit(p)
    <3>1. A(q) = 0 /\ N(q) = 0
      BY <1>1, <2>2, <2>3, <2>4, <2>6, <2>7
    <3>2. ~ Hit(q)
      BY <1>2, <2>5, <2>6, <2>7
    <3> QED
      BY <2>1, <3>1, <3>2
  <2>8. CASE ~ Hit(p)
    <3>1. N(p) = A(p)
      BY <2>4, <2>8
    <3>2. CASE A(p) = 0 \/ q \in F
      <4>1. A(q) = 0 /\ N(q) = 0
        BY <2>2, <2>3, <3>1, <3>2
      <4>2. ~ Hit(q)
        BY <1>2, <2>5, <3>2
      <4> QED
        BY <2>1, <4>1, <4>2
    <3>3. CASE A(p) # 0 /\ q \notin F /\ A(p) # b
      <4>1. ~ Hit(q)
        BY <2>5, <3>3
      <4>2. A(p) # new /\ A(p) \in Block
        BY <3>3, AtType
      <4>3. A(q) = pt[A(p)][j] /\ N(q) = nt[A(p)][j]
        BY <2>2, <2>3, <3>1, <3>3
      <4>4. nt[A(p)] = pt[A(p)]
        BY <3>3, <4>2
      <4> QED
        BY <2>1, <4>1, <4>3, <4>4
    <3>4. CASE q \notin F /\ A(p) = b
      <4>1. p = parent
        BY <3>4
      <4>2. A(q) = pt[b][j] /\ N(q) = nt[b][j]
        BY <1>2, <2>2, <2>3, <3>1, <3>4
      <4>3. CASE j = i
        BY <1>1, <2>1, <2>5, <3>4, <4>1, <4>2, <4>3
      <4>4. CASE j # i
        BY <1>1, <2>1, <2>5, <4>2, <4>4
      <4> QED
        BY <4>3, <4>4
    <3> QED
      BY <3>2, <3>3, <3>4
  <2> QED
    BY <2>7, <2>8
<1> HIDE DEF S
<1>5. \A p \in Path : p \in S
  BY <1>3, <1>4, PathInduction
<1> QED
  BY <1>5 DEF S

\* The same where the block is put in i_zone.
FillsTop(zs, pt, F, new, z, ys, nt) ==
    /\ zs \in [Zone -> Block \cup {0}] /\ pt \in [Block -> [Index -> Block \cup {0}]]
    /\ F \in SUBSET Path /\ new \in Block /\ z \in Zone /\ zs[z] = 0
    /\ \A p \in Path : At(zs, pt, F, p) # new
    /\ ys[z] = new /\ \A x \in Zone \ {z} : ys[x] = zs[x]
    /\ \A c \in Block \ {new} : nt[c] = pt[c]
    /\ \A j \in Index : nt[new][j] = 0

LEMMA AtFilledTop ==
    ASSUME NEW zs, NEW pt, NEW F, NEW new, NEW z, NEW ys, NEW nt,
           FillsTop(zs, pt, F, new, z, ys, nt)
    PROVE  \A p \in Path : At(ys, nt, F, p) =
              IF p = <<z>> /\ p \notin F THEN new ELSE At(zs, pt, F, p)
<1> USE DEF FillsTop
<1> DEFINE A(p) == At(zs, pt, F, p)
           N(p) == At(ys, nt, F, p)
           Hit(p) == p = <<z>> /\ p \notin F
           S == {p \in Path : N(p) = IF Hit(p) THEN new ELSE A(p)}
<1>1. /\ \A c \in Block \ {new} : nt[c] = pt[c]
      /\ \A j \in Index : nt[new][j] = 0
      /\ ys[z] = new /\ \A x \in Zone \ {z} : ys[x] = zs[x]
  OBVIOUS
<1>2. new # 0
  BY DEF Block
<1>3. ASSUME NEW x \in Zone PROVE <<x>> \in S
  <2>1. PICK y : y = <<x>> /\ y \in Path
    BY TopIsPath
  <2>2. A(y) = (IF y \in F THEN 0 ELSE zs[x]) /\ N(y) = (IF y \in F THEN 0 ELSE ys[x])
    <3>1. /\ At(zs, pt, F, <<x>>) = IF <<x>> \in F THEN 0 ELSE zs[x]
          /\ At(ys, nt, F, <<x>>) = IF <<x>> \in F THEN 0 ELSE ys[x]
      BY AtTop
    <3> QED
      BY <2>1, <3>1
  <2>3. Hit(y) <=> x = z /\ y \notin F
    BY <2>1
  <2> QED
    BY <1>1, <2>1, <2>2, <2>3
<1>4. ASSUME NEW p \in Path, p \in S, NEW j \in Index, Append(p, j) \in Path
      PROVE  Append(p, j) \in S
  <2>1. PICK q : q = Append(p, j) /\ q \in Path
    BY <1>4
  <2>2. A(q) = IF A(p) = 0 \/ q \in F THEN 0 ELSE pt[A(p)][j]
    BY <2>1, AtBelow
  <2>3. N(q) = IF N(p) = 0 \/ q \in F THEN 0 ELSE nt[N(p)][j]
    BY <2>1, AtBelow
  <2>4. N(p) = IF Hit(p) THEN new ELSE A(p)
    BY <1>4
  <2>5. ~ Hit(q)
    <3>1. Len(q) = Len(p) + 1 /\ Len(p) \in Nat /\ Len(p) >= 1
      BY <2>1, Appended, PathsAreSeqs
    <3>2. Len(<<z>>) = 1
      OBVIOUS
    <3> QED
      BY <3>1, <3>2
  <2>6. Hit(p) => A(p) = 0
    BY AtTop
  <2>7. CASE Hit(p)
    BY <1>1, <2>1, <2>2, <2>3, <2>4, <2>5, <2>6, <2>7
  <2>8. CASE ~ Hit(p)
    <3>1. A(p) \in Block \cup {0} /\ A(p) # new
      BY AtType
    <3>2. A(p) # 0 => nt[A(p)] = pt[A(p)]
      BY <1>1, <3>1
    <3> QED
      BY <2>1, <2>2, <2>3, <2>4, <2>5, <2>8, <3>2
  <2> QED
    BY <2>7, <2>8
<1> HIDE DEF S
<1>5. \A p \in Path : p \in S
  BY <1>3, <1>4, PathInduction
<1> QED
  BY <1>5 DEF S

\* What one file fills does not show in the others.
LEMMA AtElsewhere ==
    ASSUME NEW zs, NEW pt \in [Block -> [Index -> Block \cup {0}]], NEW F \in SUBSET Path,
           NEW nt, \A p \in Path : At(zs, pt, F, p) # 0 => nt[At(zs, pt, F, p)] = pt[At(zs, pt, F, p)]
    PROVE  \A p \in Path : At(zs, nt, F, p) = At(zs, pt, F, p)
<1> DEFINE S == {p \in Path : At(zs, nt, F, p) = At(zs, pt, F, p)}
<1>1. ASSUME NEW x \in Zone PROVE <<x>> \in S
  BY AtTop, TopIsPath
<1>2. ASSUME NEW p \in Path, p \in S, NEW j \in Index, Append(p, j) \in Path
      PROVE  Append(p, j) \in S
  <2>1. PICK q : q = Append(p, j) /\ q \in Path
    BY <1>2
  <2>2. PICK a : a = At(zs, pt, F, p)
    OBVIOUS
  <2>3. At(zs, pt, F, q) = IF a = 0 \/ q \in F THEN 0 ELSE pt[a][j]
    BY <2>1, <2>2, AtBelow
  <2>4. At(zs, nt, F, p) = a
    BY <1>2, <2>2
  <2>5. At(zs, nt, F, q) = IF a = 0 \/ q \in F THEN 0 ELSE nt[a][j]
    BY <2>1, <2>4, AtBelow
  <2> QED
    BY <2>1, <2>2, <2>3, <2>5
<1> HIDE DEF S
<1>3. \A p \in Path : p \in S
  BY <1>1, <1>2, PathInduction
<1> QED
  BY <1>3 DEF S

-----------------------------------------------------------------------------
(***************************************************************************)
(* The inductive invariant.  What a call knows is said of its locals o, its *)
(* label l and the tree T of all files, T[f][p] = BlockAt(f, p).            *)
(***************************************************************************)
Tree == [f \in File |-> [p \in Path |-> BlockAt(f, p)]]

Looking(o, l) == l \in {"look", "new"} /\ o.level > 1

\* _bmap and the bread after it: what is held at which label.
WalkShape(o, l) ==
    o.what # "truncate" =>
        /\ o.path \in Position /\ o.stack = << >> /\ o.freed = {}
        /\ l \in {"look", "getblk", "read", "new"}
        /\ l = "new" <=> o.new # 0
        /\ l = "new" => o.what = "write"
        /\ l \in {"getblk", "read"} \/ o.level > 1 => o.block # 0
        /\ o.holds = IF l = "read" \/ Looking(o, l) THEN {o.block} ELSE {}

\* truncate: the open calls are one per level, each at the entry the next came from.
FramesRight(o, l) ==
    LET s == o.stack
        n == Len(s)
    IN  /\ o.zone > 1
        /\ \A k \in 1 .. n : s[k].depth + k = Depth[o.zone - 1] + 1
        /\ \A k \in 1 .. n - 1 : s[k].index \in 2 .. PER_BLOCK + 1
        /\ l \in {"getblk", "read"} => s[n].index = 0 /\ s[n].depth > 0
        /\ l = "next" => s[n].index \in 1 .. PER_BLOCK + 1 /\ s[n].depth > 0
        /\ l = "free" => s[n].index = 0 \/ (s[n].index = PER_BLOCK + 1 /\ s[n].depth > 0)

TruncShape(o, l) ==
    o.what = "truncate" =>
        /\ o.path = << >> /\ o.new = 0
        /\ l \in {"getblk", "read", "next", "free"}
        /\ o.zone \in 1 .. Len(Depth) + 1
        /\ \A p \in o.freed : Depth[p[1]] > 0
        /\ l # "next" => o.stack # << >> /\ o.block = o.stack[Len(o.stack)].block
        /\ o.stack # << >> => FramesRight(o, l)

\* What a call knows that no other has come between.
WalkView(T, o, l) ==
    o.what # "truncate" /\ ~o.overlap =>
        /\ l \in {"getblk", "read"} => T[o.file][SubSeq(o.path, 1, o.level)] = o.block
        /\ Looking(o, l) => T[o.file][SubSeq(o.path, 1, o.level - 1)] = o.block
        /\ l = "new" => T[o.file][SubSeq(o.path, 1, o.level)] = 0

\* The path of the n-th open call, and the places truncate has been at before.
PathOf(o, n) == <<o.zone - 1>> \o [k \in 1 .. n - 1 |-> o.stack[k].index - 1]

UpTo(o, n) == IF n < Len(o.stack) THEN o.stack[n].index - 1 ELSE o.stack[n].index

Dealt(o, p) ==
    \/ p[1] < o.zone - 1
    \/ o.stack = << >> /\ p[1] = o.zone - 1
    \/ \E n \in 1 .. Len(o.stack) :
          n < Len(p) /\ IsPrefix(PathOf(o, n), p) /\ p[n + 1] < UpTo(o, n)

TruncView(T, o, l, gone) ==
    o.what = "truncate" /\ ~o.overlap =>
        /\ \A n \in 1 .. Len(o.stack) : T[o.file][PathOf(o, n)] = o.stack[n].block
        /\ \A b \in o.holds : \E n \in 1 .. Len(o.stack) : b = o.stack[n].block
        /\ \A p \in o.freed : Dealt(o, p)
        /\ \A p \in Path : Dealt(o, p) => T[o.file][p] = 0
        /\ l = "free" /\ o.stack[Len(o.stack)].index = 0 =>
              \A p \in Path : /\ IsPrefix(PathOf(o, Len(o.stack)), p)
                              /\ Len(p) > Len(o.stack)
                              => T[o.file][p] \in gone \cup {0}

\* A block in hand is marked, and in no place but the one it was found at.
LookRight(T, marks, o, l) ==
    o.what # "truncate" /\ Looking(o, l) =>
        /\ o.block \in marks
        /\ \A f \in File : \A p \in Path :
              T[f][p] = o.block => f = o.file /\ p = SubSeq(o.path, 1, o.level - 1)

NewRight(T, marks, o) ==
    o.new # 0 => o.new \in marks /\ \A f \in File : \A p \in Path : T[f][p] # o.new

OnePlace(T) == \A f, g \in File : \A p, q \in Path :
    T[f][p] # 0 /\ T[f][p] = T[g][q] => f = g /\ p = q

AllMarked(T, marks) == \A f \in File : \A p \in Path : T[f][p] \in marks \cup {0}

NewsApart == \A t, u \in Busy : op[t].new # 0 /\ op[t].new = op[u].new => t = u

LooksApart == \A t, u \in Busy :
    op[t].what # "truncate" /\ Looking(op[t], stage[t]) => op[u].new # op[t].block

Conflicts == \A t, u \in Busy :
    t # u /\ op[t].file = op[u].file /\ Conflict(op[t].what, op[u].what)
        => op[t].overlap /\ op[u].overlap

SinceRight == since = 0 => \A t \in Busy : ~op[t].overlap

UserRight == \A t \in Caller : stage[t] = "user" <=> op[t] = NoOp

Shapes == \A t \in Busy : WalkShape(op[t], stage[t]) /\ TruncShape(op[t], stage[t])

Views == \A t \in Busy : WalkView(Tree, op[t], stage[t]) /\ TruncView(Tree, op[t], stage[t], lost)

Looks == \A t \in Busy : LookRight(Tree, zmap, op[t], stage[t])

News == \A t \in Busy : NewRight(Tree, zmap, op[t])

NoLeak == since = 0 => zmap \subseteq Used \cup lost

ZonesRight == /\ UserRight /\ Shapes /\ Conflicts /\ SinceRight
              /\ OnePlace(Tree) /\ AllMarked(Tree, zmap)
              /\ News /\ NewsApart /\ Looks /\ LooksApart /\ Views /\ NoLeak

ZonesIInv == /\ ZonesTypeOK
             /\ wrong = "nothing" => ZonesRight
             /\ wrong # "nothing" => Overlapping

-----------------------------------------------------------------------------
(***************************************************************************)
(* Types, and what a step does to the locals.                               *)
(***************************************************************************)
LEMMA Blocks == /\ 0 \notin Block /\ Block \subseteq Nat /\ Index \subseteq Nat \ {0}
                /\ PER_BLOCK \in Nat /\ PER_BLOCK >= 1 /\ NR_BLOCK \in Nat
BY ZonesAssumption DEF Block, Index

LEMMA OpIs ==
    ASSUME NEW o \in Op
    PROVE  /\ o.what \in {"read", "write", "truncate"} /\ o.file \in File
           /\ o.path \in Position \cup {<< >>} /\ o.level \in Nat
           /\ o.block \in Block \cup {0} /\ o.new \in Block \cup {0} /\ o.holds \in SUBSET Block
           /\ o.stack \in Seq(Frame) /\ o.freed \in SUBSET Path /\ o.zone \in Nat
           /\ o.overlap \in BOOLEAN /\ o # NoOp
BY DEF Op, NoOp

LEMMA BusyIs == ZonesTypeOK => \A t \in Caller : (t \in Busy => op[t] \in Op) /\ (t \notin Busy => op[t] = NoOp)
BY DEF ZonesTypeOK, Busy

LEMMA PositionsArePaths == \A p \in Position : p \in Path /\ Len(p) = Depth[p[1]] + 1
BY DEF Position

\* The stack of a truncate.
LEMMA StackIs ==
    ASSUME NEW o \in Op, o.stack # << >>
    PROVE  /\ Len(o.stack) \in Nat /\ Len(o.stack) >= 1
           /\ \A k \in 1 .. Len(o.stack) :
                 /\ o.stack[k] \in Frame /\ o.stack[k].block \in Block
                 /\ o.stack[k].depth \in Nat /\ o.stack[k].index \in Nat
<1>1. o.stack \in Seq(Frame)
  BY OpIs
<1>2. Len(o.stack) \in Nat /\ Len(o.stack) >= 1
  BY <1>1, EmptySeq, LenProperties
<1>3. \A k \in 1 .. Len(o.stack) : o.stack[k] \in Frame
  BY <1>1, ElementOfSeq
<1> QED
  BY <1>2, <1>3 DEF Frame

LEMMA PathOfIs ==
    ASSUME NEW o \in Op, NEW l, o.what = "truncate", TruncShape(o, l), o.stack # << >>,
           NEW n \in 1 .. Len(o.stack), NEW r, r = PathOf(o, n)
    PROVE  /\ r \in Path /\ Len(r) = n /\ r[1] = o.zone - 1 /\ o.zone - 1 \in Zone
           /\ \A k \in 2 .. n : r[k] = o.stack[k - 1].index - 1
           /\ o.stack[n].depth + n = Depth[o.zone - 1] + 1
<1> DEFINE m == Len(o.stack)
           q == [k \in 1 .. n - 1 |-> o.stack[k].index - 1]
<1>1. FramesRight(o, l) /\ o.zone \in 1 .. Len(Depth) + 1
  BY DEF TruncShape
<1>2. m \in Nat /\ m >= 1 /\ n \in Nat /\ n >= 1 /\ n <= m
  BY StackIs
<1>3. PICK z : z = o.zone - 1
  OBVIOUS
<1>4. z \in Zone /\ z \in Nat
  BY <1>1, <1>3, ZonesAre DEF FramesRight
<1>5. \A k \in 1 .. n - 1 : o.stack[k].index \in 2 .. PER_BLOCK + 1 /\ o.stack[k].index - 1 \in Index
  BY <1>1, <1>2, Blocks DEF FramesRight, Index
<1>6. o.stack[n].depth + n = Depth[z] + 1 /\ o.stack[n].depth \in Nat
  BY <1>1, <1>2, <1>3, StackIs DEF FramesRight
<1>7. q \in Seq(Nat) /\ Len(q) = n - 1 /\ \A k \in 1 .. n - 1 : q[k] = o.stack[k].index - 1
  <2>1. q \in [1 .. n - 1 -> Nat] /\ n - 1 \in Nat /\ \A k \in 1 .. n - 1 : q[k] = o.stack[k].index - 1
    BY <1>2, <1>5, Blocks
  <2> HIDE DEF q
  <2> QED
    BY <2>1, IsSequence
<1>8. PICK y : y = <<z>>
  OBVIOUS
<1>9. y \in Seq(Nat) /\ Len(y) = 1 /\ y[1] = z
  BY <1>4, <1>8
<1>10. r = y \o q
  BY <1>3, <1>8 DEF PathOf
<1> HIDE DEF q
<1>11. /\ y \o q \in Seq(Nat) /\ Len(y \o q) = Len(y) + Len(q)
       /\ \A i \in 1 .. Len(y) + Len(q) : (y \o q)[i] = IF i <= Len(y) THEN y[i] ELSE q[i - Len(y)]
  BY <1>7, <1>9, ConcatProperties
<1>12. /\ r \in Seq(Nat) /\ Len(r) = n
       /\ \A i \in 1 .. n : r[i] = IF i <= 1 THEN y[i] ELSE q[i - 1]
  BY <1>2, <1>7, <1>9, <1>10, <1>11
<1>13. r[1] = z
  BY <1>2, <1>9, <1>12
<1>14. ASSUME NEW k \in 2 .. n PROVE r[k] = o.stack[k - 1].index - 1 /\ r[k] \in Index
  <2>1. k \in 1 .. n /\ ~(k <= 1) /\ k - 1 \in 1 .. n - 1
    BY <1>2
  <2> QED
    BY <1>5, <1>7, <1>12, <2>1
<1>15. PathLike(r)
  <2>1. n <= Depth[z] + 1
    BY <1>2, <1>4, <1>6, Depths
  <2> QED
    BY <1>2, <1>4, <1>12, <1>13, <1>14, <2>1 DEF PathLike
<1> QED
  BY <1>3, <1>4, <1>6, <1>12, <1>13, <1>14, <1>15, IsPath

LEMMA TopIs ==
    ASSUME NEW t, op[t] \in Op, NEW l, op[t].what = "truncate", TruncShape(op[t], l), op[t].stack # << >>
    PROVE  /\ TopPath(t) = PathOf(op[t], Len(op[t].stack)) /\ TopPath(t) \in Path
           /\ Top(t) = op[t].stack[Len(op[t].stack)] /\ Top(t) \in Frame
           /\ Len(op[t].stack) \in 1 .. Len(op[t].stack) /\ TopPath(t)[1] = op[t].zone - 1
<1>1. TopPath(t) = PathOf(op[t], Len(op[t].stack))
  BY DEF TopPath, PathOf
<1>2. Len(op[t].stack) \in 1 .. Len(op[t].stack)
  BY StackIs
<1>3. TopPath(t) \in Path /\ TopPath(t)[1] = op[t].zone - 1
  BY <1>1, <1>2, PathOfIs
<1> QED
  BY <1>1, <1>2, <1>3, StackIs DEF Top, Last

-----------------------------------------------------------------------------
(***************************************************************************)
(* Each step as what it makes of its own call: the locals n and the label   *)
(* l.  n = NoOp where the call returns.                                     *)
(***************************************************************************)
Moves(t, n, l) == /\ op' = [op EXCEPT ![t] = n] /\ stage' = [stage EXCEPT ![t] = l]
                  /\ running' \in {t, NoCaller}

LEMMA MovesTo ==
    ASSUME ZonesTypeOK, NEW t \in Caller, NEW n, NEW l, Moves(t, n, l)
    PROVE  /\ op'[t] = n /\ stage'[t] = l
           /\ \A u \in Caller \ {t} : op'[u] = op[u] /\ stage'[u] = stage[u]
           /\ Busy' = IF n = NoOp THEN Busy \ {t} ELSE Busy \cup {t}
<1>1. op \in [Caller -> Op \cup {NoOp}] /\ DOMAIN stage = Caller
  BY DEF ZonesTypeOK
<1>2. op'[t] = n /\ stage'[t] = l /\ \A u \in Caller \ {t} : op'[u] = op[u] /\ stage'[u] = stage[u]
  BY <1>1 DEF Moves
<1>3. Busy' = {u \in Caller : op'[u] # NoOp} /\ Busy = {u \in Caller : op[u] # NoOp}
  BY DEF Busy
<1> QED
  BY <1>2, <1>3

LEMMA TypeMoves ==
    ASSUME ZonesTypeOK, NEW t \in Caller, NEW n \in Op \cup {NoOp},
           NEW l \in {"user", "look", "getblk", "read", "new", "next", "free"}, Moves(t, n, l),
           n # NoOp /\ n.path # << >> => n.level \in DOMAIN n.path,
           i_zone' \in [File -> [Zone -> Block \cup {0}]],
           ptr' \in [Block -> [Index -> Block \cup {0}]],
           zmap' \subseteq Block, lost' \subseteq Block,
           wrong' \in {wrong, "two blocks for one place"}, since' = since
    PROVE  ZonesTypeOK'
<1>1. op' \in [Caller -> Op \cup {NoOp}] /\ stage' \in [Caller -> {"user", "look", "getblk", "read", "new", "next", "free"}]
  BY DEF ZonesTypeOK, Moves
<1>2. ASSUME NEW u \in Busy', op'[u].path # << >> PROVE op'[u].level \in DOMAIN op'[u].path
  <2>1. CASE u = t
    BY <1>2, <2>1, MovesTo DEF Busy
  <2>2. CASE u # t
    <3>1. u \in Caller /\ op'[u] = op[u] /\ op'[u] # NoOp
      BY <1>2, <2>2, MovesTo DEF Busy
    <3>2. u \in Busy
      BY <3>1 DEF Busy
    <3> QED
      BY <1>2, <3>1, <3>2 DEF ZonesTypeOK
  <2> QED
    BY <2>1, <2>2
<1>3. running' \in Caller \cup {NoCaller}
  BY DEF Moves
<1>4. wrong' \in {"nothing", "two blocks for one place", "block no longer in the file",
                  "block in use not freed", "new block: count is != 1",
                  "free_block: bit already cleared"} /\ since' \in 0 .. MAX_SINCE
  BY DEF ZonesTypeOK
<1> QED
  BY <1>1, <1>2, <1>3, <1>4 DEF ZonesTypeOK

\* Who steps is in a call.
LEMMA InCall ==
    ASSUME ZonesTypeOK, UserRight, NEW t \in Caller, stage[t] # "user"
    PROVE  t \in Busy /\ op[t] \in Op /\ op[t] # NoOp
BY BusyIs DEF UserRight, Busy

LEMMA LeastFree == Free # {} => Min(Free) \in Free
<1> SUFFICES ASSUME Free # {} PROVE Min(Free) \in Free
  OBVIOUS
<1> DEFINE R == {ss \in Nat \X Nat : ss[1] < ss[2]}
<1>1. IsWellFoundedOn(R, Nat)
  BY NatLessThanWellFounded DEF OpToRel
<1>2. Free \subseteq Nat
  BY Blocks DEF Free
<1>3. PICK x \in Free : \A y \in Free : ~(<<y, x>> \in R)
  BY <1>1, <1>2, WFMin
<1>4. x \in Nat /\ \A y \in Free : y \in Nat /\ x <= y
  <2>1. x \in Nat /\ \A y \in Free : y \in Nat
    BY <1>2
  <2>2. \A y \in Free : ~(y < x)
    BY <1>3, <2>1
  <2> QED
    BY <2>1, <2>2
<1>5. \E m \in Free : \A y \in Free : m <= y
  BY <1>4
<1> QED
  BY <1>5 DEF Min

FindsTo(t)  == [op[t] EXCEPT !.block = Entry(t), !.holds = {}]
MarksTo(t)  == [op[t] EXCEPT !.new = Min(Free)]
FillsTo(t)  == [op[t] EXCEPT !.new = 0]
HoldsTo(t)  == [op[t] EXCEPT !.holds = @ \cup {op[t].block}]
GoesDown(t) == [op[t] EXCEPT !.level = @ + 1]
SkipsZone(t) == [op[t] EXCEPT !.zone = @ + 1]
BeginsZone(t) ==
    LET o == op[t]
        b == i_zone[o.file][o.zone]
    IN  [o EXCEPT !.stack = <<Below(b, Depth[o.zone])>>, !.block = b, !.zone = @ + 1,
                  !.holds = IF Depth[o.zone] = 0 THEN {b} ELSE {}]
BeginsBelow(t) == [op[t] EXCEPT !.stack = Advanced(t), !.block = 0]
SkipsBelow(t)  == [op[t] EXCEPT !.stack = Advanced(t)]
Descends(t) ==
    LET b == ptr[Top(t).block][Top(t).index]
        d == Top(t).depth - 1
    IN  [op[t] EXCEPT !.stack = Append(Advanced(t), Below(b, d)), !.block = b,
                      !.holds = IF d = 0 THEN @ \cup {b} ELSE @]
EndsBelow(t) == [op[t] EXCEPT !.block = Top(t).block]
FreesTo(t) ==
    [op[t] EXCEPT !.stack = Front(@), !.block = 0, !.holds = @ \ {op[t].block},
                  !.freed = IF Depth[op[t].zone - 1] = 0 THEN @ ELSE @ \cup {TopPath(t)}]

LEMMA WalkMoves ==
    ASSUME ZonesTypeOK, NEW t \in Caller
    PROVE  /\ FindsHole(t) \/ NoNewBlock(t) \/ ReadFails(t) \/ UsesBlock(t) \/ Truncated(t) => Moves(t, NoOp, "user")
           /\ Finds(t) => Moves(t, FindsTo(t), "getblk")
           /\ NewBlock(t) => Moves(t, MarksTo(t), "new")
           /\ Fills(t) => Moves(t, FillsTo(t), "look")
           /\ BreadHolds(t) => Moves(t, HoldsTo(t), "read")
           /\ ReadsPointers(t) => Moves(t, GoesDown(t), "look")
<1>1. DOMAIN op = Caller
  BY DEF ZonesTypeOK
<1>2. FindsHole(t) \/ NoNewBlock(t) \/ ReadFails(t) \/ UsesBlock(t) \/ Truncated(t) => Moves(t, NoOp, "user")
  BY <1>1 DEF FindsHole, NoNewBlock, ReadFails, UsesBlock, Truncated, CallReturns, Moves
<1>3. Finds(t) => Moves(t, FindsTo(t), "getblk")
  BY <1>1 DEF Finds, MaySleep, Moves, FindsTo
<1>4. NewBlock(t) => Moves(t, MarksTo(t), "new")
  BY <1>1 DEF NewBlock, MaySleep, Moves, MarksTo
<1>5. Fills(t) => Moves(t, FillsTo(t), "look")
  BY <1>1 DEF Fills, GoesOn, Moves, FillsTo
<1>6. BreadHolds(t) => Moves(t, HoldsTo(t), "read")
  BY <1>1 DEF BreadHolds, MaySleep, Moves, HoldsTo
<1>7. ReadsPointers(t) => Moves(t, GoesDown(t), "look")
  BY <1>1 DEF ReadsPointers, GoesOn, Moves, GoesDown
<1> QED
  BY <1>2, <1>3, <1>4, <1>5, <1>6, <1>7

LEMMA TruncMoves ==
    ASSUME ZonesTypeOK, NEW t \in Caller
    PROVE  /\ NextZone(t) => IF i_zone[op[t].file][op[t].zone] = 0
                             THEN Moves(t, SkipsZone(t), "next")
                             ELSE Moves(t, BeginsZone(t), Starts(Depth[op[t].zone]))
           /\ ReadsBelow(t) => Moves(t, BeginsBelow(t), "next")
           /\ CannotReadBelow(t) => Moves(t, op[t], "free")
           /\ NextBelow(t) => IF ptr[Top(t).block][Top(t).index] = 0
                              THEN Moves(t, SkipsBelow(t), "next")
                              ELSE Moves(t, Descends(t), Starts(Top(t).depth - 1))
           /\ BelowDone(t) => Moves(t, EndsBelow(t), "free")
           /\ FreeBlock(t) => Moves(t, FreesTo(t), "next")
<1>1. DOMAIN op = Caller /\ op \in [Caller -> Op \cup {NoOp}]
  BY DEF ZonesTypeOK
<1>2. NextZone(t) => IF i_zone[op[t].file][op[t].zone] = 0
                     THEN Moves(t, SkipsZone(t), "next")
                     ELSE Moves(t, BeginsZone(t), Starts(Depth[op[t].zone]))
  BY <1>1 DEF NextZone, GoesOn, MaySleep, Moves, SkipsZone, BeginsZone
<1>3. ReadsBelow(t) => Moves(t, BeginsBelow(t), "next")
  BY <1>1 DEF ReadsBelow, GoesOn, Moves, BeginsBelow
<1>4. CannotReadBelow(t) => Moves(t, op[t], "free")
  BY <1>1 DEF CannotReadBelow, GoesOn, Moves
<1>5. NextBelow(t) => IF ptr[Top(t).block][Top(t).index] = 0
                      THEN Moves(t, SkipsBelow(t), "next")
                      ELSE Moves(t, Descends(t), Starts(Top(t).depth - 1))
  BY <1>1 DEF NextBelow, GoesOn, MaySleep, Moves, SkipsBelow, Descends
<1>6. BelowDone(t) => Moves(t, EndsBelow(t), "free")
  BY <1>1 DEF BelowDone, MaySleep, Moves, EndsBelow
<1>7. FreeBlock(t) => Moves(t, FreesTo(t), "next")
  BY <1>1 DEF FreeBlock, GoesOn, Moves, FreesTo
<1> QED
  BY <1>2, <1>3, <1>4, <1>5, <1>6, <1>7
-----------------------------------------------------------------------------
(***************************************************************************)
(* _bmap: the path, and the shape of the locals after each step.            *)
(***************************************************************************)
Walker(o, l) == /\ o \in Op /\ o.what # "truncate" /\ o.path \in Path
                /\ o.level \in 1 .. Len(o.path) /\ WalkShape(o, l) /\ TruncShape(o, l)

LEMMA WalkerIs ==
    ASSUME ZonesTypeOK, NEW t \in Caller, op[t] \in Op, op[t].what # "truncate", WalkShape(op[t], stage[t])
    PROVE  Walker(op[t], stage[t])
<1>1. op[t].path \in Position /\ op[t].path \in Path
  BY PositionsArePaths DEF WalkShape
<1>2. op[t].path \in Seq(Nat) /\ Len(op[t].path) \in Nat /\ Len(op[t].path) >= 1
  BY <1>1, PathsAreSeqs
<1>3. op[t].path # << >>
  BY <1>2
<1>4. t \in Busy
  BY OpIs DEF Busy
<1>5. op[t].level \in DOMAIN op[t].path
  BY <1>3, <1>4 DEF ZonesTypeOK
<1>6. DOMAIN op[t].path = 1 .. Len(op[t].path)
  BY <1>2, LenProperties
<1> QED
  BY <1>1, <1>5, <1>6 DEF Walker, TruncShape

\* The way down: from one level to the next.
LEMMA WayDown ==
    ASSUME NEW p \in Path, NEW n \in 1 .. Len(p)
    PROVE  /\ SubSeq(p, 1, n) \in Path /\ SubSeq(p, 1, n)[1] = p[1] /\ p[1] \in Zone
           /\ Len(SubSeq(p, 1, n)) = n
           /\ n = 1 => SubSeq(p, 1, n) = <<p[1]>>
           /\ n > 1 => /\ SubSeq(p, 1, n - 1) \in Path /\ p[n] \in Index
                       /\ SubSeq(p, 1, n) = Append(SubSeq(p, 1, n - 1), p[n])
<1>1. PathLike(p) /\ p \in Seq(Nat) /\ Len(p) \in Nat
  BY PathIs, PathsAreSeqs
<1>2. n \in Nat /\ n >= 1 /\ n <= Len(p) /\ n \in 0 .. Len(p)
  BY <1>1
<1>3. ASSUME NEW k \in Nat, k >= 1, k <= Len(p), NEW r, r = SubSeq(p, 1, k)
      PROVE  r \in Path /\ r \in Seq(Nat) /\ Len(r) = k /\ (\A i \in 1 .. k : r[i] = p[i]) /\ r[1] = p[1]
  <2>1. k \in 0 .. Len(p)
    BY <1>1, <1>3
  <2>2. r \in Seq(Nat) /\ Len(r) = k /\ \A i \in 1 .. k : r[i] = p[i]
    BY <1>1, <1>3, <2>1, SubSeqIs
  <2>3. r[1] = p[1]
    BY <1>3, <2>2
  <2>4. \A i \in 2 .. k : r[i] \in Index
    BY <1>1, <1>3, <2>2 DEF PathLike
  <2>5. Depth[p[1]] \in Nat
    BY <1>1, Depths DEF PathLike
  <2>6. PathLike(r)
    BY <1>1, <1>3, <2>2, <2>3, <2>4, <2>5 DEF PathLike
  <2> QED
    BY <2>2, <2>3, <2>6, IsPath
<1>4. PICK r : r = SubSeq(p, 1, n)
  OBVIOUS
<1>5. r \in Path /\ r \in Seq(Nat) /\ Len(r) = n /\ (\A i \in 1 .. n : r[i] = p[i]) /\ r[1] = p[1]
  BY <1>2, <1>3, <1>4
<1>6. p[1] \in Zone /\ p[1] \in Nat
  BY <1>1, Depths DEF PathLike
<1>7. ASSUME n = 1 PROVE r = <<p[1]>>
  <2>1. PICK y : y = <<p[1]>>
    OBVIOUS
  <2>2. y \in Seq(Nat) /\ Len(y) = 1 /\ y[1] = p[1]
    BY <1>6, <2>1
  <2>3. \A i \in 1 .. Len(r) : r[i] = y[i]
    <3>1. \A i \in 1 .. Len(r) : i = 1
      BY <1>5, <1>7
    <3> QED
      BY <1>5, <2>2, <3>1
  <2> QED
    BY <1>5, <1>7, <2>1, <2>2, <2>3, SeqEqual
<1>8. ASSUME n > 1 PROVE /\ SubSeq(p, 1, n - 1) \in Path /\ p[n] \in Index
                         /\ r = Append(SubSeq(p, 1, n - 1), p[n])
  <2>1. PICK m \in Nat : m = n - 1 /\ m >= 1 /\ m <= Len(p)
    BY <1>1, <1>2, <1>8
  <2>2. PICK q : q = SubSeq(p, 1, m)
    OBVIOUS
  <2>3. q \in Path /\ q \in Seq(Nat) /\ Len(q) = m /\ \A i \in 1 .. m : q[i] = p[i]
    BY <1>3, <2>1, <2>2
  <2>4. p[n] \in Index
    BY <1>1, <1>2, <1>8 DEF PathLike
  <2>5. PICK w : w = Append(q, p[n])
    OBVIOUS
  <2>6. w \in Seq(Nat) /\ Len(w) = m + 1 /\ w[m + 1] = p[n] /\ \A i \in 1 .. m : w[i] = q[i]
    <3>1. /\ Append(q, p[n]) \in Seq(Nat) /\ Len(Append(q, p[n])) = Len(q) + 1
          /\ Append(q, p[n])[Len(q) + 1] = p[n]
          /\ \A i \in 1 .. Len(q) : Append(q, p[n])[i] = q[i]
      BY <2>3, <2>4, Appended
    <3> QED
      BY <2>3, <2>5, <3>1
  <2>7. \A i \in 1 .. Len(r) : r[i] = w[i]
    <3> SUFFICES ASSUME NEW i \in 1 .. Len(r) PROVE r[i] = w[i]
      OBVIOUS
    <3>1. m + 1 = n /\ i \in 1 .. n /\ r[i] = p[i]
      BY <1>2, <1>5, <2>1
    <3>2. i \in 1 .. m \/ i = m + 1
      BY <3>1
    <3>3. i \in 1 .. m => w[i] = p[i]
      BY <2>3, <2>6
    <3> QED
      BY <2>6, <3>1, <3>2, <3>3
  <2>8. r = w
    BY <1>5, <2>1, <2>6, <2>7, SeqEqual
  <2> QED
    BY <2>1, <2>2, <2>3, <2>4, <2>5, <2>8
<1> QED
  BY <1>4, <1>5, <1>6, <1>7, <1>8

LEMMA EntryIs ==
    ASSUME ZonesTypeOK, NEW t \in Caller, Walker(op[t], "look") \/ Walker(op[t], "new")
    PROVE  Entry(t) \in Block \cup {0}
<1>1. /\ op[t].file \in File /\ op[t].path \in Path /\ op[t].level \in 1 .. Len(op[t].path)
      /\ op[t].block \in Block \cup {0} /\ (op[t].level > 1 => op[t].block # 0)
  BY OpIs DEF Walker, WalkShape
<1>2. CASE op[t].level = 1
  <2>1. op[t].path[1] \in Zone
    BY <1>1, WayDown
  <2>2. i_zone[op[t].file] \in [Zone -> Block \cup {0}]
    BY <1>1 DEF ZonesTypeOK
  <2>3. i_zone[op[t].file][op[t].path[1]] \in Block \cup {0}
    BY <2>1, <2>2
  <2> QED
    BY <1>2, <2>3 DEF Entry
<1>3. CASE op[t].level # 1
  <2>1. op[t].level > 1
    BY <1>1, <1>3, PathsAreSeqs
  <2>2. op[t].path[op[t].level] \in Index /\ op[t].block \in Block
    BY <1>1, <2>1, WayDown
  <2>3. ptr[op[t].block] \in [Index -> Block \cup {0}]
    BY <2>2 DEF ZonesTypeOK
  <2>4. ptr[op[t].block][op[t].path[op[t].level]] \in Block \cup {0}
    BY <2>2, <2>3
  <2> QED
    BY <1>3, <2>4 DEF Entry
<1> QED
  BY <1>2, <1>3

SameCall(o, n) == n.what = o.what /\ n.file = o.file /\ n.path = o.path /\ n.overlap = o.overlap

LEMMA FindsShape ==
    ASSUME ZonesTypeOK, NEW t \in Caller, Walker(op[t], "look"), Entry(t) # 0, NEW n, n = FindsTo(t)
    PROVE  /\ Walker(n, "getblk") /\ SameCall(op[t], n) /\ n.block = Entry(t) /\ n.new = op[t].new
           /\ n.level = op[t].level /\ n.freed = {} /\ n.stack = << >> /\ n.holds = {}
<1>1. Entry(t) \in Block
  BY EntryIs
<1>2. /\ n \in Op /\ SameCall(op[t], n) /\ n.block = Entry(t) /\ n.new = op[t].new
      /\ n.level = op[t].level /\ n.freed = op[t].freed /\ n.stack = op[t].stack /\ n.holds = {}
  BY <1>1 DEF FindsTo, Walker, Op, SameCall
<1> QED
  BY <1>1, <1>2, Blocks DEF Walker, WalkShape, TruncShape, SameCall, Looking

LEMMA MarksShape ==
    ASSUME ZonesTypeOK, NEW t \in Caller, Walker(op[t], "look"), op[t].what = "write", Free # {},
           NEW n, n = MarksTo(t)
    PROVE  /\ Walker(n, "new") /\ SameCall(op[t], n) /\ n.block = op[t].block /\ n.new = Min(Free)
           /\ n.level = op[t].level /\ n.freed = {} /\ n.stack = << >> /\ n.holds = op[t].holds
<1>1. Min(Free) \in Block
  BY LeastFree DEF Free
<1>2. /\ n \in Op /\ SameCall(op[t], n) /\ n.block = op[t].block /\ n.new = Min(Free)
      /\ n.level = op[t].level /\ n.freed = op[t].freed /\ n.stack = op[t].stack /\ n.holds = op[t].holds
  BY <1>1 DEF MarksTo, Walker, Op, SameCall
<1> QED
  BY <1>1, <1>2, Blocks DEF Walker, WalkShape, TruncShape, SameCall, Looking

LEMMA FillsShape ==
    ASSUME ZonesTypeOK, NEW t \in Caller, Walker(op[t], "new"), NEW n, n = FillsTo(t)
    PROVE  /\ Walker(n, "look") /\ SameCall(op[t], n) /\ n.block = op[t].block /\ n.new = 0
           /\ n.level = op[t].level /\ n.freed = {} /\ n.stack = << >> /\ n.holds = op[t].holds
<1>1. /\ n \in Op /\ SameCall(op[t], n) /\ n.block = op[t].block /\ n.new = 0
      /\ n.level = op[t].level /\ n.freed = op[t].freed /\ n.stack = op[t].stack /\ n.holds = op[t].holds
  BY DEF FillsTo, Walker, Op, SameCall
<1> QED
  BY <1>1 DEF Walker, WalkShape, TruncShape, SameCall, Looking

LEMMA HoldsShape ==
    ASSUME ZonesTypeOK, NEW t \in Caller, Walker(op[t], "getblk"), NEW n, n = HoldsTo(t)
    PROVE  /\ Walker(n, "read") /\ SameCall(op[t], n) /\ n.block = op[t].block /\ n.new = op[t].new
           /\ n.level = op[t].level /\ n.freed = {} /\ n.stack = << >> /\ n.holds = {n.block}
<1>1. op[t].block \in Block /\ op[t].holds = {}
  BY OpIs DEF Walker, WalkShape, Looking
<1>2. /\ n \in Op /\ SameCall(op[t], n) /\ n.block = op[t].block /\ n.new = op[t].new
      /\ n.level = op[t].level /\ n.freed = op[t].freed /\ n.stack = op[t].stack
      /\ n.holds = op[t].holds \cup {op[t].block}
  BY <1>1 DEF HoldsTo, Walker, Op, SameCall
<1> QED
  BY <1>1, <1>2 DEF Walker, WalkShape, TruncShape, SameCall, Looking

LEMMA DownShape ==
    ASSUME ZonesTypeOK, NEW t \in Caller, Walker(op[t], "read"), HoldsPointers(t), NEW n, n = GoesDown(t)
    PROVE  /\ Walker(n, "look") /\ SameCall(op[t], n) /\ n.block = op[t].block /\ n.new = op[t].new
           /\ n.level = op[t].level + 1 /\ n.freed = {} /\ n.stack = << >> /\ n.holds = {n.block}
           /\ n.level - 1 = op[t].level /\ Looking(n, "look")
<1>1. op[t].level \in Nat /\ op[t].level >= 1 /\ op[t].level + 1 \in 1 .. Len(op[t].path)
  BY PathsAreSeqs DEF Walker, HoldsPointers
<1>2. /\ n \in Op /\ SameCall(op[t], n) /\ n.block = op[t].block /\ n.new = op[t].new
      /\ n.level = op[t].level + 1 /\ n.freed = op[t].freed /\ n.stack = op[t].stack
      /\ n.holds = op[t].holds
  BY <1>1 DEF GoesDown, Walker, Op, SameCall
<1>3. n.level \in 1 .. Len(n.path) /\ n.level > 1 /\ n.level - 1 = op[t].level
  BY <1>1, <1>2 DEF SameCall
<1>4. Looking(n, "look")
  BY <1>3 DEF Looking
<1>5. op[t].what # "truncate" /\ op[t].path \in Path /\ op[t].path \in Position /\ op[t].stack = << >>
      /\ op[t].freed = {} /\ op[t].new = 0 /\ op[t].block # 0 /\ op[t].holds = {op[t].block}
  BY DEF Walker, WalkShape
<1>6. WalkShape(n, "look") /\ TruncShape(n, "look")
  BY <1>2, <1>4, <1>5 DEF WalkShape, TruncShape, SameCall
<1> QED
  BY <1>2, <1>3, <1>4, <1>5, <1>6 DEF Walker, SameCall
-----------------------------------------------------------------------------
(***************************************************************************)
(* truncate: the stack, and the shape of the locals after each step.        *)
(***************************************************************************)
Truncator(o, l) == o \in Op /\ o.what = "truncate" /\ WalkShape(o, l) /\ TruncShape(o, l)

LEMMA AdvancedIs ==
    ASSUME NEW t, op[t] \in Op, op[t].stack # << >>, NEW s, s = Advanced(t),
           NEW n, n = Len(op[t].stack)
    PROVE  /\ n \in Nat /\ n >= 1 /\ s \in Seq(Frame) /\ Len(s) = n /\ s # << >>
           /\ \A k \in 1 .. n - 1 : s[k] = op[t].stack[k]
           /\ s[n].block = op[t].stack[n].block /\ s[n].depth = op[t].stack[n].depth
           /\ s[n].index = op[t].stack[n].index + 1
<1>1. PICK r : r = op[t].stack
  OBVIOUS
<1>2. n \in Nat /\ n >= 1 /\ \A k \in 1 .. n : r[k] \in Frame
  BY <1>1, StackIs
<1>3. r \in Seq(Frame)
  BY <1>1, OpIs
<1>4. DOMAIN r = 1 .. n /\ r \in [1 .. n -> Frame]
  BY <1>1, <1>3, LenProperties
<1>5. s = [r EXCEPT ![n].index = @ + 1]
  BY <1>1 DEF Advanced
<1>6. n \in 1 .. n
  BY <1>2
<1>7. s = [k \in 1 .. n |-> IF k = n THEN [r[n] EXCEPT !.index = @ + 1] ELSE r[k]]
  BY <1>4, <1>5, <1>6
<1>8. [r[n] EXCEPT !.index = @ + 1] \in Frame
  BY <1>2, <1>6 DEF Frame
<1>9. s \in [1 .. n -> Frame] /\ s[n] = [r[n] EXCEPT !.index = @ + 1] /\ \A k \in 1 .. n - 1 : s[k] = r[k]
  BY <1>2, <1>4, <1>6, <1>7, <1>8
<1>10. s \in Seq(Frame) /\ Len(s) = n
  BY <1>2, <1>9, IsSequence
<1>11. s[n].block = r[n].block /\ s[n].depth = r[n].depth /\ s[n].index = r[n].index + 1
  BY <1>2, <1>6, <1>9 DEF Frame
<1>12. s # << >>
  BY <1>2, <1>10
<1> QED
  BY <1>1, <1>2, <1>9, <1>10, <1>11, <1>12

LEMMA FrontIs ==
    ASSUME NEW o \in Op, o.stack # << >>, NEW s, s = Front(o.stack), NEW n, n = Len(o.stack)
    PROVE  /\ n \in Nat /\ n >= 1 /\ s \in Seq(Frame) /\ Len(s) = n - 1 /\ (s = << >> <=> n = 1)
           /\ \A k \in 1 .. n - 1 : s[k] = o.stack[k]
<1>1. PICK r : r = o.stack
  OBVIOUS
<1>2. n \in Nat /\ n >= 1
  BY StackIs
<1>3. r \in Seq(Frame)
  BY <1>1, OpIs
<1>4. PICK m \in Nat : m = n - 1
  BY <1>2
<1>5. s = SubSeq(r, 1, m)
  BY <1>1, <1>4 DEF Front
<1>6. m \in 0 .. Len(r)
  BY <1>1, <1>2, <1>4
<1>7. s \in Seq(Frame) /\ Len(s) = m /\ \A k \in 1 .. m : s[k] = r[k]
  BY <1>3, <1>5, <1>6, SubSeqIs
<1>8. s = << >> <=> m = 0
  BY <1>7, EmptySeq
<1>9. m = 0 <=> n = 1
  BY <1>2, <1>4
<1> QED
  BY <1>1, <1>2, <1>4, <1>7, <1>8, <1>9

LEMMA SkipsZoneShape ==
    ASSUME NEW t, Truncator(op[t], "next"), op[t].stack = << >>, op[t].zone \in Zone,
           NEW n, n = SkipsZone(t)
    PROVE  /\ Truncator(n, "next") /\ SameCall(op[t], n) /\ n.new = 0 /\ n.freed = op[t].freed
           /\ n.zone = op[t].zone + 1 /\ n.stack = << >> /\ n.holds = op[t].holds
<1>1. op[t].zone \in 1 .. Len(Depth) /\ Len(Depth) \in Nat
  BY ZonesAre
<1>2. /\ n \in Op /\ SameCall(op[t], n) /\ n.new = op[t].new /\ n.freed = op[t].freed
      /\ n.zone = op[t].zone + 1 /\ n.stack = op[t].stack /\ n.holds = op[t].holds
  BY <1>1 DEF SkipsZone, Truncator, Op, SameCall
<1>3. n.zone \in 1 .. Len(Depth) + 1
  BY <1>1, <1>2
<1> QED
  BY <1>2, <1>3 DEF Truncator, WalkShape, TruncShape, SameCall

\* The locals n, when truncate with the locals o has come to the block b of an entry of
\* i_zone, of depth d.
BegunZone(o, n, d, b) ==
    /\ Truncator(n, Starts(d)) /\ SameCall(o, n) /\ n.new = 0
    /\ n.freed = o.freed /\ n.zone = o.zone + 1
    /\ n.stack # << >> /\ Len(n.stack) = 1 /\ n.stack[1].block = b /\ n.stack[1].index = 0
    /\ n.stack[1].depth = d
    /\ n.holds = IF d = 0 THEN {b} ELSE {}

LEMMA BeginsZoneShape ==
    ASSUME ZonesTypeOK, NEW t, Truncator(op[t], "next"), op[t].stack = << >>, op[t].zone \in Zone,
           NEW b, b = i_zone[op[t].file][op[t].zone], b # 0, NEW n, n = BeginsZone(t)
    PROVE  BegunZone(op[t], n, Depth[op[t].zone], b)
<1>1. op[t].zone \in 1 .. Len(Depth) /\ Len(Depth) \in Nat
  BY ZonesAre
<1>2. PICK d \in Nat : d = Depth[op[t].zone]
  BY Depths
<1>3. b \in Block
  <2>1. op[t].file \in File
    BY OpIs DEF Truncator
  <2>2. i_zone[op[t].file] \in [Zone -> Block \cup {0}]
    BY <2>1 DEF ZonesTypeOK
  <2>3. i_zone[op[t].file][op[t].zone] \in Block \cup {0}
    BY <2>2
  <2> QED
    BY <2>3
<1>4. PICK s : s = <<Below(b, d)>>
  OBVIOUS
<1>5. /\ Below(b, d) \in Frame /\ Below(b, d).block = b /\ Below(b, d).depth = d /\ Below(b, d).index = 0
  BY <1>3 DEF Below, Frame
<1>6. s \in Seq(Frame) /\ Len(s) = 1 /\ s[1] = Below(b, d) /\ s # << >>
  BY <1>4, <1>5
<1>7. n = [op[t] EXCEPT !.stack = s, !.block = b, !.zone = @ + 1, !.holds = IF d = 0 THEN {b} ELSE {}]
  BY <1>2, <1>4 DEF BeginsZone
<1>8. /\ n \in Op /\ SameCall(op[t], n) /\ n.new = op[t].new /\ n.freed = op[t].freed
      /\ n.zone = op[t].zone + 1 /\ n.stack = s /\ n.holds = (IF d = 0 THEN {b} ELSE {}) /\ n.block = b
  <2>1. PICK h : h = IF d = 0 THEN {b} ELSE {}
    OBVIOUS
  <2>2. h \in SUBSET Block
    BY <1>3, <2>1
  <2>3. PICK y \in Nat : y = op[t].zone + 1
    BY <1>1
  <2>4. PICK o \in Op : o = op[t]
    BY DEF Truncator
  <2>5. n = [o EXCEPT !.stack = s, !.block = b, !.zone = y, !.holds = h]
    BY <1>7, <2>1, <2>3, <2>4
  <2>6. n \in Op /\ SameCall(o, n) /\ n.new = o.new /\ n.freed = o.freed
        /\ n.zone = y /\ n.stack = s /\ n.holds = h /\ n.block = b
    BY <1>3, <1>6, <2>2, <2>5 DEF Op, SameCall
  <2> QED
    BY <2>1, <2>3, <2>4, <2>6
<1>9. n.zone \in 1 .. Len(Depth) + 1 /\ n.zone > 1 /\ n.zone - 1 = op[t].zone
  BY <1>1, <1>8
<1>10. FramesRight(n, Starts(d))
  <2>0. PICK m : m = Len(n.stack) /\ m = 1
    BY <1>6, <1>8
  <2>1. \A k \in 1 .. Len(n.stack) : k = 1
    <3>1. \A k \in 1 .. m : k = 1
      BY <2>0
    <3> QED
      BY <2>0, <3>1
  <2>2. \A k \in 1 .. Len(n.stack) - 1 : FALSE
    <3>1. \A k \in 1 .. m - 1 : FALSE
      BY <2>0
    <3> QED
      BY <2>0, <3>1
  <2>3. \A k \in 1 .. Len(n.stack) : n.stack[k].depth + k = Depth[n.zone - 1] + 1
    BY <1>2, <1>5, <1>6, <1>8, <1>9, <2>1
  <2>4. n.stack[Len(n.stack)].index = 0 /\ n.stack[Len(n.stack)].depth = d
    BY <1>5, <1>6, <1>8
  <2>5. (Starts(d) \in {"getblk", "read"} => d > 0) /\ Starts(d) # "next"
    BY <1>2 DEF Starts
  <2> QED
    BY <1>9, <2>2, <2>3, <2>4, <2>5 DEF FramesRight
<1>11. Starts(d) \in {"getblk", "free"}
  BY DEF Starts
<1>12. TruncShape(n, Starts(d)) /\ WalkShape(n, Starts(d))
  <2>1. n.stack[Len(n.stack)].block = b
    BY <1>5, <1>6, <1>8
  <2> QED
    BY <1>6, <1>8, <1>9, <1>10, <1>11, <2>1 DEF Truncator, WalkShape, TruncShape, SameCall
<1>13. n.stack[1].block = b /\ n.stack[1].index = 0 /\ n.stack[1].depth = d /\ Len(n.stack) = 1 /\ n.stack # << >>
  BY <1>5, <1>6, <1>8
<1>14. n.new = 0 /\ n.what = "truncate"
  BY <1>8 DEF Truncator, TruncShape, SameCall
<1> QED
  BY <1>2, <1>8, <1>12, <1>13, <1>14 DEF Truncator, BegunZone

\* What is known of the top of the stack.
LEMMA TopFrame ==
    ASSUME NEW o, NEW l, Truncator(o, l), o.stack # << >>, NEW m, m = Len(o.stack)
    PROVE  /\ m \in Nat /\ m >= 1 /\ o.zone > 1 /\ o.zone - 1 \in Zone
           /\ \A k \in 1 .. m : /\ o.stack[k] \in Frame /\ o.stack[k].block \in Block
                                /\ o.stack[k].depth \in Nat /\ o.stack[k].index \in Nat
                                /\ o.stack[k].depth + k = Depth[o.zone - 1] + 1
           /\ \A k \in 1 .. m - 1 : o.stack[k].index \in 2 .. PER_BLOCK + 1
           /\ l \in {"getblk", "read"} => o.stack[m].index = 0 /\ o.stack[m].depth > 0
           /\ l = "next" => o.stack[m].index \in 1 .. PER_BLOCK + 1 /\ o.stack[m].depth > 0
           /\ l = "free" => o.stack[m].index = 0 \/ (o.stack[m].index = PER_BLOCK + 1 /\ o.stack[m].depth > 0)
           /\ l # "next" => o.block = o.stack[m].block
<1>1. o \in Op /\ FramesRight(o, l) /\ o.zone \in 1 .. Len(Depth) + 1 /\ (l # "next" => o.block = o.stack[m].block)
  BY DEF Truncator, TruncShape
<1>2. m \in Nat /\ m >= 1 /\ \A k \in 1 .. m : /\ o.stack[k] \in Frame /\ o.stack[k].block \in Block
                                /\ o.stack[k].depth \in Nat /\ o.stack[k].index \in Nat
  BY <1>1, StackIs
<1>3. o.zone > 1 /\ o.zone - 1 \in Zone
  BY <1>1, ZonesAre DEF FramesRight
<1>4. \A k \in 1 .. m : o.stack[k].depth + k = Depth[o.zone - 1] + 1
  BY <1>1 DEF FramesRight
<1> QED
  BY <1>1, <1>2, <1>3, <1>4 DEF FramesRight

LEMMA Restacked ==
    ASSUME NEW o, NEW l, Truncator(o, l), o.stack # << >>,
           NEW n \in Op, SameCall(o, n), n.new = o.new, \A p \in n.freed : Depth[p[1]] > 0, n.zone = o.zone,
           n.stack # << >>, NEW m, m = Len(n.stack), NEW k \in {"getblk", "read", "next", "free"},
           \A i \in 1 .. m : n.stack[i].depth + i = Depth[n.zone - 1] + 1,
           \A i \in 1 .. m - 1 : n.stack[i].index \in 2 .. PER_BLOCK + 1,
           k \in {"getblk", "read"} => n.stack[m].index = 0 /\ n.stack[m].depth > 0,
           k = "next" => n.stack[m].index \in 1 .. PER_BLOCK + 1 /\ n.stack[m].depth > 0,
           k = "free" => n.stack[m].index = 0 \/ (n.stack[m].index = PER_BLOCK + 1 /\ n.stack[m].depth > 0),
           k # "next" => n.block = n.stack[m].block
    PROVE  Truncator(n, k)
<1>1. FramesRight(o, l)
  BY DEF Truncator, TruncShape
<1>2. FramesRight(n, k)
  BY <1>1 DEF FramesRight
<1> QED
  BY <1>2 DEF Truncator, TruncShape, WalkShape, SameCall

LEMMA HoldsShapeBelow ==
    ASSUME NEW t, Truncator(op[t], "getblk"), NEW n, n = HoldsTo(t)
    PROVE  /\ Truncator(n, "read") /\ SameCall(op[t], n) /\ n.new = 0 /\ n.freed = op[t].freed
           /\ n.zone = op[t].zone /\ n.stack = op[t].stack /\ n.holds = op[t].holds \cup {op[t].block}
           /\ op[t].stack # << >> /\ op[t].block = op[t].stack[Len(op[t].stack)].block
<1>0. PICK o \in Op : o = op[t]
  BY DEF Truncator
<1>1. PICK m : m = Len(o.stack)
  OBVIOUS
<1>2. o.stack # << >> /\ o.block = o.stack[m].block /\ o.new = 0 /\ Truncator(o, "getblk")
  BY <1>0, <1>1 DEF Truncator, TruncShape
<1>3. o.block \in Block
  BY <1>1, <1>2, TopFrame
<1>4. n \in Op /\ SameCall(o, n) /\ n.new = o.new /\ n.freed = o.freed
      /\ n.zone = o.zone /\ n.stack = o.stack /\ n.holds = o.holds \cup {o.block} /\ n.block = o.block
  BY <1>0, <1>3 DEF HoldsTo, Op, SameCall
<1>5. Truncator(n, "read")
  BY <1>1, <1>2, <1>4 DEF Truncator, TruncShape, FramesRight, WalkShape, SameCall
<1> QED
  BY <1>0, <1>1, <1>2, <1>4, <1>5

LEMMA CannotShape ==
    ASSUME NEW o, Truncator(o, "read")
    PROVE  Truncator(o, "free") /\ o.stack # << >> /\ o.stack[Len(o.stack)].index = 0
<1> QED
  BY DEF Truncator, TruncShape, FramesRight, WalkShape

\* What an index more makes of the top.
MovesOn(o, n, m) ==
    /\ SameCall(o, n) /\ n.freed = o.freed /\ n.zone = o.zone /\ n.holds = o.holds
    /\ m = Len(o.stack) /\ m = Len(n.stack) /\ o.stack # << >> /\ n.stack # << >>
    /\ \A k \in 1 .. m : n.stack[k].block = o.stack[k].block
    /\ \A k \in 1 .. m - 1 : n.stack[k] = o.stack[k]
    /\ n.stack[m].index = o.stack[m].index + 1

LEMMA Advances ==
    ASSUME NEW t, NEW l, Truncator(op[t], l), op[t].stack # << >>,
           NEW m, m = Len(op[t].stack), op[t].stack[m].index \in 0 .. PER_BLOCK, op[t].stack[m].depth > 0,
           NEW n, n \in {BeginsBelow(t), SkipsBelow(t)}
    PROVE  Truncator(n, "next") /\ n.new = 0 /\ n.freed = op[t].freed /\ MovesOn(op[t], n, m)
<1>0. PICK o \in Op : o = op[t]
  BY DEF Truncator
<1>1. PICK s : s = Advanced(t)
  OBVIOUS
<1>2. /\ m \in Nat /\ m >= 1 /\ s \in Seq(Frame) /\ Len(s) = m /\ s # << >>
      /\ \A k \in 1 .. m - 1 : s[k] = o.stack[k]
      /\ s[m].block = o.stack[m].block /\ s[m].depth = o.stack[m].depth
      /\ s[m].index = o.stack[m].index + 1
  BY <1>0, <1>1, AdvancedIs
<1>3. n \in Op /\ SameCall(o, n) /\ n.new = o.new /\ n.freed = o.freed
      /\ n.zone = o.zone /\ n.stack = s /\ n.holds = o.holds
  BY <1>0, <1>1, <1>2 DEF BeginsBelow, SkipsBelow, Op, SameCall
<1>4. /\ \A k \in 1 .. m : o.stack[k].depth + k = Depth[o.zone - 1] + 1
      /\ \A k \in 1 .. m - 1 : o.stack[k].index \in 2 .. PER_BLOCK + 1
  BY <1>0, TopFrame
<1>5. \A k \in 1 .. m : k = m \/ k \in 1 .. m - 1
  BY <1>2
<1>6. \A k \in 1 .. m : s[k].block = o.stack[k].block /\ s[k].depth = o.stack[k].depth
  BY <1>2, <1>5
<1>7. s[m].index \in 1 .. PER_BLOCK + 1 /\ s[m].depth > 0
  BY <1>0, <1>2, Blocks
<1>8. o.new = 0 /\ \A p \in o.freed : Depth[p[1]] > 0
  BY <1>0 DEF Truncator, TruncShape
<1>9. Truncator(o, l) /\ o.stack # << >>
  BY <1>0
<1>10. Truncator(n, "next")
  <2>1. \A i \in 1 .. m : n.stack[i].depth + i = Depth[n.zone - 1] + 1
    BY <1>3, <1>4, <1>6
  <2>2. \A i \in 1 .. m - 1 : n.stack[i].index \in 2 .. PER_BLOCK + 1
    BY <1>2, <1>3, <1>4
  <2>3. m = Len(n.stack) /\ n.stack # << >>
    BY <1>2, <1>3
  <2>4. n.stack[m].index \in 1 .. PER_BLOCK + 1 /\ n.stack[m].depth > 0
    BY <1>3, <1>7
  <2>5. \A p \in n.freed : Depth[p[1]] > 0
    BY <1>3, <1>8
  <2>9. n \in Op /\ SameCall(o, n) /\ n.new = o.new /\ n.zone = o.zone
    BY <1>3
  <2>7. FramesRight(o, l)
    BY <1>9 DEF Truncator, TruncShape
  <2>10. FramesRight(n, "next")
    BY <2>1, <2>2, <2>3, <2>4, <2>7, <2>9 DEF FramesRight
  <2> QED
    BY <1>9, <2>3, <2>5, <2>9, <2>10 DEF Truncator, TruncShape, WalkShape, SameCall
<1>11. MovesOn(o, n, m)
  BY <1>0, <1>2, <1>3, <1>6 DEF MovesOn
<1> QED
  BY <1>0, <1>3, <1>8, <1>10, <1>11

LEMMA EndsShape ==
    ASSUME NEW t, Truncator(op[t], "next"), op[t].stack # << >>, Top(t).index > PER_BLOCK,
           NEW n, n = EndsBelow(t)
    PROVE  /\ Truncator(n, "free") /\ SameCall(op[t], n) /\ n.new = 0 /\ n.freed = op[t].freed
           /\ n.zone = op[t].zone /\ n.holds = op[t].holds /\ n.stack = op[t].stack
           /\ op[t].stack[Len(op[t].stack)].index = PER_BLOCK + 1
<1>0. PICK o \in Op : o = op[t]
  BY DEF Truncator
<1>1. PICK m : m = Len(o.stack)
  OBVIOUS
<1>2. Top(t) = o.stack[m]
  BY <1>0, <1>1 DEF Top, Last
<1>3. Truncator(o, "next") /\ o.stack # << >>
  BY <1>0
<1>4. /\ m \in Nat /\ m >= 1
      /\ \A k \in 1 .. m : o.stack[k].block \in Block /\ o.stack[k].depth + k = Depth[o.zone - 1] + 1
      /\ \A k \in 1 .. m - 1 : o.stack[k].index \in 2 .. PER_BLOCK + 1
      /\ o.stack[m].index \in 1 .. PER_BLOCK + 1 /\ o.stack[m].depth > 0
  BY <1>1, <1>3, TopFrame
<1>5. o.stack[m].index = PER_BLOCK + 1
  BY <1>2, <1>4, Blocks
<1>6. o.stack[m].block \in Block
  BY <1>4
<1>7. n = [o EXCEPT !.block = o.stack[m].block]
  BY <1>0, <1>2 DEF EndsBelow
<1>8. n \in Op /\ SameCall(o, n) /\ n.new = o.new /\ n.freed = o.freed
      /\ n.zone = o.zone /\ n.stack = o.stack /\ n.holds = o.holds /\ n.block = o.stack[m].block
  BY <1>6, <1>7 DEF Op, SameCall
<1>9. o.new = 0 /\ \A p \in o.freed : Depth[p[1]] > 0
  BY <1>3 DEF Truncator, TruncShape
<1>10. Truncator(n, "free")
  <2>1. PICK k \in {"getblk", "read", "next", "free"} : k = "free"
    OBVIOUS
  <2>2. /\ m = Len(n.stack) /\ n.stack # << >>
        /\ \A i \in 1 .. m : n.stack[i].depth + i = Depth[n.zone - 1] + 1
        /\ \A i \in 1 .. m - 1 : n.stack[i].index \in 2 .. PER_BLOCK + 1
        /\ n.stack[m].index = PER_BLOCK + 1 /\ n.stack[m].depth > 0 /\ n.stack[m].block = n.block
        /\ \A p \in n.freed : Depth[p[1]] > 0
    BY <1>1, <1>3, <1>4, <1>5, <1>8, <1>9
  <2>4. /\ k \in {"getblk", "read"} => n.stack[m].index = 0 /\ n.stack[m].depth > 0
        /\ k = "next" => n.stack[m].index \in 1 .. PER_BLOCK + 1 /\ n.stack[m].depth > 0
        /\ k = "free" => n.stack[m].index = 0 \/ (n.stack[m].index = PER_BLOCK + 1 /\ n.stack[m].depth > 0)
        /\ k # "next" => n.block = n.stack[m].block
    BY <2>1, <2>2
  <2>5. n \in Op /\ SameCall(o, n) /\ n.new = o.new /\ n.zone = o.zone
    BY <1>8
  <2>3. Truncator(n, k)
    BY <1>3, <2>5, <2>1, <2>2, <2>4, Restacked
  <2> QED
    BY <2>1, <2>3
<1> QED
  BY <1>0, <1>1, <1>5, <1>8, <1>9, <1>10

Pushes(o, n, m, b) ==
    /\ SameCall(o, n) /\ n.freed = o.freed /\ n.zone = o.zone
    /\ m = Len(o.stack) /\ m + 1 = Len(n.stack) /\ o.stack # << >> /\ n.stack # << >>
    /\ \A k \in 1 .. m : n.stack[k].block = o.stack[k].block
    /\ \A k \in 1 .. m - 1 : n.stack[k] = o.stack[k]
    /\ n.stack[m].index = o.stack[m].index + 1
    /\ n.stack[m + 1].block = b /\ n.stack[m + 1].index = 0
    /\ n.stack[m + 1].depth = o.stack[m].depth - 1
    /\ n.holds = IF o.stack[m].depth - 1 = 0 THEN o.holds \cup {b} ELSE o.holds

LEMMA DescendsShape ==
    ASSUME ZonesTypeOK, NEW t, Truncator(op[t], "next"), op[t].stack # << >>, Top(t).index \in Index,
           NEW b, b = ptr[Top(t).block][Top(t).index], b # 0, NEW m, m = Len(op[t].stack),
           NEW n, n = Descends(t)
    PROVE  Truncator(n, Starts(Top(t).depth - 1)) /\ Pushes(op[t], n, m, b)
<1>0. PICK o \in Op : o = op[t]
  BY DEF Truncator
<1>1. Truncator(o, "next") /\ o.stack # << >>
  BY <1>0
<1>2. Top(t) = o.stack[m]
  BY <1>0 DEF Top, Last
<1>3. /\ m \in Nat /\ m >= 1
      /\ \A k \in 1 .. m : /\ o.stack[k].block \in Block /\ o.stack[k].depth + k = Depth[o.zone - 1] + 1
                           /\ o.stack[k].depth \in Nat
      /\ \A k \in 1 .. m - 1 : o.stack[k].index \in 2 .. PER_BLOCK + 1
      /\ o.stack[m].index \in 1 .. PER_BLOCK + 1 /\ o.stack[m].depth > 0
  BY <1>0, <1>1, TopFrame
<1>4. PICK d \in Nat : d = Top(t).depth - 1
  BY <1>2, <1>3
<1>5. b \in Block
  <2>0. m \in 1 .. m
    BY <1>3
  <2>1. ptr[o.stack[m].block] \in [Index -> Block \cup {0}]
    BY <1>3, <2>0 DEF ZonesTypeOK
  <2>2. ptr[o.stack[m].block][Top(t).index] \in Block \cup {0}
    BY <2>1
  <2> QED
    BY <1>2, <2>2
<1>6. PICK s : s = Advanced(t)
  OBVIOUS
<1>7. /\ s \in Seq(Frame) /\ Len(s) = m /\ s # << >>
      /\ \A k \in 1 .. m - 1 : s[k] = o.stack[k]
      /\ s[m].block = o.stack[m].block /\ s[m].depth = o.stack[m].depth
      /\ s[m].index = o.stack[m].index + 1
  BY <1>0, <1>6, AdvancedIs
<1>8. Below(b, d) \in Frame /\ Below(b, d).block = b /\ Below(b, d).depth = d /\ Below(b, d).index = 0
  BY <1>5 DEF Below, Frame
<1>9. PICK r : r = Append(s, Below(b, d))
  OBVIOUS
<1>10. /\ r \in Seq(Frame) /\ Len(r) = m + 1 /\ r # << >> /\ r[m + 1] = Below(b, d)
       /\ \A k \in 1 .. m : r[k] = s[k]
  BY <1>7, <1>8, <1>9, AppendProperties
<1>11. PICK h : h = IF d = 0 THEN o.holds \cup {b} ELSE o.holds
  OBVIOUS
<1>12. h \in SUBSET Block
  BY <1>5, <1>11, OpIs
<1>13. n = [o EXCEPT !.stack = r, !.block = b, !.holds = h]
  BY <1>0, <1>4, <1>6, <1>9, <1>11 DEF Descends
<1>14. n \in Op /\ SameCall(o, n) /\ n.new = o.new /\ n.freed = o.freed
       /\ n.zone = o.zone /\ n.stack = r /\ n.holds = h /\ n.block = b
  BY <1>5, <1>10, <1>12, <1>13 DEF Op, SameCall
<1>15. o.new = 0 /\ \A p \in o.freed : Depth[p[1]] > 0
  BY <1>1 DEF Truncator, TruncShape
<1>16. \A k \in 1 .. m : k = m \/ k \in 1 .. m - 1
  BY <1>3
<1>17. \A k \in 1 .. m : r[k].block = o.stack[k].block /\ r[k].depth = o.stack[k].depth
  BY <1>7, <1>10, <1>16
<1>18. m \in 1 .. m /\ \A k \in 1 .. m - 1 : k \in 1 .. m
  BY <1>3
<1>19. r[m].index = o.stack[m].index + 1 /\ r[m].index \in 2 .. PER_BLOCK + 1
  <2>1. r[m].index = o.stack[m].index + 1
    BY <1>7, <1>10, <1>18
  <2>2. o.stack[m].index \in 1 .. PER_BLOCK
    BY <1>2 DEF Index
  <2> QED
    BY <2>1, <2>2, Blocks
<1>20. \A k \in 1 .. m - 1 : r[k] = o.stack[k]
  BY <1>7, <1>10, <1>18
<1>21. Truncator(n, Starts(d))
  <2>1. PICK k : k = Starts(d)
    OBVIOUS
  <2>2. k \in {"getblk", "free"} /\ (k = "getblk" => d > 0)
    <3>1. d = 0 \/ d > 0
      OBVIOUS
    <3>2. k = IF d = 0 THEN "free" ELSE "getblk"
      BY <2>1 DEF Starts
    <3> QED
      BY <3>1, <3>2
  <2>3. \A i \in 1 .. m + 1 : i = m + 1 \/ i \in 1 .. m
    BY <1>3
  <2>4. r[m + 1].depth = d /\ r[m + 1].index = 0 /\ r[m + 1].block = b
    BY <1>8, <1>10
  <2>5. d + (m + 1) = Depth[o.zone - 1] + 1
    <3>1. PICK e \in Nat : e = o.stack[m].depth /\ e + m = Depth[o.zone - 1] + 1 /\ e > 0
      BY <1>3, <1>18
    <3>2. d = e - 1
      BY <1>2, <1>4, <3>1
    <3>a. m \in Nat
      BY <1>3
    <3>3. d + (m + 1) = e + m
      BY <3>a, <3>2
    <3> QED
      BY <3>1, <3>3
  <2>6. \A i \in 1 .. m + 1 : r[i].depth + i = Depth[o.zone - 1] + 1
    <3>1. \A i \in 1 .. m : r[i].depth + i = Depth[o.zone - 1] + 1
      BY <1>3, <1>17
    <3>2. r[m + 1].depth + (m + 1) = Depth[o.zone - 1] + 1
      BY <2>4, <2>5
    <3> QED
      BY <2>3, <3>1, <3>2
  <2>7. \A i \in 1 .. m : r[i].index \in 2 .. PER_BLOCK + 1
    BY <1>3, <1>16, <1>19, <1>20
  <2>8. PICK w \in Nat : w = m + 1 /\ w - 1 = m
    BY <1>3
  <2>9. /\ w = Len(n.stack) /\ n.stack # << >>
        /\ \A i \in 1 .. w : n.stack[i].depth + i = Depth[n.zone - 1] + 1
        /\ \A i \in 1 .. w - 1 : n.stack[i].index \in 2 .. PER_BLOCK + 1
        /\ n.stack[w].index = 0 /\ n.stack[w].depth = d /\ n.stack[w].block = n.block
        /\ \A p \in n.freed : Depth[p[1]] > 0
    BY <1>10, <1>14, <1>15, <2>4, <2>6, <2>7, <2>8
  <2>10. Truncator(n, k)
    BY <1>1, <1>14, <2>2, <2>9, Restacked
  <2> QED
    BY <2>1, <2>10
<1>22. Pushes(o, n, m, b)
  <2>1. n.stack[m + 1].depth = o.stack[m].depth - 1
    BY <1>2, <1>4, <1>8, <1>10, <1>14
  <2>2. n.holds = IF o.stack[m].depth - 1 = 0 THEN o.holds \cup {b} ELSE o.holds
    BY <1>2, <1>4, <1>11, <1>14
  <2>3. n.stack[m + 1].block = b /\ n.stack[m + 1].index = 0
    BY <1>8, <1>10, <1>14
  <2>4. m = Len(o.stack) /\ m + 1 = Len(n.stack) /\ n.stack # << >>
    BY <1>0, <1>10, <1>14
  <2> QED
    BY <1>1, <1>14, <1>17, <1>19, <1>20, <2>1, <2>2, <2>3, <2>4 DEF Pushes
<1> QED
  BY <1>0, <1>4, <1>21, <1>22

Pops(o, n, m) == /\ n.zone = o.zone /\ m = Len(o.stack) /\ o.stack # << >> /\ Len(n.stack) = m - 1
                 /\ n.stack = << >> <=> m = 1
                 /\ \A k \in 1 .. m - 1 : n.stack[k] = o.stack[k]

LEMMA FreesShape ==
    ASSUME NEW t, Truncator(op[t], "free"), NEW n, n = FreesTo(t), NEW m, m = Len(op[t].stack)
    PROVE  /\ Truncator(n, "next") /\ SameCall(op[t], n) /\ n.new = 0 /\ Pops(op[t], n, m)
           /\ n.freed = (IF Depth[op[t].zone - 1] = 0 THEN op[t].freed ELSE op[t].freed \cup {TopPath(t)})
           /\ n.holds = op[t].holds \ {op[t].block}
<1>0. PICK o \in Op : o = op[t]
  BY DEF Truncator
<1>a. PICK i : i = m
  OBVIOUS
<1>b. i = Len(o.stack)
  BY <1>0, <1>a
<1>1. Truncator(o, "free") /\ o.stack # << >>
  BY <1>0 DEF Truncator, TruncShape
<1>2. /\ i \in Nat /\ i >= 1 /\ o.zone - 1 \in Zone /\ o.zone > 1
      /\ \A k \in 1 .. i : /\ o.stack[k].depth + k = Depth[o.zone - 1] + 1
                           /\ o.stack[k].depth \in Nat
      /\ \A k \in 1 .. i - 1 : o.stack[k].index \in 2 .. PER_BLOCK + 1
  BY <1>1, <1>b, TopFrame
<1>3. PICK s : s = Front(o.stack)
  OBVIOUS
<1>4. s \in Seq(Frame) /\ Len(s) = i - 1 /\ (s = << >> <=> i = 1) /\ \A k \in 1 .. i - 1 : s[k] = o.stack[k]
  <2>1. o.stack # << >>
    BY <1>1
  <2>2. PICK q : q = Front(o.stack)
    OBVIOUS
  <2>3. PICK j : j = Len(o.stack)
    OBVIOUS
  <2>4. /\ j \in Nat /\ j >= 1 /\ q \in Seq(Frame) /\ Len(q) = j - 1 /\ (q = << >> <=> j = 1)
        /\ \A k \in 1 .. j - 1 : q[k] = o.stack[k]
    <3>1. j \in Nat /\ j >= 1
      BY <2>1, <2>2, <2>3, FrontIs
    <3>2. q \in Seq(Frame)
      BY <2>1, <2>2, <2>3, FrontIs
    <3>3. Len(q) = j - 1
      BY <2>1, <2>2, <2>3, FrontIs
    <3>4. q = << >> <=> j = 1
      <4>1. q = << >> <=> Len(q) = 0
        BY <3>2, EmptySeq
      <4> QED
        BY <3>1, <3>3, <4>1
    <3>5. \A k \in 1 .. j - 1 : q[k] = o.stack[k]
      <4>1. PICK r \in Seq(Frame) : r = o.stack
        BY OpIs
      <4>2. PICK d \in Nat : d = j - 1
        BY <3>1
      <4>3. q = SubSeq(r, 1, d) /\ d \in 0 .. Len(r)
        BY <2>2, <2>3, <3>1, <4>1, <4>2 DEF Front
      <4>4. \A k \in 1 .. d : q[k] = r[k]
        BY <4>3, SubSeqIs
      <4> QED
        BY <4>1, <4>2, <4>4
    <3> QED
      BY <3>1, <3>2, <3>3, <3>4, <3>5
  <2>5. q = s /\ j = i
    BY <1>3, <1>b, <2>2, <2>3
  <2> QED
    BY <2>4, <2>5
<1>5. TopPath(t) \in Path /\ TopPath(t)[1] = o.zone - 1
  BY <1>0, <1>1, TopIs DEF Truncator
<1>6. PICK fr : fr = IF Depth[o.zone - 1] = 0 THEN o.freed ELSE o.freed \cup {TopPath(t)}
  OBVIOUS
<1>7. o.new = 0 /\ \A p \in o.freed : Depth[p[1]] > 0
  BY <1>1 DEF Truncator, TruncShape
<1>8. fr \in SUBSET Path /\ \A p \in fr : Depth[p[1]] > 0
  <2>1. Depth[o.zone - 1] # 0 => Depth[o.zone - 1] > 0
    BY <1>2, Depths
  <2>2. o.freed \in SUBSET Path
    BY OpIs
  <2> QED
    BY <1>5, <1>6, <1>7, <2>1, <2>2
<1>9. PICK h : h = o.holds \ {o.block}
  OBVIOUS
<1>10. h \in SUBSET Block
  BY <1>9, OpIs
<1>11. n = [o EXCEPT !.stack = s, !.block = 0, !.holds = h, !.freed = fr]
  BY <1>0, <1>3, <1>6, <1>9 DEF FreesTo
<1>12. n \in Op /\ SameCall(o, n) /\ n.new = o.new /\ n.freed = fr /\ n.zone = o.zone /\ n.holds = h /\ n.stack = s
  <2>1. s \in Seq(Frame) /\ fr \in SUBSET Path /\ h \in SUBSET Block
    BY <1>4, <1>8, <1>10
  <2>2. n.new = o.new /\ n.freed = fr /\ n.zone = o.zone /\ n.holds = h /\ n.stack = s
        /\ n.block = 0 /\ SameCall(o, n) /\ n.level = o.level
    BY <1>11 DEF Op, SameCall
  <2>3. n \in Op
    BY <1>11, <2>1 DEF Op
  <2> QED
    BY <2>2, <2>3
<1>15. Pops(o, n, i)
  BY <1>1, <1>b, <1>4, <1>12 DEF Pops
<1>13. CASE i = 1
  <2>1. n.stack = << >>
    BY <1>4, <1>12, <1>13
  <2>2. Truncator(n, "next")
    BY <1>1, <1>8, <1>12, <2>1 DEF Truncator, TruncShape, WalkShape, SameCall
  <2> QED
    BY <1>0, <1>a, <1>6, <1>7, <1>9, <1>12, <1>15, <2>2
<1>14. CASE i # 1
  <2>0. i \in Nat /\ i >= 1
    BY <1>2
  <2>1. PICK w \in Nat : w = i - 1 /\ w >= 1 /\ w + 1 = i
    BY <1>14, <2>0
  <2>2. Len(n.stack) = w /\ n.stack # << >> /\ \A k \in 1 .. w : n.stack[k] = o.stack[k]
    BY <1>4, <1>12, <1>14, <2>1
  <2>3. w \in 1 .. i /\ i \in 1 .. i /\ w \in 1 .. i - 1
    BY <1>2, <2>1
  <2>4. n.stack[w].index \in 1 .. PER_BLOCK + 1
    <3>1. o.stack[w].index \in 2 .. PER_BLOCK + 1
      BY <1>2, <2>3
    <3>2. o.stack[w].index \in 1 .. PER_BLOCK + 1
      BY <3>1, Blocks
    <3>3. w \in 1 .. w
      BY <2>1
    <3> QED
      BY <2>2, <3>2, <3>3
  <2>5. n.stack[w].depth > 0
    <3>1. PICK a \in Nat : a = o.stack[w].depth
      BY <1>2, <2>3
    <3>2. PICK b \in Nat : b = o.stack[i].depth
      BY <1>2, <2>3
    <3>3. a + w = b + i
      BY <1>2, <2>3, <3>1, <3>2
    <3>4. a = b + 1
      BY <2>0, <2>1, <3>3
    <3>5. w \in 1 .. w
      BY <2>1
    <3>6. n.stack[w].depth = a
      BY <2>2, <3>1, <3>5
    <3> QED
      BY <3>4, <3>6
  <2>6. /\ \A k \in 1 .. w : n.stack[k].depth + k = Depth[n.zone - 1] + 1
        /\ \A k \in 1 .. w - 1 : n.stack[k].index \in 2 .. PER_BLOCK + 1
    <3>1. \A k \in 1 .. w : k \in 1 .. i
      BY <1>2, <2>1
    <3>2. \A k \in 1 .. w - 1 : k \in 1 .. w /\ k \in 1 .. i - 1
      BY <1>2, <2>1
    <3> QED
      BY <1>2, <1>12, <2>2, <3>1, <3>2
  <2>7. FramesRight(n, "next")
    BY <1>2, <1>12, <2>2, <2>4, <2>5, <2>6 DEF FramesRight
  <2>8. Truncator(n, "next")
    BY <1>1, <1>8, <1>12, <2>2, <2>7 DEF Truncator, TruncShape, WalkShape, SameCall
  <2> QED
    BY <1>0, <1>a, <1>6, <1>7, <1>9, <1>12, <1>15, <2>8
<1> QED
  BY <1>13, <1>14
-----------------------------------------------------------------------------
(***************************************************************************)
(* The tree after a step.                                                   *)
(***************************************************************************)
LEMMA FreedHas ==
    ASSUME NEW f, NEW x
    PROVE  /\ x \in FreedIn(f) <=> \E u \in Busy : op[u].file = f /\ x \in op[u].freed
           /\ (x \in FreedIn(f))' <=> \E u \in Busy' : op'[u].file = f /\ x \in op'[u].freed
BY DEF FreedIn

LEMMA FreedArePaths == ZonesTypeOK => \A f : FreedIn(f) \in SUBSET Path
<1> SUFFICES ASSUME ZonesTypeOK, NEW f, NEW x \in FreedIn(f) PROVE x \in Path
  OBVIOUS
<1>1. PICK u \in Busy : op[u].file = f /\ x \in op[u].freed
  BY FreedHas
<1>2. u \in Caller
  BY DEF Busy
<1>3. op[u] \in Op
  BY <1>2, BusyIs
<1> QED
  BY <1>1, <1>3, OpIs

LEMMA TreeIs ==
    ASSUME ZonesTypeOK, NEW f \in File
    PROVE  /\ i_zone[f] \in [Zone -> Block \cup {0}] /\ ptr \in [Block -> [Index -> Block \cup {0}]]
           /\ FreedIn(f) \in SUBSET Path
           /\ \A p \in Path : /\ Tree[f][p] = At(i_zone[f], ptr, FreedIn(f), p)
                              /\ Tree[f][p] = BlockAt(f, p)
                              /\ Tree[f][p] \in Block \cup {0}
<1>1. i_zone[f] \in [Zone -> Block \cup {0}] /\ ptr \in [Block -> [Index -> Block \cup {0}]]
  BY DEF ZonesTypeOK
<1>2. FreedIn(f) \in SUBSET Path
  BY FreedArePaths
<1>3. \A p \in Path : Tree[f][p] = BlockAt(f, p)
  BY DEF Tree
<1>4. \A p \in Path : BlockAt(f, p) = At(i_zone[f], ptr, FreedIn(f), p)
  BY BlockAtIs
<1>5. PICK zs : zs = i_zone[f]
  OBVIOUS
<1>6. PICK F : F = FreedIn(f)
  OBVIOUS
<1>7. PICK pt : pt = ptr
  OBVIOUS
<1>8. \A p \in Path : At(zs, pt, F, p) \in Block \cup {0}
  BY <1>1, <1>2, <1>5, <1>6, <1>7, AtType
<1> QED
  BY <1>1, <1>2, <1>3, <1>4, <1>5, <1>6, <1>7, <1>8

LEMMA BlockAtThen == (\A f, p : BlockAt(f, p) = At(i_zone[f], ptr, FreedIn(f), p))'
<1>1. \A f, p : BlockAt(f, p) = At(i_zone[f], ptr, FreedIn(f), p)
  BY BlockAtIs
<1> QED
  BY <1>1, PTL

LEMMA TreeThen ==
    ASSUME ZonesTypeOK', NEW f \in File
    PROVE  /\ i_zone'[f] \in [Zone -> Block \cup {0}] /\ ptr' \in [Block -> [Index -> Block \cup {0}]]
           /\ FreedIn(f)' \in SUBSET Path
           /\ \A p \in Path : /\ Tree'[f][p] = At(i_zone'[f], ptr', FreedIn(f)', p)
                              /\ Tree'[f][p] = BlockAt(f, p)'
                              /\ Tree'[f][p] \in Block \cup {0}
<1>1. i_zone'[f] \in [Zone -> Block \cup {0}] /\ ptr' \in [Block -> [Index -> Block \cup {0}]]
  BY DEF ZonesTypeOK
<1>2. FreedIn(f)' \in SUBSET Path
  <2> SUFFICES ASSUME NEW x \in FreedIn(f)' PROVE x \in Path
    OBVIOUS
  <2>1. PICK u \in Busy' : op'[u].file = f /\ x \in op'[u].freed
    BY DEF FreedIn
  <2>2. u \in Caller /\ op'[u] # NoOp
    BY DEF Busy
  <2>3. op'[u] \in Op
    BY <2>2 DEF ZonesTypeOK
  <2> QED
    BY <2>1, <2>3, OpIs
<1>3. \A p \in Path : Tree'[f][p] = BlockAt(f, p)'
  BY DEF Tree
<1>4. \A p \in Path : BlockAt(f, p)' = At(i_zone'[f], ptr', FreedIn(f)', p)
  BY BlockAtThen
<1>5. PICK zs : zs = i_zone'[f]
  OBVIOUS
<1>6. PICK F : F = FreedIn(f)'
  OBVIOUS
<1>7. PICK pt : pt = ptr'
  OBVIOUS
<1>8. \A p \in Path : At(zs, pt, F, p) \in Block \cup {0}
  BY <1>1, <1>2, <1>5, <1>6, <1>7, AtType
<1> QED
  BY <1>1, <1>2, <1>3, <1>4, <1>5, <1>6, <1>7, <1>8

\* What the freed of the call that steps make of the freed of its file.
LEMMA FreedMoves ==
    ASSUME ZonesTypeOK, NEW t \in Caller, op[t] \in Op, NEW n, NEW l, Moves(t, n, l),
           n = NoOp \/ (n \in Op /\ n.file = op[t].file),
           NEW f
    PROVE  /\ f # op[t].file => FreedIn(f)' = FreedIn(f)
           /\ n = NoOp => FreedIn(f)' \subseteq FreedIn(f) /\ FreedIn(f) \subseteq FreedIn(f)' \cup op[t].freed
           /\ n # NoOp /\ op[t].freed = n.freed => FreedIn(f)' = FreedIn(f)
           /\ n # NoOp /\ f = op[t].file =>
                 \A X : n.freed = op[t].freed \cup X => FreedIn(f)' = FreedIn(f) \cup X
<1>1. /\ op'[t] = n
      /\ \A u \in Caller \ {t} : op'[u] = op[u]
      /\ Busy' = IF n = NoOp THEN Busy \ {t} ELSE Busy \cup {t}
  BY MovesTo
<1>2. t \in Busy /\ Busy \subseteq Caller
  BY OpIs DEF Busy
<1>3. ASSUME NEW x PROVE (x \in FreedIn(f))' <=>
           \/ \E u \in Busy \ {t} : op[u].file = f /\ x \in op[u].freed
           \/ n # NoOp /\ n.file = f /\ x \in n.freed
  BY <1>1, <1>2 DEF FreedIn
<1>4. ASSUME NEW x PROVE x \in FreedIn(f) <=>
           \/ \E u \in Busy \ {t} : op[u].file = f /\ x \in op[u].freed
           \/ op[t].file = f /\ x \in op[t].freed
  BY <1>2 DEF FreedIn
<1>5. f # op[t].file => FreedIn(f)' = FreedIn(f)
  BY <1>3, <1>4
<1>6. n = NoOp => FreedIn(f)' \subseteq FreedIn(f) /\ FreedIn(f) \subseteq FreedIn(f)' \cup op[t].freed
  BY <1>3, <1>4
<1>7. n # NoOp /\ op[t].freed = n.freed => FreedIn(f)' = FreedIn(f)
  BY <1>3, <1>4
<1>8. ASSUME n # NoOp, f = op[t].file, NEW X, n.freed = op[t].freed \cup X
      PROVE  FreedIn(f)' = FreedIn(f) \cup X
  <2>1. \A x : (x \in FreedIn(f))' <=> x \in FreedIn(f) \cup X
    BY <1>3, <1>4, <1>8
  <2> QED
    BY <2>1
<1> QED
  BY <1>5, <1>6, <1>7, <1>8

LEMMA SameTree ==
    ASSUME ZonesTypeOK, ZonesTypeOK', i_zone' = i_zone, ptr' = ptr, \A f \in File : FreedIn(f)' = FreedIn(f)
    PROVE  Tree' = Tree
<1>1. ASSUME NEW f \in File, NEW p \in Path PROVE BlockAt(f, p)' = BlockAt(f, p)
  <2>1. BlockAt(f, p)' = At(i_zone'[f], ptr', FreedIn(f)', p)
    BY BlockAtThen
  <2>2. BlockAt(f, p) = At(i_zone[f], ptr, FreedIn(f), p)
    BY BlockAtIs
  <2>3. i_zone'[f] = i_zone[f]
    OBVIOUS
  <2> QED
    BY <2>1, <2>2, <2>3
<1>2. ASSUME NEW f \in File PROVE [p \in Path |-> BlockAt(f, p)'] = [p \in Path |-> BlockAt(f, p)]
  BY <1>1
<1>3. [f \in File |-> [p \in Path |-> BlockAt(f, p)']] = [f \in File |-> [p \in Path |-> BlockAt(f, p)]]
  BY <1>2, Zenon
<1> QED
  BY <1>3 DEF Tree

\* free_block takes a block and all that is below out of its file.
LEMMA FreesTree ==
    ASSUME ZonesTypeOK, ZonesTypeOK', NEW t \in Caller, Truncator(op[t], "free"), FreeBlock(t)
    PROVE  \A f \in File : \A p \in Path :
              Tree'[f][p] = IF f = op[t].file /\ IsPrefix(TopPath(t), p) THEN 0 ELSE Tree[f][p]
<1>1. PICK g \in File : g = op[t].file
  BY OpIs DEF Truncator
<1>2. PICK q \in Path : q = TopPath(t) /\ q[1] = op[t].zone - 1
  BY TopIs DEF Truncator, TruncShape
<1>3. PICK z \in Zone : z = op[t].zone - 1
  BY <1>2, PathIs DEF PathLike
<1>4. PICK n : n = FreesTo(t)
  OBVIOUS
<1>5. /\ Truncator(n, "next") /\ SameCall(op[t], n)
      /\ n.freed = (IF Depth[op[t].zone - 1] = 0 THEN op[t].freed ELSE op[t].freed \cup {TopPath(t)})
  BY <1>4, FreesShape
<1>6. Moves(t, n, "next") /\ op[t] \in Op /\ n \in Op /\ n # NoOp /\ n.file = op[t].file
  BY <1>4, <1>5, TruncMoves, OpIs DEF Truncator, SameCall
<1>7. /\ ptr' = ptr
      /\ i_zone' = IF Depth[z] = 0 THEN [i_zone EXCEPT ![g][z] = 0] ELSE i_zone
  BY <1>1, <1>3 DEF FreeBlock
<1>8. i_zone \in [File -> [Zone -> Block \cup {0}]]
  BY DEF ZonesTypeOK
<1>9. ASSUME NEW f \in File, f # g, NEW p \in Path PROVE Tree'[f][p] = Tree[f][p]
  <2>1. FreedIn(f)' = FreedIn(f)
    BY <1>1, <1>6, <1>9, FreedMoves
  <2>2. i_zone'[f] = i_zone[f]
    BY <1>7, <1>8, <1>9
  <2> QED
    BY <1>7, <2>1, <2>2, TreeIs, TreeThen
<1>10. ASSUME NEW p \in Path PROVE Tree'[g][p] = IF IsPrefix(q, p) THEN 0 ELSE Tree[g][p]
  <2>1. CASE Depth[z] = 0
    <3>1. FreedIn(g)' = FreedIn(g)
      BY <1>1, <1>3, <1>5, <1>6, <2>1, FreedMoves
    <3>2. i_zone'[g] = [i_zone[g] EXCEPT ![z] = 0]
      BY <1>7, <1>8, <2>1
    <3>3. i_zone[g] \in [Zone -> Block \cup {0}]
      BY <1>8
    <3>4. i_zone'[g][z] = 0 /\ \A x \in Zone \ {z} : i_zone'[g][x] = i_zone[g][x]
      BY <3>2, <3>3
    <3>5. p[1] \in Zone
      BY PathIs DEF PathLike
    <3>6. IsPrefix(q, p) <=> p[1] = z
      <4>1. q \in Seq(Nat) /\ p \in Seq(Nat) /\ Len(p) \in Nat /\ Len(p) >= 1 /\ Len(q) \in Nat /\ Len(q) >= 1
        BY PathsAreSeqs
      <4>2. Len(q) <= Depth[z] + 1
        BY <1>2, <1>3, PathIs DEF PathLike
      <4>3. PICK m : m = Len(q) /\ m = 1
        BY <2>1, <4>1, <4>2
      <4>4. \A k \in 1 .. m : k = 1
        BY <4>3
      <4>5. IsPrefix(q, p) <=> Len(q) <= Len(p) /\ \A k \in 1 .. Len(q) : q[k] = p[k]
        BY <4>1, PrefixIs
      <4>6. 1 \in 1 .. m
        BY <4>3
      <4> QED
        BY <1>2, <1>3, <4>1, <4>3, <4>4, <4>5, <4>6
    <3>7. PICK zs : zs = i_zone[g]
      OBVIOUS
    <3>8. PICK ys : ys = i_zone'[g]
      OBVIOUS
    <3>9. PICK F \in SUBSET Path : F = FreedIn(g)
      BY TreeIs
    <3>10. PICK pt : pt = ptr
      OBVIOUS
    <3>11. p[1] = z => At(ys, pt, F, p) = 0
      BY <3>4, <3>8, NothingBelowZero
    <3>12. p[1] # z => At(ys, pt, F, p) = At(zs, pt, F, p)
      BY <3>4, <3>5, <3>7, <3>8, AtDependsOn
    <3>13. Tree'[g][p] = At(ys, pt, F, p) /\ Tree[g][p] = At(zs, pt, F, p)
      BY <1>7, <3>1, <3>7, <3>8, <3>9, <3>10, TreeIs, TreeThen
    <3> QED
      BY <3>6, <3>11, <3>12, <3>13
  <2>2. CASE Depth[z] # 0
    <3>1. n.freed = op[t].freed \cup {q}
      BY <1>2, <1>3, <1>5, <2>2
    <3>2. FreedIn(g)' = FreedIn(g) \cup {q}
      <4>1. PICK X : X = {q}
        OBVIOUS
      <4>2. n.freed = op[t].freed \cup X /\ g = op[t].file /\ n # NoOp
        BY <1>1, <1>6, <3>1, <4>1
      <4>3. \A Y : n.freed = op[t].freed \cup Y => FreedIn(g)' = FreedIn(g) \cup Y
        BY <1>6, <4>2, FreedMoves
      <4>4. FreedIn(g)' = FreedIn(g) \cup X
        BY <4>2, <4>3
      <4> QED
        BY <4>1, <4>4
    <3>3. i_zone' = i_zone
      BY <1>7, <2>2
    <3>4. Tree'[g][p] = At(i_zone[g], ptr, FreedIn(g) \cup {q}, p) /\ Tree[g][p] = At(i_zone[g], ptr, FreedIn(g), p)
      BY <1>7, <3>2, <3>3, TreeIs, TreeThen
    <3>5. PICK zs : zs = i_zone[g]
      OBVIOUS
    <3>6. PICK F : F = FreedIn(g)
      OBVIOUS
    <3>7. PICK pt : pt = ptr
      OBVIOUS
    <3>8. At(zs, pt, F \cup {q}, p) = IF IsPrefix(q, p) THEN 0 ELSE At(zs, pt, F, p)
      BY AtHidden
    <3> QED
      BY <3>4, <3>5, <3>6, <3>7, <3>8
  <2> QED
    BY <2>1, <2>2
<1> QED
  BY <1>1, <1>2, <1>9, <1>10

\* At the end of truncate the indirect entries of i_zone are cleared.
LEMMA TruncatedTree ==
    ASSUME ZonesTypeOK, ZonesTypeOK', NEW t \in Caller, Truncator(op[t], "next"), Truncated(t)
    PROVE  \A f \in File : \A p \in Path :
              Tree'[f][p] = IF f = op[t].file /\ Depth[p[1]] > 0 THEN 0 ELSE Tree[f][p]
<1>1. PICK g \in File : g = op[t].file
  BY OpIs DEF Truncator
<1>2. Moves(t, NoOp, "user") /\ op[t] \in Op
  BY WalkMoves DEF Truncator
<1>3. ptr' = ptr /\ i_zone' = [i_zone EXCEPT ![g] = NoZones(@)]
  BY <1>1 DEF Truncated
<1>4. i_zone \in [File -> [Zone -> Block \cup {0}]]
  BY DEF ZonesTypeOK
<1>5. ASSUME NEW f \in File, f # g, NEW p \in Path PROVE Tree'[f][p] = Tree[f][p]
  <2>1. FreedIn(f)' = FreedIn(f)
    BY <1>1, <1>2, <1>5, FreedMoves
  <2>2. i_zone'[f] = i_zone[f]
    BY <1>3, <1>4, <1>5
  <2> QED
    BY <1>3, <2>1, <2>2, TreeIs, TreeThen
<1>6. ASSUME NEW p \in Path PROVE Tree'[g][p] = IF Depth[p[1]] > 0 THEN 0 ELSE Tree[g][p]
  <2>1. PICK F \in SUBSET Path : F = FreedIn(g)
    BY TreeIs
  <2>2. PICK G \in SUBSET Path : G = FreedIn(g)'
    BY TreeThen
  <2>3. G \subseteq F /\ F \subseteq G \cup op[t].freed
    BY <1>2, <2>1, <2>2, FreedMoves
  <2>4. \A q \in op[t].freed : Depth[q[1]] > 0
    BY DEF Truncator, TruncShape
  <2>5. i_zone'[g] = NoZones(i_zone[g])
    BY <1>3, <1>4
  <2>6. p[1] \in Zone /\ Depth[p[1]] \in Nat
    BY PathIs, Depths DEF PathLike
  <2>7. PICK zs : zs = i_zone[g]
    OBVIOUS
  <2>8. PICK ys : ys = i_zone'[g]
    OBVIOUS
  <2>9. PICK pt : pt = ptr
    OBVIOUS
  <2>10. Tree'[g][p] = At(ys, pt, G, p) /\ Tree[g][p] = At(zs, pt, F, p)
    BY <1>3, <2>1, <2>2, <2>7, <2>8, <2>9, TreeIs, TreeThen
  <2>11. ys[p[1]] = IF Depth[p[1]] > 0 THEN 0 ELSE zs[p[1]]
    BY <2>5, <2>6, <2>7, <2>8 DEF NoZones
  <2>12. CASE Depth[p[1]] > 0
    <3>1. At(ys, pt, G, p) = 0
      BY <2>11, <2>12, NothingBelowZero
    <3> QED
      BY <2>10, <2>12, <3>1
  <2>13. CASE ~(Depth[p[1]] > 0)
    <3>1. At(ys, pt, G, p) = At(zs, pt, G, p)
      BY <2>11, <2>13, AtDependsOn
    <3>2. ASSUME NEW q \in F, IsPrefix(q, p) PROVE q \in G
      <4>1. q \in Seq(Nat) /\ p \in Seq(Nat) /\ Len(q) \in Nat /\ Len(q) >= 1
        BY PathsAreSeqs
      <4>2. \A k \in 1 .. Len(q) : q[k] = p[k]
        BY <3>2, <4>1, PrefixIs
      <4>3. q[1] = p[1]
        BY <4>1, <4>2
      <4> QED
        BY <2>3, <2>4, <2>13, <4>3
    <3>3. At(zs, pt, G, p) = At(zs, pt, F, p)
      BY <2>3, <3>2 DEF At
    <3> QED
      BY <2>10, <2>13, <3>1, <3>3
  <2> QED
    BY <2>12, <2>13
<1> QED
  BY <1>1, <1>5, <1>6

\* The place that is filled shows, unless it has been freed or cut off.
Here(o)    == SubSeq(o.path, 1, o.level)
Parent(o)  == SubSeq(o.path, 1, o.level - 1)
Shows(o)   == Here(o) \notin FreedIn(o.file) /\ (o.level > 1 => Tree[o.file][Parent(o)] = o.block)

LEMMA FillsTree ==
    ASSUME ZonesTypeOK, ZonesTypeOK', NEW t \in Caller, Walker(op[t], "new"), Fills(t), Entry(t) = 0,
           NewRight(Tree, zmap, op[t]), LookRight(Tree, zmap, op[t], "new"),
           op[t].level > 1 => op[t].new # op[t].block
    PROVE  /\ Here(op[t]) \in Path /\ op[t].new \in Block
           /\ Shows(op[t]) => Tree[op[t].file][Here(op[t])] = 0
           /\ \A f \in File : \A p \in Path :
                 Tree'[f][p] = IF f = op[t].file /\ p = Here(op[t]) /\ Shows(op[t]) THEN op[t].new ELSE Tree[f][p]
<1>0. PICK o \in Op : o = op[t]
  BY DEF Walker
<1>1. PICK g \in File : g = o.file
  BY OpIs
<1>2. PICK n : n = o.level
  OBVIOUS
<1>3. o.path \in Path /\ n \in 1 .. Len(o.path) /\ Len(o.path) \in Nat
  BY <1>0, <1>2, PathsAreSeqs DEF Walker
<1>4. PICK h \in Path : h = Here(o)
  BY <1>2, <1>3, WayDown DEF Here
<1>5. PICK new \in Block : new = o.new
  BY <1>0, OpIs DEF Walker, WalkShape
<1>6. \A f \in File : \A p \in Path : Tree[f][p] # new
  BY <1>0, <1>5, Blocks DEF NewRight
<1>7. PICK zs \in [Zone -> Block \cup {0}] : zs = i_zone[g]
  BY TreeIs
<1>8. PICK F \in SUBSET Path : F = FreedIn(g)
  BY TreeIs
<1>9. PICK pt \in [Block -> [Index -> Block \cup {0}]] : pt = ptr
  BY TreeIs
<1>10. PICK nt : nt = ptr'
  OBVIOUS
<1>11. PICK ys : ys = i_zone'[g]
  OBVIOUS
<1>12. ASSUME NEW f PROVE FreedIn(f)' = FreedIn(f)
  <2>1. PICK m : m = FillsTo(t)
    OBVIOUS
  <2>2. Walker(m, "look") /\ SameCall(op[t], m) /\ m.freed = {}
    BY <2>1, FillsShape
  <2>3. m \in Op /\ m # NoOp /\ m.file = op[t].file /\ op[t].freed = m.freed /\ op[t] \in Op /\ Moves(t, m, "look")
    BY <2>1, <2>2, OpIs, WalkMoves DEF Walker, SameCall, WalkShape
  <2> QED
    BY <2>3, FreedMoves
<1>13. ASSUME NEW p \in Path
       PROVE /\ Tree[g][p] = At(zs, pt, F, p) /\ Tree'[g][p] = At(ys, nt, F, p)
  BY <1>7, <1>8, <1>9, <1>10, <1>11, <1>12, TreeIs, TreeThen
<1>14. \A p \in Path : At(zs, pt, F, p) # new
  BY <1>6, <1>13
<1>15. CASE n = 1
  <2>1. PICK z \in Zone : z = o.path[1] /\ h = <<z>>
    <3>1. h = SubSeq(o.path, 1, n)
      BY <1>2, <1>4 DEF Here
    <3>2. SubSeq(o.path, 1, n) = <<o.path[1]>> /\ o.path[1] \in Zone
      BY <1>3, <1>15, WayDown
    <3> QED
      BY <3>1, <3>2
  <2>2. zs[z] = 0
    BY <1>0, <1>1, <1>2, <1>7, <1>15, <2>1 DEF Entry
  <2>3. ptr' = Cleared(new) /\ i_zone' = [i_zone EXCEPT ![g][z] = new]
    BY <1>0, <1>1, <1>2, <1>5, <1>15, <2>1 DEF Fills
  <2>4. /\ nt = [pt EXCEPT ![new] = [i \in Index |-> 0]]
        /\ ys = [zs EXCEPT ![z] = new]
        /\ \A f \in File \ {g} : i_zone'[f] = i_zone[f]
    BY <1>7, <1>9, <1>10, <1>11, <2>3 DEF Cleared, ZonesTypeOK
  <2>5. /\ \A c \in Block \ {new} : nt[c] = pt[c]
        /\ \A j \in Index : nt[new][j] = 0
        /\ ys[z] = new /\ \A x \in Zone \ {z} : ys[x] = zs[x]
    BY <2>4
  <2>6. \A p \in Path : At(ys, nt, F, p) = IF p = <<z>> /\ p \notin F THEN new ELSE At(zs, pt, F, p)
    <3> SUFFICES ASSUME NEW p \in Path
                 PROVE  At(ys, nt, F, p) = IF p = <<z>> /\ p \notin F THEN new ELSE At(zs, pt, F, p)
      OBVIOUS
    <3>1. FillsTop(zs, pt, F, new, z, ys, nt)
      BY <1>14, <2>2, <2>5 DEF FillsTop
    <3> QED
      BY <3>1, AtFilledTop
  <2>7. Shows(o) <=> h \notin F
    BY <1>1, <1>2, <1>4, <1>8, <1>15 DEF Shows
  <2>8. Tree[g][h] = 0
    <3>1. At(zs, pt, F, <<z>>) = IF <<z>> \in F THEN 0 ELSE zs[z]
      BY AtTop
    <3> QED
      BY <1>13, <2>1, <2>2, <3>1
  <2>9. ASSUME NEW f \in File, f # g, NEW p \in Path PROVE Tree'[f][p] = Tree[f][p]
    <3>1. PICK xs : xs = i_zone[f]
      OBVIOUS
    <3>2. PICK G \in SUBSET Path : G = FreedIn(f)
      BY TreeIs
    <3>3. \A r \in Path : Tree[f][r] = At(xs, pt, G, r) /\ Tree'[f][r] = At(xs, nt, G, r)
      <4>1. i_zone'[f] = xs /\ FreedIn(f)' = G /\ FreedIn(f) = G
        BY <1>12, <2>4, <2>9, <3>1, <3>2
      <4> QED
        BY <1>9, <1>10, <3>1, <4>1, TreeIs, TreeThen
    <3>4. \A r \in Path : At(xs, pt, G, r) # 0 => nt[At(xs, pt, G, r)] = pt[At(xs, pt, G, r)]
      <4>1. ASSUME NEW r \in Path, At(xs, pt, G, r) # 0 PROVE nt[At(xs, pt, G, r)] = pt[At(xs, pt, G, r)]
        <5>1. Tree[f][r] \in Block \cup {0} /\ Tree[f][r] # new
          BY <1>6, TreeIs
        <5> QED
          BY <2>5, <3>3, <4>1, <5>1
      <4> QED
        BY <4>1
    <3>5. \A r \in Path : At(xs, nt, G, r) = At(xs, pt, G, r)
      BY <3>4, AtElsewhere
    <3> QED
      BY <3>3, <3>5
  <2>10. \A p \in Path : Tree'[g][p] = IF p = h /\ Shows(o) THEN new ELSE Tree[g][p]
    BY <1>13, <2>1, <2>6, <2>7
  <2> QED
    BY <1>0, <1>1, <1>4, <1>5, <2>8, <2>9, <2>10
<1>16. CASE n # 1
  <2>1. n > 1
    BY <1>3, <1>16
  <2>2. PICK i \in Index : i = o.path[n]
    BY <1>3, <2>1, WayDown
  <2>3. PICK parent \in Path : parent = Parent(o) /\ h = Append(parent, i)
    BY <1>2, <1>3, <1>4, <2>1, <2>2, WayDown DEF Here, Parent
  <2>4. PICK b \in Block : b = o.block
    BY <1>0, <1>2, <2>1, OpIs DEF Walker, WalkShape
  <2>5. b # new
    BY <1>0, <1>2, <1>5, <2>1, <2>4
  <2>6. pt[b][i] = 0
    BY <1>0, <1>2, <1>9, <1>16, <2>2, <2>4 DEF Entry
  <2>7. ptr' = [Cleared(new) EXCEPT ![b][i] = new] /\ i_zone' = i_zone
    BY <1>0, <1>2, <1>5, <1>16, <2>2, <2>4 DEF Fills
  <2>8. nt = [[pt EXCEPT ![new] = [j \in Index |-> 0]] EXCEPT ![b][i] = new] /\ ys = zs
    BY <1>7, <1>9, <1>10, <1>11, <2>7 DEF Cleared
  <2>9. /\ \A c \in Block \ {new, b} : nt[c] = pt[c]
        /\ \A j \in Index : nt[new][j] = 0
        /\ nt[b][i] = new /\ \A j \in Index \ {i} : nt[b][j] = pt[b][j]
    BY <2>5, <2>8
  <2>10. \A f \in File : \A p \in Path : Tree[f][p] = b => f = g /\ p = parent
    BY <1>0, <1>1, <1>2, <2>1, <2>3, <2>4 DEF LookRight, Looking, Walker, Parent
  <2>11. \A p \in Path : At(zs, pt, F, p) = b => p = parent
    BY <1>13, <2>10
  <2>12. \A p \in Path : At(zs, nt, F, p) =
              IF /\ p = Append(parent, i) /\ parent \in Path
                 /\ At(zs, pt, F, parent) = b /\ p \notin F
              THEN new ELSE At(zs, pt, F, p)
    <3> SUFFICES ASSUME NEW p \in Path
                 PROVE  At(zs, nt, F, p) =
              IF /\ p = Append(parent, i) /\ parent \in Path
                 /\ At(zs, pt, F, parent) = b /\ p \notin F
              THEN new ELSE At(zs, pt, F, p)
      OBVIOUS
    <3>1. FillsBelow(zs, pt, F, new, b, i, parent, nt)
      BY <1>14, <2>5, <2>6, <2>9, <2>11 DEF FillsBelow
    <3> QED
      BY <3>1, AtFilled
  <2>13. Shows(o) <=> h \notin F /\ Tree[g][parent] = b
    BY <1>1, <1>2, <1>4, <1>8, <2>1, <2>3, <2>4 DEF Shows
  <2>14. Shows(o) => Tree[g][h] = 0
    <3>1. At(zs, pt, F, Append(parent, i)) =
             IF At(zs, pt, F, parent) = 0 \/ Append(parent, i) \in F THEN 0 ELSE pt[At(zs, pt, F, parent)][i]
      BY AtBelow
    <3>2. Tree[g][parent] = At(zs, pt, F, parent) /\ Tree[g][h] = At(zs, pt, F, h)
      BY <1>13
    <3> QED
      BY <2>3, <2>6, <2>13, <3>1, <3>2
  <2>15. ASSUME NEW f \in File, f # g, NEW p \in Path PROVE Tree'[f][p] = Tree[f][p]
    <3>1. PICK xs : xs = i_zone[f]
      OBVIOUS
    <3>2. PICK G \in SUBSET Path : G = FreedIn(f)
      BY TreeIs
    <3>3. \A r \in Path : Tree[f][r] = At(xs, pt, G, r) /\ Tree'[f][r] = At(xs, nt, G, r)
      <4>1. i_zone'[f] = xs /\ FreedIn(f)' = G /\ FreedIn(f) = G
        BY <1>12, <2>7, <3>1, <3>2
      <4> QED
        BY <1>9, <1>10, <3>1, <4>1, TreeIs, TreeThen
    <3>4. \A r \in Path : At(xs, pt, G, r) # 0 => nt[At(xs, pt, G, r)] = pt[At(xs, pt, G, r)]
      <4>1. ASSUME NEW r \in Path, At(xs, pt, G, r) # 0 PROVE nt[At(xs, pt, G, r)] = pt[At(xs, pt, G, r)]
        <5>1. Tree[f][r] \in Block \cup {0} /\ Tree[f][r] # new /\ Tree[f][r] # b
          BY <1>6, <2>10, <2>15, TreeIs
        <5> QED
          BY <2>9, <3>3, <4>1, <5>1
      <4> QED
        BY <4>1
    <3>5. \A r \in Path : At(xs, nt, G, r) = At(xs, pt, G, r)
      BY <3>4, AtElsewhere
    <3> QED
      BY <3>3, <3>5
  <2>16. \A p \in Path : Tree'[g][p] = IF p = h /\ Shows(o) THEN new ELSE Tree[g][p]
    <3> SUFFICES ASSUME NEW p \in Path
                 PROVE  Tree'[g][p] = IF p = h /\ Shows(o) THEN new ELSE Tree[g][p]
      OBVIOUS
    <3>1. Tree'[g][p] = At(zs, nt, F, p) /\ Tree[g][p] = At(zs, pt, F, p) /\ Tree[g][parent] = At(zs, pt, F, parent)
      BY <1>13, <2>8
    <3> QED
      BY <2>3, <2>12, <2>13, <3>1
  <2> QED
    BY <1>0, <1>1, <1>4, <1>5, <2>14, <2>15, <2>16
<1> QED
  BY <1>15, <1>16
-----------------------------------------------------------------------------
(***************************************************************************)
(* The invariant, call by call.                                             *)
(***************************************************************************)
Fits(T, marks, gone, o, l) ==
    /\ WalkShape(o, l) /\ TruncShape(o, l)
    /\ NewRight(T, marks, o) /\ LookRight(T, marks, o, l)
    /\ WalkView(T, o, l) /\ TruncView(T, o, l, gone)

SelfApart(o, l) == o.what # "truncate" /\ Looking(o, l) => o.new # o.block

Apart(o, l, v) == /\ o.new # 0 => o.new # v.new
                  /\ o.what # "truncate" /\ Looking(o, l) => v.new # o.block

CallsRight == \A u \in Busy : Fits(Tree, zmap, lost, op[u], stage[u]) /\ SelfApart(op[u], stage[u])

AllApart == \A t, u \in Busy : t # u => Apart(op[t], stage[t], op[u])

ByCalls == /\ UserRight /\ Conflicts /\ SinceRight
           /\ OnePlace(Tree) /\ AllMarked(Tree, zmap) /\ NoLeak
           /\ CallsRight /\ AllApart

LEMMA RightByCalls == ZonesRight <=> ByCalls
<1>1. NewsApart /\ LooksApart <=> AllApart /\ \A u \in Busy : SelfApart(op[u], stage[u])
  BY DEF NewsApart, LooksApart, AllApart, Apart, SelfApart
<1>2. (\A u \in Busy : Fits(Tree, zmap, lost, op[u], stage[u])) <=> Shapes /\ News /\ Looks /\ Views
  BY DEF Fits, Shapes, News, Looks, Views
<1> QED
  BY <1>1, <1>2 DEF ZonesRight, ByCalls, CallsRight

LEMMA RightByCallsThen == (ZonesRight <=> ByCalls)'
<1>1. ZonesRight <=> ByCalls
  BY RightByCalls
<1> QED
  BY <1>1, PTL

\* A step of a call that goes on.
LEMMA GoesOnRight ==
    ASSUME ZonesTypeOK, ZonesRight, NEW t \in Caller, op[t] \in Op, NEW n \in Op, NEW l, l # "user", Moves(t, n, l),
           SameCall(op[t], n), since' = since,
           OnePlace(Tree'), AllMarked(Tree', zmap'), NoLeak',
           Fits(Tree', zmap', lost', n, l), SelfApart(n, l),
           \A u \in Busy \ {t} : /\ Fits(Tree', zmap', lost', op[u], stage[u])
                                 /\ Apart(n, l, op[u]) /\ Apart(op[u], stage[u], n)
    PROVE  ZonesRight'
<1>1. ByCalls
  BY RightByCalls
<1>2. /\ op'[t] = n /\ stage'[t] = l
      /\ \A u \in Caller \ {t} : op'[u] = op[u] /\ stage'[u] = stage[u]
      /\ Busy' = Busy \cup {t} /\ t \in Busy /\ Busy \subseteq Caller
  BY MovesTo, OpIs DEF Busy
<1>3. UserRight'
  BY <1>1, <1>2, OpIs DEF ByCalls, UserRight
<1>4. \A u \in Busy : /\ op'[u].file = op[u].file /\ op'[u].what = op[u].what
                      /\ op'[u].overlap = op[u].overlap
  BY <1>2 DEF SameCall
<1>5. Busy' = Busy
  BY <1>2
<1>6. Conflicts' /\ SinceRight'
  <2>1. Conflicts /\ SinceRight
    BY <1>1 DEF ByCalls
  <2> QED
    BY <1>2, <1>4, <1>5, <2>1 DEF Conflicts, SinceRight
<1>7. CallsRight'
  <2>1. CallsRight
    BY <1>1 DEF ByCalls
  <2>2. ASSUME NEW u \in Busy' PROVE (Fits(Tree, zmap, lost, op[u], stage[u]) /\ SelfApart(op[u], stage[u]))'
    <3>1. CASE u = t
      BY <1>2, <3>1
    <3>2. CASE u # t
      BY <1>2, <1>5, <2>1, <3>2 DEF CallsRight
    <3> QED
      BY <3>1, <3>2
  <2> QED
    BY <2>2 DEF CallsRight
<1>8. AllApart'
  <2>1. AllApart
    BY <1>1 DEF ByCalls
  <2>2. ASSUME NEW u \in Busy, NEW v \in Busy, u # v PROVE Apart(op'[u], stage'[u], op'[v])
    BY <1>2, <2>1, <2>2 DEF AllApart
  <2> QED
    BY <1>5, <2>2 DEF AllApart
<1>9. ByCalls'
  BY <1>3, <1>6, <1>7, <1>8 DEF ByCalls
<1> QED
  BY <1>9, RightByCallsThen

\* A step that ends a call.
LEMMA ReturnsRight ==
    ASSUME ZonesTypeOK, ZonesRight, NEW t \in Caller, Moves(t, NoOp, "user"), since' = since,
           OnePlace(Tree'), AllMarked(Tree', zmap'), NoLeak',
           \A u \in Busy \ {t} : Fits(Tree', zmap', lost', op[u], stage[u])
    PROVE  ZonesRight'
<1>1. ByCalls
  BY RightByCalls
<1>2. /\ op'[t] = NoOp /\ stage'[t] = "user"
      /\ \A u \in Caller \ {t} : op'[u] = op[u] /\ stage'[u] = stage[u]
      /\ Busy' = Busy \ {t} /\ Busy \subseteq Caller
  BY MovesTo DEF Busy
<1>3. UserRight'
  BY <1>1, <1>2 DEF ByCalls, UserRight
<1>4. \A u \in Busy' : u \in Busy /\ u # t /\ op'[u] = op[u] /\ stage'[u] = stage[u]
  BY <1>2
<1>5. Conflicts' /\ SinceRight'
  <2>1. Conflicts /\ SinceRight
    BY <1>1 DEF ByCalls
  <2> QED
    BY <1>2, <1>4, <2>1 DEF Conflicts, SinceRight
<1>6. CallsRight'
  <2>1. CallsRight
    BY <1>1 DEF ByCalls
  <2>2. ASSUME NEW u \in Busy' PROVE (Fits(Tree, zmap, lost, op[u], stage[u]) /\ SelfApart(op[u], stage[u]))'
    BY <1>4, <2>1 DEF CallsRight
  <2> QED
    BY <2>2 DEF CallsRight
<1>7. AllApart'
  BY <1>1, <1>4 DEF AllApart, ByCalls
<1>8. ByCalls'
  BY <1>3, <1>5, <1>6, <1>7 DEF ByCalls
<1> QED
  BY <1>8, RightByCallsThen

\* What another call is to find again: its own file, or the blocks it knows of.
LEMMA SameFits ==
    ASSUME NEW T, NEW marks, NEW gone, NEW o, NEW l, Fits(T, marks, gone, o, l),
           NEW more, marks \subseteq more, NEW left, gone \subseteq left
    PROVE  Fits(T, more, left, o, l)
<1>1. NewRight(T, more, o) /\ LookRight(T, more, o, l)
  BY DEF Fits, NewRight, LookRight
<1>2. TruncView(T, o, l, left)
  BY DEF Fits, TruncView
<1> QED
  BY <1>1, <1>2 DEF Fits
-----------------------------------------------------------------------------
(***************************************************************************)
(* Steps that leave the tree alone.                                         *)
(***************************************************************************)
LEMMA UsedHas ==
    \A x : x \in Used <=> /\ x # 0
                          /\ \/ \E f \in File : \E p \in Path : Tree[f][p] = x
                             \/ \E u \in Busy : op[u].new = x
<1> SUFFICES ASSUME NEW x
             PROVE  x \in Used <=> /\ x # 0
                                   /\ \/ \E f \in File : \E p \in Path : Tree[f][p] = x
                                      \/ \E u \in Busy : op[u].new = x
  OBVIOUS
<1>1. ASSUME NEW f \in File PROVE x \in BlocksOf(f) <=> x # 0 /\ \E p \in Path : Tree[f][p] = x
  <2>1. \A p \in Path : Tree[f][p] = BlockAt(f, p)
    BY DEF Tree
  <2> QED
    BY <2>1 DEF BlocksOf
<1>2. x \in Used <=> \/ \E f \in File : x \in BlocksOf(f)
                     \/ x # 0 /\ \E u \in Busy : op[u].new = x
  <2>1. x \in UNION {BlocksOf(f) : f \in File} <=> \E f \in File : x \in BlocksOf(f)
    OBVIOUS
  <2>2. x \in {op[u].new : u \in Busy} \ {0} <=> x # 0 /\ \E u \in Busy : op[u].new = x
    OBVIOUS
  <2>3. PICK A : A = UNION {BlocksOf(f) : f \in File}
    OBVIOUS
  <2>4. PICK B : B = {op[u].new : u \in Busy} \ {0}
    OBVIOUS
  <2>5. Used = A \cup B
    BY <2>3, <2>4 DEF Used
  <2>6. x \in Used <=> x \in A \/ x \in B
    BY <2>5
  <2>7. x \in A <=> \E f \in File : x \in BlocksOf(f)
    BY <2>1, <2>3, Zenon
  <2>8. x \in B <=> x # 0 /\ \E u \in Busy : op[u].new = x
    BY <2>2, <2>4, Zenon
  <2> QED
    BY <2>6, <2>7, <2>8, Zenon
<1> QED
  BY <1>1, <1>2

LEMMA UsedThen ==
    (\A x : x \in Used <=> /\ x # 0
                           /\ \/ \E f \in File : \E p \in Path : Tree[f][p] = x
                              \/ \E u \in Busy : op[u].new = x)'
<1>1. \A x : x \in Used <=> /\ x # 0
                            /\ \/ \E f \in File : \E p \in Path : Tree[f][p] = x
                               \/ \E u \in Busy : op[u].new = x
  BY UsedHas
<1> QED
  BY <1>1, PTL

LEMMA NoLeakKept ==
    ASSUME ZonesTypeOK', NoLeak, since' = since, lost \subseteq lost',
           \A x \in zmap' : x \in zmap \/ \E u \in Busy' : op'[u].new = x,
           \A x \in zmap' : (\E f \in File : \E p \in Path : Tree[f][p] = x)
                               => (\E f \in File : \E p \in Path : Tree'[f][p] = x),
           \A u \in Busy : op[u].new # 0 =>
               \/ \E v \in Busy' : op'[v].new = op[u].new
               \/ \E f \in File : \E p \in Path : Tree'[f][p] = op[u].new
    PROVE  NoLeak'
<1> SUFFICES ASSUME since = 0, NEW x \in zmap' PROVE x \in Used' \/ x \in lost'
  BY DEF NoLeak
<1>1. x # 0
  BY Blocks DEF ZonesTypeOK
<1>2. x \in Used' <=> \/ \E f \in File : \E p \in Path : Tree'[f][p] = x
                      \/ \E u \in Busy' : op'[u].new = x
  BY <1>1, UsedThen
<1>3. CASE x \in zmap
  <2>1. x \in Used \/ x \in lost
    BY <1>3 DEF NoLeak
  <2>2. CASE x \in Used
    <3>1. \/ \E f \in File : \E p \in Path : Tree[f][p] = x
          \/ \E u \in Busy : op[u].new = x
      BY <2>2, UsedHas
    <3> QED
      BY <1>1, <1>2, <3>1
  <2> QED
    BY <2>1, <2>2
<1>4. CASE x \notin zmap
  BY <1>2, <1>4
<1> QED
  BY <1>3, <1>4

LEMMA QuietGoesOn ==
    ASSUME ZonesTypeOK, ZonesRight, NEW t \in Caller, op[t] \in Op, NEW n \in Op,
           NEW l \in {"look", "getblk", "read", "new", "next", "free"}, Moves(t, n, l),
           SameCall(op[t], n), n.freed = op[t].freed, n.path # << >> => n.level \in DOMAIN n.path,
           i_zone' = i_zone, ptr' = ptr, wrong' = wrong, since' = since,
           zmap \subseteq zmap', zmap' \subseteq zmap \cup {n.new}, zmap' \subseteq Block,
           lost \subseteq lost', lost' \subseteq Block,
           op[t].new = 0 \/ n.new = op[t].new,
           Fits(Tree, zmap', lost', n, l), SelfApart(n, l),
           \A u \in Busy \ {t} : Apart(n, l, op[u]) /\ Apart(op[u], stage[u], n)
    PROVE  ZonesTypeOK' /\ ZonesRight'
<1>1. ZonesTypeOK'
  <2>1. i_zone' \in [File -> [Zone -> Block \cup {0}]] /\ ptr' \in [Block -> [Index -> Block \cup {0}]]
    BY DEF ZonesTypeOK
  <2>2. n # NoOp /\ l # "user"
    BY OpIs
  <2> QED
    BY <2>1, <2>2, TypeMoves
<1>2. n # NoOp /\ n.file = op[t].file /\ l # "user"
  BY OpIs DEF SameCall
<1>3. \A f \in File : FreedIn(f)' = FreedIn(f)
  BY <1>2, FreedMoves
<1>4. Tree' = Tree
  BY <1>1, <1>3, SameTree
<1>5. ByCalls
  BY RightByCalls
<1>6. OnePlace(Tree') /\ AllMarked(Tree', zmap')
  BY <1>4, <1>5 DEF ByCalls, AllMarked
<1>7. /\ op'[t] = n /\ Busy' = Busy \cup {t}
      /\ \A u \in Caller \ {t} : op'[u] = op[u]
  BY <1>2, MovesTo
<1>8. \A u \in Busy : op[u].new # 0 => \E v \in Busy' : op'[v].new = op[u].new
  BY <1>7 DEF Busy
<1>9. \A x \in zmap' : x \in zmap \/ \E u \in Busy' : op'[u].new = x
  BY <1>7
<1>10. NoLeak'
  BY <1>1, <1>4, <1>5, <1>8, <1>9, NoLeakKept DEF ByCalls
<1>11. \A u \in Busy \ {t} : Fits(Tree', zmap', lost', op[u], stage[u])
  <2> SUFFICES ASSUME NEW u \in Busy \ {t} PROVE Fits(Tree, zmap', lost', op[u], stage[u])
    BY <1>4
  <2>1. Fits(Tree, zmap, lost, op[u], stage[u])
    BY <1>5 DEF ByCalls, CallsRight
  <2> QED
    BY <2>1, SameFits
<1>12. ZonesRight'
  BY <1>2, <1>4, <1>6, <1>10, <1>11, GoesOnRight
<1> QED
  BY <1>1, <1>12

LEMMA QuietReturns ==
    ASSUME ZonesTypeOK, ZonesRight, NEW t \in Caller, op[t] \in Op, op[t].freed = {}, op[t].new = 0,
           Moves(t, NoOp, "user"), i_zone' = i_zone, ptr' = ptr, zmap' = zmap, lost' = lost,
           wrong' = wrong, since' = since
    PROVE  ZonesTypeOK' /\ ZonesRight'
<1>1. ZonesTypeOK'
  <2>1. /\ i_zone' \in [File -> [Zone -> Block \cup {0}]] /\ ptr' \in [Block -> [Index -> Block \cup {0}]]
        /\ zmap' \subseteq Block /\ lost' \subseteq Block
    BY DEF ZonesTypeOK
  <2> QED
    BY <2>1, TypeMoves
<1>2. \A f \in File : FreedIn(f)' = FreedIn(f)
  <2> SUFFICES ASSUME NEW f \in File PROVE FreedIn(f)' = FreedIn(f)
    OBVIOUS
  <2>1. FreedIn(f)' \subseteq FreedIn(f) /\ FreedIn(f) \subseteq FreedIn(f)' \cup op[t].freed
    BY FreedMoves
  <2> QED
    BY <2>1
<1>3. Tree' = Tree
  BY <1>1, <1>2, SameTree
<1>4. ByCalls
  BY RightByCalls
<1>5. OnePlace(Tree') /\ AllMarked(Tree', zmap')
  BY <1>3, <1>4 DEF ByCalls
<1>6. Busy' = Busy \ {t} /\ \A u \in Caller \ {t} : op'[u] = op[u]
  BY MovesTo
<1>7. \A u \in Busy : op[u].new # 0 => \E v \in Busy' : op'[v].new = op[u].new
  BY <1>6 DEF Busy
<1>8. NoLeak'
  BY <1>1, <1>3, <1>4, <1>7, NoLeakKept DEF ByCalls
<1>9. \A u \in Busy \ {t} : Fits(Tree', zmap', lost', op[u], stage[u])
  BY <1>3, <1>4 DEF ByCalls, CallsRight
<1>10. ZonesRight'
  BY <1>5, <1>8, <1>9, ReturnsRight
<1> QED
  BY <1>1, <1>10

\* A walker or a truncator, by the label.
LEMMA AtLabel ==
    ASSUME ZonesTypeOK, ZonesRight, NEW t \in Caller, stage[t] # "user"
    PROVE  /\ t \in Busy /\ op[t] \in Op /\ Fits(Tree, zmap, lost, op[t], stage[t])
           /\ op[t].what = "truncate" => Truncator(op[t], stage[t])
           /\ op[t].what # "truncate" => Walker(op[t], stage[t])
           /\ stage[t] \in {"look", "new"} => op[t].what # "truncate"
           /\ stage[t] \in {"next", "free"} => op[t].what = "truncate"
<1>1. ByCalls
  BY RightByCalls
<1>2. t \in Busy /\ op[t] \in Op
  BY <1>1, InCall DEF ByCalls
<1>3. Fits(Tree, zmap, lost, op[t], stage[t])
  BY <1>1, <1>2 DEF ByCalls, CallsRight
<1>4. WalkShape(op[t], stage[t]) /\ TruncShape(op[t], stage[t])
  BY <1>3 DEF Fits
<1>5. op[t].what # "truncate" => Walker(op[t], stage[t])
  BY <1>2, <1>4, WalkerIs
<1> QED
  BY <1>2, <1>3, <1>4, <1>5 DEF Truncator, WalkShape, TruncShape

LEMMA LeavingSteps ==
    ASSUME ZonesTypeOK, ZonesRight, NEW t \in Caller, FindsHole(t) \/ NoNewBlock(t) \/ ReadFails(t) \/ UsesBlock(t)
    PROVE  ZonesTypeOK' /\ ZonesRight'
<1>1. /\ stage[t] \in {"look", "read"} /\ op[t].what # "truncate"
      /\ i_zone' = i_zone /\ ptr' = ptr /\ zmap' = zmap /\ lost' = lost /\ wrong' = wrong /\ since' = since
  <2>1. stage[t] = "look" => op[t].what # "truncate"
    BY AtLabel
  <2> QED
    BY <2>1 DEF FindsHole, NoNewBlock, ReadFails, UsesBlock, Resumes, Truncates, disk, ghost
<1>2. Walker(op[t], stage[t])
  BY <1>1, AtLabel
<1>3. op[t] \in Op /\ op[t].freed = {} /\ op[t].new = 0
  BY <1>1, <1>2 DEF Walker, WalkShape
<1>4. Moves(t, NoOp, "user")
  BY WalkMoves
<1> QED
  BY <1>1, <1>3, <1>4, QuietReturns

\* _bmap, where no other call has come between, reads the entry of its place.
LEMMA EntryView ==
    ASSUME ZonesTypeOK, ZonesRight, NEW t \in Caller, stage[t] \in {"look", "new"}, ~ op[t].overlap
    PROVE  /\ Entry(t) = Tree[op[t].file][Here(op[t])]
           /\ FreedIn(op[t].file) = {}
           /\ op[t].level > 1 => Tree[op[t].file][Parent(op[t])] = op[t].block
<1>0. /\ t \in Busy /\ op[t] \in Op /\ Fits(Tree, zmap, lost, op[t], stage[t])
      /\ op[t].what # "truncate" /\ Walker(op[t], stage[t]) /\ ByCalls
  BY AtLabel, RightByCalls
<1>1. PICK o \in Op : o = op[t]
  BY <1>0
<1>2. PICK g \in File : g = o.file
  BY OpIs
<1>3. PICK F : F = FreedIn(g)
  OBVIOUS
<1>4. F = {}
  <2> SUFFICES ASSUME NEW x \in FreedIn(g) PROVE FALSE
    BY <1>3
  <2>1. PICK u \in Busy : op[u].file = g /\ x \in op[u].freed
    BY FreedHas
  <2>2. Fits(Tree, zmap, lost, op[u], stage[u])
    BY <1>0, <2>1 DEF ByCalls, CallsRight
  <2>3. op[u].what = "truncate"
    BY <2>1, <2>2 DEF Fits, WalkShape
  <2>4. u # t
    BY <1>0, <2>3
  <2>5. Conflict(op[t].what, op[u].what)
    BY <2>3 DEF Conflict
  <2> QED
    BY <1>0, <1>1, <1>2, <2>1, <2>4, <2>5 DEF ByCalls, Conflicts
<1>5. PICK n : n = o.level
  OBVIOUS
<1>6. o.path \in Path /\ n \in 1 .. Len(o.path) /\ Len(o.path) \in Nat
  BY <1>0, <1>1, <1>5, PathsAreSeqs DEF Walker
<1>7. PICK h \in Path : h = SubSeq(o.path, 1, n) /\ h = Here(o)
  BY <1>5, <1>6, WayDown DEF Here
<1>8. PICK zs : zs = i_zone[g]
  OBVIOUS
<1>9. PICK pt : pt = ptr
  OBVIOUS
<1>10. F \in SUBSET Path /\ \A p \in Path : Tree[g][p] = At(zs, pt, F, p)
  BY <1>3, <1>8, <1>9, TreeIs
<1>11. CASE n = 1
  <2>1. h = <<o.path[1]>> /\ o.path[1] \in Zone
    BY <1>6, <1>7, <1>11, WayDown
  <2>2. PICK z \in Zone : z = o.path[1]
    BY <2>1
  <2>3. At(zs, pt, F, <<z>>) = IF <<z>> \in F THEN 0 ELSE zs[z]
    BY <1>10, AtTop
  <2>4. Entry(t) = zs[z]
    BY <1>1, <1>2, <1>5, <1>8, <1>11, <2>2 DEF Entry
  <2>5. Tree[g][h] = Entry(t)
    BY <1>4, <1>10, <2>1, <2>2, <2>3, <2>4
  <2> QED
    BY <1>1, <1>2, <1>3, <1>4, <1>5, <1>7, <1>11, <2>5
<1>12. CASE n # 1
  <2>1. n > 1
    BY <1>6, <1>12
  <2>2. PICK i \in Index : i = o.path[n]
    BY <1>6, <2>1, WayDown
  <2>3. PICK parent \in Path : parent = SubSeq(o.path, 1, n - 1) /\ parent = Parent(o) /\ h = Append(parent, i)
    BY <1>5, <1>6, <1>7, <2>1, <2>2, WayDown DEF Parent
  <2>4. PICK b : b = o.block /\ b # 0
    BY <1>0, <1>1, <1>5, <2>1 DEF Walker, WalkShape
  <2>5. Looking(o, stage[t])
    BY <1>5, <2>1 DEF Looking
  <2>6. Tree[g][parent] = b
    <3>1. WalkView(Tree, o, stage[t])
      BY <1>0, <1>1 DEF Fits
    <3>2. o.what # "truncate" /\ ~ o.overlap
      BY <1>0, <1>1
    <3>3. Tree[o.file][SubSeq(o.path, 1, o.level - 1)] = o.block
      BY <2>5, <3>1, <3>2 DEF WalkView
    <3> QED
      BY <1>2, <1>5, <2>3, <2>4, <3>3
  <2>7. At(zs, pt, F, Append(parent, i)) =
           IF At(zs, pt, F, parent) = 0 \/ Append(parent, i) \in F THEN 0 ELSE pt[At(zs, pt, F, parent)][i]
    BY <1>10, AtBelow
  <2>8. Entry(t) = pt[b][i]
    BY <1>1, <1>5, <1>9, <1>12, <2>2, <2>4 DEF Entry
  <2>9. Tree[g][h] = Entry(t)
    BY <1>4, <1>10, <2>3, <2>4, <2>6, <2>7, <2>8
  <2> QED
    BY <1>1, <1>2, <1>3, <1>4, <1>5, <1>7, <2>3, <2>4, <2>6, <2>9
<1> QED
  BY <1>11, <1>12

\* A call that has no new block is in nobody's way.
LEMMA ApartZero ==
    ASSUME ZonesRight, NEW u \in Busy, NEW n, n.new = 0
    PROVE  Apart(op[u], stage[u], n)
<1>1. Fits(Tree, zmap, lost, op[u], stage[u])
  BY RightByCalls DEF ByCalls, CallsRight
<1>2. op[u].what # "truncate" /\ Looking(op[u], stage[u]) => op[u].block # 0
  BY <1>1 DEF Fits, WalkShape, Looking
<1> QED
  BY <1>2 DEF Apart

LEMMA WalkerLevel ==
    ASSUME NEW n, NEW l, Walker(n, l)
    PROVE  n.path # << >> => n.level \in DOMAIN n.path
<1>1. n.path \in Seq(Nat) /\ n.level \in 1 .. Len(n.path)
  BY PathsAreSeqs DEF Walker
<1> QED
  BY <1>1, LenProperties

LEMMA FindsRight ==
    ASSUME ZonesTypeOK, ZonesRight, NEW t \in Caller, Finds(t)
    PROVE  ZonesTypeOK' /\ ZonesRight'
<1>1. /\ stage[t] = "look" /\ Entry(t) # 0
      /\ i_zone' = i_zone /\ ptr' = ptr /\ zmap' = zmap /\ lost' = lost /\ wrong' = wrong /\ since' = since
  BY DEF Finds, Resumes, disk, ghost
<1>2. t \in Busy /\ op[t] \in Op /\ Fits(Tree, zmap, lost, op[t], stage[t]) /\ Walker(op[t], "look")
  BY <1>1, AtLabel
<1>3. PICK n : n = FindsTo(t)
  OBVIOUS
<1>4. /\ Walker(n, "getblk") /\ SameCall(op[t], n) /\ n.block = Entry(t) /\ n.new = op[t].new
      /\ n.level = op[t].level /\ n.freed = {}
  BY <1>1, <1>2, <1>3, FindsShape
<1>5. op[t].freed = {} /\ op[t].new = 0
  BY <1>2 DEF Walker, WalkShape
<1>6. n \in Op /\ Moves(t, n, "getblk") /\ n.new = 0 /\ n.what # "truncate"
  BY <1>3, <1>4, <1>5, WalkMoves DEF Walker
<1>7. WalkView(Tree, n, "getblk")
  <2> SUFFICES ASSUME ~ n.overlap PROVE Tree[n.file][SubSeq(n.path, 1, n.level)] = n.block
    BY DEF WalkView, Looking
  <2>1. ~ op[t].overlap
    BY <1>4 DEF SameCall
  <2>2. Entry(t) = Tree[op[t].file][Here(op[t])]
    BY <1>1, <2>1, EntryView
  <2> QED
    BY <1>4, <2>2 DEF SameCall, Here
<1>8. Fits(Tree, zmap, lost, n, "getblk")
  BY <1>4, <1>6, <1>7 DEF Fits, Walker, NewRight, LookRight, Looking, TruncView
<1>9. SelfApart(n, "getblk") /\ \A u \in Busy : Apart(n, "getblk", op[u]) /\ Apart(op[u], stage[u], n)
  BY <1>6, ApartZero DEF SelfApart, Apart, Looking
<1>10. zmap \subseteq Block /\ lost \subseteq Block
  BY DEF ZonesTypeOK
<1> QED
  BY <1>1, <1>2, <1>4, <1>5, <1>6, <1>8, <1>9, <1>10, WalkerLevel, QuietGoesOn

LEMMA HoldsRight ==
    ASSUME ZonesTypeOK, ZonesRight, NEW t \in Caller, BreadHolds(t), op[t].what # "truncate"
    PROVE  ZonesTypeOK' /\ ZonesRight'
<1>1. /\ stage[t] = "getblk"
      /\ i_zone' = i_zone /\ ptr' = ptr /\ zmap' = zmap /\ lost' = lost /\ wrong' = wrong /\ since' = since
  BY DEF BreadHolds, Resumes, disk, ghost
<1>2. t \in Busy /\ op[t] \in Op /\ Fits(Tree, zmap, lost, op[t], stage[t]) /\ Walker(op[t], "getblk")
  BY <1>1, AtLabel
<1>3. PICK n : n = HoldsTo(t)
  OBVIOUS
<1>4. /\ Walker(n, "read") /\ SameCall(op[t], n) /\ n.block = op[t].block /\ n.new = op[t].new
      /\ n.level = op[t].level /\ n.freed = {}
  BY <1>1, <1>2, <1>3, HoldsShape
<1>5. op[t].freed = {} /\ op[t].new = 0
  BY <1>2 DEF Walker, WalkShape
<1>6. n \in Op /\ Moves(t, n, "read") /\ n.new = 0 /\ n.what # "truncate"
  BY <1>3, <1>4, <1>5, WalkMoves DEF Walker
<1>7. WalkView(Tree, n, "read")
  BY <1>1, <1>2, <1>4 DEF Fits, WalkView, Looking, SameCall
<1>8. Fits(Tree, zmap, lost, n, "read")
  BY <1>4, <1>6, <1>7 DEF Fits, Walker, NewRight, LookRight, Looking, TruncView
<1>9. SelfApart(n, "read") /\ \A u \in Busy : Apart(n, "read", op[u]) /\ Apart(op[u], stage[u], n)
  BY <1>6, ApartZero DEF SelfApart, Apart, Looking
<1>10. zmap \subseteq Block /\ lost \subseteq Block
  BY DEF ZonesTypeOK
<1> QED
  BY <1>1, <1>2, <1>4, <1>5, <1>6, <1>8, <1>9, <1>10, WalkerLevel, QuietGoesOn

LEMMA DownRight ==
    ASSUME ZonesTypeOK, ZonesRight, NEW t \in Caller, ReadsPointers(t)
    PROVE  ZonesTypeOK' /\ ZonesRight'
<1>1. /\ stage[t] = "read" /\ op[t].what # "truncate" /\ ~ Stale(t) /\ HoldsPointers(t)
      /\ i_zone' = i_zone /\ ptr' = ptr /\ zmap' = zmap /\ lost' = lost /\ wrong' = wrong /\ since' = since
  BY DEF ReadsPointers, Resumes, Truncates, disk, ghost
<1>2. t \in Busy /\ op[t] \in Op /\ Fits(Tree, zmap, lost, op[t], stage[t]) /\ Walker(op[t], "read") /\ ByCalls
  BY <1>1, AtLabel, RightByCalls
<1>3. PICK n : n = GoesDown(t)
  OBVIOUS
<1>4. /\ Walker(n, "look") /\ SameCall(op[t], n) /\ n.block = op[t].block /\ n.new = op[t].new
      /\ n.level - 1 = op[t].level /\ n.freed = {} /\ Looking(n, "look")
  BY <1>1, <1>2, <1>3, DownShape
<1>5. op[t].freed = {} /\ op[t].new = 0
  BY <1>2 DEF Walker, WalkShape
<1>6. n \in Op /\ Moves(t, n, "look") /\ n.new = 0 /\ n.what # "truncate" /\ n.block \in Block /\ n.file \in File
  <2>1. n \in Op /\ n.what # "truncate" /\ n.block # 0
    BY <1>4 DEF Walker, WalkShape, Looking
  <2> QED
    BY <1>3, <1>4, <1>5, <2>1, WalkMoves, OpIs
<1>7. PICK h \in Path : h = SubSeq(n.path, 1, n.level - 1) /\ h = Here(op[t])
  BY <1>2, <1>4, WayDown DEF Walker, Here, SameCall
<1>8. Tree[n.file][h] = n.block
  <2>1. op[t].block = BlockAt(op[t].file, Here(op[t]))
    BY <1>1 DEF Stale, Place, Truncates, Here
  <2>2. n.file = op[t].file /\ n.block = op[t].block
    BY <1>4 DEF SameCall
  <2>3. Tree[n.file][h] = BlockAt(n.file, h)
    BY <1>6 DEF Tree
  <2> QED
    BY <1>7, <2>1, <2>2, <2>3
<1>9. n.block # 0 /\ n.block \in zmap
  BY <1>2, <1>6, <1>7, <1>8, Blocks DEF ByCalls, AllMarked
<1>10. \A f \in File : \A p \in Path : Tree[f][p] = n.block => f = n.file /\ p = h
  <2> SUFFICES ASSUME NEW f \in File, NEW p \in Path, Tree[f][p] = n.block PROVE f = n.file /\ p = h
    OBVIOUS
  <2>1. Tree[f][p] # 0 /\ Tree[f][p] = Tree[n.file][h]
    BY <1>8, <1>9
  <2>2. OnePlace(Tree)
    BY <1>2 DEF ByCalls
  <2> QED
    BY <1>6, <2>1, <2>2 DEF OnePlace
<1>11. WalkView(Tree, n, "look") /\ LookRight(Tree, zmap, n, "look")
  BY <1>7, <1>8, <1>9, <1>10 DEF WalkView, LookRight
<1>12. Fits(Tree, zmap, lost, n, "look")
  BY <1>4, <1>6, <1>11 DEF Fits, Walker, NewRight, TruncView
<1>13. ASSUME NEW u \in Busy PROVE Apart(n, "look", op[u])
  <2>1. NewRight(Tree, zmap, op[u])
    BY <1>2 DEF ByCalls, CallsRight, Fits
  <2>2. op[u].new # n.block
    BY <1>6, <1>7, <1>8, <1>9, <2>1 DEF NewRight
  <2> QED
    BY <1>6, <2>2 DEF Apart
<1>14. SelfApart(n, "look") /\ \A u \in Busy : Apart(op[u], stage[u], n)
  BY <1>6, <1>9, ApartZero DEF SelfApart
<1>15. zmap \subseteq Block /\ lost \subseteq Block
  BY DEF ZonesTypeOK
<1> QED
  BY <1>1, <1>2, <1>4, <1>5, <1>6, <1>12, <1>13, <1>14, <1>15, WalkerLevel, QuietGoesOn

LEMMA MarksRight ==
    ASSUME ZonesTypeOK, ZonesRight, NEW t \in Caller, NewBlock(t)
    PROVE  ZonesTypeOK' /\ ZonesRight'
<1>1. /\ stage[t] = "look" /\ Entry(t) = 0 /\ op[t].what = "write" /\ Free # {}
      /\ i_zone' = i_zone /\ ptr' = ptr /\ lost' = lost /\ wrong' = wrong /\ since' = since
      /\ zmap' = zmap \cup {Min(Free)}
  BY DEF NewBlock, Resumes, Marked, ghost
<1>2. t \in Busy /\ op[t] \in Op /\ Fits(Tree, zmap, lost, op[t], stage[t]) /\ Walker(op[t], "look") /\ ByCalls
  BY <1>1, AtLabel, RightByCalls
<1>3. PICK n : n = MarksTo(t)
  OBVIOUS
<1>4. /\ Walker(n, "new") /\ SameCall(op[t], n) /\ n.block = op[t].block /\ n.new = Min(Free)
      /\ n.level = op[t].level /\ n.freed = {}
  BY <1>1, <1>2, <1>3, MarksShape
<1>5. op[t].freed = {} /\ op[t].new = 0
  BY <1>2 DEF Walker, WalkShape
<1>6. n \in Op /\ Moves(t, n, "new") /\ n.what # "truncate"
  BY <1>3, <1>4, WalkMoves DEF Walker
<1>7. PICK j : j = Min(Free)
  OBVIOUS
<1>8. j \in Block /\ j \notin zmap /\ n.new = j /\ zmap' = zmap \cup {j} /\ j # 0
  <2>1. j \in Free
    BY <1>1, <1>7, LeastFree
  <2> QED
    BY <1>1, <1>4, <1>7, <2>1, Blocks DEF Free
<1>9. NewRight(Tree, zmap', n)
  BY <1>2, <1>8 DEF ByCalls, AllMarked, NewRight
<1>10. LookRight(Tree, zmap', n, "new")
  BY <1>1, <1>2, <1>4, <1>8 DEF Fits, LookRight, Looking, SameCall
<1>11. WalkView(Tree, n, "new")
  <2> SUFFICES ASSUME ~ n.overlap
               PROVE  /\ Looking(n, "new") => Tree[n.file][SubSeq(n.path, 1, n.level - 1)] = n.block
                      /\ Tree[n.file][SubSeq(n.path, 1, n.level)] = 0
    BY DEF WalkView
  <2>1. ~ op[t].overlap
    BY <1>4 DEF SameCall
  <2>2. /\ Entry(t) = Tree[op[t].file][Here(op[t])]
        /\ op[t].level > 1 => Tree[op[t].file][Parent(op[t])] = op[t].block
    BY <1>1, <2>1, EntryView
  <2> QED
    BY <1>1, <1>4, <2>2 DEF SameCall, Here, Parent, Looking
<1>12. Fits(Tree, zmap', lost, n, "new")
  BY <1>4, <1>6, <1>9, <1>10, <1>11 DEF Fits, Walker, TruncView
<1>13. SelfApart(n, "new")
  <2>1. Looking(op[t], "look") => op[t].block \in zmap
    BY <1>1, <1>2 DEF Fits, LookRight
  <2> QED
    BY <1>4, <1>8, <2>1 DEF SelfApart, Looking
<1>14. ASSUME NEW u \in Busy \ {t} PROVE Apart(n, "new", op[u]) /\ Apart(op[u], stage[u], n)
  <2>1. Fits(Tree, zmap, lost, op[u], stage[u]) /\ Apart(op[t], stage[t], op[u]) /\ Apart(op[u], stage[u], op[t])
    BY <1>2 DEF ByCalls, CallsRight, AllApart
  <2>2. op[u].new # 0 => op[u].new \in zmap
    BY <2>1 DEF Fits, NewRight
  <2>3. op[u].what # "truncate" /\ Looking(op[u], stage[u]) => op[u].block \in zmap
    BY <2>1 DEF Fits, LookRight
  <2>4. Looking(n, "new") => op[u].new # n.block
    BY <1>1, <1>4, <1>6, <2>1 DEF Apart, Looking, SameCall
  <2> QED
    BY <1>8, <2>2, <2>3, <2>4 DEF Apart
<1>15. zmap \subseteq Block /\ lost \subseteq Block
  BY DEF ZonesTypeOK
<1> QED
  BY <1>1, <1>2, <1>4, <1>5, <1>6, <1>8, <1>12, <1>13, <1>14, <1>15, WalkerLevel, QuietGoesOn
-----------------------------------------------------------------------------
(***************************************************************************)
(* The steps of truncate that leave the tree alone.                         *)
(***************************************************************************)
LEMMA QuietTruncates ==
    ASSUME ZonesTypeOK, ZonesRight, NEW t \in Caller, stage[t] # "user", op[t].what = "truncate", NEW n, NEW l, Truncator(n, l),
           Moves(t, n, l), SameCall(op[t], n), n.freed = op[t].freed,
           i_zone' = i_zone, ptr' = ptr, zmap' = zmap, wrong' = wrong, since' = since,
           lost \subseteq lost', lost' \subseteq Block, TruncView(Tree, n, l, lost')
    PROVE  ZonesTypeOK' /\ ZonesRight'
<1>1. t \in Busy /\ op[t] \in Op /\ Truncator(op[t], stage[t])
  BY AtLabel
<1>2. n \in Op /\ l \in {"getblk", "read", "next", "free"} /\ n.new = 0 /\ n.path = << >> /\ n.what = "truncate"
  BY DEF Truncator, TruncShape
<1>3. op[t].new = 0
  BY <1>1 DEF Truncator, TruncShape
<1>4. Fits(Tree, zmap, lost', n, l)
  BY <1>2 DEF Fits, Truncator, NewRight, LookRight, WalkView
<1>5. SelfApart(n, l) /\ \A u \in Busy : Apart(n, l, op[u]) /\ Apart(op[u], stage[u], n)
  BY <1>2, ApartZero DEF SelfApart, Apart
<1>6. zmap \subseteq Block
  BY DEF ZonesTypeOK
<1>7. l \in {"look", "getblk", "read", "new", "next", "free"}
  BY <1>2
<1> QED
  BY <1>1, <1>2, <1>3, <1>4, <1>5, <1>6, <1>7, QuietGoesOn

\* Where no other call has come between, what is freed in the file is the call's own.
LEMMA OwnFreed ==
    ASSUME ZonesTypeOK, ZonesRight, NEW t \in Caller, stage[t] # "user", op[t].what = "truncate", ~ op[t].overlap
    PROVE  /\ FreedIn(op[t].file) = op[t].freed
           /\ TruncView(Tree, op[t], stage[t], lost)
           /\ \A u \in Busy : u # t => op[u].file # op[t].file
<1>1. t \in Busy /\ Fits(Tree, zmap, lost, op[t], stage[t]) /\ ByCalls
  BY AtLabel, RightByCalls
<1>2. ASSUME NEW u \in Busy, u # t PROVE op[u].file # op[t].file
  <2>1. Conflict(op[t].what, op[u].what)
    BY DEF Conflict
  <2> QED
    BY <1>1, <1>2, <2>1 DEF ByCalls, Conflicts
<1>3. PICK g : g = op[t].file
  OBVIOUS
<1>4. \A x : x \in FreedIn(g) <=> x \in op[t].freed
  BY <1>1, <1>2, <1>3, FreedHas
<1>5. FreedIn(g) = op[t].freed
  BY <1>4 DEF FreedIn
<1> QED
  BY <1>1, <1>2, <1>3, <1>5 DEF Fits

LEMMA SameDealt ==
    ASSUME NEW o, NEW n, n.stack = o.stack, n.zone = o.zone
    PROVE  /\ \A k : PathOf(n, k) = PathOf(o, k)
           /\ \A p : Dealt(n, p) <=> Dealt(o, p)
<1>1. \A k : PathOf(n, k) = PathOf(o, k)
  BY DEF PathOf
<1>2. \A k : UpTo(n, k) = UpTo(o, k)
  BY DEF UpTo
<1> QED
  BY <1>1, <1>2 DEF Dealt

LEMMA HoldsBelowRight ==
    ASSUME ZonesTypeOK, ZonesRight, NEW t \in Caller, BreadHolds(t), op[t].what = "truncate"
    PROVE  ZonesTypeOK' /\ ZonesRight'
<1>1. /\ stage[t] = "getblk"
      /\ i_zone' = i_zone /\ ptr' = ptr /\ zmap' = zmap /\ lost' = lost /\ wrong' = wrong /\ since' = since
  BY DEF BreadHolds, Resumes, disk, ghost
<1>2. Truncator(op[t], "getblk") /\ Fits(Tree, zmap, lost, op[t], stage[t])
  BY <1>1, AtLabel
<1>3. PICK n : n = HoldsTo(t)
  OBVIOUS
<1>4. /\ Truncator(n, "read") /\ SameCall(op[t], n) /\ n.new = 0 /\ n.freed = op[t].freed
      /\ n.zone = op[t].zone /\ n.stack = op[t].stack /\ n.holds = op[t].holds \cup {op[t].block}
      /\ op[t].stack # << >> /\ op[t].block = op[t].stack[Len(op[t].stack)].block
  BY <1>2, <1>3, HoldsShapeBelow
<1>5. Moves(t, n, "read")
  BY <1>3, WalkMoves
<1>6. TruncView(Tree, n, "read", lost)
  <2>1. TruncView(Tree, op[t], "getblk", lost)
    BY <1>1, <1>2 DEF Fits
  <2>2. (\A k : PathOf(n, k) = PathOf(op[t], k)) /\ (\A p : Dealt(n, p) <=> Dealt(op[t], p))
    BY <1>4, SameDealt
  <2>3. Len(op[t].stack) \in 1 .. Len(op[t].stack)
    BY <1>2, <1>4, TopFrame
  <2> SUFFICES ASSUME ~ n.overlap
               PROVE  /\ \A k \in 1 .. Len(n.stack) : Tree[n.file][PathOf(n, k)] = n.stack[k].block
                      /\ \A b \in n.holds : \E k \in 1 .. Len(n.stack) : b = n.stack[k].block
                      /\ \A p \in n.freed : Dealt(n, p)
                      /\ \A p \in Path : Dealt(n, p) => Tree[n.file][p] = 0
    BY DEF TruncView
  <2>4. ~ op[t].overlap /\ n.file = op[t].file
    BY <1>4 DEF SameCall
  <2>5. /\ \A k \in 1 .. Len(op[t].stack) : Tree[op[t].file][PathOf(op[t], k)] = op[t].stack[k].block
        /\ \A b \in op[t].holds : \E k \in 1 .. Len(op[t].stack) : b = op[t].stack[k].block
        /\ \A p \in op[t].freed : Dealt(op[t], p)
        /\ \A p \in Path : Dealt(op[t], p) => Tree[op[t].file][p] = 0
    BY <2>1, <2>4 DEF TruncView
  <2> QED
    BY <1>4, <2>2, <2>3, <2>4, <2>5
<1>7. lost \subseteq Block
  BY DEF ZonesTypeOK
<1> QED
  BY <1>1, <1>4, <1>5, <1>6, <1>7, QuietTruncates

LEMMA CannotRight ==
    ASSUME ZonesTypeOK, ZonesRight, NEW t \in Caller, CannotReadBelow(t)
    PROVE  ZonesTypeOK' /\ ZonesRight'
<1>1. /\ stage[t] = "read" /\ op[t].what = "truncate" /\ ~ Stale(t)
      /\ i_zone' = i_zone /\ ptr' = ptr /\ zmap' = zmap /\ wrong' = wrong /\ since' = since
      /\ lost' = lost \cup ({BlockAt(op[t].file, p) : p \in PathsBelow(op[t].file, op[t].block)} \ {0})
  BY DEF CannotReadBelow, Resumes, Truncates, ghost
<1>2. Truncator(op[t], "read") /\ Fits(Tree, zmap, lost, op[t], stage[t]) /\ op[t] \in Op
  BY <1>1, AtLabel
<1>3. Truncator(op[t], "free") /\ op[t].stack # << >> /\ SameCall(op[t], op[t])
  BY <1>2, CannotShape DEF SameCall
<1>4. Moves(t, op[t], "free")
  BY TruncMoves
<1>5. PICK g \in File : g = op[t].file
  BY <1>2, OpIs
<1>6. PICK b : b = op[t].block
  OBVIOUS
<1>7. \A p \in Path : Tree[g][p] = BlockAt(g, p) /\ Tree[g][p] \in Block \cup {0}
  BY TreeIs
<1>8. PICK B : B = {BlockAt(g, p) : p \in PathsBelow(g, b)} \ {0}
  OBVIOUS
<1>9. lost' = lost \cup B
  BY <1>1, <1>5, <1>6, <1>8
<1>10. B \subseteq Block
  BY <1>7, <1>8 DEF PathsBelow
<1>11. lost \subseteq lost' /\ lost' \subseteq Block
  BY <1>9, <1>10 DEF ZonesTypeOK
<1>12. TruncView(Tree, op[t], "free", lost')
  <2>1. TruncView(Tree, op[t], "read", lost)
    BY <1>1, <1>2 DEF Fits
  <2>2. ASSUME NEW p \in Path, IsPrefix(PathOf(op[t], Len(op[t].stack)), p), Len(p) > Len(op[t].stack)
        PROVE  Tree[g][p] \in lost' \cup {0}
    <3>1. PICK q \in Path : q = PathOf(op[t], Len(op[t].stack)) /\ q = TopPath(t)
      BY <1>2, <1>3, TopIs DEF Truncator
    <3>2. PICK m : m = Len(op[t].stack)
      OBVIOUS
    <3>3. m \in Nat /\ m >= 1 /\ m \in 1 .. m
      BY <1>2, <1>3, <3>2, TopFrame
    <3>4. Len(q) = m
      BY <1>2, <1>3, <3>1, <3>2, <3>3, PathOfIs DEF Truncator
    <3>5. q \in Seq(Nat) /\ p \in Seq(Nat) /\ Len(p) \in Nat
      BY PathsAreSeqs
    <3>6. SubSeq(p, 1, m) = q
      BY <2>2, <3>1, <3>4, <3>5, PrefixIs
    <3>7. m \in 1 .. Len(p) - 1
      BY <2>2, <3>2, <3>3, <3>5
    <3>8. BlockAt(g, q) = b
      BY <1>1, <1>5, <1>6, <3>1 DEF Stale, Place, Truncates
    <3>9. p \in PathsBelow(g, b)
      BY <3>6, <3>7, <3>8 DEF PathsBelow
    <3>10. BlockAt(g, p) # 0 => BlockAt(g, p) \in B
      BY <1>8, <3>9
    <3> QED
      BY <1>7, <1>9, <3>10
  <2> QED
    BY <1>5, <2>1, <2>2 DEF TruncView
<1> QED
  BY <1>1, <1>3, <1>4, <1>11, <1>12, QuietTruncates

LEMMA EndsRight ==
    ASSUME ZonesTypeOK, ZonesRight, NEW t \in Caller, BelowDone(t)
    PROVE  ZonesTypeOK' /\ ZonesRight'
<1>1. /\ stage[t] = "next" /\ op[t].stack # << >> /\ Top(t).index > PER_BLOCK
      /\ i_zone' = i_zone /\ ptr' = ptr /\ zmap' = zmap /\ lost' = lost /\ wrong' = wrong /\ since' = since
  BY DEF BelowDone, Resumes, disk, ghost
<1>2. Truncator(op[t], "next") /\ Fits(Tree, zmap, lost, op[t], stage[t]) /\ op[t].what = "truncate"
  BY <1>1, AtLabel
<1>3. PICK n : n = EndsBelow(t)
  OBVIOUS
<1>4. /\ Truncator(n, "free") /\ SameCall(op[t], n) /\ n.new = 0 /\ n.freed = op[t].freed
      /\ n.zone = op[t].zone /\ n.holds = op[t].holds /\ n.stack = op[t].stack
      /\ op[t].stack[Len(op[t].stack)].index = PER_BLOCK + 1
  BY <1>1, <1>2, <1>3, EndsShape
<1>5. Moves(t, n, "free")
  BY <1>3, TruncMoves
<1>6. TruncView(Tree, n, "free", lost)
  <2>1. TruncView(Tree, op[t], "next", lost)
    BY <1>1, <1>2 DEF Fits
  <2>2. (\A k : PathOf(n, k) = PathOf(op[t], k)) /\ (\A p : Dealt(n, p) <=> Dealt(op[t], p))
    BY <1>4, SameDealt
  <2>3. n.stack[Len(n.stack)].index # 0
    BY <1>4, Blocks
  <2> QED
    BY <1>4, <2>1, <2>2, <2>3 DEF TruncView, SameCall
<1>7. lost \subseteq Block
  BY DEF ZonesTypeOK
<1> QED
  BY <1>1, <1>2, <1>4, <1>5, <1>6, <1>7, QuietTruncates
-----------------------------------------------------------------------------
(***************************************************************************)
(* What truncate has dealt with, when the top of the stack moves on, when a *)
(* block is put on it and when one is taken off.                            *)
(***************************************************************************)
LEMMA SamePathOf ==
    ASSUME NEW o, NEW n, NEW k \in Nat, n.zone = o.zone,
           \A j \in 1 .. k - 1 : n.stack[j].index = o.stack[j].index
    PROVE  PathOf(n, k) = PathOf(o, k)
<1>1. [j \in 1 .. k - 1 |-> n.stack[j].index - 1] = [j \in 1 .. k - 1 |-> o.stack[j].index - 1]
  OBVIOUS
<1> QED
  BY <1>1 DEF PathOf

LEMMA AdvanceDealt ==
    ASSUME NEW o, NEW n, NEW m \in Nat, m >= 1, MovesOn(o, n, m), NEW i \in Nat, i = o.stack[m].index
    PROVE  /\ \A k \in 1 .. m : PathOf(n, k) = PathOf(o, k)
           /\ \A p \in Path : Dealt(n, p) <=>
                 \/ Dealt(o, p)
                 \/ m < Len(p) /\ IsPrefix(PathOf(o, m), p) /\ p[m + 1] = i
<1>0. /\ m = Len(o.stack) /\ m = Len(n.stack) /\ o.stack # << >> /\ n.stack # << >> /\ n.zone = o.zone
      /\ \A k \in 1 .. m - 1 : n.stack[k] = o.stack[k]
      /\ n.stack[m].index = i + 1
  BY DEF MovesOn
<1>1. ASSUME NEW k \in 1 .. m PROVE PathOf(n, k) = PathOf(o, k)
  <2>1. \A j \in 1 .. k - 1 : j \in 1 .. m - 1
    OBVIOUS
  <2>2. \A j \in 1 .. k - 1 : n.stack[j].index = o.stack[j].index
    BY <1>0, <2>1
  <2>3. k \in Nat
    OBVIOUS
  <2> QED
    BY <1>0, <2>2, <2>3, SamePathOf
<1>2. ASSUME NEW p \in Path
      PROVE  Dealt(n, p) <=> \/ Dealt(o, p)
                             \/ m < Len(p) /\ IsPrefix(PathOf(o, m), p) /\ p[m + 1] = i
  <2>1. \A k \in 1 .. m - 1 : UpTo(n, k) = UpTo(o, k)
    BY <1>0 DEF UpTo
  <2>2. UpTo(o, m) = i /\ UpTo(n, m) = i + 1
    BY <1>0 DEF UpTo
  <2>3. m < Len(p) => p[m + 1] \in Nat
    <3>1. p \in Seq(Nat) /\ Len(p) \in Nat
      BY PathsAreSeqs
    <3> QED
      BY <3>1
  <2>4. m < Len(p) => (p[m + 1] < i + 1 <=> p[m + 1] < i \/ p[m + 1] = i)
    BY <2>3
  <2> DEFINE Reads(x, k) == k < Len(p) /\ IsPrefix(PathOf(x, k), p) /\ p[k + 1] < UpTo(x, k)
  <2>5. ASSUME NEW k \in 1 .. m - 1 PROVE Reads(n, k) <=> Reads(o, k)
    <3>1. k \in 1 .. m
      OBVIOUS
    <3>2. PathOf(n, k) = PathOf(o, k) /\ UpTo(n, k) = UpTo(o, k)
      BY <1>1, <2>1, <3>1
    <3> QED
      BY <3>2, Zenon
  <2>6. Reads(n, m) <=> Reads(o, m) \/ (m < Len(p) /\ IsPrefix(PathOf(o, m), p) /\ p[m + 1] = i)
    BY <1>1, <2>2, <2>4
  <2>7. Dealt(n, p) <=> p[1] < n.zone - 1 \/ \E k \in 1 .. m : Reads(n, k)
    BY <1>0 DEF Dealt
  <2>8. Dealt(o, p) <=> p[1] < o.zone - 1 \/ \E k \in 1 .. m : Reads(o, k)
    BY <1>0 DEF Dealt
  <2> HIDE DEF Reads
  <2>9. \A k \in 1 .. m : k = m \/ k \in 1 .. m - 1
    OBVIOUS
  <2>10. m \in 1 .. m
    OBVIOUS
  <2>11. (\E k \in 1 .. m : Reads(n, k)) <=> (\E k \in 1 .. m : Reads(o, k))
             \/ (m < Len(p) /\ IsPrefix(PathOf(o, m), p) /\ p[m + 1] = i)
    BY <2>5, <2>6, <2>9, <2>10
  <2> QED
    BY <1>0, <2>7, <2>8, <2>11
<1> QED
  BY <1>1, <1>2

LEMMA DescendDealt ==
    ASSUME NEW o, NEW n, NEW m \in Nat, m >= 1, NEW b, Pushes(o, n, m, b), NEW i \in Nat, i = o.stack[m].index
    PROVE  /\ \A k \in 1 .. m : PathOf(n, k) = PathOf(o, k)
           /\ \A p \in Path : Dealt(n, p) <=> Dealt(o, p)
<1>0. /\ m = Len(o.stack) /\ m + 1 = Len(n.stack) /\ o.stack # << >> /\ n.stack # << >> /\ n.zone = o.zone
      /\ \A k \in 1 .. m - 1 : n.stack[k] = o.stack[k]
      /\ n.stack[m].index = i + 1 /\ n.stack[m + 1].index = 0
  BY DEF Pushes
<1>1. ASSUME NEW k \in 1 .. m PROVE PathOf(n, k) = PathOf(o, k)
  <2>1. \A j \in 1 .. k - 1 : j \in 1 .. m - 1
    OBVIOUS
  <2>2. \A j \in 1 .. k - 1 : n.stack[j].index = o.stack[j].index
    BY <1>0, <2>1
  <2>3. k \in Nat
    OBVIOUS
  <2> QED
    BY <1>0, <2>2, <2>3, SamePathOf
<1>2. ASSUME NEW p \in Path PROVE Dealt(n, p) <=> Dealt(o, p)
  <2>1. \A k \in 1 .. m - 1 : UpTo(n, k) = UpTo(o, k)
    BY <1>0 DEF UpTo
  <2>2. UpTo(o, m) = i /\ UpTo(n, m) = i
    <3>1. ~(m < Len(o.stack)) /\ m < Len(n.stack)
      BY <1>0
    <3>2. UpTo(o, m) = o.stack[m].index /\ UpTo(n, m) = n.stack[m].index - 1
      BY <3>1 DEF UpTo
    <3> QED
      BY <1>0, <3>2
  <2>3. UpTo(n, m + 1) = 0
    BY <1>0 DEF UpTo
  <2>4. m + 1 < Len(p) => ~ (p[m + 2] < 0)
    <3>1. p \in Seq(Nat) /\ Len(p) \in Nat
      BY PathsAreSeqs
    <3> QED
      BY <3>1
  <2> DEFINE Reads(x, k) == k < Len(p) /\ IsPrefix(PathOf(x, k), p) /\ p[k + 1] < UpTo(x, k)
  <2>5. ASSUME NEW k \in 1 .. m - 1 PROVE Reads(n, k) <=> Reads(o, k)
    <3>1. k \in 1 .. m
      OBVIOUS
    <3>2. PathOf(n, k) = PathOf(o, k) /\ UpTo(n, k) = UpTo(o, k)
      BY <1>1, <2>1, <3>1
    <3> QED
      BY <3>2, Zenon
  <2>6. Reads(n, m) <=> Reads(o, m)
    BY <1>1, <2>2
  <2>7. Dealt(n, p) <=> p[1] < n.zone - 1 \/ \E k \in 1 .. m + 1 : Reads(n, k)
    BY <1>0 DEF Dealt
  <2>8. Dealt(o, p) <=> p[1] < o.zone - 1 \/ \E k \in 1 .. m : Reads(o, k)
    BY <1>0 DEF Dealt
  <2>9. ~ Reads(n, m + 1)
    BY <2>3, <2>4
  <2> HIDE DEF Reads
  <2>10. \A k \in 1 .. m + 1 : k = m \/ k = m + 1 \/ k \in 1 .. m - 1
    OBVIOUS
  <2>11. \A k \in 1 .. m : (k = m \/ k \in 1 .. m - 1) /\ k \in 1 .. m + 1
    OBVIOUS
  <2>12. (\E k \in 1 .. m + 1 : Reads(n, k)) <=> (\E k \in 1 .. m : Reads(o, k))
    <3>1. \A k \in 1 .. m - 1 : k \in 1 .. m
      OBVIOUS
    <3>2. m \in 1 .. m
      OBVIOUS
    <3> QED
      BY <2>5, <2>6, <2>9, <2>10, <2>11, <3>1, <3>2
  <2> QED
    BY <1>0, <2>7, <2>8, <2>12
<1> QED
  BY <1>1, <1>2

\* The frame at the end of i_zone, and the one of a new zone.
LEMMA ZoneDealt ==
    ASSUME NEW o, NEW n, o.stack = << >>, o.zone \in Nat, n.zone = o.zone + 1
    PROVE  /\ n.stack = << >> =>
                 \A p \in Path : Dealt(n, p) <=> Dealt(o, p) \/ p[1] = o.zone
           /\ Len(n.stack) = 1 /\ n.stack # << >> /\ n.stack[1].index = 0 =>
                 /\ \A p \in Path : Dealt(n, p) <=> Dealt(o, p)
                 /\ PathOf(n, 1) = <<o.zone>>
<1>1. ASSUME NEW p \in Path PROVE p[1] \in Nat /\ Len(p) \in Nat /\ (1 < Len(p) => p[2] \in Nat)
  <2>1. p \in Seq(Nat) /\ Len(p) \in Nat /\ Len(p) >= 1
    BY PathsAreSeqs
  <2> QED
    BY <2>1
<1>2. ASSUME NEW p \in Path PROVE Dealt(o, p) <=> p[1] < o.zone
  <2>1. Len(o.stack) = 0
    OBVIOUS
  <2>2. Dealt(o, p) <=> p[1] < o.zone - 1 \/ p[1] = o.zone - 1
    BY <2>1 DEF Dealt
  <2> QED
    BY <1>1, <2>2
<1>3. ASSUME n.stack = << >>, NEW p \in Path PROVE Dealt(n, p) <=> p[1] < o.zone \/ p[1] = o.zone
  <2>1. Len(n.stack) = 0
    BY <1>3
  <2>2. Dealt(n, p) <=> p[1] < n.zone - 1 \/ p[1] = n.zone - 1
    BY <1>3, <2>1 DEF Dealt
  <2> QED
    BY <1>1, <2>2
<1>4. ASSUME Len(n.stack) = 1, n.stack # << >>, n.stack[1].index = 0, NEW p \in Path
      PROVE  Dealt(n, p) <=> p[1] < o.zone
  <2>1. UpTo(n, 1) = 0
    BY <1>4 DEF UpTo
  <2>2. \A k \in 1 .. 1 : k = 1
    OBVIOUS
  <2>3. Dealt(n, p) <=> p[1] < n.zone - 1 \/ (1 < Len(p) /\ IsPrefix(PathOf(n, 1), p) /\ p[2] < 0)
    BY <1>4, <2>1, <2>2 DEF Dealt
  <2> QED
    BY <1>1, <2>3
<1>5. PathOf(n, 1) = <<o.zone>>
  <2>1. n.zone - 1 = o.zone
    OBVIOUS
  <2>2. [k \in 1 .. 1 - 1 |-> n.stack[k].index - 1] = << >>
    OBVIOUS
  <2>3. PathOf(n, 1) = <<o.zone>> \o << >>
    BY <2>1, <2>2 DEF PathOf
  <2>4. <<o.zone>> \in Seq(Nat)
    OBVIOUS
  <2> QED
    BY <2>3, <2>4
<1> QED
  BY <1>2, <1>3, <1>4, <1>5

LEMMA AdvanceView ==
    ASSUME NEW T, NEW gone, NEW o, NEW l, Truncator(o, l), TruncView(T, o, l, gone), o.stack # << >>,
           NEW n, NEW m, MovesOn(o, n, m),
           ~ o.overlap => \A p \in Path :
               m < Len(p) /\ IsPrefix(PathOf(o, m), p) /\ p[m + 1] = o.stack[m].index => T[o.file][p] = 0
    PROVE  TruncView(T, n, "next", gone)
<1> SUFFICES ASSUME ~ n.overlap
             PROVE  /\ \A k \in 1 .. Len(n.stack) : T[n.file][PathOf(n, k)] = n.stack[k].block
                    /\ \A b \in n.holds : \E k \in 1 .. Len(n.stack) : b = n.stack[k].block
                    /\ \A p \in n.freed : Dealt(n, p)
                    /\ \A p \in Path : Dealt(n, p) => T[n.file][p] = 0
  BY DEF TruncView
<1>0. /\ m = Len(o.stack) /\ m = Len(n.stack) /\ n.freed = o.freed /\ n.holds = o.holds
      /\ \A k \in 1 .. m : n.stack[k].block = o.stack[k].block
  BY DEF MovesOn
<1>1. ~ o.overlap /\ n.file = o.file /\ o.what = "truncate"
  BY DEF SameCall, Truncator, MovesOn
<1>2. /\ \A k \in 1 .. m : T[o.file][PathOf(o, k)] = o.stack[k].block
      /\ \A b \in o.holds : \E k \in 1 .. m : b = o.stack[k].block
      /\ \A p \in o.freed : Dealt(o, p)
      /\ \A p \in Path : Dealt(o, p) => T[o.file][p] = 0
  BY <1>0, <1>1 DEF TruncView
<1>3. m \in Nat /\ m >= 1 /\ \A k \in 1 .. m : o.stack[k].index \in Nat
  BY <1>0, TopFrame
<1>4. PICK i \in Nat : i = o.stack[m].index
  BY <1>3
<1>5. /\ \A k \in 1 .. m : PathOf(n, k) = PathOf(o, k)
      /\ \A p \in Path : Dealt(n, p) <=> \/ Dealt(o, p)
                                         \/ m < Len(p) /\ IsPrefix(PathOf(o, m), p) /\ p[m + 1] = i
  BY <1>3, <1>4, AdvanceDealt
<1>6. o.freed \subseteq Path
  BY OpIs DEF Truncator
<1>7. \A p \in Path : Dealt(n, p) => T[n.file][p] = 0
  BY <1>1, <1>2, <1>4, <1>5
<1>8. \A p \in n.freed : Dealt(n, p)
  BY <1>0, <1>2, <1>5, <1>6
<1>9. \A k \in 1 .. Len(n.stack) : T[n.file][PathOf(n, k)] = n.stack[k].block
  BY <1>0, <1>1, <1>2, <1>5
<1>10. \A b \in n.holds : \E k \in 1 .. Len(n.stack) : b = n.stack[k].block
  BY <1>0, <1>2
<1> QED
  BY <1>7, <1>8, <1>9, <1>10

LEMMA BeginsBelowRight ==
    ASSUME ZonesTypeOK, ZonesRight, NEW t \in Caller, ReadsBelow(t)
    PROVE  ZonesTypeOK' /\ ZonesRight'
<1>1. /\ stage[t] = "read" /\ op[t].what = "truncate"
      /\ i_zone' = i_zone /\ ptr' = ptr /\ zmap' = zmap /\ lost' = lost /\ wrong' = wrong /\ since' = since
  BY DEF ReadsBelow, Resumes, Truncates, disk, ghost
<1>2. Truncator(op[t], "read") /\ Fits(Tree, zmap, lost, op[t], stage[t])
  BY <1>1, AtLabel
<1>3. op[t].stack # << >>
  BY <1>2 DEF Truncator, TruncShape
<1>4. PICK m : m = Len(op[t].stack)
  OBVIOUS
<1>5. m \in Nat /\ m >= 1 /\ op[t].stack[m].index = 0 /\ op[t].stack[m].depth > 0
  BY <1>2, <1>3, <1>4, TopFrame
<1>6. PICK n : n = BeginsBelow(t)
  OBVIOUS
<1>7. op[t].stack[m].index \in 0 .. PER_BLOCK /\ n \in {BeginsBelow(t), SkipsBelow(t)}
  BY <1>5, <1>6, Blocks
<1>8. Truncator(n, "next") /\ n.freed = op[t].freed /\ MovesOn(op[t], n, m)
  BY <1>2, <1>3, <1>4, <1>5, <1>7, Advances
<1>9. \A p \in Path : m < Len(p) => p[m + 1] # 0
  <2> SUFFICES ASSUME NEW p \in Path, m < Len(p) PROVE p[m + 1] # 0
    OBVIOUS
  <2>1. Len(p) \in Nat /\ \A k \in 2 .. Len(p) : p[k] \in Index
    BY PathIs, PathsAreSeqs DEF PathLike
  <2>2. m + 1 \in 2 .. Len(p)
    BY <1>5, <2>1
  <2> QED
    BY <2>1, <2>2, Blocks
<1>10. TruncView(Tree, op[t], "read", lost)
  BY <1>1, <1>2 DEF Fits
<1>11. TruncView(Tree, n, "next", lost)
  BY <1>2, <1>3, <1>4, <1>5, <1>8, <1>9, <1>10, AdvanceView
<1>12. Moves(t, n, "next") /\ SameCall(op[t], n)
  BY <1>6, <1>8, TruncMoves DEF MovesOn
<1>13. lost \subseteq Block
  BY DEF ZonesTypeOK
<1> QED
  BY <1>1, <1>8, <1>11, <1>12, <1>13, QuietTruncates

\* The place the top of the stack is at, in a block that is read.
LEMMA NextPlace ==
    ASSUME NEW o, Truncator(o, "next"), o.stack # << >>, NEW m, m = Len(o.stack),
           NEW i, i = o.stack[m].index, i \in Index
    PROVE  /\ PathOf(o, m) \in Path /\ Len(PathOf(o, m)) = m /\ Append(PathOf(o, m), i) \in Path
           /\ ~ Dealt(o, Append(PathOf(o, m), i))
           /\ \A p \in Path : m < Len(p) /\ IsPrefix(PathOf(o, m), p) /\ p[m + 1] = i
                              => IsPrefix(Append(PathOf(o, m), i), p)
<1>1. /\ m \in Nat /\ m >= 1 /\ o.stack[m].depth \in Nat /\ o.stack[m].depth + m = Depth[o.zone - 1] + 1
      /\ o.stack[m].depth > 0 /\ o.zone - 1 \in Zone /\ \A k \in 1 .. m : o.stack[k].index \in Nat
  BY TopFrame
<1>2. PICK q : q = PathOf(o, m)
  OBVIOUS
<1>3. o \in Op /\ o.what = "truncate" /\ TruncShape(o, "next") /\ m \in 1 .. Len(o.stack)
  BY <1>1 DEF Truncator
<1>4. /\ q \in Path /\ Len(q) = m /\ q[1] = o.zone - 1
      /\ \A k \in 2 .. m : q[k] = o.stack[k - 1].index - 1
  BY <1>2, <1>3, PathOfIs
<1>5. Depth[o.zone - 1] \in Nat
  BY <1>1, Depths
<1>6. Len(q) <= Depth[q[1]]
  BY <1>1, <1>4, <1>5
<1>7. PICK h : h = Append(q, i)
  OBVIOUS
<1>8. h \in Path
  BY <1>4, <1>6, <1>7, LongerPath
<1>9. /\ h \in Seq(Nat) /\ Len(h) = m + 1 /\ h[m + 1] = i /\ h[1] = q[1] /\ \A k \in 1 .. m : h[k] = q[k]
  BY <1>4, <1>7, Appended
<1>10. ~ Dealt(o, h)
  <2>1. ~ (h[1] < o.zone - 1)
    <3>1. o.zone - 1 \in Nat
      BY <1>1, Depths
    <3>2. h[1] = o.zone - 1
      BY <1>4, <1>9
    <3> QED
      BY <3>1, <3>2
  <2>2. ASSUME NEW k \in 1 .. m PROVE ~ (h[k + 1] < UpTo(o, k))
    <3>1. CASE k = m
      <4>1. UpTo(o, m) = i
        BY DEF UpTo
      <4> QED
        BY <1>1, <1>9, <3>1, <4>1
    <3>2. CASE k # m
      <4>1. k + 1 \in 2 .. m /\ k + 1 \in 1 .. m /\ (k + 1) - 1 = k
        BY <1>1, <3>2
      <4>2. h[k + 1] = o.stack[k].index - 1
        BY <1>4, <1>9, <4>1
      <4>3. UpTo(o, k) = o.stack[k].index - 1
        BY <1>1, <3>2 DEF UpTo
      <4>4. o.stack[k].index \in Nat
        BY <1>1
      <4> QED
        BY <4>2, <4>3, <4>4
    <3> QED
      BY <3>1, <3>2
  <2> QED
    BY <2>1, <2>2 DEF Dealt
<1>11. ASSUME NEW p \in Path, m < Len(p), IsPrefix(q, p), p[m + 1] = i PROVE IsPrefix(h, p)
  <2>1. p \in Seq(Nat) /\ Len(p) \in Nat /\ q \in Seq(Nat)
    BY <1>4, PathsAreSeqs
  <2>2. \A k \in 1 .. m : q[k] = p[k]
    BY <1>4, <1>11, <2>1, PrefixIs
  <2>3. ASSUME NEW k \in 1 .. m + 1 PROVE h[k] = p[k]
    <3>1. CASE k = m + 1
      BY <1>9, <1>11, <3>1
    <3>2. CASE k # m + 1
      <4>1. k \in 1 .. m
        BY <1>1, <3>2
      <4> QED
        BY <1>9, <2>2, <4>1
    <3> QED
      BY <3>1, <3>2
  <2>4. m + 1 <= Len(p)
    BY <1>1, <1>11, <2>1
  <2> QED
    BY <1>9, <2>1, <2>3, <2>4, PrefixIs
<1> QED
  BY <1>2, <1>4, <1>7, <1>8, <1>10, <1>11

\* Where no other call has come between, the block number there is that of its place.
LEMMA NextEntry ==
    ASSUME ZonesTypeOK, ZonesRight, NEW t \in Caller, stage[t] = "next", op[t].what = "truncate", op[t].stack # << >>,
           ~ op[t].overlap, NEW m, m = Len(op[t].stack), NEW i, i = op[t].stack[m].index, i \in Index
    PROVE  Tree[op[t].file][Append(PathOf(op[t], m), i)] = ptr[op[t].stack[m].block][i]
<1>0. Truncator(op[t], "next") /\ op[t] \in Op
  BY AtLabel
<1>1. PICK q : q = PathOf(op[t], m)
  OBVIOUS
<1>2. PICK h : h = Append(q, i)
  OBVIOUS
<1>3. q \in Path /\ h \in Path /\ ~ Dealt(op[t], h)
  BY <1>0, <1>1, <1>2, NextPlace
<1>4. PICK g \in File : g = op[t].file
  BY <1>0, OpIs
<1>5. PICK F : F = FreedIn(g)
  OBVIOUS
<1>6. F = op[t].freed /\ TruncView(Tree, op[t], "next", lost)
  BY <1>4, <1>5, OwnFreed
<1>7. h \notin F
  BY <1>0, <1>3, <1>6 DEF TruncView
<1>8. PICK b : b = op[t].stack[m].block
  OBVIOUS
<1>9. m \in 1 .. m /\ b \in Block
  BY <1>0, <1>8, TopFrame
<1>10. Tree[g][q] = b
  BY <1>0, <1>1, <1>4, <1>6, <1>8, <1>9 DEF TruncView, Truncator
<1>11. PICK zs : zs = i_zone[g]
  OBVIOUS
<1>12. PICK pt : pt = ptr
  OBVIOUS
<1>13. F \in SUBSET Path /\ \A p \in Path : Tree[g][p] = At(zs, pt, F, p)
  BY <1>5, <1>11, <1>12, TreeIs
<1>14. At(zs, pt, F, Append(q, i)) =
           IF At(zs, pt, F, q) = 0 \/ Append(q, i) \in F THEN 0 ELSE pt[At(zs, pt, F, q)][i]
  BY <1>3, <1>13, AtBelow
<1>15. Tree[g][h] = pt[b][i]
  BY <1>2, <1>3, <1>7, <1>9, <1>10, <1>13, <1>14, Blocks
<1> QED
  BY <1>1, <1>2, <1>4, <1>8, <1>12, <1>15

\* Where a place is empty, so is all below.
LEMMA EmptyBelow ==
    ASSUME ZonesTypeOK, NEW f \in File, NEW h \in Path, Tree[f][h] = 0
    PROVE  \A p \in Path : IsPrefix(h, p) => Tree[f][p] = 0
<1>1. PICK zs : zs = i_zone[f]
  OBVIOUS
<1>2. PICK F : F = FreedIn(f)
  OBVIOUS
<1>3. F \in SUBSET Path /\ \A p \in Path : Tree[f][p] = At(zs, ptr, F, p)
  BY <1>1, <1>2, TreeIs
<1>4. \A p \in Path : IsPrefix(h, p) => At(zs, ptr, F, p) = 0
  BY <1>3, ZeroBelow
<1> QED
  BY <1>3, <1>4

LEMMA NextBelowSkips ==
    ASSUME ZonesTypeOK, ZonesRight, NEW t \in Caller, NextBelow(t), ptr[Top(t).block][Top(t).index] = 0
    PROVE  ZonesTypeOK' /\ ZonesRight'
<1>1. /\ stage[t] = "next" /\ op[t].stack # << >> /\ Top(t).index \in Index
      /\ i_zone' = i_zone /\ ptr' = ptr /\ zmap' = zmap /\ lost' = lost /\ wrong' = wrong /\ since' = since
  BY DEF NextBelow, Resumes, disk, ghost
<1>2. /\ Truncator(op[t], "next") /\ Fits(Tree, zmap, lost, op[t], stage[t])
      /\ op[t].what = "truncate" /\ op[t] \in Op
  BY <1>1, AtLabel
<1>3. PICK m : m = Len(op[t].stack)
  OBVIOUS
<1>4. PICK i : i = op[t].stack[m].index
  OBVIOUS
<1>5. Top(t) = op[t].stack[m]
  BY <1>3 DEF Top, Last
<1>6. m \in Nat /\ m >= 1 /\ op[t].stack[m].depth > 0 /\ i \in Index /\ ptr[op[t].stack[m].block][i] = 0
  BY <1>1, <1>2, <1>3, <1>4, <1>5, TopFrame
<1>7. PICK n : n = SkipsBelow(t)
  OBVIOUS
<1>8. op[t].stack[m].index \in 0 .. PER_BLOCK /\ n \in {BeginsBelow(t), SkipsBelow(t)}
  BY <1>4, <1>6, <1>7 DEF Index
<1>9. Truncator(n, "next") /\ n.freed = op[t].freed /\ MovesOn(op[t], n, m)
  BY <1>1, <1>2, <1>3, <1>6, <1>8, Advances
<1>10. TruncView(Tree, op[t], "next", lost)
  BY <1>1, <1>2 DEF Fits
<1>11. ASSUME ~ op[t].overlap, NEW p \in Path, m < Len(p), IsPrefix(PathOf(op[t], m), p), p[m + 1] = i
       PROVE  Tree[op[t].file][p] = 0
  <2>1. PICK h : h = Append(PathOf(op[t], m), i)
    OBVIOUS
  <2>2. h \in Path /\ IsPrefix(h, p)
    BY <1>1, <1>2, <1>3, <1>4, <1>6, <1>11, <2>1, NextPlace
  <2>3. Tree[op[t].file][h] = 0
    BY <1>1, <1>2, <1>3, <1>4, <1>6, <1>11, <2>1, NextEntry
  <2>4. op[t].file \in File
    BY <1>2, OpIs
  <2> QED
    BY <2>2, <2>3, <2>4, EmptyBelow
<1>12. TruncView(Tree, n, "next", lost)
  BY <1>2, <1>4, <1>9, <1>10, <1>11, AdvanceView DEF MovesOn
<1>13. Moves(t, n, "next") /\ SameCall(op[t], n)
  BY <1>5, <1>4, <1>6, <1>7, <1>9, TruncMoves DEF MovesOn
<1>14. lost \subseteq Block
  BY DEF ZonesTypeOK
<1> QED
  BY <1>1, <1>2, <1>9, <1>12, <1>13, <1>14, QuietTruncates

LEMMA NextBelowDescends ==
    ASSUME ZonesTypeOK, ZonesRight, NEW t \in Caller, NextBelow(t), ptr[Top(t).block][Top(t).index] # 0
    PROVE  ZonesTypeOK' /\ ZonesRight'
<1>1. /\ stage[t] = "next" /\ op[t].stack # << >> /\ Top(t).index \in Index
      /\ i_zone' = i_zone /\ ptr' = ptr /\ zmap' = zmap /\ lost' = lost /\ wrong' = wrong /\ since' = since
  BY DEF NextBelow, Resumes, disk, ghost
<1>2. /\ Truncator(op[t], "next") /\ Fits(Tree, zmap, lost, op[t], stage[t])
      /\ op[t].what = "truncate" /\ op[t] \in Op
  BY <1>1, AtLabel
<1>3. PICK m : m = Len(op[t].stack)
  OBVIOUS
<1>4. PICK i : i = op[t].stack[m].index
  OBVIOUS
<1>5. Top(t) = op[t].stack[m]
  BY <1>3 DEF Top, Last
<1>6. /\ m \in Nat /\ m >= 1 /\ op[t].stack[m].depth > 0 /\ i \in Index
      /\ op[t].stack[m].depth + m = Depth[op[t].zone - 1] + 1
      /\ op[t].stack[m].depth \in Nat /\ op[t].zone - 1 \in Zone
  BY <1>1, <1>2, <1>3, <1>4, <1>5, TopFrame
<1>7. PICK b : b = ptr[Top(t).block][Top(t).index] /\ b # 0
  OBVIOUS
<1>8. PICK n : n = Descends(t)
  OBVIOUS
<1>9. PICK l : l = Starts(Top(t).depth - 1)
  OBVIOUS
<1>18. Truncator(n, l) /\ Pushes(op[t], n, m, b)
  BY <1>1, <1>2, <1>3, <1>7, <1>8, <1>9, DescendsShape
<1>10. /\ Truncator(n, l) /\ SameCall(op[t], n)
       /\ n.freed = op[t].freed /\ n.zone = op[t].zone /\ Len(n.stack) = m + 1 /\ n.stack # << >>
       /\ \A k \in 1 .. m : n.stack[k].block = op[t].stack[k].block
       /\ \A k \in 1 .. m - 1 : n.stack[k] = op[t].stack[k]
       /\ n.stack[m].index = op[t].stack[m].index + 1
       /\ n.stack[m + 1].block = b /\ n.stack[m + 1].index = 0
       /\ n.holds = IF Top(t).depth - 1 = 0 THEN op[t].holds \cup {b} ELSE op[t].holds
  BY <1>5, <1>18 DEF Pushes
<1>11. TruncView(Tree, op[t], "next", lost)
  BY <1>1, <1>2 DEF Fits
<1>12. i \in Nat
  BY <1>6, Blocks
<1>13. /\ \A k \in 1 .. m : PathOf(n, k) = PathOf(op[t], k)
       /\ \A p \in Path : Dealt(n, p) <=> Dealt(op[t], p)
  BY <1>4, <1>6, <1>12, <1>18, DescendDealt
<1>14. PICK h : h = PathOf(n, m + 1)
  OBVIOUS
<1>15. h = Append(PathOf(op[t], m), i)
  <2>1. PICK q : q = PathOf(op[t], m)
    OBVIOUS
  <2>2. /\ q \in Path /\ Len(q) = m /\ q[1] = op[t].zone - 1
        /\ \A k \in 2 .. m : q[k] = op[t].stack[k - 1].index - 1
    <3>1. m \in 1 .. Len(op[t].stack) /\ TruncShape(op[t], "next")
      BY <1>2, <1>3, <1>6 DEF Truncator
    <3> QED
      BY <1>1, <1>2, <2>1, <3>1, PathOfIs
  <2>3. /\ h \in Path /\ Len(h) = m + 1 /\ h[1] = n.zone - 1
        /\ \A k \in 2 .. m + 1 : h[k] = n.stack[k - 1].index - 1
    <3>1. m + 1 \in 1 .. Len(n.stack) /\ TruncShape(n, l) /\ n \in Op /\ n.what = "truncate"
      BY <1>6, <1>10 DEF Truncator
    <3> QED
      BY <1>10, <1>14, <3>1, PathOfIs
  <2>4. PICK r : r = Append(q, i)
    OBVIOUS
  <2>5. /\ r \in Seq(Nat) /\ Len(r) = m + 1 /\ r[m + 1] = i /\ r[1] = q[1]
        /\ \A k \in 1 .. m : r[k] = q[k]
    BY <1>6, <2>2, <2>4, Appended
  <2>6. \A k \in 1 .. m + 1 : r[k] = h[k]
    <3>1. ASSUME NEW k \in 1 .. m + 1 PROVE r[k] = h[k]
      <4>1. CASE k = 1
        BY <1>10, <2>2, <2>3, <2>5, <4>1
      <4>2. CASE k = m + 1 /\ k # 1
        <5>1. k \in 2 .. m + 1 /\ k - 1 = m
          BY <1>6, <4>2
        <5>2. h[k] = n.stack[m].index - 1
          BY <2>3, <5>1
        <5> QED
          BY <1>4, <1>10, <1>12, <2>5, <4>2, <5>2
      <4>3. CASE k # m + 1 /\ k # 1
        <5>1. k \in 2 .. m + 1 /\ k \in 2 .. m /\ k - 1 \in 1 .. m - 1 /\ k \in 1 .. m
          BY <1>6, <4>3
        <5>2. h[k] = n.stack[k - 1].index - 1 /\ q[k] = op[t].stack[k - 1].index - 1
          BY <2>2, <2>3, <5>1
        <5> QED
          BY <1>10, <2>5, <5>1, <5>2
      <4> QED
        BY <4>1, <4>2, <4>3
    <3> QED
      BY <3>1
  <2>7. h \in Seq(Nat)
    BY <2>3, PathsAreSeqs
  <2>8. r = h
    <3>1. Len(r) = Len(h) /\ \A k \in 1 .. Len(r) : r[k] = h[k]
      BY <2>3, <2>5, <2>6
    <3> QED
      BY <2>5, <2>7, <3>1, SeqEqual
  <2> QED
    BY <2>1, <2>4, <2>8
<1>16. TruncView(Tree, n, l, lost)
  <2> SUFFICES ASSUME ~ n.overlap
               PROVE  /\ \A k \in 1 .. Len(n.stack) : Tree[n.file][PathOf(n, k)] = n.stack[k].block
                      /\ \A x \in n.holds : \E k \in 1 .. Len(n.stack) : x = n.stack[k].block
                      /\ \A p \in n.freed : Dealt(n, p)
                      /\ \A p \in Path : Dealt(n, p) => Tree[n.file][p] = 0
                      /\ l = "free" /\ n.stack[Len(n.stack)].index = 0 =>
                            \A p \in Path : /\ IsPrefix(PathOf(n, Len(n.stack)), p)
                                            /\ Len(p) > Len(n.stack)
                                            => Tree[n.file][p] \in lost \cup {0}
    BY DEF TruncView
  <2>1. ~ op[t].overlap /\ n.file = op[t].file
    BY <1>10 DEF SameCall
  <2>2. /\ \A k \in 1 .. m : Tree[op[t].file][PathOf(op[t], k)] = op[t].stack[k].block
        /\ \A x \in op[t].holds : \E k \in 1 .. m : x = op[t].stack[k].block
        /\ \A p \in op[t].freed : Dealt(op[t], p)
        /\ \A p \in Path : Dealt(op[t], p) => Tree[op[t].file][p] = 0
    BY <1>2, <1>3, <1>11, <2>1 DEF TruncView
  <2>3. Tree[op[t].file][h] = b
    <3>1. Tree[op[t].file][Append(PathOf(op[t], m), i)] = ptr[op[t].stack[m].block][i]
      BY <1>1, <1>2, <1>3, <1>4, <1>6, <2>1, NextEntry
    <3>2. b = ptr[op[t].stack[m].block][i]
      BY <1>4, <1>5, <1>7
    <3> QED
      BY <1>15, <3>1, <3>2
  <2>4. ASSUME NEW k \in 1 .. Len(n.stack) PROVE Tree[n.file][PathOf(n, k)] = n.stack[k].block
    <3>1. k = m + 1 \/ k \in 1 .. m
      BY <1>6, <1>10
    <3> QED
      BY <1>10, <1>13, <1>14, <2>1, <2>2, <2>3, <3>1
  <2>5. ASSUME NEW x \in n.holds PROVE \E k \in 1 .. Len(n.stack) : x = n.stack[k].block
    <3>1. x \in op[t].holds \/ x = b
      BY <1>10
    <3>2. \A k \in 1 .. m : k \in 1 .. m + 1
      BY <1>6
    <3>3. m + 1 \in 1 .. m + 1
      BY <1>6
    <3>4. CASE x \in op[t].holds
      <4>1. PICK k \in 1 .. m : x = op[t].stack[k].block
        BY <2>2, <3>4
      <4> QED
        BY <1>10, <3>2, <4>1
    <3> QED
      BY <1>10, <3>1, <3>3, <3>4
  <2>6. op[t].freed \subseteq Path
    BY <1>2, OpIs
  <2>7. (\A p \in n.freed : Dealt(n, p)) /\ \A p \in Path : Dealt(n, p) => Tree[n.file][p] = 0
    BY <1>10, <1>13, <2>1, <2>2, <2>6
  <2>8. ASSUME l = "free", NEW p \in Path, Len(p) > Len(n.stack), IsPrefix(PathOf(n, Len(n.stack)), p)
        PROVE  FALSE
    <3>1. Top(t).depth - 1 = 0
      BY <1>9, <2>8 DEF Starts
    <3>2. m = Depth[op[t].zone - 1]
      BY <1>5, <1>6, <3>1, Depths
    <3>3. h \in Path /\ Len(h) = m + 1 /\ h[1] = op[t].zone - 1
      <4>1. m + 1 \in 1 .. Len(n.stack) /\ TruncShape(n, l) /\ n \in Op /\ n.what = "truncate"
        BY <1>6, <1>10 DEF Truncator
      <4> QED
        BY <1>10, <1>14, <4>1, PathOfIs
    <3>4. IsPrefix(h, p)
      BY <1>10, <1>14, <2>8
    <3>5. p \in Seq(Nat) /\ h \in Seq(Nat) /\ Len(p) \in Nat
      BY <3>3, PathsAreSeqs
    <3>6. h[1] = p[1]
      <4>1. 1 \in 1 .. Len(h)
        BY <1>6, <3>3
      <4> QED
        BY <3>4, <3>5, <4>1, PrefixIs
    <3>7. Len(p) <= Depth[p[1]] + 1
      BY PathIs DEF PathLike
    <3> QED
      BY <1>6, <1>10, <2>8, <3>2, <3>3, <3>5, <3>6, <3>7
  <2> QED
    BY <2>4, <2>5, <2>7, <2>8
<1>17. Moves(t, n, l)
  BY <1>7, <1>8, <1>9, TruncMoves
<1>19. lost \subseteq Block
  BY DEF ZonesTypeOK
<1> QED
  BY <1>1, <1>2, <1>10, <1>16, <1>17, <1>19, QuietTruncates

LEMMA NextZoneSkips ==
    ASSUME ZonesTypeOK, ZonesRight, NEW t \in Caller, NextZone(t), i_zone[op[t].file][op[t].zone] = 0
    PROVE  ZonesTypeOK' /\ ZonesRight'
<1>1. /\ stage[t] = "next" /\ op[t].stack = << >> /\ op[t].zone \in Zone
      /\ i_zone' = i_zone /\ ptr' = ptr /\ zmap' = zmap /\ lost' = lost /\ wrong' = wrong /\ since' = since
  BY DEF NextZone, Resumes, disk, ghost
<1>2. /\ Truncator(op[t], "next") /\ Fits(Tree, zmap, lost, op[t], stage[t])
      /\ op[t].what = "truncate" /\ op[t] \in Op
  BY <1>1, AtLabel
<1>3. PICK n : n = SkipsZone(t)
  OBVIOUS
<1>4. /\ Truncator(n, "next") /\ SameCall(op[t], n) /\ n.new = 0 /\ n.freed = op[t].freed
      /\ n.zone = op[t].zone + 1 /\ n.stack = << >> /\ n.holds = op[t].holds
  BY <1>1, <1>2, <1>3, SkipsZoneShape
<1>5. \A p \in Path : Dealt(n, p) <=> Dealt(op[t], p) \/ p[1] = op[t].zone
  <2>1. op[t].zone \in Nat
    BY <1>1, Depths
  <2> QED
    BY <1>1, <1>4, <2>1, ZoneDealt
<1>6. PICK g \in File : g = op[t].file
  BY <1>2, OpIs
<1>7. PICK zs : zs = i_zone[g]
  OBVIOUS
<1>8. PICK F : F = FreedIn(g)
  OBVIOUS
<1>9. F \in SUBSET Path /\ \A p \in Path : Tree[g][p] = At(zs, ptr, F, p)
  BY <1>7, <1>8, TreeIs
<1>10. ASSUME NEW p \in Path, p[1] = op[t].zone PROVE Tree[g][p] = 0
  <2>1. zs[p[1]] = 0
    BY <1>6, <1>7, <1>10
  <2> QED
    BY <1>9, <2>1, NothingBelowZero
<1>11. TruncView(Tree, n, "next", lost)
  <2>1. TruncView(Tree, op[t], "next", lost)
    BY <1>1, <1>2 DEF Fits
  <2> SUFFICES ASSUME ~ n.overlap
               PROVE  /\ \A k \in 1 .. Len(n.stack) : Tree[n.file][PathOf(n, k)] = n.stack[k].block
                      /\ \A b \in n.holds : \E k \in 1 .. Len(n.stack) : b = n.stack[k].block
                      /\ \A p \in n.freed : Dealt(n, p)
                      /\ \A p \in Path : Dealt(n, p) => Tree[n.file][p] = 0
    BY DEF TruncView
  <2>2. ~ op[t].overlap /\ n.file = g
    BY <1>4, <1>6 DEF SameCall
  <2>3. /\ \A b \in op[t].holds : \E k \in 1 .. Len(op[t].stack) : b = op[t].stack[k].block
        /\ \A p \in op[t].freed : Dealt(op[t], p)
        /\ \A p \in Path : Dealt(op[t], p) => Tree[g][p] = 0
    BY <1>2, <1>6, <2>1, <2>2 DEF TruncView
  <2>4. op[t].freed \subseteq Path
    BY <1>2, OpIs
  <2>5. Len(n.stack) = 0 /\ Len(op[t].stack) = 0
    BY <1>1, <1>4
  <2>6. \A p \in n.freed : Dealt(n, p)
    BY <1>4, <1>5, <2>3, <2>4
  <2>7. \A p \in Path : Dealt(n, p) => Tree[n.file][p] = 0
    BY <1>5, <1>10, <2>2, <2>3
  <2>8. \A b \in n.holds : FALSE
    BY <1>4, <2>3, <2>5
  <2> QED
    BY <2>5, <2>6, <2>7, <2>8
<1>12. Moves(t, n, "next")
  BY <1>3, TruncMoves
<1>13. lost \subseteq Block
  BY DEF ZonesTypeOK
<1> QED
  BY <1>1, <1>2, <1>4, <1>11, <1>12, <1>13, QuietTruncates

LEMMA NextZoneBegins ==
    ASSUME ZonesTypeOK, ZonesRight, NEW t \in Caller, NextZone(t), i_zone[op[t].file][op[t].zone] # 0
    PROVE  ZonesTypeOK' /\ ZonesRight'
<1>1. /\ stage[t] = "next" /\ op[t].stack = << >> /\ op[t].zone \in Zone
      /\ i_zone' = i_zone /\ ptr' = ptr /\ zmap' = zmap /\ lost' = lost /\ wrong' = wrong /\ since' = since
  BY DEF NextZone, Resumes, disk, ghost
<1>2. /\ Truncator(op[t], "next") /\ Fits(Tree, zmap, lost, op[t], stage[t])
      /\ op[t].what = "truncate" /\ op[t] \in Op
  BY <1>1, AtLabel
<1>a. Truncator(op[t], "next") /\ op[t].stack = << >> /\ op[t].zone \in Zone
  BY <1>1, <1>2
<1>3. PICK n : n = BeginsZone(t)
  OBVIOUS
<1>4. PICK b : b = i_zone[op[t].file][op[t].zone] /\ b # 0
  OBVIOUS
<1>5. PICK z \in Zone : z = op[t].zone
  BY <1>1
<1>6. PICK l : l = Starts(Depth[z])
  OBVIOUS
<1>7. /\ Truncator(n, l) /\ SameCall(op[t], n) /\ n.new = 0
      /\ n.freed = op[t].freed /\ n.zone = op[t].zone + 1
      /\ n.stack # << >> /\ Len(n.stack) = 1 /\ n.stack[1].block = b /\ n.stack[1].index = 0
      /\ n.stack[1].depth = Depth[z]
      /\ n.holds = IF Depth[z] = 0 THEN {b} ELSE {}
  <2>1. BegunZone(op[t], n, Depth[op[t].zone], b)
    BY <1>a, <1>3, <1>4, BeginsZoneShape
  <2>2. BegunZone(op[t], n, Depth[z], b)
    BY <1>5, <2>1
  <2> QED
    BY <1>6, <2>2, Zenon DEF BegunZone
<1>8. (\A p \in Path : Dealt(n, p) <=> Dealt(op[t], p)) /\ PathOf(n, 1) = <<z>>
  <2>1. op[t].zone \in Nat
    BY <1>1, Depths
  <2> QED
    BY <1>1, <1>5, <1>7, <2>1, ZoneDealt
<1>9. PICK g \in File : g = op[t].file
  BY <1>2, OpIs
<1>10. TruncView(Tree, n, l, lost)
  <2>1. TruncView(Tree, op[t], "next", lost)
    BY <1>1, <1>2 DEF Fits
  <2> SUFFICES ASSUME ~ n.overlap
               PROVE  /\ \A k \in 1 .. Len(n.stack) : Tree[n.file][PathOf(n, k)] = n.stack[k].block
                      /\ \A x \in n.holds : \E k \in 1 .. Len(n.stack) : x = n.stack[k].block
                      /\ \A p \in n.freed : Dealt(n, p)
                      /\ \A p \in Path : Dealt(n, p) => Tree[n.file][p] = 0
                      /\ l = "free" /\ n.stack[Len(n.stack)].index = 0 =>
                            \A p \in Path : /\ IsPrefix(PathOf(n, Len(n.stack)), p)
                                            /\ Len(p) > Len(n.stack)
                                            => Tree[n.file][p] \in lost \cup {0}
    BY DEF TruncView
  <2>2. ~ op[t].overlap /\ n.file = g
    BY <1>7, <1>9 DEF SameCall
  <2>3. /\ \A p \in op[t].freed : Dealt(op[t], p)
        /\ \A p \in Path : Dealt(op[t], p) => Tree[g][p] = 0
    BY <1>2, <1>9, <2>1, <2>2 DEF TruncView
  <2>4. op[t].freed \subseteq Path
    BY <1>2, OpIs
  <2>5. (\A p \in n.freed : Dealt(n, p)) /\ \A p \in Path : Dealt(n, p) => Tree[n.file][p] = 0
    BY <1>7, <1>8, <2>2, <2>3, <2>4
  <2>6. Tree[g][<<z>>] = b
    <3>1. PICK F : F = FreedIn(g)
      OBVIOUS
    <3>2. F = op[t].freed
      BY <1>1, <1>2, <1>9, <2>2, <3>1, OwnFreed
    <3>3. PICK h \in Path : h = <<z>>
      BY TopIsPath
    <3>4. ~ Dealt(op[t], h)
      <4>1. Len(op[t].stack) = 0
        BY <1>1
      <4>2. h[1] = z /\ z \in Nat
        BY <3>3, Depths
      <4> QED
        BY <1>5, <4>1, <4>2 DEF Dealt
    <3>5. h \notin F
      BY <2>3, <3>2, <3>4
    <3>6. PICK zs : zs = i_zone[g]
      OBVIOUS
    <3>7. F \in SUBSET Path /\ \A p \in Path : Tree[g][p] = At(zs, ptr, F, p)
      BY <3>1, <3>6, TreeIs
    <3>8. At(zs, ptr, F, <<z>>) = IF <<z>> \in F THEN 0 ELSE zs[z]
      BY <3>7, AtTop
    <3> QED
      BY <1>4, <1>5, <1>9, <3>3, <3>5, <3>6, <3>7, <3>8
  <2>7. \A k \in 1 .. Len(n.stack) : k = 1
    BY <1>7
  <2>8. 1 \in 1 .. Len(n.stack)
    BY <1>7
  <2>9. ASSUME l = "free", NEW p \in Path, Len(p) > Len(n.stack), IsPrefix(PathOf(n, Len(n.stack)), p)
        PROVE  FALSE
    <3>1. Depth[z] = 0
      BY <1>6, <2>9 DEF Starts
    <3>2. PICK h \in Path : h = <<z>>
      BY TopIsPath
    <3>3. p \in Seq(Nat) /\ h \in Seq(Nat) /\ Len(p) \in Nat /\ Len(h) = 1 /\ h[1] = z
      BY <3>2, PathsAreSeqs
    <3>4. IsPrefix(h, p)
      BY <1>7, <1>8, <2>9, <3>2
    <3>5. h[1] = p[1]
      <4>1. \A k \in 1 .. Len(h) : h[k] = p[k]
        BY <3>3, <3>4, PrefixIs
      <4>2. 1 \in 1 .. Len(h)
        BY <3>3
      <4> QED
        BY <4>1, <4>2
    <3>6. Len(p) <= Depth[p[1]] + 1
      BY PathIs DEF PathLike
    <3> QED
      BY <1>7, <2>9, <3>1, <3>3, <3>5, <3>6
  <2>10. \A k \in 1 .. Len(n.stack) : Tree[n.file][PathOf(n, k)] = n.stack[k].block
    BY <1>7, <1>8, <2>2, <2>6, <2>7
  <2>11. \A x \in n.holds : \E k \in 1 .. Len(n.stack) : x = n.stack[k].block
    <3>1. \A x \in n.holds : x = b
      BY <1>7
    <3> QED
      BY <1>7, <2>8, <3>1
  <2> QED
    BY <2>5, <2>9, <2>10, <2>11
<1>11. Moves(t, n, l)
  BY <1>3, <1>4, <1>5, <1>6, TruncMoves
<1>12. lost \subseteq Block
  BY DEF ZonesTypeOK
<1> QED
  BY <1>1, <1>2, <1>7, <1>10, <1>11, <1>12, QuietTruncates
-----------------------------------------------------------------------------
(***************************************************************************)
(* Filling a hole.                                                          *)
(***************************************************************************)
\* A view is of one file.
LEMMA ViewElsewhere ==
    ASSUME NEW T, NEW T2, NEW gone, NEW left, gone \subseteq left, NEW o, NEW l,
           Walker(o, l) \/ Truncator(o, l), WalkView(T, o, l), TruncView(T, o, l, gone),
           ~ o.overlap => \A p \in Path : T2[o.file][p] = T[o.file][p]
    PROVE  WalkView(T2, o, l) /\ TruncView(T2, o, l, left)
<1>1. CASE o.overlap
  BY <1>1 DEF WalkView, TruncView
<1>2. CASE ~ o.overlap /\ Walker(o, l)
  <2>1. /\ o.what # "truncate" /\ o.path \in Path /\ o.level \in 1 .. Len(o.path)
        /\ SubSeq(o.path, 1, o.level) \in Path
        /\ o.level > 1 => SubSeq(o.path, 1, o.level - 1) \in Path
    BY <1>2, WayDown DEF Walker
  <2>2. WalkView(T2, o, l)
    BY <1>2, <2>1 DEF WalkView, Looking
  <2> QED
    BY <2>1, <2>2 DEF TruncView
<1>3. CASE ~ o.overlap /\ Truncator(o, l)
  <2>1. o \in Op /\ o.what = "truncate" /\ TruncShape(o, l)
    BY <1>3 DEF Truncator
  <2>2. ASSUME NEW k \in 1 .. Len(o.stack) PROVE PathOf(o, k) \in Path
    <3>1. o.stack # << >>
      OBVIOUS
    <3> QED
      BY <2>1, <3>1, PathOfIs
  <2>3. /\ \A n \in 1 .. Len(o.stack) : T[o.file][PathOf(o, n)] = o.stack[n].block
        /\ \A b \in o.holds : \E n \in 1 .. Len(o.stack) : b = o.stack[n].block
        /\ \A p \in o.freed : Dealt(o, p)
        /\ \A p \in Path : Dealt(o, p) => T[o.file][p] = 0
        /\ l = "free" /\ o.stack[Len(o.stack)].index = 0 =>
              \A p \in Path : /\ IsPrefix(PathOf(o, Len(o.stack)), p)
                              /\ Len(p) > Len(o.stack)
                              => T[o.file][p] \in gone \cup {0}
    BY <1>3, <2>1 DEF TruncView
  <2>4. \A n \in 1 .. Len(o.stack) : T2[o.file][PathOf(o, n)] = o.stack[n].block
    BY <1>3, <2>2, <2>3
  <2>5. \A p \in Path : Dealt(o, p) => T2[o.file][p] = 0
    BY <1>3, <2>3
  <2>6. l = "free" /\ o.stack[Len(o.stack)].index = 0 =>
              \A p \in Path : /\ IsPrefix(PathOf(o, Len(o.stack)), p)
                              /\ Len(p) > Len(o.stack)
                              => T2[o.file][p] \in left \cup {0}
    BY <1>3, <2>3
  <2> QED
    BY <2>1, <2>3, <2>4, <2>5, <2>6 DEF TruncView, WalkView
<1> QED
  BY <1>1, <1>2, <1>3

LEMMA BusyFits ==
    ASSUME ZonesTypeOK, ZonesRight, NEW u \in Busy
    PROVE  /\ op[u] \in Op /\ stage[u] # "user" /\ Fits(Tree, zmap, lost, op[u], stage[u])
           /\ Walker(op[u], stage[u]) \/ Truncator(op[u], stage[u])
<1>1. u \in Caller /\ stage[u] # "user"
  BY DEF ZonesRight, UserRight, Busy
<1> QED
  BY <1>1, AtLabel

\* A call on the file of one that truncates it, or of one that writes it and its own.
LEMMA OtherFile ==
    ASSUME ZonesRight, NEW t \in Busy, NEW u \in Busy, u # t, ~ op[u].overlap,
           op[t].what = "truncate" \/ op[u].what = "truncate" \/ (op[t].what = "write" /\ op[u].what = "write")
    PROVE  op[u].file # op[t].file
<1>1. Conflict(op[t].what, op[u].what)
  BY DEF Conflict
<1> QED
  BY <1>1 DEF ZonesRight, Conflicts

LEMMA FillsTypes ==
    ASSUME ZonesTypeOK, NEW t \in Caller, Walker(op[t], "new"), Fills(t)
    PROVE  ZonesTypeOK'
<1>1. /\ zmap' = zmap /\ lost' = lost /\ since' = since /\ wrong' \in {wrong, "two blocks for one place"}
  BY DEF Fills
<1>2. PICK o \in Op : o = op[t]
  BY DEF Walker
<1>3. PICK f \in File : f = o.file
  BY OpIs
<1>4. PICK v \in Block : v = o.new
  BY <1>2, OpIs DEF Walker, WalkShape
<1>5. Cleared(v) \in [Block -> [Index -> Block \cup {0}]]
  BY DEF ZonesTypeOK, Cleared
<1>6. i_zone[f] \in [Zone -> Block \cup {0}]
  BY DEF ZonesTypeOK
<1>7. i_zone' \in [File -> [Zone -> Block \cup {0}]] /\ ptr' \in [Block -> [Index -> Block \cup {0}]]
  <2>1. CASE o.level = 1
    <3>1. i_zone' = [i_zone EXCEPT ![f][o.path[1]] = v] /\ ptr' = Cleared(v)
      BY <1>2, <1>3, <1>4, <2>1 DEF Fills
    <3>2. i_zone' = [i_zone EXCEPT ![f] = [i_zone[f] EXCEPT ![o.path[1]] = v]]
      BY <3>1
    <3>3. [i_zone[f] EXCEPT ![o.path[1]] = v] \in [Zone -> Block \cup {0}]
      BY <1>6
    <3>4. i_zone' \in [File -> [Zone -> Block \cup {0}]]
      BY <3>2, <3>3 DEF ZonesTypeOK
    <3> QED
      BY <1>5, <3>1, <3>4
  <2>2. CASE o.level # 1
    <3>1. PICK P : P = Cleared(v)
      OBVIOUS
    <3>2. PICK b : b = o.block
      OBVIOUS
    <3>3. ptr' = [P EXCEPT ![b][o.path[o.level]] = v] /\ i_zone' = i_zone
      BY <1>2, <1>4, <2>2, <3>1, <3>2 DEF Fills
    <3>4. ptr' = [P EXCEPT ![b] = [P[b] EXCEPT ![o.path[o.level]] = v]]
      BY <3>3
    <3>5. b \in Block
      <4>1. o.level \in 1 .. Len(o.path) /\ o.path \in Path
        BY <1>2 DEF Walker
      <4>2. o.level > 1
        BY <2>2, <4>1
      <4> QED
        BY <1>2, <3>2, <4>2, OpIs DEF Walker, WalkShape
    <3>6. P[b] \in [Index -> Block \cup {0}]
      BY <1>5, <3>1, <3>5
    <3>7. [P[b] EXCEPT ![o.path[o.level]] = v] \in [Index -> Block \cup {0}]
      BY <3>6
    <3>8. ptr' \in [Block -> [Index -> Block \cup {0}]]
      BY <1>5, <3>1, <3>4, <3>7
    <3> QED
      BY <3>3, <3>8 DEF ZonesTypeOK
  <2> QED
    BY <2>1, <2>2
<1>8. PICK n : n = FillsTo(t)
  OBVIOUS
<1>9. Walker(n, "look")
  BY <1>8, FillsShape
<1>10. n \in Op /\ (n.path # << >> => n.level \in DOMAIN n.path)
  BY <1>9, WalkerLevel DEF Walker
<1>11. Moves(t, n, "look")
  BY <1>8, WalkMoves
<1>12. zmap' \subseteq Block /\ lost' \subseteq Block
  BY <1>1 DEF ZonesTypeOK
<1> QED
  BY <1>1, <1>7, <1>10, <1>11, <1>12, TypeMoves

LEMMA FillsRight ==
    ASSUME ZonesTypeOK, ZonesRight, NEW t \in Caller, Fills(t), Entry(t) = 0
    PROVE  ZonesTypeOK' /\ ZonesRight'
<1>1. /\ stage[t] = "new" /\ zmap' = zmap /\ lost' = lost /\ since' = since /\ wrong' = wrong
  BY DEF Fills, Resumes
<1>2. /\ t \in Busy /\ op[t] \in Op /\ Fits(Tree, zmap, lost, op[t], "new")
      /\ Walker(op[t], "new") /\ ByCalls
  BY <1>1, AtLabel, RightByCalls
<1>3. ZonesTypeOK'
  BY <1>2, FillsTypes
<1>4. PICK o \in Op : o = op[t]
  BY <1>2
<1>5. PICK v : v = o.new
  OBVIOUS
<1>6. PICK g \in File : g = o.file
  BY OpIs
<1>7. PICK h : h = Here(o)
  OBVIOUS
<1>8. /\ NewRight(Tree, zmap, o) /\ LookRight(Tree, zmap, o, "new") /\ SelfApart(o, "new")
      /\ WalkShape(o, "new") /\ o.what = "write" /\ v # 0
  BY <1>1, <1>2, <1>4, <1>5 DEF Fits, ByCalls, CallsRight, WalkShape, Walker
<1>9. o.level > 1 => Looking(o, "new") /\ o.block # v
  BY <1>5, <1>8 DEF SelfApart, Looking
<1>10. /\ h \in Path /\ v \in Block
       /\ Shows(o) => Tree[g][h] = 0
       /\ \A f \in File : \A p \in Path :
             Tree'[f][p] = IF f = g /\ p = h /\ Shows(o) THEN v ELSE Tree[f][p]
  BY <1>2, <1>3, <1>4, <1>5, <1>6, <1>7, <1>8, <1>9, FillsTree
<1>11. v \in zmap /\ \A f \in File : \A p \in Path : Tree[f][p] # v
  BY <1>5, <1>8 DEF NewRight
<1>12. OnePlace(Tree') /\ AllMarked(Tree', zmap')
  <2>1. OnePlace(Tree) /\ AllMarked(Tree, zmap)
    BY <1>2 DEF ByCalls
  <2>2. AllMarked(Tree', zmap')
    BY <1>1, <1>10, <1>11, <2>1 DEF AllMarked
  <2>3. ASSUME NEW f \in File, NEW f2 \in File, NEW p \in Path, NEW q \in Path,
               Tree'[f][p] # 0, Tree'[f][p] = Tree'[f2][q]
        PROVE  f = f2 /\ p = q
    BY <1>10, <1>11, <2>1, <2>3 DEF OnePlace
  <2> QED
    BY <2>2, <2>3 DEF OnePlace
<1>13. PICK n : n = FillsTo(t)
  OBVIOUS
<1>14. /\ Walker(n, "look") /\ SameCall(o, n) /\ n.block = o.block /\ n.new = 0
       /\ n.level = o.level /\ n.freed = {} /\ n.stack = << >> /\ n.holds = o.holds
  BY <1>2, <1>4, <1>13, FillsShape
<1>15. Moves(t, n, "look") /\ n \in Op /\ n # NoOp /\ n.what # "truncate"
  BY <1>13, <1>14, WalkMoves, OpIs DEF Walker
<1>16. NoLeak'
  <2>1. CASE since # 0
    BY <1>1, <2>1 DEF NoLeak
  <2>2. CASE since = 0
    <3>1. ~ op[t].overlap
      BY <1>2, <2>2 DEF ByCalls, SinceRight
    <3>2. Shows(o)
      BY <1>1, <1>4, <3>1, EntryView DEF Shows
    <3>3. Tree'[g][h] = v
      BY <1>10, <3>2
    <3>4. \A u \in Caller \ {t} : op'[u] = op[u]
      BY <1>15, MovesTo
    <3>5. Busy' = Busy
      BY <1>2, <1>15, MovesTo
    <3>6. ASSUME NEW u \in Busy, op[u].new # 0
          PROVE  \/ \E w \in Busy' : op'[w].new = op[u].new
                 \/ \E f \in File : \E p \in Path : Tree'[f][p] = op[u].new
      <4>1. CASE u = t
        BY <1>4, <1>5, <1>10, <3>3, <4>1
      <4>2. CASE u # t
        BY <3>4, <3>5, <4>2 DEF Busy
      <4> QED
        BY <4>1, <4>2
    <3>7. ASSUME NEW x \in zmap', \E f \in File : \E p \in Path : Tree[f][p] = x
          PROVE  \E f \in File : \E p \in Path : Tree'[f][p] = x
      <4>1. PICK f \in File, p \in Path : Tree[f][p] = x
        BY <3>7
      <4>2. x # 0
        BY <1>3, Blocks DEF ZonesTypeOK
      <4>3. Tree'[f][p] = x
        BY <1>10, <4>1, <4>2
      <4> QED
        BY <4>3
    <3>8. NoLeak /\ lost \subseteq lost' /\ \A x \in zmap' : x \in zmap
      BY <1>1, <1>2 DEF ByCalls
    <3> QED
      BY <1>1, <1>3, <3>6, <3>7, <3>8, NoLeakKept
  <2> QED
    BY <2>1, <2>2
<1>17. Fits(Tree', zmap', lost', n, "look")
  <2>1. LookRight(Tree', zmap', n, "look")
    <3>1. CASE n.level > 1
      <4>1. /\ o.block \in zmap
            /\ \A f \in File : \A p \in Path :
                  Tree[f][p] = o.block => f = o.file /\ p = SubSeq(o.path, 1, o.level - 1)
        BY <1>8, <1>9, <1>14, <3>1 DEF LookRight
      <4>2. o.block # v
        BY <1>9, <1>14, <3>1
      <4> QED
        BY <1>1, <1>10, <1>14, <4>1, <4>2 DEF LookRight, SameCall
    <3> QED
      BY <3>1 DEF LookRight, Looking
  <2>2. WalkView(Tree', n, "look")
    <3> SUFFICES ASSUME ~ n.overlap, n.level > 1
                 PROVE  Tree'[n.file][SubSeq(n.path, 1, n.level - 1)] = n.block
      BY DEF WalkView, Looking
    <3>1. /\ ~ op[t].overlap /\ n.file = g /\ n.path = o.path /\ n.level = o.level /\ o.level > 1
      BY <1>4, <1>6, <1>14 DEF SameCall
    <3>2. Tree[g][Parent(o)] = o.block
      BY <1>1, <1>4, <1>6, <3>1, EntryView
    <3>3. o.path \in Path /\ o.level \in 1 .. Len(o.path) /\ Len(o.path) \in Nat
      BY <1>2, <1>4, PathsAreSeqs DEF Walker
    <3>4. PICK q \in Path : q = SubSeq(o.path, 1, o.level - 1) /\ q = Parent(o)
      BY <3>1, <3>3, WayDown DEF Parent
    <3>5. Len(h) = o.level
      BY <1>7, <3>3, WayDown DEF Here
    <3>6. Len(q) = o.level - 1
      <4>1. PICK k : k = o.level - 1
        OBVIOUS
      <4>2. k \in 1 .. Len(o.path)
        BY <3>1, <3>3, <4>1
      <4> QED
        BY <3>3, <3>4, <4>1, <4>2, WayDown
    <3>7. q # h
      BY <3>3, <3>5, <3>6
    <3>8. Tree'[g][q] = Tree[g][q]
      BY <1>10, <3>4, <3>7
    <3>9. q = SubSeq(n.path, 1, n.level - 1)
      BY <3>1, <3>4
    <3>10. Tree'[g][q] = n.block
      BY <1>14, <3>2, <3>4, <3>8
    <3> QED
      BY <3>1, <3>9, <3>10
  <2> QED
    BY <1>14, <1>15, <2>1, <2>2 DEF Fits, Walker, NewRight, TruncView
<1>18. ASSUME NEW u \in Busy \ {t}
       PROVE  Fits(Tree', zmap', lost', op[u], stage[u]) /\ Apart(n, "look", op[u]) /\ Apart(op[u], stage[u], n)
  <2>1. PICK w \in Op : w = op[u]
    BY BusyFits
  <2>2. Fits(Tree, zmap, lost, w, stage[u]) /\ (Walker(w, stage[u]) \/ Truncator(w, stage[u]))
    BY <2>1, BusyFits
  <2>3. Apart(o, "new", w) /\ Apart(w, stage[u], o)
    BY <1>1, <1>2, <1>4, <2>1 DEF ByCalls, AllApart
  <2>4. NewRight(Tree', zmap', w)
    <3>1. NewRight(Tree, zmap, w)
      BY <2>2 DEF Fits
    <3>2. w.new # 0 => w.new # v
      BY <1>5, <2>3 DEF Apart
    <3> QED
      BY <1>1, <1>10, <3>1, <3>2 DEF NewRight
  <2>5. LookRight(Tree', zmap', w, stage[u])
    <3>1. LookRight(Tree, zmap, w, stage[u])
      BY <2>2 DEF Fits
    <3>2. w.what # "truncate" /\ Looking(w, stage[u]) => w.block # v
      BY <1>5, <2>3 DEF Apart
    <3> QED
      BY <1>1, <1>10, <3>1, <3>2 DEF LookRight
  <2>6. WalkView(Tree', w, stage[u]) /\ TruncView(Tree', w, stage[u], lost')
    <3>1. WalkView(Tree, w, stage[u]) /\ TruncView(Tree, w, stage[u], lost)
      BY <2>2 DEF Fits
    <3>2. CASE w.file # g \/ w.overlap
      <4>1. ~ w.overlap => \A p \in Path : Tree'[w.file][p] = Tree[w.file][p]
        <5>1. w.file \in File
          BY OpIs
        <5> QED
          BY <1>10, <3>2, <5>1
      <4>2. lost \subseteq lost'
        BY <1>1
      <4> QED
        BY <2>2, <3>1, <4>1, <4>2, ViewElsewhere
    <3>3. CASE w.file = g /\ ~ w.overlap
      <4>1. w.what # "truncate" /\ w.what # "write"
        BY <1>2, <1>4, <1>6, <1>8, <2>1, <3>3, OtherFile
      <4>2. WalkShape(w, stage[u]) /\ w.path \in Path /\ w.level \in 1 .. Len(w.path)
        BY <2>2, <4>1 DEF Walker, Truncator
      <4>3. stage[u] # "new"
        BY <4>1, <4>2 DEF WalkShape
      <4>4. \A p \in Path : Tree[g][p] # 0 => Tree'[g][p] = Tree[g][p]
        BY <1>10
      <4>5. /\ SubSeq(w.path, 1, w.level) \in Path
            /\ w.level > 1 => SubSeq(w.path, 1, w.level - 1) \in Path
        BY <4>2, WayDown
      <4>6. stage[u] \in {"getblk", "read"} \/ w.level > 1 => w.block # 0
        BY <4>1, <4>2 DEF WalkShape
      <4>7. WalkView(Tree', w, stage[u])
        BY <3>1, <3>3, <4>1, <4>3, <4>4, <4>5, <4>6 DEF WalkView, Looking
      <4> QED
        BY <4>1, <4>7 DEF TruncView
    <3> QED
      BY <3>2, <3>3
  <2>7. Apart(w, stage[u], n)
    BY <1>14, <2>1, ApartZero
  <2>8. Apart(n, "look", w)
    BY <1>8, <1>14, <1>15, <2>3 DEF Apart, Looking
  <2> QED
    BY <2>1, <2>2, <2>4, <2>5, <2>6, <2>7, <2>8 DEF Fits
<1>19. SelfApart(n, "look")
  BY <1>2, <1>14 DEF SelfApart, Walker, WalkShape, Looking
<1>20. ZonesRight'
  BY <1>1, <1>2, <1>4, <1>12, <1>14, <1>15, <1>16, <1>17, <1>18, <1>19, GoesOnRight
<1> QED
  BY <1>3, <1>20
-----------------------------------------------------------------------------
(***************************************************************************)
(* Freeing a block, and the end of truncate.                                *)
(***************************************************************************)
LEMMA PrefixOfItself == \A p \in Path : IsPrefix(p, p)
  BY PathsAreSeqs, PrefixIs

LEMMA FreeDealt ==
    ASSUME NEW o, Truncator(o, "free"), NEW n, NEW m, Pops(o, n, m), NEW q, q = PathOf(o, m)
    PROVE  /\ \A k \in 1 .. m - 1 : PathOf(n, k) = PathOf(o, k)
           /\ \A p \in Path : /\ Dealt(o, p) => Dealt(n, p)
                              /\ Dealt(n, p) => Dealt(o, p) \/ IsPrefix(q, p)
           /\ Dealt(n, q)
<1>1. /\ n.zone = o.zone /\ m = Len(o.stack) /\ o.stack # << >> /\ Len(n.stack) = m - 1
      /\ n.stack = << >> <=> m = 1
      /\ \A k \in 1 .. m - 1 : n.stack[k] = o.stack[k]
  BY DEF Pops
<1>2. /\ m \in Nat /\ m >= 1 /\ o.zone - 1 \in Zone
      /\ \A k \in 1 .. m : o.stack[k].index \in Nat
      /\ \A k \in 1 .. m - 1 : o.stack[k].index \in 2 .. PER_BLOCK + 1
  BY <1>1, TopFrame
<1>3. ASSUME NEW k \in 1 .. m - 1 PROVE PathOf(n, k) = PathOf(o, k)
  <2>1. \A j \in 1 .. k - 1 : j \in 1 .. m - 1
    BY <1>2
  <2>2. \A j \in 1 .. k - 1 : n.stack[j].index = o.stack[j].index
    BY <1>1, <2>1
  <2>3. k \in Nat
    BY <1>2
  <2> QED
    BY <1>1, <2>2, <2>3, SamePathOf
<1>4. o \in Op /\ o.what = "truncate" /\ TruncShape(o, "free")
  BY DEF Truncator
<1>5. /\ q \in Path /\ Len(q) = m /\ q[1] = o.zone - 1
      /\ \A k \in 2 .. m : q[k] = o.stack[k - 1].index - 1
  <2>1. m \in 1 .. Len(o.stack)
    BY <1>1, <1>2
  <2> QED
    BY <1>1, <1>4, <2>1, PathOfIs
<1>6. ASSUME NEW p \in Path PROVE p \in Seq(Nat) /\ Len(p) \in Nat /\ Len(p) >= 1 /\ \A k \in 1 .. Len(p) : p[k] \in Nat
  BY PathsAreSeqs
<1>7. ASSUME NEW p \in Path PROVE IsPrefix(q, p) <=> m <= Len(p) /\ \A k \in 1 .. m : q[k] = p[k]
  BY <1>5, <1>6, PrefixIs
<1> DEFINE Reads(x, k, p) == k < Len(p) /\ IsPrefix(PathOf(x, k), p) /\ p[k + 1] < UpTo(x, k)
<1>8. \A p : Dealt(o, p) <=> p[1] < o.zone - 1 \/ \E k \in 1 .. m : Reads(o, k, p)
  BY <1>1 DEF Dealt
<1>9. \A p : Dealt(n, p) <=> \/ p[1] < o.zone - 1
                             \/ m = 1 /\ p[1] = o.zone - 1
                             \/ \E k \in 1 .. m - 1 : Reads(n, k, p)
  BY <1>1 DEF Dealt
<1>10. \A p : Reads(o, m, p) => IsPrefix(q, p)
  OBVIOUS
<1>11. \A k \in 1 .. m - 2 : UpTo(n, k) = UpTo(o, k)
  <2> SUFFICES ASSUME NEW k \in 1 .. m - 2 PROVE UpTo(n, k) = UpTo(o, k)
    OBVIOUS
  <2>1. k < Len(n.stack) /\ k < Len(o.stack) /\ k \in 1 .. m - 1
    BY <1>1, <1>2
  <2> QED
    BY <1>1, <2>1 DEF UpTo
<1>12. ASSUME NEW k \in 1 .. m - 2, NEW p PROVE Reads(n, k, p) <=> Reads(o, k, p)
  <2>1. k \in 1 .. m - 1
    BY <1>2
  <2>2. PathOf(n, k) = PathOf(o, k) /\ UpTo(n, k) = UpTo(o, k)
    BY <1>3, <1>11, <2>1
  <2> QED
    BY <2>2, Zenon
<1>13. ASSUME m > 1, NEW p \in Path PROVE Reads(n, m - 1, p) <=> Reads(o, m - 1, p) \/ IsPrefix(q, p)
  <2>1. PICK j \in Nat : j = m - 1
    BY <1>2
  <2>2. j >= 1 /\ j \in 1 .. m - 1 /\ j \in 1 .. m /\ m = j + 1 /\ m \in 2 .. m
    BY <1>2, <1>13, <2>1
  <2>3. PICK i \in Nat : i = o.stack[j].index - 1 /\ o.stack[j].index = i + 1
    BY <1>2, <2>2
  <2>4. UpTo(o, j) = i
    BY <1>1, <2>2, <2>3 DEF UpTo
  <2>5. UpTo(n, j) = i + 1
    <3>1. Len(n.stack) = j /\ n.stack[j] = o.stack[j] /\ ~ (j < j)
      BY <1>1, <2>1, <2>2
    <3>2. UpTo(n, j) = n.stack[j].index
      BY <3>1 DEF UpTo
    <3> QED
      BY <2>3, <3>1, <3>2
  <2>6. PICK r : r = PathOf(o, j)
    OBVIOUS
  <2>7. PathOf(n, j) = r
    BY <1>3, <2>2, <2>6
  <2>8. /\ r \in Path /\ Len(r) = j /\ r[1] = o.zone - 1
        /\ \A k \in 2 .. j : r[k] = o.stack[k - 1].index - 1
    <3>1. j \in 1 .. Len(o.stack)
      BY <1>1, <2>2
    <3> QED
      BY <1>1, <1>4, <2>6, <3>1, PathOfIs
  <2>9. q[m] = i
    <3>1. q[m] = o.stack[m - 1].index - 1
      BY <1>5, <2>2
    <3> QED
      BY <2>1, <2>3, <3>1
  <2>10. \A k \in 1 .. j : r[k] = q[k]
    <3> SUFFICES ASSUME NEW k \in 1 .. j PROVE r[k] = q[k]
      OBVIOUS
    <3>1. CASE k = 1
      BY <1>5, <2>8, <3>1
    <3>2. CASE k # 1
      <4>1. k \in 2 .. j /\ k \in 2 .. m
        BY <2>2, <3>2
      <4> QED
        BY <1>5, <2>8, <4>1
    <3> QED
      BY <3>1, <3>2
  <2>11. IsPrefix(r, p) <=> j <= Len(p) /\ \A k \in 1 .. j : r[k] = p[k]
    BY <1>6, <2>8, PrefixIs
  <2>12. IsPrefix(q, p) <=> j < Len(p) /\ IsPrefix(r, p) /\ p[j + 1] = i
    <3>1. \A k \in 1 .. m : k = m \/ k \in 1 .. j
      BY <2>2
    <3>2. \A k \in 1 .. j : k \in 1 .. m
      BY <2>2
    <3>3. m \in 1 .. m
      BY <2>2
    <3>4. m <= Len(p) <=> j < Len(p)
      BY <1>6, <2>2
    <3>5. (\A k \in 1 .. m : q[k] = p[k]) <=> (\A k \in 1 .. j : r[k] = p[k]) /\ p[m] = i
      BY <2>9, <2>10, <3>1, <3>2, <3>3
    <3>6. j < Len(p) => j <= Len(p)
      BY <1>6
    <3> QED
      BY <1>7, <2>2, <2>11, <3>4, <3>5, <3>6
  <2>13. j < Len(p) => p[j + 1] \in Nat
    BY <1>6
  <2>14. j < Len(p) => (p[j + 1] < i + 1 <=> p[j + 1] < i \/ p[j + 1] = i)
    BY <2>13
  <2>15. Reads(n, j, p) <=> Reads(o, j, p) \/ IsPrefix(q, p)
    BY <2>4, <2>5, <2>6, <2>7, <2>12, <2>14
  <2> QED
    BY <2>1, <2>15
<1>14. ASSUME m = 1, NEW p \in Path PROVE IsPrefix(q, p) <=> p[1] = o.zone - 1
  <2>1. \A k \in 1 .. 1 : k = 1
    OBVIOUS
  <2>2. 1 <= Len(p)
    BY <1>6
  <2> QED
    BY <1>5, <1>7, <1>14, <2>1, <2>2
<1> HIDE DEF Reads
<1>15. ASSUME NEW p \in Path
       PROVE  /\ Dealt(o, p) => Dealt(n, p)
              /\ Dealt(n, p) <=> Dealt(o, p) \/ IsPrefix(q, p)
  <2>1. CASE m = 1
    <3>1. ~ \E k \in 1 .. m - 1 : TRUE
      BY <2>1
    <3>2. \A k \in 1 .. m : k = m
      BY <2>1
    <3> QED
      BY <1>8, <1>9, <1>10, <1>14, <2>1, <3>1, <3>2
  <2>2. CASE m # 1
    <3>1. m > 1 /\ m - 1 \in 1 .. m - 1 /\ m - 1 \in 1 .. m /\ m \in 1 .. m
      BY <1>2, <2>2
    <3>2. \A k \in 1 .. m : k = m \/ k = m - 1 \/ k \in 1 .. m - 2
      BY <1>2
    <3>3. \A k \in 1 .. m - 1 : k = m - 1 \/ k \in 1 .. m - 2
      BY <1>2
    <3>4. \A k \in 1 .. m - 2 : k \in 1 .. m - 1 /\ k \in 1 .. m
      BY <1>2
    <3>5. Reads(n, m - 1, p) <=> Reads(o, m - 1, p) \/ IsPrefix(q, p)
      BY <1>13, <3>1
    <3>6. (\E k \in 1 .. m - 1 : Reads(n, k, p)) <=> (\E k \in 1 .. m : Reads(o, k, p)) \/ IsPrefix(q, p)
      BY <1>10, <1>12, <3>1, <3>2, <3>3, <3>4, <3>5
    <3> QED
      BY <1>8, <1>9, <2>2, <3>6
  <2> QED
    BY <2>1, <2>2
<1>16. Dealt(n, q)
  BY <1>5, <1>15, PrefixOfItself
<1> QED
  BY <1>3, <1>15, <1>16

LEMMA FreeTypes ==
    ASSUME ZonesTypeOK, NEW t \in Caller, Truncator(op[t], "free"), FreeBlock(t)
    PROVE  ZonesTypeOK'
<1>1. /\ ptr' = ptr /\ lost' = lost /\ since' = since /\ wrong' = wrong
      /\ zmap' = zmap \ {op[t].block}
  BY DEF FreeBlock, ghost, Unmarked
<1>2. i_zone' \in [File -> [Zone -> Block \cup {0}]]
  <2>1. PICK f \in File : f = op[t].file
    BY OpIs DEF Truncator
  <2>2. PICK z : z = op[t].zone - 1
    OBVIOUS
  <2>3. i_zone' = IF Depth[z] = 0 THEN [i_zone EXCEPT ![f][z] = 0] ELSE i_zone
    BY <2>1, <2>2 DEF FreeBlock
  <2>4. i_zone[f] \in [Zone -> Block \cup {0}]
    BY DEF ZonesTypeOK
  <2>5. [i_zone[f] EXCEPT ![z] = 0] \in [Zone -> Block \cup {0}]
    BY <2>4
  <2>6. [i_zone EXCEPT ![f][z] = 0] = [i_zone EXCEPT ![f] = [i_zone[f] EXCEPT ![z] = 0]]
    OBVIOUS
  <2>7. [i_zone EXCEPT ![f] = [i_zone[f] EXCEPT ![z] = 0]] \in [File -> [Zone -> Block \cup {0}]]
    BY <2>5 DEF ZonesTypeOK
  <2> QED
    BY <2>3, <2>6, <2>7 DEF ZonesTypeOK
<1>3. PICK n : n = FreesTo(t)
  OBVIOUS
<1>4. Truncator(n, "next")
  BY <1>3, FreesShape
<1>5. n \in Op /\ n.path = << >>
  BY <1>4 DEF Truncator, TruncShape
<1>6. Moves(t, n, "next")
  BY <1>3, TruncMoves
<1>7. zmap' \subseteq Block /\ lost' \subseteq Block /\ ptr' \in [Block -> [Index -> Block \cup {0}]]
  BY <1>1 DEF ZonesTypeOK
<1> QED
  BY <1>1, <1>2, <1>5, <1>6, <1>7, TypeMoves

LEMMA FreesRight ==
    ASSUME ZonesTypeOK, ZonesRight, NEW t \in Caller, FreeBlock(t)
    PROVE  ZonesTypeOK' /\ ZonesRight'
<1>1. PICK b : b = op[t].block
  OBVIOUS
<1>2. /\ stage[t] = "free" /\ ~ HeldByOthers(t, b) /\ b \in zmap /\ ~ Stale(t)
      /\ ptr' = ptr /\ lost' = lost /\ since' = since /\ wrong' = wrong /\ zmap' = zmap \ {b}
  BY <1>1 DEF FreeBlock, ghost, Unmarked, Resumes
<1>3. /\ t \in Busy /\ op[t] \in Op /\ op[t].what = "truncate" /\ Fits(Tree, zmap, lost, op[t], "free")
      /\ Truncator(op[t], "free") /\ ByCalls
  BY <1>2, AtLabel, RightByCalls
<1>4. ZonesTypeOK'
  BY <1>3, FreeTypes
<1>5. PICK o \in Op : o = op[t]
  BY <1>3
<1>6. PICK g \in File : g = o.file
  BY OpIs
<1>7. PICK m : m = Len(o.stack)
  OBVIOUS
<1>8. Truncator(o, "free") /\ o.what = "truncate" /\ o.stack # << >> /\ TruncShape(o, "free")
  BY <1>3, <1>5 DEF Truncator, TruncShape
<1>9. /\ m \in Nat /\ m >= 1 /\ o.block = o.stack[m].block
      /\ o.stack[m].index = 0 \/ o.stack[m].index = PER_BLOCK + 1
  BY <1>7, <1>8, TopFrame
<1>10. PICK q : q = PathOf(o, m)
  OBVIOUS
<1>11. q \in Path /\ Len(q) = m /\ TopPath(t) = q
  <2>1. m \in 1 .. Len(o.stack)
    BY <1>7, <1>9
  <2> QED
    BY <1>5, <1>7, <1>8, <1>10, <2>1, PathOfIs, TopIs
<1>12. b = Tree[g][q] /\ b # 0
  <2>1. b = BlockAt(g, q)
    BY <1>1, <1>2, <1>3, <1>5, <1>6, <1>11 DEF Stale, Place, Truncates
  <2>2. b \in Block
    BY <1>2 DEF ZonesTypeOK
  <2> QED
    BY <1>11, <2>1, <2>2, Blocks DEF Tree
<1>13. \A f \in File : \A p \in Path :
          Tree'[f][p] = IF f = g /\ IsPrefix(q, p) THEN 0 ELSE Tree[f][p]
  BY <1>3, <1>4, <1>5, <1>6, <1>11, FreesTree
<1>14. IsPrefix(q, q)
  BY <1>11, PrefixOfItself
<1>15. OnePlace(Tree') /\ AllMarked(Tree', zmap')
  <2>1. OnePlace(Tree) /\ AllMarked(Tree, zmap)
    BY <1>3 DEF ByCalls
  <2>2. OnePlace(Tree')
    BY <1>13, <2>1 DEF OnePlace
  <2>3. ASSUME NEW f \in File, NEW p \in Path PROVE Tree'[f][p] \in zmap' \cup {0}
    <3>1. CASE f = g /\ IsPrefix(q, p)
      BY <1>13, <3>1
    <3>2. CASE ~ (f = g /\ IsPrefix(q, p))
      <4>1. Tree'[f][p] = Tree[f][p]
        BY <1>13, <3>2
      <4>2. Tree[f][p] # b
        BY <1>11, <1>12, <1>14, <2>1, <3>2 DEF OnePlace
      <4> QED
        BY <1>2, <2>1, <4>1, <4>2 DEF AllMarked
    <3> QED
      BY <3>1, <3>2
  <2> QED
    BY <2>2, <2>3 DEF AllMarked
<1>16. PICK n : n = FreesTo(t)
  OBVIOUS
<1>17. /\ Truncator(n, "next") /\ SameCall(o, n) /\ n.new = 0
       /\ n.freed = (IF Depth[o.zone - 1] = 0 THEN o.freed ELSE o.freed \cup {q})
       /\ n.holds = o.holds \ {b} /\ Pops(o, n, m)
  <2>1. PICK k : k = Len(op[t].stack)
    OBVIOUS
  <2>2. /\ Truncator(n, "next") /\ SameCall(op[t], n) /\ n.new = 0 /\ Pops(op[t], n, k)
        /\ n.freed = (IF Depth[op[t].zone - 1] = 0 THEN op[t].freed ELSE op[t].freed \cup {TopPath(t)})
        /\ n.holds = op[t].holds \ {op[t].block}
    BY <1>3, <1>16, <2>1, FreesShape
  <2> QED
    BY <1>1, <1>5, <1>7, <1>11, <2>1, <2>2
<1>18. Moves(t, n, "next") /\ n \in Op /\ n # NoOp /\ n.what = "truncate"
  BY <1>16, <1>17, TruncMoves, OpIs DEF Truncator
<1>19. /\ \A k \in 1 .. m - 1 : PathOf(n, k) = PathOf(o, k)
       /\ \A p \in Path : /\ Dealt(o, p) => Dealt(n, p)
                          /\ Dealt(n, p) => Dealt(o, p) \/ IsPrefix(q, p)
       /\ Dealt(n, q)
  BY <1>8, <1>10, <1>17, FreeDealt
<1>20. TruncView(Tree, o, "free", lost)
  BY <1>3, <1>5 DEF Fits
<1>21. NoLeak'
  <2> SUFFICES ASSUME since = 0, NEW x \in zmap' PROVE x \in Used' \/ x \in lost
    BY <1>2 DEF NoLeak
  <2>1. x \in zmap /\ x # b /\ x # 0
    BY <1>2, Blocks DEF ZonesTypeOK
  <2>2. ~ o.overlap
    BY <1>3, <1>5 DEF ByCalls, SinceRight
  <2>3. x \in Used \/ x \in lost
    BY <1>3, <2>1 DEF ByCalls, NoLeak
  <2>4. x \in Used' <=> \/ \E f \in File : \E p \in Path : Tree'[f][p] = x
                        \/ \E u \in Busy' : op'[u].new = x
    BY <2>1, UsedThen
  <2>5. CASE \E u \in Busy : op[u].new = x
    <3>1. PICK u \in Busy : op[u].new = x
      BY <2>5
    <3>2. u # t
      BY <1>5, <1>8, <2>1, <3>1 DEF TruncShape
    <3>3. u \in Busy' /\ op'[u] = op[u]
      BY <1>18, <3>2, MovesTo DEF Busy
    <3> QED
      BY <2>4, <3>1, <3>3
  <2>6. CASE \E f \in File : \E p \in Path : Tree[f][p] = x
    <3>1. PICK f \in File, p \in Path : Tree[f][p] = x
      BY <2>6
    <3>2. CASE ~ (f = g /\ IsPrefix(q, p))
      <4>1. Tree'[f][p] = x
        BY <1>13, <3>1, <3>2
      <4> QED
        BY <2>4, <4>1
    <3>3. CASE f = g /\ IsPrefix(q, p)
      <4>1. p \in Seq(Nat) /\ q \in Seq(Nat) /\ Len(p) \in Nat
        BY <1>11, PathsAreSeqs
      <4>2. m <= Len(p) /\ SubSeq(p, 1, m) = q
        BY <1>11, <3>3, <4>1, PrefixIs
      <4>3. m # Len(p)
        <5>1. ASSUME m = Len(p) PROVE p = q
          <6>1. \A k \in 1 .. m : q[k] = p[k]
            BY <1>11, <3>3, <4>1, PrefixIs
          <6> QED
            BY <1>11, <4>1, <5>1, <6>1, SeqEqual
        <5> QED
          BY <1>12, <2>1, <3>1, <3>3, <5>1
      <4>4. m < Len(p)
        BY <1>9, <4>1, <4>2, <4>3
      <4>5. CASE o.stack[m].index = 0
        <5>1. Tree[g][p] \in lost \cup {0}
          BY <1>7, <1>8, <1>10, <1>20, <2>2, <3>3, <4>4, <4>5, <1>6 DEF TruncView
        <5> QED
          BY <2>1, <3>1, <3>3, <5>1
      <4>6. CASE o.stack[m].index = PER_BLOCK + 1
        <5>1. m + 1 \in 2 .. Len(p)
          BY <1>9, <4>1, <4>4
        <5>2. p[m + 1] \in Index
          BY <5>1, PathIs DEF PathLike
        <5>3. UpTo(o, m) = PER_BLOCK + 1
          BY <1>7, <4>6, <1>9 DEF UpTo
        <5>4. p[m + 1] < UpTo(o, m)
          BY <5>2, <5>3, Blocks DEF Index
        <5>5. m \in 1 .. Len(o.stack)
          BY <1>7, <1>9
        <5>6. Dealt(o, p)
          BY <1>10, <3>3, <4>4, <5>4, <5>5 DEF Dealt
        <5>7. Tree[g][p] = 0
          BY <1>6, <1>8, <1>20, <2>2, <5>6 DEF TruncView
        <5> QED
          BY <2>1, <3>1, <3>3, <5>7
      <4> QED
        BY <1>9, <4>5, <4>6
    <3> QED
      BY <3>2, <3>3
  <2>7. x \in Used => \/ \E f \in File : \E p \in Path : Tree[f][p] = x
                      \/ \E u \in Busy : op[u].new = x
    BY UsedHas
  <2> QED
    BY <2>3, <2>5, <2>6, <2>7
<1>22. TruncView(Tree', n, "next", lost')
  <2> SUFFICES ASSUME ~ n.overlap
               PROVE  /\ \A k \in 1 .. Len(n.stack) : Tree'[n.file][PathOf(n, k)] = n.stack[k].block
                      /\ \A x \in n.holds : \E k \in 1 .. Len(n.stack) : x = n.stack[k].block
                      /\ \A p \in n.freed : Dealt(n, p)
                      /\ \A p \in Path : Dealt(n, p) => Tree'[n.file][p] = 0
    BY DEF TruncView
  <2>1. ~ o.overlap /\ n.file = g
    BY <1>6, <1>17 DEF SameCall
  <2>2. /\ \A k \in 1 .. m : Tree[g][PathOf(o, k)] = o.stack[k].block
        /\ \A x \in o.holds : \E k \in 1 .. m : x = o.stack[k].block
        /\ \A p \in o.freed : Dealt(o, p)
        /\ \A p \in Path : Dealt(o, p) => Tree[g][p] = 0
    BY <1>6, <1>7, <1>8, <1>20, <2>1 DEF TruncView
  <2>3. Len(n.stack) = m - 1 /\ \A k \in 1 .. m - 1 : n.stack[k] = o.stack[k]
    BY <1>17 DEF Pops
  <2>4. ASSUME NEW k \in 1 .. m - 1 PROVE Tree'[g][PathOf(n, k)] = n.stack[k].block
    <3>1. k \in 1 .. m
      BY <1>9
    <3>2. PICK r : r = PathOf(o, k)
      OBVIOUS
    <3>3. r \in Path /\ Len(r) = k
      BY <1>7, <1>8, <3>1, <3>2, PathOfIs
    <3>4. ~ IsPrefix(q, r)
      <4>1. q \in Seq(Nat) /\ r \in Seq(Nat)
        BY <1>11, <3>3, PathsAreSeqs
      <4>2. IsPrefix(q, r) => m <= k
        BY <1>11, <3>3, <4>1, PrefixIs
      <4> QED
        BY <1>9, <4>2
    <3>5. Tree'[g][r] = Tree[g][r]
      BY <1>13, <3>3, <3>4
    <3> QED
      BY <1>19, <2>2, <2>3, <3>1, <3>2, <3>5
  <2>5. ASSUME NEW x \in n.holds PROVE \E k \in 1 .. m - 1 : x = n.stack[k].block
    <3>1. x \in o.holds /\ x # b
      BY <1>17
    <3>2. PICK k \in 1 .. m : x = o.stack[k].block
      BY <2>2, <3>1
    <3>3. k # m
      BY <1>1, <1>5, <1>9, <3>1, <3>2
    <3>4. k \in 1 .. m - 1
      BY <1>9, <3>2, <3>3
    <3> QED
      BY <2>3, <3>2, <3>4
  <2>6. \A p \in n.freed : Dealt(n, p)
    <3>1. o.freed \subseteq Path
      BY OpIs
    <3> QED
      BY <1>17, <1>19, <2>2, <3>1
  <2>7. \A p \in Path : Dealt(n, p) => Tree'[g][p] = 0
    BY <1>13, <1>19, <2>2
  <2> QED
    BY <2>1, <2>3, <2>4, <2>5, <2>6, <2>7
<1>23. Fits(Tree', zmap', lost', n, "next")
  BY <1>17, <1>18, <1>22 DEF Fits, Truncator, NewRight, LookRight, WalkView
<1>24. ASSUME NEW u \in Busy \ {t}
       PROVE  Fits(Tree', zmap', lost', op[u], stage[u]) /\ Apart(n, "next", op[u]) /\ Apart(op[u], stage[u], n)
  <2>1. PICK w \in Op : w = op[u]
    BY BusyFits
  <2>2. Fits(Tree, zmap, lost, w, stage[u]) /\ (Walker(w, stage[u]) \/ Truncator(w, stage[u]))
    BY <2>1, BusyFits
  <2>3. b \notin w.holds
    BY <1>2, <2>1 DEF HeldByOthers
  <2>4. NewRight(Tree', zmap', w)
    <3>1. NewRight(Tree, zmap, w)
      BY <2>2 DEF Fits
    <3>2. w.new # 0 => w.new # b
      BY <1>11, <1>12, <3>1 DEF NewRight
    <3>3. w.new # 0 => w.new \in zmap'
      BY <1>2, <3>1, <3>2 DEF NewRight
    <3>4. ASSUME w.new # 0, NEW f \in File, NEW p \in Path PROVE Tree'[f][p] # w.new
      <4>1. Tree[f][p] # w.new
        BY <3>1, <3>4 DEF NewRight
      <4>2. Tree'[f][p] = 0 \/ Tree'[f][p] = Tree[f][p]
        BY <1>13
      <4> QED
        BY <3>4, <4>1, <4>2
    <3> QED
      BY <3>3, <3>4 DEF NewRight
  <2>5. LookRight(Tree', zmap', w, stage[u])
    <3> SUFFICES ASSUME w.what # "truncate", Looking(w, stage[u])
                 PROVE  /\ w.block \in zmap'
                        /\ \A f \in File : \A p \in Path : Tree'[f][p] = w.block
                                => f = w.file /\ p = SubSeq(w.path, 1, w.level - 1)
      BY DEF LookRight
    <3>1. /\ w.block \in zmap
          /\ \A f \in File : \A p \in Path : Tree[f][p] = w.block
                  => f = w.file /\ p = SubSeq(w.path, 1, w.level - 1)
      BY <2>2 DEF Fits, LookRight
    <3>2. w.holds = {w.block} /\ w.block # 0
      BY <2>2 DEF Fits, WalkShape, Looking
    <3>3. \A f \in File : \A p \in Path : Tree'[f][p] = 0 \/ Tree'[f][p] = Tree[f][p]
      BY <1>13
    <3> QED
      BY <1>2, <2>3, <3>1, <3>2, <3>3
  <2>6. WalkView(Tree', w, stage[u]) /\ TruncView(Tree', w, stage[u], lost')
    <3>1. WalkView(Tree, w, stage[u]) /\ TruncView(Tree, w, stage[u], lost)
      BY <2>2 DEF Fits
    <3>2. ~ w.overlap => w.file # g /\ w.file \in File
      BY <1>3, <1>5, <1>6, <2>1, OtherFile, OpIs
    <3>3. ~ w.overlap => \A p \in Path : Tree'[w.file][p] = Tree[w.file][p]
      BY <1>13, <3>2
    <3>4. lost \subseteq lost'
      BY <1>2
    <3> QED
      BY <2>2, <3>1, <3>3, <3>4, ViewElsewhere
  <2>7. Apart(w, stage[u], n)
    BY <1>17, <2>1, ApartZero
  <2>8. Apart(n, "next", w)
    BY <1>17, <1>18 DEF Apart
  <2> QED
    BY <2>1, <2>2, <2>4, <2>5, <2>6, <2>7, <2>8 DEF Fits
<1>25. SelfApart(n, "next")
  BY <1>18 DEF SelfApart
<1>26. ZonesRight'
  BY <1>2, <1>3, <1>5, <1>15, <1>17, <1>18, <1>21, <1>23, <1>24, <1>25, GoesOnRight
<1> QED
  BY <1>4, <1>26

LEMMA TruncatedRight ==
    ASSUME ZonesTypeOK, ZonesRight, NEW t \in Caller, Truncated(t)
    PROVE  ZonesTypeOK' /\ ZonesRight'
<1>1. /\ stage[t] = "next" /\ op[t].stack = << >> /\ op[t].zone \notin Zone
      /\ ptr' = ptr /\ zmap' = zmap /\ lost' = lost /\ since' = since /\ wrong' = wrong
      /\ i_zone' = [i_zone EXCEPT ![op[t].file] = NoZones(@)]
  BY DEF Truncated, ghost, Resumes
<1>2. /\ t \in Busy /\ op[t] \in Op /\ op[t].what = "truncate" /\ Fits(Tree, zmap, lost, op[t], "next")
      /\ Truncator(op[t], "next") /\ ByCalls
  BY <1>1, AtLabel, RightByCalls
<1>3. Moves(t, NoOp, "user")
  BY WalkMoves
<1>4. PICK g \in File : g = op[t].file
  BY <1>2, OpIs
<1>5. ZonesTypeOK'
  <2>1. i_zone[g] \in [Zone -> Block \cup {0}]
    BY DEF ZonesTypeOK
  <2>2. NoZones(i_zone[g]) \in [Zone -> Block \cup {0}]
    BY <2>1 DEF NoZones
  <2>3. i_zone' \in [File -> [Zone -> Block \cup {0}]]
    BY <1>1, <1>4, <2>2 DEF ZonesTypeOK
  <2>4. zmap' \subseteq Block /\ lost' \subseteq Block /\ ptr' \in [Block -> [Index -> Block \cup {0}]]
    BY <1>1 DEF ZonesTypeOK
  <2> QED
    BY <1>1, <1>3, <2>3, <2>4, TypeMoves
<1>6. \A f \in File : \A p \in Path :
          Tree'[f][p] = IF f = g /\ Depth[p[1]] > 0 THEN 0 ELSE Tree[f][p]
  BY <1>2, <1>4, <1>5, TruncatedTree
<1>7. OnePlace(Tree') /\ AllMarked(Tree', zmap')
  <2>1. OnePlace(Tree) /\ AllMarked(Tree, zmap)
    BY <1>2 DEF ByCalls
  <2> QED
    BY <1>1, <1>6, <2>1 DEF OnePlace, AllMarked
<1>8. NoLeak'
  <2>1. CASE since # 0
    BY <1>1, <2>1 DEF NoLeak
  <2>2. CASE since = 0
    <3>1. ~ op[t].overlap
      BY <1>2, <2>2 DEF ByCalls, SinceRight
    <3>2. ASSUME NEW p \in Path PROVE Tree[g][p] = 0
      <4>1. p[1] \in Zone
        BY PathIs DEF PathLike
      <4>2. op[t].zone \in 1 .. Len(Depth) + 1
        BY <1>2 DEF Truncator, TruncShape
      <4>3. PICK z : z = op[t].zone
        OBVIOUS
      <4>4. z = Len(Depth) + 1
        BY <1>1, <4>2, <4>3, ZonesAre
      <4>5. p[1] < z - 1 \/ p[1] = z - 1
        BY <4>1, <4>4, ZonesAre
      <4>6. Dealt(op[t], p)
        BY <1>1, <4>3, <4>5 DEF Dealt
      <4> QED
        BY <1>2, <1>4, <3>1, <4>6 DEF Fits, TruncView
    <3>3. \A f \in File : \A p \in Path : Tree'[f][p] = Tree[f][p]
      BY <1>6, <3>2
    <3>4. op[t].new = 0
      BY <1>2 DEF Truncator, TruncShape
    <3>5. Busy' = Busy \ {t} /\ \A u \in Caller \ {t} : op'[u] = op[u]
      BY <1>3, MovesTo
    <3>6. \A u \in Busy : op[u].new # 0 => \E v \in Busy' : op'[v].new = op[u].new
      BY <3>4, <3>5 DEF Busy
    <3>7. NoLeak /\ lost \subseteq lost' /\ \A x \in zmap' : x \in zmap
      BY <1>1, <1>2 DEF ByCalls
    <3>8. \A x : (\E f \in File : \E p \in Path : Tree[f][p] = x)
                     => \E f \in File : \E p \in Path : Tree'[f][p] = x
      BY <3>3
    <3> QED
      BY <1>1, <1>5, <3>6, <3>7, <3>8, NoLeakKept
  <2> QED
    BY <2>1, <2>2
<1>9. ASSUME NEW u \in Busy \ {t} PROVE Fits(Tree', zmap', lost', op[u], stage[u])
  <2>1. PICK w \in Op : w = op[u]
    BY BusyFits
  <2>2. Fits(Tree, zmap, lost, w, stage[u]) /\ (Walker(w, stage[u]) \/ Truncator(w, stage[u]))
    BY <2>1, BusyFits
  <2>3. \A f \in File : \A p \in Path : Tree'[f][p] = 0 \/ Tree'[f][p] = Tree[f][p]
    BY <1>6
  <2>4. NewRight(Tree', zmap', w)
    BY <1>1, <2>2, <2>3 DEF Fits, NewRight
  <2>5. LookRight(Tree', zmap', w, stage[u])
    <3>1. w.what # "truncate" /\ Looking(w, stage[u]) => w.block # 0
      BY <2>2 DEF Fits, WalkShape, Looking
    <3> QED
      BY <1>1, <2>2, <2>3, <3>1 DEF Fits, LookRight
  <2>6. WalkView(Tree', w, stage[u]) /\ TruncView(Tree', w, stage[u], lost')
    <3>1. WalkView(Tree, w, stage[u]) /\ TruncView(Tree, w, stage[u], lost)
      BY <2>2 DEF Fits
    <3>2. ~ w.overlap => w.file # g /\ w.file \in File
      BY <1>2, <1>4, <2>1, OtherFile, OpIs
    <3>3. ~ w.overlap => \A p \in Path : Tree'[w.file][p] = Tree[w.file][p]
      BY <1>6, <3>2
    <3>4. lost \subseteq lost'
      BY <1>1
    <3> QED
      BY <2>2, <3>1, <3>3, <3>4, ViewElsewhere
  <2> QED
    BY <2>1, <2>2, <2>4, <2>5, <2>6 DEF Fits
<1>10. ZonesRight'
  BY <1>1, <1>3, <1>7, <1>8, <1>9, ReturnsRight
<1> QED
  BY <1>5, <1>10
-----------------------------------------------------------------------------
(***************************************************************************)
(* All that goes right.                                                     *)
(***************************************************************************)
LEMMA StepsRight ==
    ASSUME ZonesTypeOK, ZonesRight, NEW t \in Caller,
           \/ FindsHole(t) \/ Finds(t) \/ NoNewBlock(t) \/ NewBlock(t) \/ (Fills(t) /\ Entry(t) = 0)
           \/ BreadHolds(t) \/ ReadFails(t) \/ ReadsPointers(t) \/ UsesBlock(t)
           \/ ReadsBelow(t) \/ CannotReadBelow(t) \/ NextZone(t) \/ NextBelow(t) \/ BelowDone(t)
           \/ FreeBlock(t) \/ Truncated(t)
    PROVE  ZonesTypeOK' /\ ZonesRight'
<1>1. CASE FindsHole(t) \/ NoNewBlock(t) \/ ReadFails(t) \/ UsesBlock(t)
  BY <1>1, LeavingSteps
<1>2. CASE Finds(t)
  BY <1>2, FindsRight
<1>3. CASE NewBlock(t)
  BY <1>3, MarksRight
<1>4. CASE Fills(t) /\ Entry(t) = 0
  BY <1>4, FillsRight
<1>5. CASE BreadHolds(t)
  BY <1>5, HoldsRight, HoldsBelowRight
<1>6. CASE ReadsPointers(t)
  BY <1>6, DownRight
<1>7. CASE ReadsBelow(t)
  BY <1>7, BeginsBelowRight
<1>8. CASE CannotReadBelow(t)
  BY <1>8, CannotRight
<1>9. CASE NextZone(t)
  BY <1>9, NextZoneSkips, NextZoneBegins
<1>10. CASE NextBelow(t)
  BY <1>10, NextBelowSkips, NextBelowDescends
<1>11. CASE BelowDone(t)
  BY <1>11, EndsRight
<1>12. CASE FreeBlock(t)
  BY <1>12, FreesRight
<1>13. CASE Truncated(t)
  BY <1>13, TruncatedRight
<1> QED
  BY <1>1, <1>2, <1>3, <1>4, <1>5, <1>6, <1>7, <1>8, <1>9, <1>10, <1>11, <1>12, <1>13
-----------------------------------------------------------------------------
(***************************************************************************)
(* A call: what it makes of the others is that they may overlap.            *)
(***************************************************************************)
SameKinds(o, n) == \/ n = o
                   \/ o \in Op /\ n = [o EXCEPT !.overlap = TRUE]

LEMMA AlikeIs ==
    ASSUME NEW o \in Op, NEW n, SameKinds(o, n)
    PROVE  /\ n \in Op /\ n # NoOp /\ (o.overlap => n.overlap)
           /\ n.what = o.what /\ n.file = o.file /\ n.path = o.path /\ n.level = o.level
           /\ n.block = o.block /\ n.new = o.new /\ n.holds = o.holds /\ n.stack = o.stack
           /\ n.freed = o.freed /\ n.zone = o.zone
<1>1. n \in Op
  BY DEF SameKinds, Op
<1>2. n # NoOp
  BY <1>1, OpIs
<1> QED
  BY <1>1, <1>2 DEF SameKinds, Op

LEMMA AlikeFits ==
    ASSUME NEW T, NEW marks, NEW gone, NEW l, NEW o \in Op, NEW n, SameKinds(o, n), Fits(T, marks, gone, o, l)
    PROVE  Fits(T, marks, gone, n, l)
<1>1. /\ n \in Op /\ n # NoOp /\ (o.overlap => n.overlap)
      /\ n.what = o.what /\ n.file = o.file /\ n.path = o.path /\ n.level = o.level
      /\ n.block = o.block /\ n.new = o.new /\ n.holds = o.holds /\ n.stack = o.stack
      /\ n.freed = o.freed /\ n.zone = o.zone
  BY AlikeIs
<1>2. WalkShape(n, l) /\ TruncShape(n, l)
  <2>1. WalkShape(o, l) /\ TruncShape(o, l)
    BY DEF Fits
  <2>2. Looking(n, l) <=> Looking(o, l)
    BY <1>1 DEF Looking
  <2>3. WalkShape(n, l)
    BY <1>1, <2>1, <2>2 DEF WalkShape
  <2>4. FramesRight(o, l) => FramesRight(n, l)
    BY <1>1 DEF FramesRight
  <2> QED
    BY <1>1, <2>1, <2>3, <2>4 DEF TruncShape
<1>3. NewRight(T, marks, n) /\ LookRight(T, marks, n, l)
  BY <1>1 DEF Fits, NewRight, LookRight, Looking
<1>4. WalkView(T, n, l)
  BY <1>1 DEF Fits, WalkView, Looking
<1>5. TruncView(T, n, l, gone)
  <2>1. (\A k : PathOf(n, k) = PathOf(o, k)) /\ (\A p : Dealt(n, p) <=> Dealt(o, p))
    BY <1>1, SameDealt
  <2>2. TruncView(T, o, l, gone)
    BY DEF Fits
  <2> QED
    BY <1>1, <2>1, <2>2 DEF TruncView
<1> QED
  BY <1>2, <1>3, <1>4, <1>5 DEF Fits

\* What a call begins with.
Began(what, f, p, b) ==
    [what |-> what, file |-> f, path |-> p, level |-> 1, block |-> 0, new |-> 0, holds |-> {},
     stack |-> << >>, freed |-> {}, zone |-> 1, overlap |-> b]

\* What a call may begin as, and what is known of its locals n then.
MayBegin(what, p, l) == \/ what \in {"read", "write"} /\ p \in Position /\ l = "look"
                        \/ what = "truncate" /\ p = << >> /\ l = "next"

Begun(n, what, f, b, l) ==
    /\ n \in Op /\ n # NoOp /\ n.new = 0 /\ n.freed = {} /\ n.what = what /\ n.file = f /\ n.overlap = b
    /\ ~ Looking(n, l) /\ (n.path # << >> => n.level \in DOMAIN n.path)
    /\ \A T, marks, gone : Fits(T, marks, gone, n, l)

LEMMA BeganIs ==
    ASSUME NEW what, NEW f \in File, NEW p, NEW b \in BOOLEAN, NEW l, NEW n, n = Began(what, f, p, b),
           MayBegin(what, p, l)
    PROVE  Begun(n, what, f, b, l)
<1>0. \/ what \in {"read", "write"} /\ p \in Position /\ l = "look"
      \/ what = "truncate" /\ p = << >> /\ l = "next"
  BY DEF MayBegin
<1>1. /\ n.what = what /\ n.file = f /\ n.path = p /\ n.level = 1 /\ n.block = 0 /\ n.new = 0
      /\ n.holds = {} /\ n.stack = << >> /\ n.freed = {} /\ n.zone = 1 /\ n.overlap = b
  BY DEF Began
<1>2. n \in Op
  <2>1. << >> \in Seq(Frame) /\ {} \in SUBSET Block /\ {} \in SUBSET Path /\ p \in Position \cup {<< >>}
        /\ what \in {"read", "write", "truncate"}
    BY <1>0
  <2> QED
    BY <2>1 DEF Began, Op
<1>3. n # NoOp
  BY <1>2, OpIs
<1>4. ~ Looking(n, l)
  BY <1>0, <1>1 DEF Looking
<1>5. p # << >> => 1 \in DOMAIN p
  <2> SUFFICES ASSUME p # << >> PROVE 1 \in DOMAIN p
    OBVIOUS
  <2>1. p \in Path
    BY <1>0, PositionsArePaths
  <2>2. p \in Seq(Nat) /\ Len(p) >= 1 /\ Len(p) \in Nat
    BY <2>1, PathsAreSeqs
  <2> QED
    BY <2>2, LenProperties
<1>6. ASSUME NEW T, NEW marks, NEW gone PROVE Fits(T, marks, gone, n, l)
  <2>1. WalkShape(n, l)
    BY <1>0, <1>1, <1>4 DEF WalkShape
  <2>2. TruncShape(n, l)
    BY <1>0, <1>1, ZonesAre DEF TruncShape
  <2>3. NewRight(T, marks, n) /\ LookRight(T, marks, n, l)
    BY <1>1, <1>4 DEF NewRight, LookRight
  <2>4. WalkView(T, n, l)
    BY <1>0, <1>1, <1>4 DEF WalkView
  <2>5. TruncView(T, n, l, gone)
    <3>1. Len(n.stack) = 0
      BY <1>1
    <3>2. \A q \in Path : ~ Dealt(n, q)
      <4> SUFFICES ASSUME NEW q \in Path PROVE ~ Dealt(n, q)
        OBVIOUS
      <4>1. q[1] \in Zone
        BY PathIs DEF PathLike
      <4>2. q[1] \in Nat /\ q[1] >= 1
        BY <4>1, Depths
      <4> QED
        BY <1>1, <3>1, <4>2 DEF Dealt
    <3> QED
      BY <1>0, <1>1, <3>1, <3>2 DEF TruncView
  <2> QED
    BY <2>1, <2>2, <2>3, <2>4, <2>5 DEF Fits
<1> QED
  BY <1>1, <1>2, <1>3, <1>4, <1>5, <1>6 DEF Begun

Makes(t, what, f, p, others, n) ==
    /\ others = {u \in Busy : op[u].file = f /\ Conflict(what, op[u].what)}
    /\ n = Began(what, f, p, others # {})
    /\ op' = [u \in Caller |-> CASE u = t -> n
                              [] u \in others -> [op[u] EXCEPT !.overlap = TRUE]
                              [] OTHER -> op[u]]
    /\ since' = IF since > 0 \/ others # {} THEN since + 1 ELSE 0

LEMMA CallMakes ==
    ASSUME NEW t, NEW what, NEW f, NEW p, NEW label, Call(t, what, f, p, label)
    PROVE  \E others, n : Makes(t, what, f, p, others, n)
<1> DEFINE others == {u \in Busy : op[u].file = f /\ Conflict(what, op[u].what)}
<1> DEFINE n == Began(what, f, p, others # {})
<1>1. op' = [u \in Caller |-> CASE u = t -> n
                            [] u \in others -> [op[u] EXCEPT !.overlap = TRUE]
                            [] OTHER -> op[u]]
  BY Zenon DEF Call, Began
<1>2. since' = IF since > 0 \/ others # {} THEN since + 1 ELSE 0
  BY Zenon DEF Call
<1>3. others = {u \in Busy : op[u].file = f /\ Conflict(what, op[u].what)} /\ n = Began(what, f, p, others # {})
  OBVIOUS
<1> HIDE DEF others, n
<1>4. Makes(t, what, f, p, others, n)
  BY <1>1, <1>2, <1>3, Zenon DEF Makes
<1> QED
  BY <1>4

LEMMA CallRight ==
    ASSUME ZonesTypeOK, ZonesRight, NEW t \in Caller, NEW what, NEW f \in File, NEW p, NEW label,
           \/ what \in {"read", "write"} /\ p \in Position /\ label = "look"
           \/ what = "truncate" /\ p = << >> /\ label = "next",
           Call(t, what, f, p, label)
    PROVE  ZonesTypeOK' /\ ZonesRight'
<1>0. PICK others, n : Makes(t, what, f, p, others, n)
  BY CallMakes, Zenon
<1>1. /\ others = {u \in Busy : op[u].file = f /\ Conflict(what, op[u].what)}
      /\ n = Began(what, f, p, others # {})
      /\ op' = [u \in Caller |-> CASE u = t -> n
                                [] u \in others -> [op[u] EXCEPT !.overlap = TRUE]
                                [] OTHER -> op[u]]
      /\ since' = IF since > 0 \/ others # {} THEN since + 1 ELSE 0
  BY <1>0, Zenon DEF Makes
<1>2. n = Began(what, f, p, others # {})
  BY <1>1
<1>3. /\ stage[t] = "user" /\ since < MAX_SINCE
      /\ stage' = [stage EXCEPT ![t] = label] /\ running' = t
      /\ op' = [u \in Caller |-> IF u = t THEN n
                               ELSE IF u \in others THEN [op[u] EXCEPT !.overlap = TRUE] ELSE op[u]]
      /\ since' = IF since > 0 \/ others # {} THEN since + 1 ELSE 0
      /\ i_zone' = i_zone /\ ptr' = ptr /\ zmap' = zmap /\ lost' = lost /\ wrong' = wrong
  <2>2. t \notin others
    <3>1. UserRight /\ stage[t] = "user"
      BY DEF ZonesRight, Call
    <3> QED
      BY <1>1, <3>1 DEF UserRight, Busy
  <2>3. \A u \in Caller : (CASE u = t -> n
                           [] u \in others -> [op[u] EXCEPT !.overlap = TRUE]
                           [] OTHER -> op[u])
                        = IF u = t THEN n ELSE IF u \in others THEN [op[u] EXCEPT !.overlap = TRUE] ELSE op[u]
    BY <2>2
  <2>4. op' = [u \in Caller |-> IF u = t THEN n
                              ELSE IF u \in others THEN [op[u] EXCEPT !.overlap = TRUE] ELSE op[u]]
    BY <1>1, <2>3
  <2> QED
    BY <1>1, <2>4 DEF Call, GoesOn, disk
<1>4. /\ n \in Op /\ n # NoOp /\ n.new = 0 /\ n.freed = {} /\ n.what = what /\ n.file = f
      /\ n.overlap = (others # {})
      /\ ~ Looking(n, label) /\ (n.path # << >> => n.level \in DOMAIN n.path)
      /\ \A T, marks, gone : Fits(T, marks, gone, n, label)
  <2>1. PICK b \in BOOLEAN : b = (others # {})
    OBVIOUS
  <2>2. n = Began(what, f, p, b)
    BY <1>2, <2>1, Zenon
  <2>3. Begun(n, what, f, b, label)
    <3>1. MayBegin(what, p, label)
      BY Zenon DEF MayBegin
    <3> QED
      BY <2>2, <3>1, BeganIs
  <2> QED
    BY <2>1, <2>3, Zenon DEF Begun
<1>5. op[t] = NoOp /\ t \notin Busy /\ ByCalls
  BY <1>3, RightByCalls DEF ByCalls, UserRight, Busy
<1>6. /\ op'[t] = n /\ stage'[t] = label
      /\ \A u \in Caller \ {t} : /\ stage'[u] = stage[u]
                                 /\ op'[u] = IF u \in others THEN [op[u] EXCEPT !.overlap = TRUE] ELSE op[u]
  BY <1>3 DEF ZonesTypeOK
<1>7. ASSUME NEW u \in Busy
      PROVE  u \in Caller /\ u # t /\ op[u] \in Op /\ SameKinds(op[u], op'[u]) /\ stage'[u] = stage[u]
  <2>1. u \in Caller /\ u # t
    BY <1>5 DEF Busy
  <2>2. op[u] \in Op
    BY <2>1, BusyIs
  <2> QED
    BY <1>6, <2>1, <2>2 DEF SameKinds
<1>8. Busy' = Busy \cup {t}
  <2>1. ASSUME NEW u \in Caller PROVE op'[u] # NoOp <=> u \in Busy \/ u = t
    <3>1. CASE u = t
      BY <1>4, <1>6, <3>1
    <3>2. CASE u \in Busy
      BY <1>7, <3>2, AlikeIs
    <3>3. CASE u \notin Busy /\ u # t
      BY <1>1, <1>6, <3>3 DEF Busy
    <3> QED
      BY <3>1, <3>2, <3>3
  <2> QED
    BY <2>1 DEF Busy
<1>9. ZonesTypeOK'
  <2>1. \A u \in Caller : op'[u] \in Op \cup {NoOp}
    <3> SUFFICES ASSUME NEW u \in Caller PROVE op'[u] \in Op \cup {NoOp}
      OBVIOUS
    <3>1. CASE u \in Busy
      BY <1>7, <3>1, AlikeIs
    <3>2. CASE u \notin Busy /\ u # t
      BY <1>1, <1>6, <3>2 DEF Busy
    <3> QED
      BY <1>4, <1>6, <3>1, <3>2
  <2>2. op' \in [Caller -> Op \cup {NoOp}]
    BY <1>3, <2>1
  <2>3. \A u \in Busy' : op'[u].path # << >> => op'[u].level \in DOMAIN op'[u].path
    <3> SUFFICES ASSUME NEW u \in Busy' PROVE op'[u].path # << >> => op'[u].level \in DOMAIN op'[u].path
      OBVIOUS
    <3>1. CASE u = t
      BY <1>4, <1>6, <3>1
    <3>2. CASE u \in Busy
      <4>1. op'[u].path = op[u].path /\ op'[u].level = op[u].level
        BY <1>7, <3>2, AlikeIs
      <4> QED
        BY <3>2, <4>1 DEF ZonesTypeOK
    <3> QED
      BY <1>8, <3>1, <3>2
  <2>4. stage' \in [Caller -> {"user", "look", "getblk", "read", "new", "next", "free"}]
    BY <1>3 DEF ZonesTypeOK
  <2>5. since' \in 0 .. MAX_SINCE
    <3>0. MAX_SINCE \in Nat /\ since \in 0 .. MAX_SINCE
      BY ZonesAssumption DEF ZonesTypeOK
    <3>1. since \in Nat /\ MAX_SINCE \in Nat /\ since < MAX_SINCE
      BY <1>3, <3>0
    <3>2. since' = since + 1 \/ since' = 0
      BY <1>3
    <3> QED
      BY <3>1, <3>2
  <2>6. running' \in Caller \cup {NoCaller}
    BY <1>3
  <2>7. /\ i_zone' \in [File -> [Zone -> Block \cup {0}]]
        /\ ptr' \in [Block -> [Index -> Block \cup {0}]]
        /\ zmap' \subseteq Block /\ lost' \subseteq Block
        /\ wrong' \in {"nothing", "two blocks for one place", "block no longer in the file",
                       "block in use not freed", "new block: count is != 1",
                       "free_block: bit already cleared"}
    BY <1>3 DEF ZonesTypeOK
  <2> QED
    BY <2>2, <2>3, <2>4, <2>5, <2>6, <2>7 DEF ZonesTypeOK
<1>10. \A g \in File : FreedIn(g)' = FreedIn(g)
  <2> SUFFICES ASSUME NEW g \in File PROVE FreedIn(g)' = FreedIn(g)
    OBVIOUS
  <2>1. ASSUME NEW x PROVE (x \in FreedIn(g))' <=> x \in FreedIn(g)
    <3>1. \A u \in Busy : op'[u].file = op[u].file /\ op'[u].freed = op[u].freed
      BY <1>7, AlikeIs
    <3>2. x \notin op'[t].freed
      BY <1>4, <1>6
    <3>3. (x \in FreedIn(g))' <=> \E u \in Busy' : op'[u].file = g /\ x \in op'[u].freed
      BY FreedHas
    <3>4. x \in FreedIn(g) <=> \E u \in Busy : op[u].file = g /\ x \in op[u].freed
      BY FreedHas
    <3> QED
      BY <1>8, <3>1, <3>2, <3>3, <3>4
  <2>2. \A x : x \in FreedIn(g)' <=> x \in FreedIn(g)
    BY <2>1
  <2> QED
    BY <2>2 DEF FreedIn
<1>11. Tree' = Tree
  BY <1>3, <1>9, <1>10, SameTree
<1>12. UserRight'
  <2> SUFFICES ASSUME NEW u \in Caller PROVE stage'[u] = "user" <=> op'[u] = NoOp
    BY DEF UserRight
  <2>1. CASE u = t
    BY <1>4, <1>6, <2>1
  <2>2. CASE u \in Busy
    <3>1. op'[u] # NoOp
      BY <1>7, <2>2, AlikeIs
    <3>2. stage'[u] # "user"
      BY <1>7, <2>2, BusyFits
    <3> QED
      BY <3>1, <3>2
  <2>3. CASE u \notin Busy /\ u # t
    BY <1>1, <1>5, <1>6, <2>3 DEF Busy, ByCalls, UserRight
  <2> QED
    BY <2>1, <2>2, <2>3
<1>13. Conflicts'
  <2>1. \A u \in Busy : /\ op'[u].file = op[u].file /\ op'[u].what = op[u].what
                        /\ op[u].overlap => op'[u].overlap
    BY <1>7, AlikeIs
  <2>2. ASSUME NEW u \in Busy, NEW v \in Busy, u # v, op'[u].file = op'[v].file,
               Conflict(op'[u].what, op'[v].what)
        PROVE  op'[u].overlap /\ op'[v].overlap
    BY <1>5, <2>1, <2>2 DEF ByCalls, Conflicts
  <2>3. ASSUME NEW u \in Busy, op'[u].file = f,
               Conflict(what, op'[u].what) \/ Conflict(op'[u].what, what)
        PROVE  op'[u].overlap /\ op'[t].overlap
    <3>1. Conflict(what, op[u].what)
      BY <2>1, <2>3 DEF Conflict
    <3>2. u \in others
      BY <1>1, <2>1, <2>3, <3>1
    <3>3. op'[u] = [op[u] EXCEPT !.overlap = TRUE] /\ op[u] \in Op
      BY <1>6, <1>7, <3>2
    <3>4. op'[u].overlap
      BY <3>3 DEF Op
    <3> QED
      BY <1>4, <1>6, <3>2, <3>4
  <2> QED
    BY <1>4, <1>6, <1>8, <2>2, <2>3 DEF Conflicts
<1>14. since' = 0 => since = 0 /\ others = {}
  <2>1. since \in Nat
    <3>1. MAX_SINCE \in Nat /\ since \in 0 .. MAX_SINCE
      BY ZonesAssumption DEF ZonesTypeOK
    <3> QED
      BY <3>1
  <2>2. since + 1 # 0
    BY <2>1
  <2>3. ~ (since > 0 \/ others # {}) \/ since' = since + 1
    BY <1>3
  <2> QED
    BY <2>1, <2>2, <2>3
<1>15. SinceRight'
  <2> SUFFICES ASSUME since' = 0, NEW u \in Busy' PROVE ~ op'[u].overlap
    BY DEF SinceRight
  <2>1. since = 0 /\ others = {}
    BY <1>14
  <2>2. CASE u = t
    BY <1>4, <1>6, <2>1, <2>2
  <2>3. CASE u \in Busy
    <3>1. op'[u] = op[u]
      BY <1>6, <1>7, <2>1, <2>3
    <3> QED
      BY <1>5, <2>1, <2>3, <3>1 DEF ByCalls, SinceRight
  <2> QED
    BY <1>8, <2>2, <2>3
<1>16. OnePlace(Tree') /\ AllMarked(Tree', zmap')
  BY <1>3, <1>5, <1>11 DEF ByCalls
<1>17. NoLeak'
  <2> SUFFICES ASSUME since' = 0, NEW x \in zmap' PROVE x \in Used' \/ x \in lost'
    BY DEF NoLeak
  <2>1. x \in zmap /\ since = 0
    BY <1>3, <1>14
  <2>2. x \in Used \/ x \in lost
    BY <1>5, <2>1 DEF ByCalls, NoLeak
  <2>3. CASE x \in Used
    <3>1. x # 0 /\ (\/ \E g \in File : \E q \in Path : Tree[g][q] = x
                    \/ \E u \in Busy : op[u].new = x)
      BY <2>3, UsedHas
    <3>2. \A u \in Busy : op'[u].new = op[u].new /\ u \in Busy'
      BY <1>7, <1>8, AlikeIs
    <3>3. \/ \E g \in File : \E q \in Path : Tree'[g][q] = x
          \/ \E u \in Busy' : op'[u].new = x
      BY <1>11, <3>1, <3>2
    <3> QED
      BY <3>1, <3>3, UsedThen
  <2> QED
    BY <1>3, <2>2, <2>3
<1>18. CallsRight'
  <2> SUFFICES ASSUME NEW u \in Busy'
               PROVE  (Fits(Tree, zmap, lost, op[u], stage[u]) /\ SelfApart(op[u], stage[u]))'
    BY DEF CallsRight
  <2>1. CASE u = t
    BY <1>4, <1>6, <2>1 DEF SelfApart
  <2>2. CASE u \in Busy
    <3>1. Fits(Tree, zmap, lost, op[u], stage[u]) /\ SelfApart(op[u], stage[u])
      BY <1>5, <2>2 DEF ByCalls, CallsRight
    <3>2. op[u] \in Op /\ SameKinds(op[u], op'[u]) /\ stage'[u] = stage[u]
      BY <1>7, <2>2
    <3>3. Fits(Tree, zmap, lost, op'[u], stage[u])
      BY <3>1, <3>2, AlikeFits
    <3>4. SelfApart(op'[u], stage[u])
      BY <3>1, <3>2, AlikeIs DEF SelfApart, Looking
    <3> QED
      BY <1>3, <1>11, <3>2, <3>3, <3>4
  <2> QED
    BY <1>8, <2>1, <2>2
<1>19. AllApart'
  <2> SUFFICES ASSUME NEW u \in Busy', NEW v \in Busy', u # v PROVE Apart(op'[u], stage'[u], op'[v])
    BY DEF AllApart
  <2>1. CASE u = t
    BY <1>4, <1>6, <2>1 DEF Apart
  <2>2. CASE u \in Busy /\ v = t
    <3>1. op'[u].new = op[u].new /\ op'[u].what = op[u].what /\ op'[u].level = op[u].level
          /\ op'[u].block = op[u].block /\ stage'[u] = stage[u]
      BY <1>7, <2>2, AlikeIs
    <3>2. Apart(op[u], stage[u], n)
      BY <1>4, <2>2, ApartZero
    <3> QED
      BY <1>6, <2>2, <3>1, <3>2 DEF Apart, Looking
  <2>3. CASE u \in Busy /\ v \in Busy
    <3>1. op'[u].new = op[u].new /\ op'[u].what = op[u].what /\ op'[u].level = op[u].level
          /\ op'[u].block = op[u].block /\ stage'[u] = stage[u] /\ op'[v].new = op[v].new
      BY <1>7, <2>3, AlikeIs
    <3>2. Apart(op[u], stage[u], op[v])
      BY <1>5, <2>3 DEF ByCalls, AllApart
    <3> QED
      BY <3>1, <3>2 DEF Apart, Looking
  <2> QED
    BY <1>8, <2>1, <2>2, <2>3
<1>20. ByCalls'
  BY <1>12, <1>13, <1>15, <1>16, <1>17, <1>18, <1>19 DEF ByCalls
<1> QED
  BY <1>9, <1>20, RightByCallsThen
-----------------------------------------------------------------------------
(***************************************************************************)
(* What goes wrong goes wrong where two calls overlap.                      *)
(***************************************************************************)
LEMMA WrongTypes ==
    ASSUME ZonesTypeOK, i_zone' = i_zone, ptr' = ptr, zmap' = zmap, lost' = lost, stage' = stage, op' = op,
           running' = running, since' = since,
           wrong' \in {"block no longer in the file", "block in use not freed",
                       "new block: count is != 1", "free_block: bit already cleared"}
    PROVE  ZonesTypeOK' /\ (Overlapping => Overlapping') /\ wrong' # "nothing"
<1>1. Busy' = Busy
  BY DEF Busy
<1>2. ZonesTypeOK'
  BY <1>1 DEF ZonesTypeOK
<1>3. Overlapping => Overlapping'
  BY <1>1 DEF Overlapping
<1> QED
  BY <1>2, <1>3

\* The block in hand is at its place, where no other call has come between.
LEMMA InHand ==
    ASSUME ZonesTypeOK, ZonesRight, NEW t \in Caller, stage[t] \in {"read", "free"}, ~ op[t].overlap
    PROVE  /\ ~ Stale(t) /\ op[t].file \in File /\ Place(t) \in Path
           /\ Tree[op[t].file][Place(t)] = op[t].block /\ op[t].block \in zmap
<1>1. /\ t \in Busy /\ op[t] \in Op /\ Fits(Tree, zmap, lost, op[t], stage[t]) /\ ByCalls
      /\ op[t].what = "truncate" => Truncator(op[t], stage[t])
      /\ op[t].what # "truncate" => Walker(op[t], stage[t])
      /\ stage[t] = "free" => op[t].what = "truncate"
  BY AtLabel, RightByCalls
<1>2. PICK o \in Op : o = op[t]
  BY <1>1
<1>3. PICK g \in File : g = o.file
  BY OpIs
<1>4. PICK q : q = Place(t)
  OBVIOUS
<1>5. q \in Path /\ Tree[g][q] = o.block /\ o.block \in Block
  <2>1. CASE o.what = "truncate"
    <3>1. Truncator(o, stage[t]) /\ o.stack # << >>
      BY <1>1, <1>2, <2>1 DEF Truncator, TruncShape
    <3>2. PICK m : m = Len(o.stack)
      OBVIOUS
    <3>3. m \in 1 .. Len(o.stack) /\ o.stack[m].block \in Block /\ o.block = o.stack[m].block
      BY <3>1, <3>2, TopFrame
    <3>4. q = PathOf(o, m) /\ q \in Path
      BY <1>2, <1>4, <2>1, <3>1, <3>2, TopIs DEF Place, Truncates, Truncator
    <3>5. TruncView(Tree, o, stage[t], lost) /\ ~ o.overlap
      BY <1>1, <1>2 DEF Fits
    <3>6. Tree[o.file][PathOf(o, m)] = o.stack[m].block
      BY <2>1, <3>3, <3>5 DEF TruncView
    <3> QED
      BY <1>3, <3>3, <3>4, <3>6
  <2>2. CASE o.what # "truncate"
    <3>1. Walker(o, stage[t]) /\ stage[t] = "read"
      BY <1>1, <1>2, <2>2
    <3>2. q = SubSeq(o.path, 1, o.level)
      BY <1>2, <1>4, <2>2 DEF Place, Truncates
    <3>3. q \in Path
      BY <3>1, <3>2, WayDown DEF Walker
    <3>4. WalkView(Tree, o, stage[t]) /\ ~ o.overlap
      BY <1>1, <1>2 DEF Fits
    <3>5. Tree[o.file][q] = o.block
      BY <2>2, <3>1, <3>2, <3>4 DEF WalkView
    <3>6. o.block # 0
      BY <3>1 DEF Walker, WalkShape
    <3> QED
      BY <1>3, <3>3, <3>5, <3>6, OpIs
  <2> QED
    BY <2>1, <2>2
<1>6. BlockAt(g, q) = o.block
  BY <1>5 DEF Tree
<1>7. o.block \in zmap
  BY <1>1, <1>5, Blocks DEF ByCalls, AllMarked
<1> QED
  BY <1>2, <1>3, <1>4, <1>5, <1>6, <1>7 DEF Stale

\* A block that is held is in the file of the call that holds it.
LEMMA HeldInFile ==
    ASSUME ZonesTypeOK, ZonesRight, NEW u \in Busy, ~ op[u].overlap, NEW b \in op[u].holds
    PROVE  op[u].file \in File /\ \E p \in Path : Tree[op[u].file][p] = b
<1>1. PICK o \in Op : o = op[u]
  BY BusyFits
<1>2. PICK l : l = stage[u]
  OBVIOUS
<1>3. Fits(Tree, zmap, lost, o, l) /\ (Walker(o, l) \/ Truncator(o, l)) /\ ~ o.overlap /\ b \in o.holds
  BY <1>1, <1>2, BusyFits
<1>4. CASE Walker(o, l)
  <2>1. /\ o.what # "truncate" /\ o.path \in Path /\ o.level \in 1 .. Len(o.path) /\ WalkShape(o, l)
    BY <1>4 DEF Walker
  <2>2. b = o.block /\ (l = "read" \/ Looking(o, l))
    BY <1>3, <2>1 DEF WalkShape
  <2>3. CASE l = "read"
    <3>1. Tree[o.file][SubSeq(o.path, 1, o.level)] = b
      BY <1>3, <2>1, <2>2, <2>3 DEF Fits, WalkView
    <3>2. SubSeq(o.path, 1, o.level) \in Path
      BY <2>1, WayDown
    <3> QED
      BY <1>1, <3>1, <3>2, OpIs
  <2>4. CASE Looking(o, l)
    <3>1. Tree[o.file][SubSeq(o.path, 1, o.level - 1)] = b
      BY <1>3, <2>1, <2>2, <2>4 DEF Fits, WalkView
    <3>2. SubSeq(o.path, 1, o.level - 1) \in Path
      BY <2>1, <2>4, WayDown DEF Looking
    <3> QED
      BY <1>1, <3>1, <3>2, OpIs
  <2> QED
    BY <2>2, <2>3, <2>4
<1>5. CASE Truncator(o, l)
  <2>1. o.what = "truncate" /\ TruncShape(o, l)
    BY <1>5 DEF Truncator
  <2>2. PICK k \in 1 .. Len(o.stack) : b = o.stack[k].block
    BY <1>3, <2>1 DEF Fits, TruncView
  <2>3. Tree[o.file][PathOf(o, k)] = b
    BY <1>3, <2>1, <2>2 DEF Fits, TruncView
  <2>4. PathOf(o, k) \in Path
    <3>1. o.stack # << >>
      BY <2>2
    <3> QED
      BY <2>1, <2>2, <3>1, PathOfIs
  <2> QED
    BY <1>1, <2>3, <2>4, OpIs
<1> QED
  BY <1>3, <1>4, <1>5

LEMMA StaleIsWrong ==
    ASSUME ZonesTypeOK, ZonesRight, NEW t \in Caller, ReadsStale(t)
    PROVE  ZonesTypeOK' /\ Overlapping' /\ wrong' # "nothing"
<1>1. stage[t] = "read" /\ Stale(t)
  BY DEF ReadsStale, Resumes
<1>2. t \in Busy
  BY <1>1, AtLabel
<1>3. op[t].overlap
  BY <1>1, InHand
<1>4. Overlapping
  BY <1>2, <1>3 DEF Overlapping
<1> QED
  BY <1>4, WrongTypes DEF ReadsStale, disk

LEMMA PanicIsWrong ==
    ASSUME ZonesTypeOK, ZonesRight, NEW t \in Caller, FillPanics(t)
    PROVE  ZonesTypeOK' /\ Overlapping' /\ wrong' # "nothing"
<1>1. stage[t] = "new" /\ HeldByOthers(t, op[t].new)
  BY DEF FillPanics, Resumes
<1>2. t \in Busy /\ Fits(Tree, zmap, lost, op[t], "new") /\ Walker(op[t], "new")
  BY <1>1, AtLabel
<1>3. PICK u \in Busy : op[t].new \in op[u].holds
  BY <1>1 DEF HeldByOthers
<1>4. op[t].new # 0 /\ NewRight(Tree, zmap, op[t])
  BY <1>2 DEF Fits, Walker, WalkShape
<1>5. op[u].overlap
  BY <1>3, <1>4, HeldInFile DEF NewRight
<1>6. Overlapping
  BY <1>5 DEF Overlapping
<1> QED
  BY <1>6, WrongTypes DEF FillPanics, disk

LEMMA FreeIsWrong ==
    ASSUME ZonesTypeOK, ZonesRight, NEW t \in Caller, FreeGoesWrong(t)
    PROVE  ZonesTypeOK' /\ Overlapping' /\ wrong' # "nothing"
<1>1. /\ stage[t] = "free"
      /\ HeldByOthers(t, op[t].block) \/ op[t].block \notin zmap \/ Stale(t)
  BY DEF FreeGoesWrong, Resumes
<1>2. t \in Busy /\ op[t].what = "truncate" /\ ByCalls
  BY <1>1, AtLabel, RightByCalls
<1>3. Overlapping
  <2> SUFFICES ASSUME ~ Overlapping PROVE FALSE
    OBVIOUS
  <2>1. ~ op[t].overlap
    BY <1>2 DEF Overlapping
  <2>2. /\ ~ Stale(t) /\ op[t].file \in File /\ Place(t) \in Path
        /\ Tree[op[t].file][Place(t)] = op[t].block /\ op[t].block \in zmap
    BY <1>1, <2>1, InHand
  <2>3. PICK u \in Busy \ {t} : op[t].block \in op[u].holds
    BY <1>1, <2>2 DEF HeldByOthers
  <2>4. ~ op[u].overlap
    BY <2>3 DEF Overlapping
  <2>5. op[u].file \in File
    BY <2>3, <2>4, HeldInFile
  <2>6. PICK p \in Path : Tree[op[u].file][p] = op[t].block
    BY <2>3, <2>4, HeldInFile
  <2>7. op[u].file # op[t].file
    BY <1>2, <2>3, <2>4, OtherFile
  <2>8. op[t].block # 0
    BY <2>2, Blocks DEF ZonesTypeOK
  <2> QED
    BY <1>2, <2>2, <2>5, <2>6, <2>7, <2>8 DEF ByCalls, OnePlace
<1>4. /\ wrong' \in {"block no longer in the file", "block in use not freed",
                     "new block: count is != 1", "free_block: bit already cleared"}
      /\ i_zone' = i_zone /\ ptr' = ptr /\ zmap' = zmap /\ lost' = lost /\ stage' = stage /\ op' = op
      /\ running' = running /\ since' = since
  BY DEF FreeGoesWrong, disk
<1> QED
  BY <1>3, <1>4, WrongTypes

LEMMA TwoIsWrong ==
    ASSUME ZonesTypeOK, ZonesRight, NEW t \in Caller, Fills(t), Entry(t) # 0
    PROVE  ZonesTypeOK' /\ Overlapping' /\ wrong' # "nothing"
<1>1. stage[t] = "new" /\ wrong' = "two blocks for one place"
  BY DEF Fills, Resumes
<1>2. t \in Busy /\ op[t] \in Op /\ Fits(Tree, zmap, lost, op[t], "new") /\ Walker(op[t], "new")
  BY <1>1, AtLabel
<1>3. ZonesTypeOK'
  BY <1>2, FillsTypes
<1>4. op[t].overlap
  <2> SUFFICES ASSUME ~ op[t].overlap PROVE FALSE
    OBVIOUS
  <2>1. Entry(t) = Tree[op[t].file][Here(op[t])]
    BY <1>1, EntryView
  <2>2. Tree[op[t].file][Here(op[t])] = 0
    BY <1>2 DEF Fits, WalkView, Walker, Here
  <2> QED
    BY <2>1, <2>2
<1>5. PICK n : n = FillsTo(t)
  OBVIOUS
<1>6. Walker(n, "look") /\ SameCall(op[t], n) /\ Moves(t, n, "look")
  BY <1>2, <1>5, FillsShape, WalkMoves
<1>7. n # NoOp
  BY <1>6, OpIs DEF Walker
<1>8. op'[t] = n /\ t \in Busy'
  BY <1>6, <1>7, MovesTo
<1>9. Overlapping'
  BY <1>4, <1>6, <1>8 DEF Overlapping, SameCall
<1> QED
  BY <1>1, <1>3, <1>9
-----------------------------------------------------------------------------
(***************************************************************************)
(* The invariant, and what follows.                                         *)
(***************************************************************************)
LEMMA InitRight == ZonesInit => ZonesIInv
<1> SUFFICES ASSUME ZonesInit PROVE ZonesTypeOK /\ ZonesRight
  BY DEF ZonesIInv, ZonesInit
<1>1. Busy = {}
  BY DEF ZonesInit, Busy
<1>2. ZonesTypeOK
  <2>1. /\ i_zone \in [File -> [Zone -> Block \cup {0}]]
        /\ ptr \in [Block -> [Index -> Block \cup {0}]]
    BY DEF ZonesInit
  <2>2. since \in 0 .. MAX_SINCE
    BY ZonesAssumption DEF ZonesInit
  <2> QED
    BY <1>1, <2>1, <2>2 DEF ZonesTypeOK, ZonesInit
<1>3. ASSUME NEW f \in File, NEW p \in Path PROVE Tree[f][p] = 0
  <2>1. PICK zs : zs = i_zone[f]
    OBVIOUS
  <2>2. PICK F : F = FreedIn(f)
    OBVIOUS
  <2>3. F \in SUBSET Path /\ Tree[f][p] = At(zs, ptr, F, p)
    BY <1>2, <2>1, <2>2, TreeIs
  <2>4. zs[p[1]] = 0
    <3>1. p[1] \in Zone
      BY PathIs DEF PathLike
    <3> QED
      BY <2>1, <3>1 DEF ZonesInit
  <2> QED
    BY <2>3, <2>4, NothingBelowZero
<1>4. OnePlace(Tree) /\ AllMarked(Tree, zmap)
  BY <1>3 DEF OnePlace, AllMarked
<1>5. /\ UserRight /\ Shapes /\ Conflicts /\ SinceRight
      /\ News /\ NewsApart /\ Looks /\ LooksApart /\ Views /\ NoLeak
  BY <1>1 DEF UserRight, Shapes, Conflicts, SinceRight, News, NewsApart, Looks, LooksApart, Views,
      NoLeak, ZonesInit
<1> QED
  BY <1>2, <1>4, <1>5 DEF ZonesRight

LEMMA NextRight ==
    ASSUME ZonesTypeOK, ZonesRight, wrong = "nothing", ZonesNext
    PROVE  ZonesIInv'
<1>1. PICK t \in Caller :
          \/ Bmap(t) \/ Bread(t) \/ Trunc(t)
          \/ \E f \in File : \/ \E p \in Position : ReadCall(t, f, p) \/ WriteCall(t, f, p)
                             \/ Truncate(t, f)
  BY DEF ZonesNext
<1>2. ASSUME ZonesTypeOK', ZonesRight', wrong' = "nothing" PROVE ZonesIInv'
  BY <1>2 DEF ZonesIInv
<1>3. ASSUME ZonesTypeOK', Overlapping', wrong' # "nothing" PROVE ZonesIInv'
  BY <1>3 DEF ZonesIInv
<1>4. CASE \/ FindsHole(t) \/ Finds(t) \/ NoNewBlock(t) \/ NewBlock(t) \/ (Fills(t) /\ Entry(t) = 0)
           \/ BreadHolds(t) \/ ReadFails(t) \/ ReadsPointers(t) \/ UsesBlock(t)
           \/ ReadsBelow(t) \/ CannotReadBelow(t) \/ NextZone(t) \/ NextBelow(t) \/ BelowDone(t)
           \/ FreeBlock(t) \/ Truncated(t)
  <2>1. ZonesTypeOK' /\ ZonesRight'
    BY <1>4, StepsRight
  <2>2. wrong' = wrong
    BY <1>4 DEF FindsHole, Finds, NoNewBlock, NewBlock, Fills, BreadHolds, ReadFails, ReadsPointers,
        UsesBlock, ReadsBelow, CannotReadBelow, NextZone, NextBelow, BelowDone, FreeBlock,
        Truncated, ghost
  <2> QED
    BY <1>2, <2>1, <2>2
<1>5. CASE ReadsStale(t) \/ FillPanics(t) \/ FreeGoesWrong(t) \/ (Fills(t) /\ Entry(t) # 0)
  BY <1>3, <1>5, StaleIsWrong, PanicIsWrong, FreeIsWrong, TwoIsWrong
<1>6. CASE \E f \in File : \/ \E p \in Position : ReadCall(t, f, p) \/ WriteCall(t, f, p)
                           \/ Truncate(t, f)
  <2>1. PICK f \in File : \/ \E p \in Position : ReadCall(t, f, p) \/ WriteCall(t, f, p)
                          \/ Truncate(t, f)
    BY <1>6
  <2>2. ASSUME NEW what, NEW p, NEW label, Call(t, what, f, p, label),
               \/ what \in {"read", "write"} /\ p \in Position /\ label = "look"
               \/ what = "truncate" /\ p = << >> /\ label = "next"
        PROVE  ZonesIInv'
    <3>1. ZonesTypeOK' /\ ZonesRight'
      BY <2>2, CallRight
    <3>2. wrong' = "nothing"
      BY <2>2 DEF Call
    <3> QED
      BY <1>2, <3>1, <3>2
  <2>3. CASE Truncate(t, f)
    BY <2>2, <2>3 DEF Truncate
  <2>4. CASE \E p \in Position : ReadCall(t, f, p) \/ WriteCall(t, f, p)
    BY <2>2, <2>4 DEF ReadCall, WriteCall
  <2> QED
    BY <2>1, <2>3, <2>4
<1> QED
  BY <1>1, <1>4, <1>5, <1>6 DEF Bmap, Bread, Trunc

LEMMA StutterRight == ZonesIInv /\ UNCHANGED zonesVars => ZonesIInv'
<1> SUFFICES ASSUME ZonesIInv, UNCHANGED zonesVars PROVE ZonesIInv'
  OBVIOUS
<1>1. /\ i_zone' = i_zone /\ ptr' = ptr /\ zmap' = zmap /\ stage' = stage /\ op' = op /\ running' = running
      /\ lost' = lost /\ wrong' = wrong /\ since' = since
  BY DEF zonesVars
<1>2. Busy' = Busy
  BY <1>1 DEF Busy
<1>3. ZonesTypeOK'
  BY <1>1, <1>2 DEF ZonesIInv, ZonesTypeOK
<1>4. Overlapping => Overlapping'
  BY <1>1, <1>2 DEF Overlapping
<1>5. \A f : FreedIn(f)' = FreedIn(f)
  BY <1>1, <1>2 DEF FreedIn
<1>6. Tree' = Tree
  BY <1>1, <1>3, <1>5, SameTree DEF ZonesIInv
<1>7. NoLeak => NoLeak'
  <2>1. \A x : x \in Used' <=> x \in Used
    BY <1>1, <1>2, <1>6, UsedHas, UsedThen
  <2> QED
    BY <1>1, <2>1 DEF NoLeak
<1>8. ZonesRight => ZonesRight'
  BY <1>1, <1>2, <1>6, <1>7 DEF ZonesRight, UserRight, Shapes, Conflicts, SinceRight, News,
      NewsApart, Looks,
      LooksApart, Views
<1> QED
  BY <1>1, <1>3, <1>4, <1>8 DEF ZonesIInv

LEMMA NothingYet == ZonesNext => wrong = "nothing"
<1> SUFFICES ASSUME ZonesNext PROVE wrong = "nothing"
  OBVIOUS
<1>1. PICK t \in Caller :
          \/ Bmap(t) \/ Bread(t) \/ Trunc(t)
          \/ \E f \in File : \/ \E p \in Position : ReadCall(t, f, p) \/ WriteCall(t, f, p)
                             \/ Truncate(t, f)
  BY DEF ZonesNext
<1>2. CASE Bmap(t)
  BY <1>2 DEF Bmap, FindsHole, Finds, NoNewBlock, NewBlock, Fills, FillPanics, Resumes
<1>3. CASE Bread(t)
  BY <1>3 DEF Bread, BreadHolds, ReadFails, ReadsStale, ReadsPointers, UsesBlock, ReadsBelow,
      CannotReadBelow, Resumes
<1>4. CASE Trunc(t)
  BY <1>4 DEF Trunc, NextZone, NextBelow, BelowDone, FreeBlock, FreeGoesWrong, Truncated, Resumes
<1>5. ASSUME NEW f \in File,
             \/ \E p \in Position : ReadCall(t, f, p) \/ WriteCall(t, f, p)
             \/ Truncate(t, f)
      PROVE  wrong = "nothing"
  BY <1>5 DEF ReadCall, WriteCall, Truncate, Call
<1> QED
  BY <1>1, <1>2, <1>3, <1>4, <1>5

LEMMA Inductive == ZonesSpec => []ZonesIInv
<1>1. ZonesIInv /\ [ZonesNext]_zonesVars => ZonesIInv'
  <2> SUFFICES ASSUME ZonesIInv, [ZonesNext]_zonesVars PROVE ZonesIInv'
    OBVIOUS
  <2>1. CASE ZonesNext
    BY <2>1, NothingYet, NextRight DEF ZonesIInv
  <2>2. CASE UNCHANGED zonesVars
    BY <2>2, StutterRight
  <2> QED
    BY <2>1, <2>2
<1> QED
  BY <1>1, InitRight, PTL DEF ZonesSpec

-----------------------------------------------------------------------------
(***************************************************************************)
(* Counting: there are as many numbers as places they are at.               *)
(***************************************************************************)
LEMMA AsManyPlaces ==
    ASSUME NEW f, NEW S, NEW T, f \in [S -> T], IsFiniteSet(T),
           \A x, y \in S : f[x] = f[y] => x = y,
           \A b \in T : \E x \in S : f[x] = b
    PROVE  Cardinality(S) = Cardinality(T)
<1>1. f \in Injection(S, T)
  BY DEF Injection, IsInjective
<1>2. f \in Surjection(S, T)
  BY DEF Surjection
<1> QED
  BY <1>1, <1>2, FS_Injection

InFiles == {l \in File \X Path : BlockAt(l[1], l[2]) # 0}
InNews  == {t \in Busy : op[t].new # 0}
Filed   == {BlockAt(l[1], l[2]) : l \in InFiles}
Fresh   == {op[t].new : t \in InNews}

LEMMA UsedMarked == ZonesTypeOK /\ ZonesRight => Used \subseteq zmap
<1> SUFFICES ASSUME ZonesTypeOK, ZonesRight, NEW x \in Used PROVE x \in zmap
  OBVIOUS
<1>1. x # 0 /\ \/ \E f \in File : \E p \in Path : Tree[f][p] = x
               \/ \E u \in Busy : op[u].new = x
  BY UsedHas
<1>2. ASSUME NEW f \in File, NEW p \in Path, Tree[f][p] = x PROVE x \in zmap
  BY <1>1, <1>2 DEF ZonesRight, AllMarked
<1>3. ASSUME NEW u \in Busy, op[u].new = x PROVE x \in zmap
  BY <1>1, <1>3 DEF ZonesRight, News, NewRight
<1> QED
  BY <1>1, <1>2, <1>3

LEMMA UsedIs == Used = Filed \cup Fresh
<1>1. \A f \in File : \A p \in Path : Tree[f][p] = BlockAt(f, p)
  BY DEF Tree
<1>2. ASSUME NEW x
      PROVE  x \in Filed <=> x # 0 /\ \E f \in File : \E p \in Path : Tree[f][p] = x
  <2>1. ASSUME x \in Filed PROVE x # 0 /\ \E f \in File : \E p \in Path : Tree[f][p] = x
    <3>1. PICK l \in InFiles : BlockAt(l[1], l[2]) = x
      BY <2>1 DEF Filed
    <3>2. l[1] \in File /\ l[2] \in Path /\ x # 0
      BY <3>1 DEF InFiles
    <3> QED
      BY <1>1, <3>1, <3>2
  <2>2. ASSUME x # 0, NEW f \in File, NEW p \in Path, Tree[f][p] = x PROVE x \in Filed
    <3>1. BlockAt(f, p) = x
      BY <1>1, <2>2
    <3>2. PICK l : l = <<f, p>>
      OBVIOUS
    <3>3. l \in File \X Path /\ l[1] = f /\ l[2] = p
      BY <3>2
    <3>4. l \in InFiles
      BY <2>2, <3>1, <3>3 DEF InFiles
    <3> QED
      BY <3>1, <3>3, <3>4 DEF Filed
  <2> QED
    BY <2>1, <2>2
<1>3. ASSUME NEW x PROVE x \in Fresh <=> x # 0 /\ \E u \in Busy : op[u].new = x
  BY DEF Fresh, InNews
<1>4. \A x : x \in Used <=> x \in Filed \/ x \in Fresh
  BY <1>2, <1>3, UsedHas
<1> QED
  BY <1>4

LEMMA FiledCount ==
    ZonesTypeOK /\ ZonesRight => IsFiniteSet(Filed) /\ Cardinality(InFiles) = Cardinality(Filed)
<1> SUFFICES ASSUME ZonesTypeOK, ZonesRight
             PROVE  IsFiniteSet(Filed) /\ Cardinality(InFiles) = Cardinality(Filed)
  OBVIOUS
<1>1. IsFiniteSet(Filed)
  <2>1. Filed \subseteq Used
    BY UsedIs
  <2>2. Filed \subseteq 1 .. NR_BLOCK
    BY <2>1, UsedMarked DEF ZonesTypeOK, Block
  <2>3. IsFiniteSet(1 .. NR_BLOCK)
    BY FS_Interval, ZonesAssumption
  <2> QED
    BY <2>2, <2>3, FS_Subset
<1>2. PICK f : f = [l \in InFiles |-> BlockAt(l[1], l[2])]
  OBVIOUS
<1>3. f \in [InFiles -> Filed]
  BY <1>2 DEF Filed
<1>4. ASSUME NEW x \in InFiles, NEW y \in InFiles, f[x] = f[y] PROVE x = y
  <2>1. /\ x \in File \X Path /\ y \in File \X Path
        /\ BlockAt(x[1], x[2]) # 0 /\ BlockAt(x[1], x[2]) = BlockAt(y[1], y[2])
    BY <1>2, <1>4 DEF InFiles
  <2>2. x[1] \in File /\ x[2] \in Path /\ y[1] \in File /\ y[2] \in Path
    BY <2>1
  <2>3. Tree[x[1]][x[2]] = BlockAt(x[1], x[2]) /\ Tree[y[1]][y[2]] = BlockAt(y[1], y[2])
    BY <2>2 DEF Tree
  <2>4. x[1] = y[1] /\ x[2] = y[2]
    BY <2>1, <2>2, <2>3 DEF ZonesRight, OnePlace
  <2> QED
    BY <2>1, <2>4
<1>5. ASSUME NEW b \in Filed PROVE \E x \in InFiles : f[x] = b
  BY <1>2 DEF Filed
<1> QED
  BY <1>1, <1>3, <1>4, <1>5, AsManyPlaces

LEMMA FreshCount ==
    ZonesTypeOK /\ ZonesRight => IsFiniteSet(Fresh) /\ Cardinality(InNews) = Cardinality(Fresh)
<1> SUFFICES ASSUME ZonesTypeOK, ZonesRight
             PROVE  IsFiniteSet(Fresh) /\ Cardinality(InNews) = Cardinality(Fresh)
  OBVIOUS
<1>1. IsFiniteSet(Fresh)
  <2>1. Fresh \subseteq Used
    BY UsedIs
  <2>2. Fresh \subseteq 1 .. NR_BLOCK
    BY <2>1, UsedMarked DEF ZonesTypeOK, Block
  <2>3. IsFiniteSet(1 .. NR_BLOCK)
    BY FS_Interval, ZonesAssumption
  <2> QED
    BY <2>2, <2>3, FS_Subset
<1>2. PICK f : f = [t \in InNews |-> op[t].new]
  OBVIOUS
<1>3. f \in [InNews -> Fresh]
  BY <1>2 DEF Fresh
<1>4. ASSUME NEW x \in InNews, NEW y \in InNews, f[x] = f[y] PROVE x = y
  BY <1>2, <1>4 DEF ZonesRight, NewsApart, InNews
<1>5. ASSUME NEW b \in Fresh PROVE \E x \in InNews : f[x] = b
  BY <1>2 DEF Fresh
<1> QED
  BY <1>1, <1>3, <1>4, <1>5, AsManyPlaces

LEMMA FreshIsNotFiled == ZonesRight => Filed \cap Fresh = {}
<1> SUFFICES ASSUME ZonesRight, NEW l \in InFiles, NEW t \in InNews
             PROVE  BlockAt(l[1], l[2]) # op[t].new
  BY DEF Filed, Fresh
<1>1. l[1] \in File /\ l[2] \in Path /\ t \in Busy /\ op[t].new # 0
  BY DEF InFiles, InNews
<1>2. Tree[l[1]][l[2]] = BlockAt(l[1], l[2])
  BY <1>1 DEF Tree
<1> QED
  BY <1>1, <1>2 DEF ZonesRight, News, NewRight

LEMMA OwnersCounted ==
    ZonesTypeOK /\ ZonesRight => Cardinality(Used) = Cardinality(InFiles) + Cardinality(InNews)
<1> SUFFICES ASSUME ZonesTypeOK, ZonesRight
             PROVE  Cardinality(Used) = Cardinality(InFiles) + Cardinality(InNews)
  OBVIOUS
<1>1. IsFiniteSet(Filed) /\ IsFiniteSet(Fresh)
  BY FiledCount, FreshCount
<1>2. Cardinality(Used) = Cardinality(Filed) + Cardinality(Fresh) - Cardinality(Filed \cap Fresh)
  BY <1>1, UsedIs, FS_Union
<1>3. Cardinality(Filed \cap Fresh) = 0
  BY FreshIsNotFiled, FS_EmptySet
<1>4. Cardinality(Filed) \in Nat /\ Cardinality(Fresh) \in Nat
  BY <1>1, FS_CardinalityType
<1> QED
  BY <1>2, <1>3, <1>4, FiledCount, FreshCount

\* The places and locals have their types: _bmap never goes below the last level of a
\* path.
THEOREM ZoneTypesCorrect == ZonesSpec => []ZonesTypeOK
<1>1. ZonesIInv => ZonesTypeOK
  BY DEF ZonesIInv
<1> QED
  BY <1>1, Inductive, PTL

\* A block's bit is set only while the block is in a file or about to be, but for what
\* truncate could not read, as long as no two calls on one file have overlapped badly.
THEOREM NoBlockLeaks == ZonesSpec => []NothingLeaks
<1>1. ZonesIInv => NothingLeaks
  BY DEF ZonesIInv, ZonesRight, NoLeak, NothingLeaks
<1> QED
  BY <1>1, Inductive, PTL

\* However many tasks read, write and truncate files of whatever shape, no block is in
\* two places or is handed out while it is in one, and the bit of each is set.
THEOREM EveryBlockHasOneOwner == ZonesSpec => []OneOwner
<1>1. ZonesIInv => OneOwner
  <2> SUFFICES ASSUME ZonesIInv, wrong = "nothing"
               PROVE  /\ Used \subseteq zmap
                      /\ Cardinality(Used) = Cardinality(InFiles) + Cardinality(InNews)
    BY DEF OneOwner, InFiles, InNews
  <2> QED
    BY UsedMarked, OwnersCounted DEF ZonesIInv
<1> QED
  BY <1>1, Inductive, PTL

\* What goes wrong does so only while a call is under way that another on the same file
\* has overlapped, one of the two truncating it or both writing it.
THEOREM OnlyRacesOnOneFileGoWrong == ZonesSpec => []OnlyOneFileRaces
<1>1. ZonesIInv => OnlyOneFileRaces
  BY DEF ZonesIInv, OnlyOneFileRaces
<1> QED
  BY <1>1, Inductive, PTL
=============================================================================
