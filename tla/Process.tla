------------------------------ MODULE Process ------------------------------
(***************************************************************************)
(* Processes: fork, exit, waitpid, pause, alarm, kill and the delivery of   *)
(* signals (kernel/fork.c, exit.c, signal.c, the tests in schedule() and at *)
(* ret_from_sys_call), with init as init/main.c writes it.                  *)
(*                                                                         *)
(* The kernel is not preemptive: one step of the current task is what it    *)
(* does up to its next call of schedule() or its return to user mode.       *)
(* Which runnable task schedule() prefers is left open here, as are the     *)
(* counters and when an alarm runs out.                                     *)
(***************************************************************************)
EXTENDS Sched, Naturals, FiniteSets, FiniteSetsExt

CONSTANTS NR_TASKS,     \* the slots of task[], slot 0 included
          MaxPid,       \* the last pid before last_pid wraps
          Catchable,    \* signals the programs install handlers for
          Maskable,     \* signals the programs block
          Sendable,     \* signals the programs send with kill()
          NULL          \* a free slot

SIGKILL == 9
SIGALRM == 14
SIGCHLD == 17
Signal  == {SIGKILL, SIGALRM, SIGCHLD}

Slot == 1 .. NR_TASKS - 1       \* slot 0 is the idle task
Pid  == 1 .. MaxPid
AnyChild == 0                   \* waitpid(-1)
Init1 == 1                      \* the slot and the pid of init

ASSUME ProcessAssumption ==
    /\ NR_TASKS \in Nat /\ NR_TASKS > 2
    /\ MaxPid \in Nat /\ MaxPid >= NR_TASKS
    /\ Catchable \subseteq Signal \ {SIGKILL}
    /\ Maskable \subseteq Signal \ {SIGKILL}
    /\ Sendable \subseteq Signal

VARIABLES task,         \* the task structs
          current,      \* the slot of the task that runs, 0 when idle
          last_pid,
          shell         \* the local `pid' of init: the shell it waits for

vars == <<task, current, last_pid, shell>>

(***************************************************************************)
(* `at' is where in its kernel code a task is: in user mode, on its way out *)
(* of the kernel, in the loop of waitpid, or in the middle of do_exit.      *)
(***************************************************************************)
TaskStruct ==
    [pid : Pid, father : Pid \cup {0},
     state : {RUNNING, INTERRUPTIBLE, UNINTERRUPTIBLE, ZOMBIE},
     signal : SUBSET Signal, blocked : SUBSET Maskable,
     handler : SUBSET Catchable, alarm : BOOLEAN,
     at : {"user", "ret", "wait", "exit", "closed"}, want : Pid \cup {AnyChild}]

ASSUME NullAssumption == NULL \notin TaskStruct

TypeOK == /\ task \in [Slot -> TaskStruct \cup {NULL}]
          /\ current \in Slot \cup {0}
          /\ last_pid \in Pid
          /\ shell \in Pid \cup {0}
          /\ current # 0 => task[current] # NULL

NewTask(pid, father, blocked, handler) ==
    [pid |-> pid, father |-> father, state |-> RUNNING, signal |-> {},
     blocked |-> blocked, handler |-> handler, alarm |-> FALSE,
     at |-> "user", want |-> AnyChild]

\* After main() has forked: init is about to run, task 0 has nothing to do.
Init == /\ task = [s \in Slot |-> IF s = Init1 THEN NewTask(1, 0, {}, {}) ELSE NULL]
        /\ current = Init1
        /\ last_pid = 1
        /\ shell = 0

In(T) == {s \in Slot : T[s] # NULL}

WithPid(T, p) == {s \in In(T) : T[s].pid = p}

\* From do_exit on a task looks at its signals no more: the model forgets them.
Dying(t) == t.at \in {"exit", "closed"}

Send(T, S, sig) ==
    [s \in Slot |-> IF s \in S /\ ~Dying(T[s])
                    THEN [T[s] EXCEPT !.signal = @ \cup {sig}] ELSE T[s]]

(***************************************************************************)
(* schedule(): alarms that have run out, then the sleepers with a signal,   *)
(* then the choice of a runnable task.                                      *)
(***************************************************************************)
Expire(T, due) ==
    [s \in Slot |-> IF s \in due
                    THEN [T[s] EXCEPT !.signal = @ \cup {SIGALRM}, !.alarm = FALSE]
                    ELSE T[s]]

\* signal & (_BLOCKABLE & ~blocked)
Wakes(t) == t.state = INTERRUPTIBLE /\ (t.signal \ {SIGKILL}) \ t.blocked # {}

WakeSignalled(T) ==
    [s \in Slot |-> IF T[s] # NULL /\ Wakes(T[s])
                    THEN [T[s] EXCEPT !.state = RUNNING] ELSE T[s]]

\* Mutant: the alarms run out after the sleepers have been looked at.
AlarmsAfterWakes(T) ==
    \E due \in SUBSET {s \in In(T) : T[s].alarm} :
        LET W     == Expire(WakeSignalled(T), due)
            ready == {s \in In(W) : W[s].state = RUNNING}
        IN  /\ task' = W
            /\ current' \in IF ready = {} THEN {0} ELSE ready

Schedule(T) ==
    \E due \in SUBSET {s \in In(T) : T[s].alarm} :
        LET W     == WakeSignalled(Expire(T, due))
            ready == {s \in In(W) : W[s].state = RUNNING}
        IN  /\ task' = W
            /\ current' \in IF ready = {} THEN {0} ELSE ready

\* A system call that ends without having slept.
Returns(T, s) == /\ task' = [T EXCEPT ![s].at = "ret"]
                 /\ UNCHANGED current

Sleep(T, s, how, label) ==
    Schedule([T EXCEPT ![s].state = how, ![s].at = label])

(***************************************************************************)
(* fork: find_empty_process and copy_process.  It fails without a free slot *)
(* and, at any time, without memory; last_pid has moved on then.            *)
(***************************************************************************)
\* Mutant: the pid of a process that is dead is thought free.
FreeIfDead(p) == \A s \in WithPid(task, p) : task[s].state = ZOMBIE

FreePid(p) == WithPid(task, p) = {}

\* The next pid that is not in use, from last_pid on and around.
NextPid == LET distance(p) == (p + MaxPid - last_pid - 1) % MaxPid
           IN  CHOOSE p \in Pid : /\ FreePid(p)
                                  /\ \A q \in Pid : FreePid(q) => distance(p) <= distance(q)

FreeSlots == {s \in Slot : task[s] = NULL}

Fork(s) ==
    /\ task[s].at = "user"
    /\ last_pid' = NextPid
    /\ \/ /\ FreeSlots # {}
          /\ Returns([task EXCEPT ![Min(FreeSlots)] =
                        NewTask(NextPid, task[s].pid, task[s].blocked, task[s].handler)], s)
          /\ shell' = IF s = Init1 THEN NextPid ELSE shell
       \/ Returns(task, s) /\ UNCHANGED shell

(***************************************************************************)
(* do_exit: the children go to init, which hears of the zombies among them; *)
(* then files are closed, which may sleep; then the task becomes a zombie   *)
(* and tells its father.                                                    *)
(***************************************************************************)
\* Mutant: a zombie among the children is not reported to init.
ReparentedSilently(T, s) ==
    [c \in Slot |-> IF c \in In(T) /\ T[c].father = T[s].pid
                    THEN [T[c] EXCEPT !.father = 1] ELSE T[c]]

\* Mutant: only the living children get a new father.
ReparentedAlive(T, s) ==
    [c \in Slot |-> IF c \in In(T) /\ T[c].father = T[s].pid /\ T[c].state # ZOMBIE
                    THEN [T[c] EXCEPT !.father = 1] ELSE T[c]]

Reparented(T, s) ==
    LET mine == {c \in In(T) : T[c].father = T[s].pid}
        T1   == [c \in Slot |-> IF c \in mine THEN [T[c] EXCEPT !.father = 1] ELSE T[c]]
    IN  IF \E c \in mine : T[c].state = ZOMBIE THEN Send(T1, {Init1}, SIGCHLD) ELSE T1

ExitBegins(T, s) ==
    LET dying == [NewTask(T[s].pid, T[s].father, {}, {}) EXCEPT !.at = "exit"]
    IN  /\ task' = [Reparented(T, s) EXCEPT ![s] = dying]
        /\ UNCHANGED current

Exit(s) == /\ task[s].at = "user"
           /\ ExitBegins(task, s)
           /\ UNCHANGED <<last_pid, shell>>

\* One sleep stands for all of those in sys_close and iput.
ExitSleeps(s) == /\ task[s].at = "exit"
                 /\ Sleep(task, s, UNINTERRUPTIBLE, "closed")
                 /\ UNCHANGED <<last_pid, shell>>

\* "BAD BAD - no father found": the task releases itself.
TellFather(T, s) ==
    LET father == WithPid(T, T[s].father)
    IN  IF father = {} THEN [T EXCEPT ![s] = NULL] ELSE Send(T, father, SIGCHLD)

ExitEnds(s) ==
    /\ Dying(task[s])
    /\ Schedule(TellFather([task EXCEPT ![s].state = ZOMBIE, ![s].at = "closed"], s))
    /\ UNCHANGED <<last_pid, shell>>

(***************************************************************************)
(* waitpid.  The scan goes from the last slot down and ends at the first    *)
(* zombie; release() frees its slot and calls schedule().                   *)
(***************************************************************************)
\* Mutant: a pid given to waitpid need not be that of a child.
ChildrenOrNamed(T, s) ==
    {c \in In(T) \ {s} : IF T[s].want = AnyChild THEN T[c].father = T[s].pid
                         ELSE T[c].pid = T[s].want}

Children(T, s) == {c \in In(T) \ {s} : /\ T[c].father = T[s].pid
                                       /\ T[s].want \in {AnyChild, T[c].pid}}

Zombies(T, S) == {c \in S : T[c].state = ZOMBIE}

\* waitpid returns: `want' was its argument.
Over(T, s) == [T EXCEPT ![s].at = "ret", ![s].want = AnyChild]

\* From `repeat:' on, with the task structs T.
Scan(T, s) ==
    LET children == Children(T, s)
        zombies  == Zombies(T, children)
    IN  \/ /\ zombies # {}
           /\ LET z == Max(zombies)
              IN  /\ Schedule([Over(T, s) EXCEPT ![z] = NULL])
                  /\ shell' = IF s = Init1 /\ T[z].pid = shell THEN 0 ELSE shell
        \/ /\ zombies = {} /\ children # {}
           /\ Sleep(T, s, INTERRUPTIBLE, "wait")
           /\ UNCHANGED shell
        \/ /\ children = {}
           /\ Returns(Over(T, s), s)
           /\ UNCHANGED shell

Wait(s, want) == /\ task[s].at = "user"
                 /\ Scan([task EXCEPT ![s].want = want], s)
                 /\ UNCHANGED last_pid

\* Awake in waitpid: SIGCHLD is cleared, any other signal ends the call.
WaitResumes(s) ==
    /\ task[s].at = "wait"
    /\ LET T == [task EXCEPT ![s].signal = @ \ {SIGCHLD}]
       IN  \/ /\ T[s].signal = {}
              /\ Scan(T, s)
           \/ /\ T[s].signal # {}
              /\ Returns(Over(T, s), s)
              /\ UNCHANGED shell
    /\ UNCHANGED last_pid

(***************************************************************************)
(* The other calls, and what happens to a task in user mode.                *)
(***************************************************************************)
Pause(s) == /\ task[s].at = "user"
            /\ Sleep(task, s, INTERRUPTIBLE, "ret")
            /\ UNCHANGED <<last_pid, shell>>

\* kill(pid, sig) by a task that may not signal init.
Kill(s, p, sig) == /\ task[s].at = "user"
                   /\ Returns(Send(task, WithPid(task, p) \ {Init1}, sig), s)
                   /\ UNCHANGED <<last_pid, shell>>

SetAlarm(s, on) == /\ task[s].at = "user"
                   /\ Returns([task EXCEPT ![s].alarm = on], s)
                   /\ UNCHANGED <<last_pid, shell>>

\* sys_signal, with a handler: it is for one delivery (SA_ONESHOT).
CatchSignal(s, sig) == /\ task[s].at = "user"
                       /\ Returns([task EXCEPT ![s].handler = @ \cup {sig}], s)
                       /\ UNCHANGED <<last_pid, shell>>

SetMask(s, mask) == /\ task[s].at = "user"
                    /\ Returns([task EXCEPT ![s].blocked = mask], s)
                    /\ UNCHANGED <<last_pid, shell>>

\* ret_from_sys_call and do_signal: the lowest signal that is not blocked.
Return(s) ==
    LET t    == task[s]
        open == t.signal \ t.blocked
        sig  == Min(open)
        T    == [task EXCEPT ![s].signal = @ \ {sig}]
    IN  /\ t.at = "ret"
        /\ \/ /\ open = {}
              /\ task' = [task EXCEPT ![s].at = "user"] /\ UNCHANGED current
           \/ /\ open # {} /\ sig \in t.handler
              /\ task' = [T EXCEPT ![s].at = "user", ![s].handler = @ \ {sig}]
              /\ UNCHANGED current
           \/ /\ open # {} /\ sig \notin t.handler /\ sig = SIGCHLD
              /\ task' = [T EXCEPT ![s].at = "user"] /\ UNCHANGED current
           \/ /\ open # {} /\ sig \notin t.handler /\ sig # SIGCHLD
              /\ ExitBegins(T, s)
        /\ UNCHANGED <<last_pid, shell>>

\* The counter is used up: in do_timer, or on the way out of a system call.
Preempt(s) == /\ task[s].at \in {"user", "ret"}
              /\ Schedule([task EXCEPT ![s].at = "ret"])
              /\ UNCHANGED <<last_pid, shell>>

\* Task 0 pauses for ever.
Idle == /\ current = 0
        /\ Schedule(task)
        /\ UNCHANGED <<last_pid, shell>>

\* The interrupt that ends a transfer wakes the task that sleeps for it.
Interrupt(s) ==
    /\ task[s] # NULL /\ task[s].state = UNINTERRUPTIBLE
    /\ task' = [task EXCEPT ![s].state = RUNNING]
    /\ UNCHANGED <<current, last_pid, shell>>

Kernel(s) == \/ ExitSleeps(s) \/ ExitEnds(s) \/ WaitResumes(s) \/ Return(s)

\* init forks a shell and waits until that very shell has died.
InitCalls == \/ shell = 0 /\ Fork(Init1)
             \/ shell # 0 /\ Wait(Init1, AnyChild)

Calls(s) == \/ Fork(s) \/ Exit(s) \/ Pause(s)
            \/ \E want \in {AnyChild} \cup Pid : Wait(s, want)
            \/ \E p \in Pid, sig \in Sendable : Kill(s, p, sig)
            \/ \E on \in BOOLEAN : SetAlarm(s, on)
            \/ \E sig \in Catchable : CatchSignal(s, sig)
            \/ \E mask \in SUBSET Maskable : SetMask(s, mask)

Runs(s) == /\ current = s
           /\ \/ Kernel(s) \/ Preempt(s)
              \/ s = Init1 /\ InitCalls
              \/ s # Init1 /\ Calls(s)

Next == \/ \E s \in Slot : Runs(s)
        \/ Idle
        \/ \E s \in Slot : Interrupt(s)

Spec == Init /\ [][Next]_vars

-----------------------------------------------------------------------------
\* Every process but init has a father that has not exited: exit gives its
\* children to init before anything else, so tell_father always finds someone.
FathersLive ==
    \A s \in In(task) \ {Init1} :
        \E f \in In(task) : /\ task[f].pid = task[s].father
                           /\ ~Dying(task[f])

\* No two tasks have one pid, zombies that nobody has waited for included, even
\* after last_pid has wrapped.
PidsUnique == \A s, r \in In(task) : task[s].pid = task[r].pid => s = r

\* Nobody sleeps in waitpid for a child that is already dead, unless SIGCHLD is
\* on its way: a child cannot die unnoticed between the scan and the sleep,
\* before or after it changed its father.
WaiterIsTold ==
    \A s \in In(task) :
        task[s].state = INTERRUPTIBLE /\ task[s].at = "wait" /\ Zombies(task, Children(task, s)) # {}
            => SIGCHLD \in task[s].signal

\* A slot is freed only when the task in it is dead, and by its father.
OnlyFathersReap ==
    [][\A s \in Slot :
          task[s] # NULL /\ task'[s] = NULL
            => /\ task[s].state = ZOMBIE
               /\ current # 0 /\ task[s].father = task[current].pid]_vars

SleepsWith(s, sig) == /\ task[s] # NULL
                      /\ task[s].state = INTERRUPTIBLE
                      /\ sig \in task[s].signal \ task[s].blocked

\* When the processor idles nobody sleeps interruptibly beside a signal that he
\* does not block: whoever sent it, and in whichever order the sleep, the mask and
\* the signal came, the schedule() that found nothing else to run has seen it.
IdleOwesNobody ==
    current = 0 => \A s \in Slot, sig \in Signal \ {SIGKILL} : ~SleepsWith(s, sig)

\* SIGKILL as well: "wake up any interruptible tasks that have got a signal".
KillWakesSleepers == current = 0 => \A s \in Slot : ~SleepsWith(s, SIGKILL)
=============================================================================
