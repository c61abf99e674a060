------------------------------ MODULE WaitQueue ------------------------------
(***************************************************************************)
(* The wait queues of kernel/sched.c.                                       *)
(*                                                                         *)
(* A wait queue is one pointer, the task that went to sleep last.  The rest *)
(* of the queue is not a data structure of its own: every sleeper keeps the *)
(* task it found in that pointer in `tmp', a local variable on its kernel   *)
(* stack, and wakes it when it resumes inside sleep_on().                   *)
(*                                                                         *)
(* The module holds operators on one value w that describes all the queues  *)
(*     w.state[t]  the task's state field                                   *)
(*     w.head[q]   the pointer the callers pass by address                  *)
(*     w.tmp[t]    the local variable of t's pending sleep_on               *)
(* so that a caller composes a sleep or a wake-up with its own assignments  *)
(* in a single step.  The kernel is not preemptive: a task runs from one    *)
(* call of schedule() to the next with no other task in between.            *)
(***************************************************************************)
EXTENDS Sched

CONSTANTS Task,     \* the tasks that may sleep; task 0 may not
          Queue,    \* the wait-queue pointers
          NoTask    \* the NULL pointer

ASSUME NoTaskAssumption == NoTask \notin Task

TaskState == {RUNNING, INTERRUPTIBLE, UNINTERRUPTIBLE}

WaitQueues == [state : [Task -> TaskState],
               head  : [Queue -> Task \cup {NoTask}],
               tmp   : [Task -> Task \cup {NoTask}]]

NobodyWaits == [state |-> [t \in Task |-> RUNNING],
                head  |-> [q \in Queue |-> NoTask],
                tmp   |-> [t \in Task |-> NoTask]]

Runnable(w, t) == w.state[t] = RUNNING

\* tmp->state = TASK_RUNNING, under the test for a NULL pointer.
MakeRunning(w, t) ==
    IF t = NoTask THEN w ELSE [w EXCEPT !.state[t] = RUNNING]

(***************************************************************************)
(* sleep_on and interruptible_sleep_on up to their call of schedule().      *)
(***************************************************************************)
\* Mutant: *p = current is missing.
FallAsleepUnseen(w, q, t, how) ==
    [w EXCEPT !.state[t] = how, !.tmp[t] = w.head[q]]

FallAsleep(w, q, t, how) ==
    [w EXCEPT !.state[t] = how, !.head[q] = t, !.tmp[t] = w.head[q]]

\* Mutant: a state schedule() knows nothing of.
SleepOnStopped(w, q, t) == FallAsleep(w, q, t, "TASK_STOPPED")

SleepOn(w, q, t) == FallAsleep(w, q, t, UNINTERRUPTIBLE)

(***************************************************************************)
(* What follows schedule() in both: *p = tmp, then the task tmp points at   *)
(* is made runnable.  t's stack frame, and tmp with it, is gone.            *)
(***************************************************************************)
SleepReturns(w, q, t) ==
    [MakeRunning(w, w.tmp[t]) EXCEPT !.head[q] = w.tmp[t], !.tmp[t] = NoTask]

\* Mutant: the pointer is cleared before it is followed.
WakeUpNobody(w, q) == [w EXCEPT !.head[q] = NoTask]

\* wake_up: only the head is made runnable, and the pointer is cleared.
WakeUp(w, q) == [MakeRunning(w, w.head[q]) EXCEPT !.head[q] = NoTask]

(***************************************************************************)
(* interruptible_sleep_on differs in what it does after schedule(): when it *)
(* does not find itself in the pointer, because another task fell asleep    *)
(* after it, it wakes that one and sleeps again, where it is.               *)
(***************************************************************************)
InterruptibleSleepOn(w, q, t) == FallAsleep(w, q, t, INTERRUPTIBLE)

\* Mutant: it returns like sleep_on, whoever fell asleep after it.
NobodyIsLast(w, q, t) == FALSE

AnotherIsLast(w, q, t) == w.head[q] \notin {NoTask, t}

SleepsAgain(w, q, t) == [MakeRunning(w, w.head[q]) EXCEPT !.state[t] = INTERRUPTIBLE]

InterruptibleReturns(w, q, t) == [SleepReturns(w, q, t) EXCEPT !.state[t] = RUNNING]

(***************************************************************************)
(* t will be woken if q is woken often enough: every set of tasks that      *)
(* holds the head of q and the tasks that are awake, and with a task the    *)
(* one its sleep_on will make runnable, holds t.  A sleeping task that is   *)
(* not reachable is on no queue any more, and nobody knows it sleeps.       *)
(***************************************************************************)
Reachable(w, q, t) ==
    \A S \in SUBSET Task :
        (/\ w.head[q] \in S \cup {NoTask}
         /\ {u \in Task : Runnable(w, u)} \subseteq S
         /\ \A u \in S : w.tmp[u] \in S \cup {NoTask})
        => t \in S
==============================================================================
