------------------------------ MODULE SleepLock ------------------------------
(***************************************************************************)
(* The locks of the file system and the block layer: a flag, and the wait   *)
(* queue the tasks sleep on that find it set.  fs/inode.c (lock_inode,      *)
(* wait_on_inode, unlock_inode), fs/super.c (lock_super, wait_on_super,     *)
(* free_super) and kernel/blk_drv/ll_rw_blk.c (lock_buffer, unlock_buffer)  *)
(* hold the same code for the fields i_lock, s_lock and b_lock.             *)
(*                                                                         *)
(* A task works on one object at a time here.  While it holds the lock it   *)
(* may sleep for other reasons (a disk transfer), so other tasks run.       *)
(*                                                                         *)
(* The names that every specification has (Init, Next, ...) carry Lock      *)
(* here, so that a module may extend SleepLock and Process together.        *)
(***************************************************************************)
EXTENDS WaitQueue

CONSTANTS Users       \* Users[o]: the tasks that use object o

ASSUME UsersAssumption == Users \in [Queue -> SUBSET Task]

VARIABLES lock,       \* i_lock, s_lock or b_lock of each object
          wq,         \* the wait queues, one per object
          pc, obj     \* what each task does, and with which object

lockVars == <<lock, wq, pc, obj>>

LockTypeOK == /\ lock \in [Queue -> BOOLEAN]
              /\ wq \in WaitQueues
              /\ pc \in [Task -> {"idle", "locking", "waiting", "holding"}]
              /\ obj \in [Task -> Queue]

LockInit == /\ lock = [o \in Queue |-> FALSE]
            /\ wq = NobodyWaits
            /\ pc = [t \in Task |-> "idle"]
            /\ obj \in [Task -> Queue]

MayRun(t) == Runnable(wq, t)

GoTo(t, label) == pc' = [pc EXCEPT ![t] = label]

Take(t, o) == lock' = [lock EXCEPT ![o] = TRUE]

(***************************************************************************)
(* lock_inode, lock_super, lock_buffer: while the flag is set, sleep.  The  *)
(* test, the assignment and the entry of sleep_on happen under cli().       *)
(***************************************************************************)
LockAtOnce(t, o) ==
    /\ MayRun(t) /\ pc[t] = "idle" /\ ~lock[o]
    /\ Take(t, o)
    /\ GoTo(t, "holding")
    /\ obj' = [obj EXCEPT ![t] = o]
    /\ UNCHANGED wq

Sleeps(t, o, label) ==
    /\ MayRun(t) /\ pc[t] = "idle" /\ lock[o]
    /\ wq' = SleepOn(wq, o, t)
    /\ GoTo(t, label)
    /\ obj' = [obj EXCEPT ![t] = o]
    /\ UNCHANGED lock

LockSleeps(t, o) == Sleeps(t, o, "locking")

\* wait_on_inode, wait_on_super: the same loop without the assignment.
WaitSleeps(t, o) == Sleeps(t, o, "waiting")

\* Mutant: `if' in the place of `while'.
LockResumesUntested(t) ==
    /\ MayRun(t) /\ pc[t] = "locking"
    /\ wq' = SleepReturns(wq, obj[t], t)
    /\ Take(t, obj[t])
    /\ GoTo(t, "holding")
    /\ UNCHANGED obj

LockResumes(t) ==
    /\ MayRun(t) /\ pc[t] = "locking" /\ ~lock[obj[t]]
    /\ wq' = SleepReturns(wq, obj[t], t)
    /\ Take(t, obj[t])
    /\ GoTo(t, "holding")
    /\ UNCHANGED obj

WaitReturns(t) ==
    /\ MayRun(t) /\ pc[t] = "waiting" /\ ~lock[obj[t]]
    /\ wq' = SleepReturns(wq, obj[t], t)
    /\ GoTo(t, "idle")
    /\ UNCHANGED <<lock, obj>>

\* The flag is set again: the loop sleeps once more.
SleepsOnceMore(t) ==
    /\ MayRun(t) /\ pc[t] \in {"locking", "waiting"} /\ lock[obj[t]]
    /\ wq' = SleepOn(SleepReturns(wq, obj[t], t), obj[t], t)
    /\ UNCHANGED <<lock, pc, obj>>

\* unlock_inode, free_super, unlock_buffer.
Unlock(t) ==
    /\ MayRun(t) /\ pc[t] = "holding"
    /\ lock' = [lock EXCEPT ![obj[t]] = FALSE]
    /\ wq' = WakeUp(wq, obj[t])
    /\ GoTo(t, "idle")
    /\ UNCHANGED obj

LockStep(t) ==
    \/ \E o \in Queue : /\ t \in Users[o]
                        /\ \/ LockAtOnce(t, o)
                           \/ LockSleeps(t, o)
                           \/ WaitSleeps(t, o)
    \/ LockResumes(t)
    \/ WaitReturns(t)
    \/ SleepsOnceMore(t)
    \/ Unlock(t)

LockNext == \E t \in Task : LockStep(t)

LockSpec == LockInit /\ [][LockNext]_lockVars

(***************************************************************************)
(* A runnable task is scheduled again (its counter is refilled when all     *)
(* counters are 0), and a task that holds a lock gives it back.             *)
(***************************************************************************)
FairLockSpec ==
    /\ LockSpec
    /\ \A t \in Task : /\ WF_lockVars(Unlock(t))
                       /\ WF_lockVars(LockResumes(t) \/ WaitReturns(t)
                                        \/ SleepsOnceMore(t))

-----------------------------------------------------------------------------
Holders(o) == {t \in Task : pc[t] = "holding" /\ obj[t] = o}

Asleep(t) == pc[t] \in {"locking", "waiting"}

\* At most one task is between lock_x and unlock_x of one object, and the flag
\* says whether one is: no interleaving of sleepers, spurious wake-ups
\* included, lets a second task in.
MutualExclusion ==
    \A o \in Queue : /\ \A t, u \in Holders(o) : t = u
                     /\ lock[o] <=> Holders(o) # {}

\* A task sleeping for a lock can still be found: by the next wake_up of its
\* object, or by a task that is awake and will wake it when it resumes in
\* sleep_on.
NoSleeperLost == \A t \in Task : Asleep(t) => Reachable(wq, obj[t], t)

\* Every task that sleeps for a lock is made runnable again.
SleepersAreWoken == \A t \in Task : Asleep(t) ~> MayRun(t)
==============================================================================
