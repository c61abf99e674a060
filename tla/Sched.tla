------------------------------- MODULE Sched -------------------------------
(* The values of a task's state field, include/linux/sched.h. *)
RUNNING         == "TASK_RUNNING"
INTERRUPTIBLE   == "TASK_INTERRUPTIBLE"
UNINTERRUPTIBLE == "TASK_UNINTERRUPTIBLE"
ZOMBIE          == "TASK_ZOMBIE"
============================================================================
