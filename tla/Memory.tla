-------------------------------- MODULE Memory --------------------------------
(***************************************************************************)
(* Memory management: demand loading, sharing of executables, copy on       *)
(* write, fork, exec and exit (mm/memory.c, kernel/fork.c, fs/exec.c,       *)
(* kernel/exit.c).                                                          *)
(*                                                                         *)
(* The kernel is not preemptive, so a step is what a task does between two  *)
(* sleeps: only reading a page of the executable, and closing files in      *)
(* do_execve, let other tasks run.  A user task can be preempted at any     *)
(* instruction.                                                             *)
(***************************************************************************)
EXTENDS Paging

CONSTANTS Text,    \* the virtual pages below end_data; the others are empty
          Exe      \* the executables, as contents of their pages

ASSUME MemoryAssumption ==
    /\ Text \subseteq VPage /\ VPage \ Text # {}
    /\ Exe \subseteq Nat \ (Task \cup {0})
    /\ Task # {} /\ NR_PAGES >= 3

VARIABLES mem,         \* the page tables and the page map, see Paging
          status,      \* task[]: unused, alive, zombie
          executable,
          pc, target,  \* what a task does, with which virtual page
          held,        \* the page a sleeping task has got and not put
          struct,      \* the page with the task_struct and the kernel stack
          view,        \* what each task is to find in its pages
          disturbed    \* at which points a task has been interrupted half way

vars == <<mem, status, executable, pc, target, held, struct, view, disturbed>>

TypeOK ==
    /\ mem \in [map : [Page -> Nat], dir : [Task -> [VPage -> 0 .. NR_PAGES]],
                pte : [Task -> [VPage -> Entry]], val : [Page -> {0} \cup Task \cup Exe]]
    /\ status \in [Task -> {"unused", "alive", "zombie"}]
    /\ executable \in [Task -> Exe \cup {0}]
    /\ pc \in [Task -> {"user", "bread_page", "restart", "verified", "close"}]
    /\ target \in [Task -> VPage]
    /\ held \in [Task -> 0 .. NR_PAGES]
    /\ struct \in [Task -> 0 .. NR_PAGES]
    /\ view \in [Task -> [VPage -> {0} \cup Task \cup Exe]]
    /\ disturbed \subseteq {"restart", "verified", "close"}

Stack == CHOOSE v \in VPage \ Text : TRUE   \* where exec puts the arguments

\* What do_execve makes of t's memory: the arguments are the only page there.
NewView(t, e) == [v \in VPage |-> IF v \in Text THEN e ELSE IF v = Stack THEN t ELSE 0]

\* One task has just executed a program.
Init ==
    LET t == Min(Task)
        page == NR_PAGES  table == NR_PAGES - 1  own == NR_PAGES - 2
    IN  \E e \in Exe :
        /\ mem = [map |-> [p \in Page |-> IF p >= own THEN 1 ELSE 0],
                  dir |-> [u \in Task |-> [v \in VPage |->
                              IF u = t /\ v = Stack THEN table ELSE 0]],
                  pte |-> [u \in Task |-> [v \in VPage |->
                              IF u = t /\ v = Stack THEN PageOr7(page) ELSE NotPresent]],
                  val |-> [p \in Page |-> IF p = page THEN t ELSE 0]]
        /\ status = [u \in Task |-> IF u = t THEN "alive" ELSE "unused"]
        /\ executable = [u \in Task |-> IF u = t THEN e ELSE 0]
        /\ pc = [u \in Task |-> "user"]
        /\ target = [u \in Task |-> Stack]
        /\ held = [u \in Task |-> 0]
        /\ struct = [u \in Task |-> IF u = t THEN own ELSE 0]
        /\ view = [u \in Task |-> IF u = t THEN NewView(t, e) ELSE [v \in VPage |-> 0]]
        /\ disturbed = {}

At(t, label) == status[t] = "alive" /\ pc[t] = label

GoTo(t, label) == pc' = [pc EXCEPT ![t] = label]

ReturnToUser(t) == GoTo(t, "user") /\ target' = [target EXCEPT ![t] = Stack]

process == <<status, executable, struct>>

\* do_exit, as far as the memory goes; tables is the memory it starts from.
do_exit(t, tables) ==
    /\ mem' = free_page_tables(tables, t)
    /\ status' = [status EXCEPT ![t] = "zombie"]
    /\ executable' = [executable EXCEPT ![t] = 0]
    /\ ReturnToUser(t)
    /\ held' = [held EXCEPT ![t] = 0]
    /\ view' = [view EXCEPT ![t] = [v \in VPage |-> 0]]
    /\ UNCHANGED <<struct, disturbed>>

oom(t) == do_exit(t, mem)

(***************************************************************************)
(* do_no_page                                                               *)
(***************************************************************************)
Faults(t, v) == At(t, "user") /\ ~Present(mem, t, v)

\* get_empty_page; when the page table cannot be had, the page is freed.
EmptyPage(t, v) ==
    /\ Faults(t, v) /\ v \notin Text
    /\ IF FreePages(mem) # {} /\ CanTable(GetFreePage(mem), t, v)
       THEN /\ mem' = put_page(GetFreePage(mem), t, v, NewPage(mem))
            /\ UNCHANGED <<process, pc, target, held, view, disturbed>>
       ELSE oom(t)

\* share_page looks for a task with the same executable, the last one first.
Sharers(t, v) ==
    {u \in Task \ {t} : /\ status[u] = "alive"
                        /\ executable[u] = executable[t]
                        /\ PresentAndClean(mem, u, v)}

SharePage(t, v) ==
    /\ Faults(t, v) /\ v \in Text /\ Sharers(t, v) # {}
    /\ IF CanTable(mem, t, v)
       THEN /\ mem' = try_to_share(mem, t, v, Max(Sharers(t, v)))
            /\ UNCHANGED <<process, pc, target, held, view, disturbed>>
       ELSE oom(t)

\* A page is got, and the task sleeps in bread_page.
LoadPage(t, v) ==
    /\ Faults(t, v) /\ v \in Text /\ Sharers(t, v) = {}
    /\ IF FreePages(mem) # {}
       THEN /\ mem' = GetFreePage(mem)
            /\ held' = [held EXCEPT ![t] = NewPage(mem)]
            /\ target' = [target EXCEPT ![t] = v]
            /\ GoTo(t, "bread_page")
            /\ UNCHANGED <<process, view, disturbed>>
       ELSE oom(t)

\* Mutant: the page is not freed when it cannot be put.
PageReadLeaks(t) ==
    /\ At(t, "bread_page")
    /\ IF CanTable(mem, t, target[t])
       THEN /\ mem' = [put_page(mem, t, target[t], held[t]) EXCEPT
                          !.val[held[t]] = executable[t]]
            /\ held' = [held EXCEPT ![t] = 0]
            /\ ReturnToUser(t)
            /\ UNCHANGED <<process, view, disturbed>>
       ELSE oom(t)

PageRead(t) ==
    /\ At(t, "bread_page")
    /\ IF CanTable(mem, t, target[t])
       THEN /\ mem' = [put_page(mem, t, target[t], held[t]) EXCEPT
                          !.val[held[t]] = executable[t]]
            /\ held' = [held EXCEPT ![t] = 0]
            /\ ReturnToUser(t)
            /\ UNCHANGED <<process, view, disturbed>>
       ELSE do_exit(t, free_page(mem, held[t]))

(***************************************************************************)
(* A user write.  The processor faults on a write-protected page and sets   *)
(* the dirty bit.                                                           *)
(***************************************************************************)
Stored(m, t, v) ==
    [m EXCEPT !.val[m.pte[t][v].page] = t, !.pte[t][v].dirty = TRUE]

Sees(t, v) == view' = [view EXCEPT ![t][v] = t]

WriteFrom(t, v, label) ==
    /\ At(t, label) /\ Present(mem, t, v)
    /\ IF mem.pte[t][v].writable \/ CanUnWp(mem, t, v)
       THEN /\ mem' = Stored(IF mem.pte[t][v].writable THEN mem
                             ELSE un_wp_page(mem, t, v), t, v)
            /\ Sees(t, v)
            /\ ReturnToUser(t)
            /\ UNCHANGED <<process, held, disturbed>>
       ELSE oom(t)

Write(t, v) == WriteFrom(t, v, "user")

(***************************************************************************)
(* copy_process: a page for the task_struct, then the page tables.          *)
(***************************************************************************)
Unused == {t \in Task : status[t] = "unused"}

Fork(t) ==
    /\ At(t, "user") /\ Unused # {} /\ FreePages(mem) # {}
    /\ LET c == Min(Unused)  m == GetFreePage(mem)
       IN  IF CanCopy(m, t)
           THEN /\ mem' = copy_page_tables(m, t, c)
                /\ status' = [status EXCEPT ![c] = "alive"]
                /\ executable' = [executable EXCEPT ![c] = executable[t]]
                /\ struct' = [struct EXCEPT ![c] = NewPage(mem)]
                /\ view' = [view EXCEPT ![c] = view[t]]
           ELSE /\ mem' = copy_page_tables_fails(free_page(m, NewPage(mem)), t)
                /\ UNCHANGED <<process, view>>
    /\ UNCHANGED <<pc, target, held, disturbed>>

(***************************************************************************)
(* do_execve.  copy_strings gets a page for the arguments.  The executable  *)
(* is changed, files are closed, the page tables are freed, and change_ldt  *)
(* puts the arguments into the new stack.                                   *)
(***************************************************************************)
\* The memory m without t's former pages, and with page as t's stack.
NewImage(m, t, page) ==
    LET freed == free_page_tables(m, t)
    IN  IF CanTable(freed, t, Stack)
        THEN [put_page(freed, t, Stack, page) EXCEPT !.val[page] = t]
        ELSE freed

Exec(t, e) ==
    /\ At(t, "user") /\ FreePages(mem) # {}
    /\ executable' = [executable EXCEPT ![t] = e]
    /\ mem' = NewImage(GetFreePage(mem), t, NewPage(mem))
    /\ view' = [view EXCEPT ![t] = NewView(t, e)]
    /\ UNCHANGED <<status, struct, pc, target, held, disturbed>>

Exit(t) == At(t, "user") /\ do_exit(t, mem)

\* release, from the parent's sys_waitpid.
Release(t) ==
    /\ status[t] = "zombie"
    /\ \E u \in Task : status[u] = "alive"
    /\ mem' = free_page(mem, struct[t])
    /\ struct' = [struct EXCEPT ![t] = 0]
    /\ status' = [status EXCEPT ![t] = "unused"]
    /\ UNCHANGED <<executable, pc, target, held, view, disturbed>>

(***************************************************************************)
(* The three points at which a task can be interrupted half way.            *)
(***************************************************************************)
Disturbs(what) == disturbed' = disturbed \cup {what}

\* A timer tick between do_wp_page and the instruction that is restarted.
WpFault(t, v) ==
    /\ At(t, "user") /\ Present(mem, t, v)
    /\ ~mem.pte[t][v].writable /\ CanUnWp(mem, t, v)
    /\ mem' = un_wp_page(mem, t, v)
    /\ GoTo(t, "restart")
    /\ target' = [target EXCEPT ![t] = v]
    /\ Disturbs("restart")
    /\ UNCHANGED <<process, held, view>>

Restart(t) == WriteFrom(t, target[t], "restart")

\* A system call checks the user's buffer with verify_area, sleeps, and writes
\* into it: in the kernel the 386 does not heed the writable bit.
VerifyArea(t, v) ==
    /\ At(t, "user") /\ Present(mem, t, v)
    /\ mem.pte[t][v].writable \/ CanUnWp(mem, t, v)
    /\ mem' = IF mem.pte[t][v].writable THEN mem ELSE un_wp_page(mem, t, v)
    /\ GoTo(t, "verified")
    /\ target' = [target EXCEPT ![t] = v]
    /\ Disturbs("verified")
    /\ UNCHANGED <<process, held, view>>

KernelWrite(t) ==
    /\ At(t, "verified")
    /\ mem' = Stored(mem, t, target[t])
    /\ Sees(t, target[t])
    /\ ReturnToUser(t)
    /\ UNCHANGED <<process, held, disturbed>>

\* do_execve sleeps when it closes files, between the change of the executable
\* and free_page_tables.
ExecCloses(t, e) ==
    /\ At(t, "user") /\ FreePages(mem) # {}
    /\ executable' = [executable EXCEPT ![t] = e]
    /\ mem' = GetFreePage(mem)
    /\ held' = [held EXCEPT ![t] = NewPage(mem)]
    /\ GoTo(t, "close")
    /\ Disturbs("close")
    /\ UNCHANGED <<status, struct, target, view>>

ExecGoesOn(t) ==
    /\ At(t, "close")
    /\ mem' = NewImage(mem, t, held[t])
    /\ held' = [held EXCEPT ![t] = 0]
    /\ view' = [view EXCEPT ![t] = NewView(t, executable[t])]
    /\ GoTo(t, "user")
    /\ UNCHANGED <<process, target, disturbed>>

Step(t) ==
    \/ \E v \in VPage : \/ EmptyPage(t, v) \/ SharePage(t, v) \/ LoadPage(t, v)
                        \/ Write(t, v) \/ WpFault(t, v) \/ VerifyArea(t, v)
    \/ PageRead(t) \/ Restart(t) \/ KernelWrite(t)
    \/ Fork(t) \/ Exit(t) \/ Release(t)
    \/ \E e \in Exe : Exec(t, e) \/ ExecCloses(t, e)
    \/ ExecGoesOn(t)

Next == \E t \in Task : Step(t)

Spec == Init /\ [][Next]_vars
-----------------------------------------------------------------------------
\* mem_map counts exactly the uses of every page: the entries that map it, the
\* page table or the task_struct it is, and the task that has got it and
\* sleeps.  So no page is leaked or freed twice, on no path that runs out of
\* memory half way through.
RefCounts ==
    \A p \in Page :
        mem.map[p] = Cardinality({x \in Task \X VPage : mem.pte[x[1]][x[2]].page = p})
                   + Cardinality({x \in Task \X VPage : mem.dir[x[1]][x[2]] = p})
                   + Cardinality({t \in Task : held[t] = p})
                   + Cardinality({t \in Task : struct[t] = p})

\* A page somebody may write to has no other user, whatever was forked and
\* shared before.
WritableIsPrivate ==
    \A t \in Task, v \in VPage :
        mem.pte[t][v].writable => OnlyUser(mem, t, v)

\* The memory of every task holds what the task itself wrote there, or what
\* the task it was forked from or its executable had there: sharing pages and
\* copying them late cannot be noticed, as long as no task has been interrupted
\* at one of the three points.
Isolation ==
    disturbed = {} =>
        \A t \in Task, v \in VPage :
            status[t] = "alive" /\ Present(mem, t, v)
                => mem.val[mem.pte[t][v].page] = view[t][v]
===============================================================================
