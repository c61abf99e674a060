------------------------------- MODULE Floppy -------------------------------
(***************************************************************************)
(* The floppy driver (kernel/blk_drv/floppy.c) with the timers and the      *)
(* motors kernel/sched.c keeps for it.                                      *)
(*                                                                         *)
(* The driver may not sleep.  It goes on from one of three places: a timer, *)
(* an interrupt of the controller, or the task whose request is the first   *)
(* of the queue.  Its code runs to its end before anything else happens     *)
(* (at # "out").  Tasks step between the interrupts; a task in the middle   *)
(* of floppy_change is `running'.                                           *)
(*                                                                         *)
(* The controller is external: it takes the bytes of a command or not, and  *)
(* answers a command it has taken with an interrupt, well or badly.  Which  *)
(* track a block is on is left open, and so whether the head has to move.   *)
(***************************************************************************)
EXTENDS WaitQueue, Integers, FiniteSetsExt, SequencesExt

CONSTANTS Drive,
          drive0,           \* the drive of the initial DOR
          wait_motor,       \* wait_motor[d]: the tasks that wait for d's motor
          wait_on_floppy_select,
          MAX_ERRORS,
          ON,               \* ticks a motor needs to spin up (HZ/2)
          SELECT,           \* ticks a drive needs to be selected (2)
          OFF,              \* ticks a motor runs on (3*HZ)
          BIG,              \* 100 s = very big
          MAX_QUEUE         \* bound on the requests queued

ASSUME FloppyAssumption ==
    /\ IsFiniteSet(Drive) /\ drive0 \in Drive
    /\ wait_motor \in [Drive -> Queue \ {wait_on_floppy_select}]
    /\ \A d, e \in Drive : wait_motor[d] = wait_motor[e] => d = e
    /\ wait_on_floppy_select \in Queue
    /\ MAX_ERRORS \in Nat \ {0, 1} /\ MAX_QUEUE \in Nat
    /\ {ON, SELECT, OFF, BIG} \subseteq Nat
    /\ 0 < SELECT /\ SELECT < ON /\ ON + SELECT < OFF /\ OFF <= BIG

VARIABLES queue,        \* blk_dev[2].current_request and its next's
          timer,        \* next_timer: each entry counts from the one before it
          ticking,      \* do_timer is at its call of do_floppy_timer
          dor,          \* current_DOR: the motors that are on, the drive selected
          selected,
          mon, moff,    \* mon_timer, moff_timer
          fdc,          \* the driver's flags, and whether an interrupt is due
          at,           \* the function of the driver that runs
          wq, pc, nr,   \* tasks in floppy_change(nr)
          running,
          raced         \* a request was queued while the driver was at work without one

motors == <<dor, selected, mon, moff>>
tasks  == <<pc, nr, running>>
vars   == <<queue, timer, ticking, motors, fdc, at, wq, tasks, raced>>

Handler == {"none", "rw_interrupt", "seek_interrupt", "recal_interrupt", "reset_interrupt"}
Request == [dev : Drive, errors : 0 .. MAX_ERRORS]

TypeOK ==
    /\ queue \in Seq(Request) /\ Len(queue) <= MAX_QUEUE
    /\ timer \in Seq([jiffies : 1 .. ON, fn : {"floppy_on_interrupt", "transfer"}])
    /\ ticking \in BOOLEAN /\ selected \in BOOLEAN
    /\ dor \in [on : SUBSET Drive, drive : Drive]
    /\ mon \in [Drive -> 0 .. ON] /\ moff \in [Drive -> 0 .. BIG]
    /\ fdc \in [do_floppy : Handler, busy : BOOLEAN, reset : BOOLEAN,
                recalibrate : BOOLEAN, seek : BOOLEAN, current_drive : Drive]
    /\ at \in {"out", "do_fd_request", "floppy_on_interrupt", "transfer"}
    /\ wq \in WaitQueues
    /\ pc \in [Task -> {"user", "on", "nap", "motor_sleep", "select", "drowsy",
                        "select_sleep", "dir"}]
    /\ nr \in [Task -> Drive]
    /\ running \in Task \cup {NoTask}
    /\ raced \in BOOLEAN

CURRENT == Head(queue)

Init ==
    /\ queue = << >> /\ timer = << >> /\ ticking = FALSE
    /\ dor = [on |-> {}, drive |-> drive0] /\ selected = FALSE
    /\ mon = [d \in Drive |-> 0] /\ moff = [d \in Drive |-> 0]
    /\ fdc = [do_floppy |-> "none", busy |-> FALSE, reset |-> FALSE,
              recalibrate |-> FALSE, seek |-> FALSE, current_drive |-> drive0]
    /\ at = "out"
    /\ wq = NobodyWaits
    /\ pc = [t \in Task |-> "user"] /\ nr = [t \in Task |-> drive0]
    /\ running = NoTask
    /\ raced = FALSE

Quiet == at = "out" /\ ~ticking /\ ~raced

(***************************************************************************)
(* The motors and the timers of sched.c.                                    *)
(***************************************************************************)
\* Mutant: the drive is taken from a transfer that is under way.
SelectAtOnce(d) == d

Select(d) == IF selected THEN dor.drive ELSE d

\* ticks_to_floppy_on.  What it returns is mon'[d].
TicksToFloppyOn(d) ==
    LET new == [on |-> dor.on \cup {d}, drive |-> Select(d)]
    IN  /\ dor' = new
        /\ mon' = [mon EXCEPT ![d] = CASE new = dor       -> @
                                       [] d \notin dor.on -> ON
                                       [] OTHER           -> Max({@, SELECT})]
        /\ moff' = [moff EXCEPT ![d] = BIG]
        /\ UNCHANGED selected

\* add_timer.  A new entry goes behind those that are due before it and counts from
\* there; the one behind it still counts from where it did.
Due(list, n) == FoldLeft(LAMBDA sum, e : sum + e.jiffies, 0, SubSeq(list, 1, n))

AddTimer(list, jiffies, fn) ==
    LET before == {n \in 0 .. Len(list) :
                      \A i \in 1 .. n : list[i].jiffies < jiffies - Due(list, i - 1)}
        n == Max(before)
    IN  InsertAt(list, n + 1, [jiffies |-> jiffies - Due(list, n), fn |-> fn])

\* do_timer: the first entry counts down, and its function is called.
Tick ==
    /\ Quiet
    /\ timer # << >> \/ dor.on # {}
    /\ IF timer = << >>
       THEN UNCHANGED <<timer, at>>
       ELSE IF Head(timer).jiffies = 1
            THEN timer' = Tail(timer) /\ at' = Head(timer).fn
            ELSE timer' = [timer EXCEPT ![1].jiffies = @ - 1] /\ UNCHANGED at
    /\ ticking' = TRUE
    /\ UNCHANGED <<queue, motors, fdc, wq, tasks, raced>>

Woken(D) == FoldSet(LAMBDA d, w : WakeUp(w, wait_motor[d]), wq, D)

\* do_floppy_timer, after the functions have been called.
DoFloppyTimer ==
    /\ ticking /\ at = "out" /\ ~raced
    /\ LET spinning == {d \in dor.on : mon[d] # 0}
           idle     == dor.on \ spinning
       IN  /\ mon' = [d \in Drive |-> IF d \in spinning THEN mon[d] - 1 ELSE mon[d]]
           /\ wq' = Woken({d \in spinning : mon[d] = 1})
           /\ moff' = [d \in Drive |-> IF d \in idle /\ moff[d] # 0
                                       THEN moff[d] - 1 ELSE moff[d]]
           /\ dor' = [dor EXCEPT !.on = @ \ {d \in idle : moff[d] = 0}]
    /\ ticking' = FALSE
    /\ UNCHANGED <<queue, timer, selected, fdc, at, tasks, raced>>

(***************************************************************************)
(* The end of a request.                                                    *)
(***************************************************************************)
\* floppy_deselect
Deselect == /\ selected' = FALSE
            /\ wq' = WakeUp(wq, wait_on_floppy_select)

\* end_request, and floppy_off in it.
EndRequest == /\ queue' = Tail(queue)
              /\ moff' = [moff EXCEPT ![CURRENT.dev] = OFF]

Continue(then) == /\ fdc' = then /\ at' = "do_fd_request"
                  /\ UNCHANGED <<timer, ticking, dor, mon, tasks, raced>>

Recover(then, reset) == IF reset THEN [then EXCEPT !.reset = TRUE]
                                 ELSE [then EXCEPT !.recalibrate = TRUE]

\* Mutant: the errors of this attempt alone.
FirstError == 1

Errors == CURRENT.errors + 1

\* bad_flp_intr.  When it gives a request up it tests the errors of the next one, or
\* what is at the NULL pointer.
BadFlpIntr(then) ==
    IF Errors > MAX_ERRORS
    THEN /\ Deselect /\ EndRequest
         /\ \E bad \in BOOLEAN :
               /\ queue' # << >> => bad = (Head(queue').errors > MAX_ERRORS \div 2)
               /\ Continue(Recover(then, bad))
    ELSE /\ queue' = [queue EXCEPT ![1].errors = Errors]
         /\ Continue(Recover(then, Errors > MAX_ERRORS \div 2))
         /\ UNCHANGED <<selected, moff, wq>>

(***************************************************************************)
(* The interrupt.  floppy_interrupt clears do_floppy and calls what was in  *)
(* it; the functions end with a call of do_fd_request, or with a command.   *)
(***************************************************************************)
Interrupt(handler) == Quiet /\ fdc.busy /\ fdc.do_floppy = handler

Answered == [fdc EXCEPT !.do_floppy = "none", !.busy = FALSE]

\* A command that the controller takes, or does not: then the flag reset is set and
\* the caller of output_byte calls do_fd_request.
Command(handler, then) ==
    /\ \E taken \in BOOLEAN :
          /\ fdc' = [then EXCEPT !.do_floppy = handler, !.busy = taken, !.reset = ~taken]
          /\ at' = IF taken THEN "out" ELSE "do_fd_request"
    /\ UNCHANGED <<queue, timer, ticking, motors, wq, tasks, raced>>

\* The transfer is done, or the diskette is write protected; that may be an old reply,
\* and the controller silent.
RwInterrupt ==
    /\ Interrupt("rw_interrupt")
    /\ Deselect /\ EndRequest
    /\ \E silent \in BOOLEAN : Continue([Answered EXCEPT !.reset = silent])

TransferFails ==
    /\ Interrupt("rw_interrupt") \/ Interrupt("seek_interrupt")
    /\ \E silent \in BOOLEAN : BadFlpIntr([Answered EXCEPT !.reset = silent])

SeekInterrupt ==
    /\ Interrupt("seek_interrupt")
    /\ Command("rw_interrupt", Answered)

\* recal_interrupt
Recalibrated ==
    /\ Interrupt("recal_interrupt")
    /\ Continue([Answered EXCEPT !.recalibrate = FALSE])
    /\ UNCHANGED <<queue, selected, moff, wq>>

RecalFails ==
    /\ Interrupt("recal_interrupt")
    /\ Continue([Answered EXCEPT !.reset = TRUE])
    /\ UNCHANGED <<queue, selected, moff, wq>>

\* reset_interrupt; the controller may not take the bytes.
ResetInterrupt ==
    /\ Interrupt("reset_interrupt")
    /\ \E silent \in BOOLEAN : Continue([Answered EXCEPT !.reset = silent])
    /\ UNCHANGED <<queue, selected, moff, wq>>
(***************************************************************************)
(* do_fd_request and the functions the timer calls.                         *)
(***************************************************************************)
Runs(fn) == at = fn /\ ~raced

\* reset_floppy
ResetFloppy ==
    /\ Runs("do_fd_request") /\ fdc.reset
    /\ fdc' = [fdc EXCEPT !.do_floppy = "reset_interrupt", !.busy = TRUE, !.seek = FALSE,
                          !.reset = FALSE, !.recalibrate = TRUE]
    /\ at' = "out"
    /\ UNCHANGED <<queue, timer, ticking, motors, wq, tasks, raced>>

\* recalibrate_floppy.  It does not look whether there is a request, and takes the
\* number of the drive from what is there.
RecalibrateFloppy ==
    /\ Runs("do_fd_request") /\ ~fdc.reset /\ fdc.recalibrate
    /\ \E d \in Drive :
          /\ queue # << >> => d = CURRENT.dev
          /\ Command("recal_interrupt", [fdc EXCEPT !.recalibrate = FALSE, !.seek = FALSE,
                                                     !.current_drive = d])

ReadyForRequest == Runs("do_fd_request") /\ ~fdc.reset /\ ~fdc.recalibrate

NoRequest ==
    /\ ReadyForRequest /\ queue = << >>
    /\ at' = "out" /\ fdc' = [fdc EXCEPT !.seek = FALSE]
    /\ UNCHANGED <<queue, timer, ticking, motors, wq, tasks, raced>>

\* Mutant: return instead of goto repeat.
RefuseAndReturn ==
    /\ ReadyForRequest /\ queue # << >> /\ CURRENT.errors = 0
    /\ EndRequest
    /\ fdc' = [fdc EXCEPT !.current_drive = CURRENT.dev,
                          !.seek = @ \/ fdc.current_drive # CURRENT.dev]
    /\ at' = "out"
    /\ UNCHANGED <<timer, ticking, dor, selected, mon, wq, tasks, raced>>

\* A block past the end of the diskette; goto repeat.  Such a block is never tried.
RefuseRequest ==
    /\ ReadyForRequest /\ queue # << >> /\ CURRENT.errors = 0
    /\ EndRequest
    /\ fdc' = [fdc EXCEPT !.current_drive = CURRENT.dev,
                          !.seek = @ \/ fdc.current_drive # CURRENT.dev]
    /\ UNCHANGED <<timer, ticking, dor, selected, mon, at, wq, tasks, raced>>

\* The motor is turned on, and floppy_on_interrupt called when it has spun up.
StartRequest ==
    /\ ReadyForRequest /\ queue # << >>
    /\ \E seek \in BOOLEAN :
          /\ fdc.current_drive # CURRENT.dev => seek
          /\ fdc' = [fdc EXCEPT !.current_drive = CURRENT.dev, !.seek = @ \/ seek]
    /\ TicksToFloppyOn(CURRENT.dev)
    /\ IF mon'[CURRENT.dev] = 0
       THEN at' = "floppy_on_interrupt" /\ UNCHANGED timer
       ELSE at' = "out" /\ timer' = AddTimer(timer, mon'[CURRENT.dev], "floppy_on_interrupt")
    /\ UNCHANGED <<queue, ticking, wq, tasks, raced>>

FloppyOnInterrupt ==
    /\ Runs("floppy_on_interrupt")
    /\ selected' = TRUE
    /\ dor' = [dor EXCEPT !.drive = fdc.current_drive]
    /\ IF dor' = dor
       THEN at' = "transfer" /\ UNCHANGED timer
       ELSE at' = "out" /\ timer' = AddTimer(timer, SELECT, "transfer")
    /\ UNCHANGED <<queue, ticking, mon, moff, fdc, wq, tasks, raced>>

\* The head has to move first, or setup_rw_floppy can start the transfer.
Transfer ==
    /\ Runs("transfer")
    /\ Command(IF fdc.seek THEN "seek_interrupt" ELSE "rw_interrupt", fdc)

(***************************************************************************)
(* Tasks.                                                                   *)
(***************************************************************************)
Enters(t, label) == Quiet /\ running = NoTask /\ pc[t] = label /\ Runnable(wq, t)
In(t, label)     == Quiet /\ running = t /\ pc[t] = label
GoTo(t, label)   == pc' = [pc EXCEPT ![t] = label]

\* The driver has an interrupt or a timer to go on from.
UnderWay == fdc.busy \/ timer # << >>

\* add_request: the elevator may put the request anywhere behind the first, and the
\* first one calls do_fd_request.
AddRequest(d, i) ==
    /\ Quiet /\ running = NoTask /\ Len(queue) < MAX_QUEUE
    /\ queue' = InsertAt(queue, i, [dev |-> d, errors |-> 0])
    /\ IF queue = << >>
       THEN at' = "do_fd_request" /\ raced' = UnderWay
       ELSE UNCHANGED <<at, raced>>
    /\ UNCHANGED <<timer, ticking, motors, fdc, wq, tasks>>

driver == <<queue, timer, ticking, fdc, at, raced>>

\* floppy_change, called by check_disk_change; it starts with floppy_on.
FloppyChange(t, d) ==
    /\ Enters(t, "user")
    /\ nr' = [nr EXCEPT ![t] = d]
    /\ GoTo(t, "on") /\ running' = t
    /\ UNCHANGED <<driver, motors, wq>>

\* ticks_to_floppy_on returns with interrupts enabled.
FloppyOn(t) ==
    /\ In(t, "on")
    /\ TicksToFloppyOn(nr[t])
    /\ GoTo(t, IF mon'[nr[t]] = 0 THEN "select" ELSE "nap")
    /\ UNCHANGED <<driver, wq, nr, running>>

MotorSleeps(t) ==
    /\ In(t, "nap")
    /\ wq' = SleepOn(wq, wait_motor[nr[t]], t)
    /\ GoTo(t, "motor_sleep") /\ running' = NoTask
    /\ UNCHANGED <<driver, motors, nr>>

MotorResumes(t) ==
    /\ Enters(t, "motor_sleep")
    /\ wq' = SleepReturns(wq, wait_motor[nr[t]], t)
    /\ GoTo(t, "on") /\ running' = t
    /\ UNCHANGED <<driver, motors, nr>>

\* Another drive is selected: wait until it is not, or start again; an interrupt may
\* select another one after the test.
LooksAtSelection(t) ==
    /\ In(t, "select")
    /\ GoTo(t, IF dor.drive = nr[t] THEN "dir" ELSE IF selected THEN "drowsy" ELSE "on")
    /\ UNCHANGED <<driver, motors, wq, nr, running>>

SelectSleeps(t) ==
    /\ In(t, "drowsy")
    /\ wq' = InterruptibleSleepOn(wq, wait_on_floppy_select, t)
    /\ GoTo(t, "select_sleep") /\ running' = NoTask
    /\ UNCHANGED <<driver, motors, nr>>

\* Woken, or by a signal.
SelectResumes(t) ==
    /\ Quiet /\ running = NoTask /\ pc[t] = "select_sleep"
    /\ IF AnotherIsLast(wq, wait_on_floppy_select, t)
       THEN wq' = SleepsAgain(wq, wait_on_floppy_select, t) /\ UNCHANGED <<pc, running>>
       ELSE /\ wq' = InterruptibleReturns(wq, wait_on_floppy_select, t)
            /\ GoTo(t, "select") /\ running' = t
    /\ UNCHANGED <<driver, motors, nr>>

\* The change line is read; floppy_off.
ReadDir(t) ==
    /\ In(t, "dir")
    /\ moff' = [moff EXCEPT ![nr[t]] = OFF]
    /\ GoTo(t, "user") /\ running' = NoTask
    /\ UNCHANGED <<driver, dor, selected, mon, wq, nr>>

Timers == Tick \/ DoFloppyTimer
Code   == \/ ResetFloppy \/ RecalibrateFloppy \/ NoRequest \/ RefuseRequest
          \/ StartRequest \/ FloppyOnInterrupt \/ Transfer
Answer == \/ RwInterrupt \/ TransferFails \/ SeekInterrupt
          \/ Recalibrated \/ RecalFails \/ ResetInterrupt

Step(t) == \/ \E d \in Drive : FloppyChange(t, d)
           \/ FloppyOn(t) \/ MotorSleeps(t) \/ MotorResumes(t)
           \/ LooksAtSelection(t) \/ SelectSleeps(t) \/ SelectResumes(t) \/ ReadDir(t)

Next == \/ Timers \/ Code \/ Answer
        \/ \E t \in Task : Step(t)
        \/ \E d \in Drive, i \in 2 .. Len(queue) + 1 : AddRequest(d, i)
        \/ \E d \in Drive : queue = << >> /\ AddRequest(d, 1)

Spec == Init /\ [][Next]_vars

\* The clock ticks, code runs to its end, the controller answers what it has taken.
FairSpec == Spec /\ WF_vars(Timers) /\ WF_vars(Code) /\ SF_vars(Answer)
-----------------------------------------------------------------------------
\* The driver goes on from one place at a time, and with a request in the queue it
\* does: no timer or interrupt comes in twice, and none is missing.  A request that is
\* queued while the driver recovers from one it gave up starts it a second time.
Threads == Len(timer) + (IF fdc.busy THEN 1 ELSE 0) + (IF at = "out" THEN 0 ELSE 1)

OneThread == ~raced => Threads <= 1 /\ (queue # << >> => Threads = 1)

\* transfer() is called when the motor is on and has spun up, and the drive of the
\* request is selected; it stays selected until the transfer has ended, whatever
\* drives the tasks turn on and select meanwhile.
TransferIsSetUp ==
    LET d == fdc.current_drive
    IN  /\ at = "transfer" => d \in dor.on /\ mon[d] <= SELECT
        /\ at = "transfer" \/ (fdc.busy /\ fdc.do_floppy \in {"seek_interrupt", "rw_interrupt"})
              => selected /\ dor.drive = d /\ queue # << >> /\ CURRENT.dev = d

\* Requests end, however often transfers fail, unless the controller has to be reset
\* again and again.
Ended == Len(queue') < Len(queue)
Reset == fdc.reset /\ ~fdc'.reset

RequestsEnd ==
    \/ []<>(queue = << >>) \/ []<><<Ended>>_vars
    \/ []<><<Reset>>_vars \/ <>[]raced
=============================================================================
