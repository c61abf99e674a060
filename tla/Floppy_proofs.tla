---------------------------- MODULE Floppy_proofs ----------------------------
(***************************************************************************)
(* Proofs about Floppy: the driver goes on from one place, and when it      *)
(* sets up a transfer the motor of the drive has spun up and the drive is   *)
(* selected.                                                                *)
(*                                                                         *)
(* Nothing of the wait queues and of what the tasks do with them is used:   *)
(* whatever a task turns on, selects or turns off goes through              *)
(* ticks_to_floppy_on and floppy_off, and what those may do to the drive of *)
(* the request under way is what Counting bounds.                           *)
(*                                                                         *)
(* That the wait queues keep their type is proved last.  A tick may wake    *)
(* the queues of several motors, a fold over a set: FoldExists and          *)
(* WokenType go along the number of its elements.                           *)
(***************************************************************************)
EXTENDS Floppy, FiniteSetTheorems, SequenceTheorems, NaturalsInduction,
        WellFoundedInduction, TLAPS

Entry == [jiffies : 1 .. ON, fn : {"floppy_on_interrupt", "transfer"}]
Flags == [do_floppy : Handler, busy : BOOLEAN, reset : BOOLEAN,
          recalibrate : BOOLEAN, seek : BOOLEAN, current_drive : Drive]
Dor   == [on : SUBSET Drive, drive : Drive]

LEMMA Ticks == /\ ON \in Nat /\ SELECT \in Nat /\ OFF \in Nat /\ BIG \in Nat
               /\ 0 < SELECT /\ SELECT < ON /\ ON + SELECT < OFF /\ OFF <= BIG
               /\ MAX_ERRORS \in Nat /\ drive0 \in Drive
BY FloppyAssumption

LEMMA MaxOfTwo == \A i, j \in Nat : Max({i, j}) = IF i < j THEN j ELSE i
<1>1. ASSUME NEW i \in Nat, NEW j \in Nat PROVE Max({i, j}) = IF i < j THEN j ELSE i
  <2>1. PICK k \in {i, j} : \A l \in {i, j} : k >= l
    <3>1. CASE i < j
      BY <3>1
    <3>2. CASE ~(i < j)
      BY <3>2
    <3> QED
      BY <3>1, <3>2
  <2>2. \A a, b \in {i, j} : (\A l \in {i, j} : a >= l) /\ (\A l \in {i, j} : b >= l) => a = b
    OBVIOUS
  <2>3. Max({i, j}) \in {i, j} /\ \A l \in {i, j} : Max({i, j}) >= l
    BY <2>1 DEF Max
  <2> QED
    BY <2>3
<1> QED
  BY <1>1

\* The first entry of an empty list counts from now.
LEMMA DueIsZero == Due(<< >>, 0) = 0
<1>1. SubSeq(<< >>, 1, 0) = << >>
  OBVIOUS
<1>2. DOMAIN << >> = {}
  OBVIOUS
<1> QED
  BY <1>1, <1>2 DEF Due, FoldLeft, MapThenFoldSet

LEMMA FirstTimer ==
    ASSUME NEW j \in Nat, NEW f
    PROVE  AddTimer(<< >>, j, f) = <<[jiffies |-> j, fn |-> f]>>
<1>1. PICK before : before = {n \in 0 .. Len(<< >>) : \A i \in 1 .. n : << >>[i].jiffies < j - Due(<< >>, i - 1)}
  OBVIOUS
<1>2. before = {0}
  BY <1>1
<1>3. Max(before) = 0
  <2>1. {0} = {0, 0}
    OBVIOUS
  <2> QED
    BY <1>2, <2>1, MaxOfTwo
<1>4. AddTimer(<< >>, j, f) = InsertAt(<< >>, 0 + 1, [jiffies |-> j - Due(<< >>, 0), fn |-> f])
  BY <1>1, <1>3 DEF AddTimer
<1>5. j - Due(<< >>, 0) = j
  BY DueIsZero
<1>6. PICK e : e = [jiffies |-> j, fn |-> f]
  OBVIOUS
<1>7. InsertAt(<< >>, 0 + 1, e) = <<e>>
  <2>1. SubSeq(<< >>, 1, 1 - 1) = << >> /\ SubSeq(<< >>, 1, Len(<< >>)) = << >>
    OBVIOUS
  <2>2. << >> \o <<e>> \o << >> = <<e>>
    <3>1. << >> \o <<e>> = <<e>> /\ <<e>> \o << >> = <<e>>
      OBVIOUS
    <3> QED
      BY <3>1
  <2>3. InsertAt(<< >>, 1, e) = << >> \o <<e>> \o << >>
    BY <2>1, Zenon DEF InsertAt
  <2>4. 0 + 1 = 1
    OBVIOUS
  <2> QED
    BY <2>2, <2>3, <2>4, Zenon
<1> QED
  BY <1>4, <1>5, <1>6, <1>7

-----------------------------------------------------------------------------
(***************************************************************************)
(* The invariant.  Waits(fn) says that fn is what the timer will call.      *)
(***************************************************************************)
Types ==
    /\ queue \in Seq(Request) /\ Len(queue) <= MAX_QUEUE
    /\ timer \in Seq(Entry)
    /\ ticking \in BOOLEAN /\ selected \in BOOLEAN
    /\ dor \in Dor
    /\ mon \in [Drive -> 0 .. ON] /\ moff \in [Drive -> 0 .. BIG]
    /\ fdc \in Flags
    /\ at \in {"out", "do_fd_request", "floppy_on_interrupt", "transfer"}
    /\ nr \in [Task -> Drive]
    /\ raced \in BOOLEAN

Waits(fn) == timer # << >> /\ timer[1].fn = fn

Transferring == fdc.busy /\ fdc.do_floppy \in {"seek_interrupt", "rw_interrupt"}

OnePlace ==
    /\ Len(timer) <= 1
    /\ timer # << >> => at = "out" /\ ~fdc.busy
    /\ fdc.busy => at = "out"
    /\ queue # << >> => timer # << >> \/ fdc.busy \/ at # "out"

ForCurrent ==
    timer # << >> \/ at \in {"floppy_on_interrupt", "transfer"} \/ Transferring
        => queue # << >> /\ CURRENT.dev = fdc.current_drive

Chosen ==
    at = "transfer" \/ Waits("transfer") \/ Transferring
        => selected /\ dor.drive = fdc.current_drive

\* The ticks of the moment at which the functions of the timer run are still to be
\* taken from the motors.
Now == IF ticking THEN 1 ELSE 0

MotorOn(ticks, most) ==
    LET d == fdc.current_drive
    IN  d \in dor.on /\ moff[d] >= ticks + Now /\ mon[d] <= most

\* The motor spins when the timer is due, and it is not turned off before, whoever
\* has called floppy_off meanwhile.
Counting ==
    /\ Waits("floppy_on_interrupt") =>
          LET j == timer[1].jiffies
          IN  MotorOn(j + SELECT, Now + IF j < SELECT THEN SELECT ELSE j)
    /\ Waits("transfer") => MotorOn(timer[1].jiffies, SELECT)
    /\ at = "floppy_on_interrupt" => MotorOn(SELECT, SELECT)
    /\ at = "transfer" => MotorOn(0, SELECT)

IInv == /\ Types
        /\ ~raced => OnePlace /\ ForCurrent /\ Chosen /\ Counting
        /\ raced => at = "do_fd_request" /\ ~Transferring

LEMMA IInvIs == IInv => OneThread /\ TransferIsSetUp
<1>0. ASSUME IInv, raced PROVE OneThread /\ TransferIsSetUp
  BY <1>0 DEF IInv, OneThread, TransferIsSetUp, Transferring
<1> SUFFICES ASSUME IInv, ~raced
             PROVE  Threads <= 1 /\ (queue # << >> => Threads = 1) /\ TransferIsSetUp
  BY <1>0 DEF OneThread
<1>1. OnePlace /\ ForCurrent /\ Chosen /\ Counting /\ Types
  BY DEF IInv
<1>2. Len(timer) \in Nat /\ (Len(timer) = 0 <=> timer = << >>)
  BY <1>1 DEF Types
<1>3. Threads <= 1 /\ (queue # << >> => Threads = 1)
  <2>1. CASE timer # << >>
    <3>1. Len(timer) = 1 /\ at = "out" /\ ~fdc.busy
      <4>1. at = "out" /\ ~fdc.busy /\ Len(timer) <= 1
        BY <1>1, <2>1 DEF OnePlace
      <4>2. Len(timer) = 1
        BY <1>2, <2>1, <4>1
      <4> QED
        BY <4>1, <4>2
    <3> QED
      BY <3>1 DEF Threads
  <2>2. CASE timer = << >>
    <3>1. Len(timer) = 0 /\ (fdc.busy => at = "out")
      BY <1>1, <1>2, <2>2 DEF OnePlace
    <3>2. queue # << >> => fdc.busy \/ at # "out"
      BY <1>1, <2>2 DEF OnePlace
    <3>3. CASE fdc.busy
      BY <3>1, <3>3 DEF Threads
    <3>4. CASE ~fdc.busy
      BY <3>1, <3>2, <3>4 DEF Threads
    <3> QED
      BY <3>3, <3>4
  <2> QED
    BY <2>1, <2>2
<1>4. TransferIsSetUp
  BY <1>1 DEF ForCurrent, Chosen, Counting, MotorOn, TransferIsSetUp, Transferring
<1> QED
  BY <1>3, <1>4

(***************************************************************************)
(* What the steps of the driver start from.                                 *)
(***************************************************************************)
LEMMA CurrentIs ==
    ASSUME Types, queue # << >>
    PROVE  /\ CURRENT = queue[1] /\ CURRENT \in Request /\ CURRENT.dev \in Drive
           /\ CURRENT.errors \in 0 .. MAX_ERRORS
           /\ Tail(queue) \in Seq(Request) /\ Len(Tail(queue)) <= MAX_QUEUE
           /\ Len(queue) \in Nat /\ Len(queue) >= 1
<1>1. queue \in Seq(Request) /\ Len(queue) \in Nat /\ Len(queue) <= MAX_QUEUE /\ MAX_QUEUE \in Nat
  BY FloppyAssumption DEF Types
<1>2. Len(queue) >= 1
  BY <1>1
<1>3. queue[1] \in Request /\ CURRENT = queue[1]
  BY <1>1, <1>2 DEF CURRENT
<1>4. Tail(queue) \in Seq(Request) /\ Len(Tail(queue)) = Len(queue) - 1
  BY <1>1, <1>2
<1>5. CURRENT.dev \in Drive /\ CURRENT.errors \in 0 .. MAX_ERRORS
  BY <1>3 DEF Request
<1>6. Len(Tail(queue)) <= MAX_QUEUE
  BY <1>1, <1>4
<1> QED
  BY <1>1, <1>2, <1>3, <1>4, <1>5, <1>6

LEMMA NoTimer ==
    ASSUME IInv, ~raced, fdc.busy \/ at # "out"
    PROVE  timer = << >> /\ (at # "out" => ~fdc.busy)
BY DEF IInv, OnePlace

\* Where the driver calls do_fd_request there is nothing else to be said.
LEMMA AtRequest ==
    ASSUME Types', timer' = << >>, ~fdc'.busy, at' = "do_fd_request"
    PROVE  IInv'
<1>1. Len(timer') = 0
  OBVIOUS
<1> QED
  BY <1>1 DEF IInv, OnePlace, ForCurrent, Chosen, Counting, Waits, Transferring

LEMMA FlagsAre ==
    ASSUME NEW f \in Flags
    PROVE  /\ f.current_drive \in Drive /\ f.busy \in BOOLEAN /\ f.do_floppy \in Handler
           /\ \A b \in BOOLEAN : /\ [f EXCEPT !.reset = b] \in Flags
                                 /\ [f EXCEPT !.recalibrate = b] \in Flags
                                 /\ [f EXCEPT !.seek = b] \in Flags
           /\ \A h \in Handler, b, c \in BOOLEAN :
                 [f EXCEPT !.do_floppy = h, !.busy = b, !.reset = c] \in Flags
BY DEF Flags

LEMMA Commanded ==
    ASSUME NEW h \in Handler, NEW then \in Flags, Command(h, then)
    PROVE  /\ fdc' \in Flags /\ fdc'.current_drive = then.current_drive
           /\ \/ fdc'.busy /\ fdc'.do_floppy = h /\ at' = "out"
              \/ ~fdc'.busy /\ at' = "do_fd_request"
           /\ UNCHANGED <<queue, timer, ticking, motors, wq, tasks, raced>>
<1>1. PICK taken \in BOOLEAN :
         /\ fdc' = [then EXCEPT !.do_floppy = h, !.busy = taken, !.reset = ~taken]
         /\ at' = IF taken THEN "out" ELSE "do_fd_request"
  BY DEF Command
<1>2. fdc' \in Flags
  <2>1. (~taken) \in BOOLEAN
    BY Zenon
  <2> QED
    BY <1>1, <2>1, FlagsAre
<1>3. fdc'.current_drive = then.current_drive /\ fdc'.busy = taken /\ fdc'.do_floppy = h
  BY <1>1 DEF Flags
<1>4. CASE taken = TRUE
  BY <1>1, <1>2, <1>3, <1>4 DEF Command
<1>5. CASE taken = FALSE
  BY <1>1, <1>2, <1>3, <1>5 DEF Command
<1> QED
  BY <1>4, <1>5

LEMMA CommandStep ==
    ASSUME IInv, ~raced, timer = << >>, NEW h \in Handler, NEW then \in Flags,
           Command(h, then),
           h \in {"seek_interrupt", "rw_interrupt"} =>
              /\ queue # << >> /\ CURRENT.dev = then.current_drive
              /\ selected /\ dor.drive = then.current_drive
    PROVE  IInv'
<1>1. /\ fdc' \in Flags /\ fdc'.current_drive = then.current_drive
      /\ \/ fdc'.busy /\ fdc'.do_floppy = h /\ at' = "out"
         \/ ~fdc'.busy /\ at' = "do_fd_request"
      /\ UNCHANGED <<queue, timer, ticking, dor, selected, mon, moff, nr, raced>>
  BY Commanded DEF motors, tasks
<1>2. Types'
  BY <1>1 DEF IInv, Types
<1>3. CASE ~fdc'.busy /\ at' = "do_fd_request"
  BY <1>1, <1>2, <1>3, AtRequest
<1>4. CASE fdc'.busy /\ fdc'.do_floppy = h /\ at' = "out"
  <2>1. Len(timer') = 0
    BY <1>1
  <2>2. OnePlace'
    BY <1>1, <1>4, <2>1 DEF OnePlace
  <2>3. ForCurrent' /\ Chosen'
    BY <1>1, <1>4 DEF ForCurrent, Chosen, Waits, Transferring, CURRENT
  <2>4. Counting'
    BY <1>1, <1>4 DEF Counting, Waits
  <2> QED
    BY <1>1, <1>2, <2>2, <2>3, <2>4 DEF IInv
<1> QED
  BY <1>1, <1>3, <1>4

LEMMA InterruptIs ==
    ASSUME IInv, NEW h, Interrupt(h)
    PROVE  /\ Types /\ ~raced /\ timer = << >> /\ at = "out"
           /\ Answered \in Flags /\ ~Answered.busy
           /\ Answered.current_drive = fdc.current_drive
           /\ h \in {"seek_interrupt", "rw_interrupt"} =>
                 /\ queue # << >> /\ CURRENT.dev = fdc.current_drive
                 /\ selected /\ dor.drive = fdc.current_drive
<1>1. ~raced /\ at = "out" /\ fdc.busy /\ fdc.do_floppy = h
  BY DEF Interrupt, Quiet
<1>2. timer = << >> /\ Types /\ fdc \in Flags
  BY <1>1, NoTimer DEF IInv, Types
<1>3. /\ Answered \in Flags /\ ~Answered.busy
      /\ Answered.current_drive = fdc.current_drive
  BY <1>2 DEF Answered, Flags, Handler
<1>4. h \in {"seek_interrupt", "rw_interrupt"} =>
         /\ queue # << >> /\ CURRENT.dev = fdc.current_drive
         /\ selected /\ dor.drive = fdc.current_drive
  BY <1>1 DEF IInv, ForCurrent, Chosen, Transferring
<1> QED
  BY <1>1, <1>2, <1>3, <1>4

LEMMA OffIs == OFF \in 0 .. BIG /\ BIG \in 0 .. BIG
BY Ticks

LEMMA RwStep == ASSUME IInv, RwInterrupt PROVE IInv'
<1>1. Interrupt("rw_interrupt")
  BY DEF RwInterrupt
<1>2. /\ Types /\ timer = << >> /\ Answered \in Flags /\ ~Answered.busy /\ queue # << >>
  BY <1>1, InterruptIs
<1>3. PICK silent \in BOOLEAN : fdc' = [Answered EXCEPT !.reset = silent]
  BY DEF RwInterrupt, Continue
<1>4. /\ queue' = Tail(queue) /\ selected' = FALSE /\ moff' = [moff EXCEPT ![CURRENT.dev] = OFF]
      /\ at' = "do_fd_request" /\ UNCHANGED <<timer, ticking, dor, mon, nr, raced>>
  BY DEF RwInterrupt, Continue, Deselect, EndRequest, tasks
<1>5. fdc' \in Flags /\ ~fdc'.busy
  BY <1>2, <1>3 DEF Flags
<1>6. moff' \in [Drive -> 0 .. BIG]
  BY <1>2, <1>4, OffIs DEF Types
<1>7. queue' \in Seq(Request) /\ Len(queue') <= MAX_QUEUE
  BY <1>2, <1>4, CurrentIs
<1>8. Types'
  BY <1>2, <1>4, <1>5, <1>6, <1>7 DEF Types
<1> QED
  BY <1>2, <1>4, <1>5, <1>8, AtRequest

LEMMA FailsStep == ASSUME IInv, TransferFails PROVE IInv'
<1>1. PICK h : h \in {"seek_interrupt", "rw_interrupt"} /\ Interrupt(h)
  BY DEF TransferFails
<1>2. /\ Types /\ timer = << >> /\ Answered \in Flags /\ ~Answered.busy /\ queue # << >>
  BY <1>1, InterruptIs
<1>3. PICK silent \in BOOLEAN : BadFlpIntr([Answered EXCEPT !.reset = silent])
  BY DEF TransferFails
<1>4. PICK then : then = [Answered EXCEPT !.reset = silent]
  OBVIOUS
<1>5. then \in Flags /\ ~then.busy
  BY <1>2, <1>4 DEF Flags
<1>6. ASSUME NEW b \in BOOLEAN PROVE Recover(then, b) \in Flags /\ ~Recover(then, b).busy
  <2>1. [then EXCEPT !.reset = TRUE] \in Flags /\ ~[then EXCEPT !.reset = TRUE].busy
    BY <1>5 DEF Flags
  <2>2. [then EXCEPT !.recalibrate = TRUE] \in Flags /\ ~[then EXCEPT !.recalibrate = TRUE].busy
    BY <1>5 DEF Flags
  <2>3. \/ Recover(then, b) = [then EXCEPT !.reset = TRUE]
        \/ Recover(then, b) = [then EXCEPT !.recalibrate = TRUE]
    BY DEF Recover
  <2> QED
    BY <2>1, <2>2, <2>3
<1>7. /\ fdc' \in Flags /\ ~fdc'.busy /\ at' = "do_fd_request"
      /\ UNCHANGED <<timer, ticking, dor, mon, nr, raced>>
  <2>1. PICK b \in BOOLEAN : Continue(Recover(then, b))
    <3>1. CASE Errors > MAX_ERRORS
      BY <1>3, <1>4, <3>1 DEF BadFlpIntr
    <3>2. CASE ~(Errors > MAX_ERRORS)
      <4>1. PICK c : c = (Errors > MAX_ERRORS \div 2)
        OBVIOUS
      <4>2. c \in BOOLEAN
        BY <4>1
      <4>3. Continue(Recover(then, Errors > MAX_ERRORS \div 2))
        BY <1>3, <1>4, <3>2 DEF BadFlpIntr
      <4>4. Continue(Recover(then, c))
        BY <4>1, <4>3, Zenon
      <4> QED
        BY <4>2, <4>4
    <3> QED
      BY <3>1, <3>2
  <2> QED
    BY <1>6, <2>1 DEF Continue, tasks
<1>8. CASE Errors > MAX_ERRORS
  <2>1. /\ queue' = Tail(queue) /\ selected' = FALSE
        /\ moff' = [moff EXCEPT ![CURRENT.dev] = OFF]
    BY <1>3, <1>8 DEF BadFlpIntr, Deselect, EndRequest
  <2>2. moff' \in [Drive -> 0 .. BIG]
    BY <1>2, <2>1, OffIs DEF Types
  <2>3. queue' \in Seq(Request) /\ Len(queue') <= MAX_QUEUE
    BY <1>2, <2>1, CurrentIs
  <2>4. Types'
    BY <1>2, <1>7, <2>1, <2>2, <2>3 DEF Types
  <2> QED
    BY <1>2, <1>7, <2>4, AtRequest
<1>9. CASE ~(Errors > MAX_ERRORS)
  <2>1. queue' = [queue EXCEPT ![1].errors = Errors] /\ UNCHANGED <<selected, moff>>
    BY <1>3, <1>9 DEF BadFlpIntr
  <2>2. queue[1] \in Request /\ queue[1].errors \in 0 .. MAX_ERRORS /\ Len(queue) >= 1
        /\ Errors = queue[1].errors + 1
    BY <1>2, CurrentIs DEF Errors
  <2>3. Errors \in 0 .. MAX_ERRORS
    BY <1>9, <2>2, Ticks
  <2>4. PICK e : e = [queue[1] EXCEPT !.errors = Errors]
    OBVIOUS
  <2>5. e \in Request
    BY <2>2, <2>3, <2>4 DEF Request
  <2>6. queue' = [queue EXCEPT ![1] = e]
    BY <2>1, <2>4
  <2>7. queue' \in Seq(Request) /\ Len(queue') = Len(queue)
    BY <1>2, <2>2, <2>5, <2>6, ExceptSeq DEF Types
  <2>8. Types'
    BY <1>2, <1>7, <2>1, <2>7 DEF Types
  <2> QED
    BY <1>2, <1>7, <2>8, AtRequest
<1> QED
  BY <1>8, <1>9

LEMMA SeekStep == ASSUME IInv, SeekInterrupt PROVE IInv'
<1>1. Interrupt("seek_interrupt") /\ Command("rw_interrupt", Answered)
  BY DEF SeekInterrupt
<1>2. /\ ~raced /\ timer = << >> /\ Answered \in Flags
      /\ Answered.current_drive = fdc.current_drive
      /\ queue # << >> /\ CURRENT.dev = fdc.current_drive
      /\ selected /\ dor.drive = fdc.current_drive
  BY <1>1, InterruptIs
<1>3. "rw_interrupt" \in Handler
  BY DEF Handler
<1> QED
  BY <1>1, <1>2, <1>3, CommandStep

LEMMA AnswerStep == ASSUME IInv, Recalibrated \/ RecalFails \/ ResetInterrupt PROVE IInv'
<1>1. /\ UNCHANGED <<queue, selected, moff>>
      /\ \E f \in {[Answered EXCEPT !.recalibrate = FALSE], [Answered EXCEPT !.reset = TRUE],
                   [Answered EXCEPT !.reset = FALSE]} : Continue(f)
  BY DEF Recalibrated, RecalFails, ResetInterrupt
<1>2. PICK h : Interrupt(h)
  BY DEF Recalibrated, RecalFails, ResetInterrupt
<1>3. Types /\ timer = << >> /\ Answered \in Flags /\ ~Answered.busy
  BY <1>2, InterruptIs
<1>4. /\ fdc' \in Flags /\ ~fdc'.busy /\ at' = "do_fd_request"
      /\ UNCHANGED <<timer, ticking, dor, mon, nr, raced>>
  <2>1. PICK f \in {[Answered EXCEPT !.recalibrate = FALSE], [Answered EXCEPT !.reset = TRUE],
                    [Answered EXCEPT !.reset = FALSE]} : Continue(f)
    BY <1>1
  <2>2. /\ [Answered EXCEPT !.recalibrate = FALSE] \in Flags
        /\ ~[Answered EXCEPT !.recalibrate = FALSE].busy
    BY <1>3 DEF Flags
  <2>3. /\ [Answered EXCEPT !.reset = TRUE] \in Flags
        /\ ~[Answered EXCEPT !.reset = TRUE].busy
    BY <1>3 DEF Flags
  <2>4. /\ [Answered EXCEPT !.reset = FALSE] \in Flags
        /\ ~[Answered EXCEPT !.reset = FALSE].busy
    BY <1>3 DEF Flags
  <2>5. f \in Flags /\ ~f.busy
    BY <2>1, <2>2, <2>3, <2>4, Zenon
  <2>6. /\ fdc' = f /\ at' = "do_fd_request"
        /\ UNCHANGED <<timer, ticking, dor, mon, nr, raced>>
    BY <2>1 DEF Continue, tasks
  <2> QED
    BY <2>5, <2>6
<1>5. Types'
  BY <1>1, <1>3, <1>4 DEF Types
<1> QED
  BY <1>3, <1>4, <1>5, AtRequest

(***************************************************************************)
(* do_fd_request                                                            *)
(***************************************************************************)
LEMMA RunsIs ==
    ASSUME IInv, NEW f, f # "out", Runs(f)
    PROVE  /\ Types /\ ~raced /\ at = f /\ timer = << >> /\ ~fdc.busy /\ fdc \in Flags
           /\ fdc.current_drive \in Drive
<1>1. ~raced /\ at = f
  BY DEF Runs
<1>2. timer = << >> /\ ~fdc.busy
  BY <1>1, NoTimer
<1>3. Types /\ fdc \in Flags
  BY DEF IInv, Types
<1> QED
  BY <1>1, <1>2, <1>3, FlagsAre

LEMMA ResetStep == ASSUME IInv, ResetFloppy PROVE IInv'
<1>1. Types /\ ~raced /\ timer = << >> /\ fdc \in Flags
  BY RunsIs DEF ResetFloppy
<1>2. /\ fdc' = [fdc EXCEPT !.do_floppy = "reset_interrupt", !.busy = TRUE, !.seek = FALSE,
                            !.reset = FALSE, !.recalibrate = TRUE]
      /\ at' = "out"
      /\ UNCHANGED <<queue, timer, ticking, dor, selected, mon, moff, nr, raced>>
  BY DEF ResetFloppy, motors, tasks
<1>3. fdc' \in Flags /\ fdc'.busy /\ fdc'.do_floppy = "reset_interrupt"
  BY <1>1, <1>2 DEF Flags, Handler
<1>4. Types'
  BY <1>1, <1>2, <1>3 DEF Types
<1>5. Len(timer') = 0
  BY <1>1, <1>2
<1>6. OnePlace' /\ ForCurrent' /\ Chosen' /\ Counting'
  BY <1>1, <1>2, <1>3, <1>5 DEF OnePlace, ForCurrent, Chosen, Counting, Waits, Transferring
<1> QED
  BY <1>1, <1>2, <1>4, <1>6 DEF IInv

LEMMA RecalibrateStep == ASSUME IInv, RecalibrateFloppy PROVE IInv'
<1>1. Types /\ ~raced /\ timer = << >> /\ fdc \in Flags
  BY RunsIs DEF RecalibrateFloppy
<1>2. PICK d \in Drive :
         Command("recal_interrupt", [fdc EXCEPT !.recalibrate = FALSE, !.seek = FALSE,
                                                 !.current_drive = d])
  BY DEF RecalibrateFloppy
<1>3. [fdc EXCEPT !.recalibrate = FALSE, !.seek = FALSE, !.current_drive = d] \in Flags
  BY <1>1 DEF Flags
<1>4. "recal_interrupt" \in Handler
  BY DEF Handler
<1> QED
  BY <1>1, <1>2, <1>3, <1>4, CommandStep

LEMMA NoRequestStep == ASSUME IInv, NoRequest PROVE IInv'
<1>1. Types /\ ~raced /\ timer = << >> /\ fdc \in Flags /\ ~fdc.busy
  BY RunsIs DEF NoRequest, ReadyForRequest
<1>2. /\ fdc' = [fdc EXCEPT !.seek = FALSE] /\ at' = "out" /\ queue = << >>
      /\ UNCHANGED <<queue, timer, ticking, dor, selected, mon, moff, nr, raced>>
  BY DEF NoRequest, motors, tasks
<1>3. fdc' \in Flags /\ ~fdc'.busy
  BY <1>1, <1>2 DEF Flags
<1>4. Types'
  BY <1>1, <1>2, <1>3 DEF Types
<1>5. Len(timer') = 0
  BY <1>1, <1>2
<1>6. OnePlace' /\ ForCurrent' /\ Chosen' /\ Counting'
  BY <1>1, <1>2, <1>3, <1>5 DEF OnePlace, ForCurrent, Chosen, Counting, Waits, Transferring
<1> QED
  BY <1>1, <1>2, <1>4, <1>6 DEF IInv

LEMMA RefuseStep == ASSUME IInv, RefuseRequest PROVE IInv'
<1>1. /\ Types /\ ~raced /\ at = "do_fd_request" /\ timer = << >> /\ fdc \in Flags
      /\ ~fdc.busy
  BY RunsIs DEF RefuseRequest, ReadyForRequest
<1>2. /\ queue # << >> /\ queue' = Tail(queue) /\ moff' = [moff EXCEPT ![CURRENT.dev] = OFF]
      /\ UNCHANGED <<timer, ticking, dor, selected, mon, at, nr, raced>>
  BY DEF RefuseRequest, EndRequest, tasks
<1>3. PICK b \in BOOLEAN :
         fdc' = [fdc EXCEPT !.current_drive = CURRENT.dev, !.seek = b]
  <2>1. PICK b : b = (fdc.seek \/ fdc.current_drive # CURRENT.dev)
    OBVIOUS
  <2>2. b \in BOOLEAN
    BY <2>1
  <2>3. fdc' = [fdc EXCEPT !.current_drive = CURRENT.dev,
                           !.seek = fdc.seek \/ fdc.current_drive # CURRENT.dev]
    BY DEF RefuseRequest
  <2>4. fdc' = [fdc EXCEPT !.current_drive = CURRENT.dev, !.seek = b]
    BY <2>1, <2>3, Zenon
  <2> QED
    BY <2>2, <2>4
<1>4. CURRENT.dev \in Drive /\ queue' \in Seq(Request) /\ Len(queue') <= MAX_QUEUE
  BY <1>1, <1>2, CurrentIs
<1>5. fdc' \in Flags /\ ~fdc'.busy
  BY <1>1, <1>3, <1>4 DEF Flags
<1>6. moff' \in [Drive -> 0 .. BIG]
  BY <1>1, <1>2, OffIs DEF Types
<1>7. Types'
  BY <1>1, <1>2, <1>4, <1>5, <1>6 DEF Types
<1> QED
  BY <1>1, <1>2, <1>5, <1>7, AtRequest

(***************************************************************************)
(* The motors.                                                              *)
(***************************************************************************)
LEMMA MotorTurnedOn ==
    ASSUME Types, NEW d \in Drive, TicksToFloppyOn(d)
    PROVE  /\ dor' \in Dor /\ dor.on \subseteq dor'.on /\ d \in dor'.on
           /\ selected' = selected /\ (selected => dor'.drive = dor.drive)
           /\ mon' \in [Drive -> 0 .. ON] /\ moff' \in [Drive -> 0 .. BIG]
           /\ moff'[d] = BIG
           /\ \A e \in Drive : e # d => mon'[e] = mon[e] /\ moff'[e] = moff[e]
           /\ d \in dor.on => mon'[d] <= IF mon[d] < SELECT THEN SELECT ELSE mon[d]
<1>1. dor \in Dor /\ mon \in [Drive -> 0 .. ON] /\ moff \in [Drive -> 0 .. BIG]
  BY DEF Types
<1>2. PICK new : new = [on |-> dor.on \cup {d}, drive |-> Select(d)]
  OBVIOUS
<1>3. dor' = new /\ moff' = [moff EXCEPT ![d] = BIG] /\ selected' = selected
  BY <1>2 DEF TicksToFloppyOn
<1>4. new \in Dor /\ new.on = dor.on \cup {d} /\ (selected => new.drive = dor.drive)
  BY <1>1, <1>2 DEF Dor, Select
<1>5. PICK n : n = CASE new = dor       -> mon[d]
                     [] d \notin dor.on -> ON
                     [] OTHER           -> Max({mon[d], SELECT})
  OBVIOUS
<1>6. mon' = [mon EXCEPT ![d] = n]
  BY <1>2, <1>5 DEF TicksToFloppyOn
<1>7. Max({mon[d], SELECT}) = IF mon[d] < SELECT THEN SELECT ELSE mon[d]
  BY <1>1, Ticks, MaxOfTwo
<1>8. new = dor => d \in dor.on
  BY <1>4
<1>9. n \in 0 .. ON /\ (d \in dor.on => n <= IF mon[d] < SELECT THEN SELECT ELSE mon[d])
  BY <1>1, <1>5, <1>7, <1>8, Ticks
<1>10. mon' \in [Drive -> 0 .. ON] /\ mon'[d] = n /\ \A e \in Drive : e # d => mon'[e] = mon[e]
  BY <1>1, <1>6, <1>9
<1>11. /\ moff' \in [Drive -> 0 .. BIG] /\ moff'[d] = BIG
       /\ \A e \in Drive : e # d => moff'[e] = moff[e]
  BY <1>1, <1>3, OffIs
<1> QED
  BY <1>3, <1>4, <1>9, <1>10, <1>11

LEMMA StartStep == ASSUME IInv, StartRequest PROVE IInv'
<1>1. /\ Types /\ ~raced /\ at = "do_fd_request" /\ timer = << >> /\ fdc \in Flags
      /\ ~fdc.busy
  BY RunsIs DEF StartRequest, ReadyForRequest
<1>2. /\ queue # << >> /\ TicksToFloppyOn(CURRENT.dev)
      /\ UNCHANGED <<queue, ticking, nr, raced>>
  BY DEF StartRequest, tasks
<1>3. PICK d : d = CURRENT.dev /\ d \in Drive
  BY <1>1, <1>2, CurrentIs
<1>4. PICK b \in BOOLEAN : fdc' = [fdc EXCEPT !.current_drive = d, !.seek = b]
  <2>1. PICK seek \in BOOLEAN :
           fdc' = [fdc EXCEPT !.current_drive = CURRENT.dev, !.seek = fdc.seek \/ seek]
    BY DEF StartRequest
  <2>2. PICK b : b = (fdc.seek \/ seek)
    OBVIOUS
  <2>3. b \in BOOLEAN
    BY <2>2
  <2>4. fdc' = [fdc EXCEPT !.current_drive = d, !.seek = b]
    BY <1>3, <2>1, <2>2, Zenon
  <2> QED
    BY <2>3, <2>4
<1>5. fdc' \in Flags /\ ~fdc'.busy /\ fdc'.current_drive = d
  BY <1>1, <1>3, <1>4 DEF Flags
<1>6. /\ dor' \in Dor /\ d \in dor'.on /\ selected' = selected
      /\ mon' \in [Drive -> 0 .. ON] /\ moff' \in [Drive -> 0 .. BIG] /\ moff'[d] = BIG
  BY <1>1, <1>2, <1>3, MotorTurnedOn
<1>7. PICK j : j = mon'[d]
  OBVIOUS
<1>8. j \in 0 .. ON
  BY <1>3, <1>6, <1>7
<1>9. CURRENT' = CURRENT /\ queue' # << >>
  BY <1>2 DEF CURRENT
<1>10. Now' \in {0, 1} /\ Now' = Now
  BY <1>2 DEF Now
<1>11. CASE j = 0
  <2>1. at' = "floppy_on_interrupt" /\ timer' = << >>
    BY <1>1, <1>3, <1>7, <1>11 DEF StartRequest
  <2>2. Types'
    BY <1>1, <1>2, <1>5, <1>6, <2>1 DEF Types
  <2>3. Len(timer') = 0
    BY <2>1
  <2>4. OnePlace' /\ ForCurrent' /\ Chosen'
    BY <1>3, <1>5, <1>9, <2>1, <2>3 DEF OnePlace, ForCurrent, Chosen, Waits, Transferring
  <2>5. SELECT + Now' <= BIG /\ mon'[d] <= SELECT
    BY <1>7, <1>10, <1>11, Ticks
  <2>6. Counting'
    BY <1>5, <1>6, <2>1, <2>5 DEF Counting, MotorOn, Waits
  <2> QED
    BY <1>1, <1>2, <2>2, <2>4, <2>6 DEF IInv
<1>12. CASE j # 0
  <2>1. at' = "out" /\ timer' = AddTimer(timer, j, "floppy_on_interrupt")
    BY <1>3, <1>7, <1>12 DEF StartRequest
  <2>2. PICK e : e = [jiffies |-> j, fn |-> "floppy_on_interrupt"]
    OBVIOUS
  <2>3. timer' = <<e>>
    BY <1>1, <1>8, <2>1, <2>2, FirstTimer
  <2>4. e \in Entry /\ e.jiffies = j /\ e.fn = "floppy_on_interrupt"
    BY <1>8, <1>12, <2>2 DEF Entry
  <2>5. timer' \in Seq(Entry) /\ Len(timer') = 1 /\ timer'[1] = e /\ timer' # << >>
    BY <2>3, <2>4
  <2>6. Types'
    BY <1>1, <1>2, <1>5, <1>6, <2>1, <2>5 DEF Types
  <2>7. OnePlace' /\ ForCurrent' /\ Chosen'
    <3>1. OnePlace'
      <4>1. Len(timer') <= 1
        <5>1. Len(<<e>>) = 1
          OBVIOUS
        <5> QED
          BY <2>3, <5>1
      <4>2. timer' # << >> /\ at' = "out"
        BY <2>5, <2>1
      <4>3. ~fdc'.busy
        BY <1>5, <2>1
      <4> QED
        BY <4>1, <4>2, <4>3, Zenon DEF OnePlace
    <3>2. ForCurrent'
      BY <1>3, <1>5, <1>9 DEF ForCurrent
    <3>3. timer'[1].fn = "floppy_on_interrupt"
      BY <2>4, <2>5
    <3>4. ~Waits("transfer")' /\ ~Transferring'
      BY <1>5, <3>3 DEF Waits, Transferring
    <3> QED
      BY <2>1, <3>1, <3>2, <3>4 DEF Chosen
  <2>8. j + SELECT + Now' <= BIG /\ j <= Now' + IF j < SELECT THEN SELECT ELSE j
    BY <1>8, <1>10, Ticks
  <2>9. Counting'
    BY <1>5, <1>6, <1>7, <2>1, <2>4, <2>5, <2>8 DEF Counting, MotorOn, Waits
  <2> QED
    BY <1>1, <1>2, <2>6, <2>7, <2>9 DEF IInv
<1> QED
  BY <1>11, <1>12

LEMMA OnStep == ASSUME IInv, FloppyOnInterrupt PROVE IInv'
<1>1. /\ Types /\ ~raced /\ at = "floppy_on_interrupt" /\ timer = << >> /\ fdc \in Flags
      /\ ~fdc.busy /\ fdc.current_drive \in Drive
  BY RunsIs DEF FloppyOnInterrupt
<1>2. /\ selected' = TRUE /\ dor' = [dor EXCEPT !.drive = fdc.current_drive]
      /\ UNCHANGED <<queue, ticking, mon, moff, fdc, nr, raced>>
  BY DEF FloppyOnInterrupt, tasks
<1>3. dor' \in Dor /\ dor'.on = dor.on /\ dor'.drive = fdc.current_drive
  BY <1>1, <1>2 DEF Types, Dor
<1>4. PICK d : d = fdc.current_drive
  OBVIOUS
<1>5. /\ queue # << >> /\ CURRENT.dev = d /\ d \in dor.on
      /\ moff[d] >= SELECT + Now /\ mon[d] <= SELECT
  BY <1>1, <1>4 DEF IInv, ForCurrent, Counting, MotorOn
<1>6. Now' = Now /\ CURRENT' = CURRENT /\ Now \in {0, 1} /\ moff[d] \in Nat
  BY <1>1, <1>2, <1>4, Ticks DEF Now, CURRENT, Types
<1>7. CASE at' = "transfer" /\ timer' = << >>
  <2>1. Types'
    BY <1>1, <1>2, <1>3, <1>7 DEF Types
  <2>2. Len(timer') = 0
    BY <1>7
  <2>3. OnePlace' /\ ForCurrent' /\ Chosen'
    BY <1>1, <1>2, <1>3, <1>4, <1>5, <1>6, <1>7, <2>2
       DEF OnePlace, ForCurrent, Chosen, Waits, Transferring
  <2>4. moff[d] >= 0 + Now
    BY <1>5, <1>6, Ticks
  <2>5. Counting'
    BY <1>2, <1>3, <1>4, <1>5, <1>6, <1>7, <2>4 DEF Counting, MotorOn, Waits
  <2> QED
    BY <1>1, <1>2, <2>1, <2>3, <2>5 DEF IInv
<1>8. CASE at' = "out" /\ timer' = AddTimer(timer, SELECT, "transfer")
  <2>1. PICK e : e = [jiffies |-> SELECT, fn |-> "transfer"]
    OBVIOUS
  <2>2. timer' = <<e>>
    BY <1>1, <1>8, <2>1, FirstTimer, Ticks
  <2>3. e \in Entry /\ e.jiffies = SELECT /\ e.fn = "transfer"
    BY <2>1, Ticks DEF Entry
  <2>4. timer' \in Seq(Entry) /\ Len(timer') = 1 /\ timer'[1] = e /\ timer' # << >>
    BY <2>2, <2>3
  <2>5. Types'
    BY <1>1, <1>2, <1>3, <1>8, <2>4 DEF Types
  <2>6. OnePlace' /\ ForCurrent' /\ Chosen'
    <3>1. OnePlace'
      <4>1. Len(timer') <= 1
        <5>1. Len(<<e>>) = 1
          OBVIOUS
        <5> QED
          BY <2>2, <5>1
      <4>2. timer' # << >> /\ at' = "out"
        BY <2>4, <1>8
      <4>3. ~fdc'.busy
        BY <1>1, <1>2, <1>8
      <4> QED
        BY <4>1, <4>2, <4>3, Zenon DEF OnePlace
    <3>2. fdc'.current_drive = d /\ queue' # << >> /\ CURRENT'.dev = d
      BY <1>2, <1>4, <1>5, <1>6
    <3>3. ForCurrent'
      BY <3>2 DEF ForCurrent
    <3>4. selected' /\ dor'.drive = fdc'.current_drive
      BY <1>2, <1>3
    <3>5. Chosen'
      BY <3>4 DEF Chosen
    <3> QED
      BY <3>1, <3>3, <3>5
  <2>7. Counting'
    BY <1>2, <1>3, <1>4, <1>5, <1>6, <1>8, <2>3, <2>4 DEF Counting, MotorOn, Waits
  <2> QED
    BY <1>1, <1>2, <2>5, <2>6, <2>7 DEF IInv
<1>9. \/ at' = "transfer" /\ UNCHANGED timer
      \/ at' = "out" /\ timer' = AddTimer(timer, SELECT, "transfer")
  BY DEF FloppyOnInterrupt
<1> QED
  BY <1>1, <1>7, <1>8, <1>9

LEMMA TransferStep == ASSUME IInv, Transfer PROVE IInv'
<1>1. /\ Types /\ ~raced /\ at = "transfer" /\ timer = << >> /\ fdc \in Flags
  BY RunsIs DEF Transfer
<1>2. PICK h : h = IF fdc.seek THEN "seek_interrupt" ELSE "rw_interrupt"
  OBVIOUS
<1>3. h \in Handler /\ Command(h, fdc)
  BY <1>2 DEF Transfer, Handler
<1>4. /\ queue # << >> /\ CURRENT.dev = fdc.current_drive
      /\ selected /\ dor.drive = fdc.current_drive
  BY <1>1 DEF IInv, ForCurrent, Chosen
<1> QED
  BY <1>1, <1>3, <1>4, CommandStep

-----------------------------------------------------------------------------
(***************************************************************************)
(* The clock.                                                               *)
(***************************************************************************)
\* The one entry of the timer.
LEMMA TimerIs ==
    ASSUME IInv, ~raced, timer # << >>
    PROVE  /\ Len(timer) = 1 /\ timer[1] \in Entry /\ Head(timer) = timer[1]
           /\ Tail(timer) = << >> /\ timer[1].jiffies \in 1 .. ON
           /\ timer[1].fn \in {"floppy_on_interrupt", "transfer"}
           /\ at = "out" /\ ~fdc.busy
           /\ queue # << >> /\ CURRENT.dev = fdc.current_drive
<1>1. timer \in Seq(Entry) /\ Len(timer) <= 1 /\ at = "out" /\ ~fdc.busy
  BY DEF IInv, OnePlace, Types
<1>2. Len(timer) = 1
  <2>1. Len(timer) \in Nat /\ (Len(timer) = 0 <=> timer = << >>)
    BY <1>1
  <2>2. Len(timer) # 0
    BY <2>1, Zenon
  <2> QED
    BY <1>1, <2>1, <2>2
<1>3. timer[1] \in Entry /\ Head(timer) = timer[1] /\ Tail(timer) = << >>
  <2>1. PICK s : s = timer
    OBVIOUS
  <2>2. s \in Seq(Entry) /\ Len(s) = 1
    BY <1>1, <1>2, <2>1, Zenon
  <2>3. s[1] \in Entry
    BY <2>2
  <2>4. s = <<s[1]>>
    BY <2>2
  <2>5. ASSUME NEW e PROVE Head(<<e>>) = e /\ Tail(<<e>>) = << >>
    OBVIOUS
  <2>6. Head(s) = s[1] /\ Tail(s) = << >>
    BY <2>4, <2>5, Zenon
  <2> QED
    BY <2>1, <2>3, <2>6, Zenon
<1>4. timer[1].jiffies \in 1 .. ON /\ timer[1].fn \in {"floppy_on_interrupt", "transfer"}
  BY <1>3 DEF Entry
<1>5. queue # << >> /\ CURRENT.dev = fdc.current_drive
  BY DEF IInv, ForCurrent
<1> QED
  BY <1>1, <1>2, <1>3, <1>4, <1>5

LEMMA TickStep == ASSUME IInv, Tick PROVE IInv'
<1>1. /\ ~raced /\ at = "out" /\ ~ticking /\ ticking' = TRUE
      /\ UNCHANGED <<queue, dor, selected, mon, moff, fdc, nr, raced>>
  BY DEF Tick, Quiet, motors, tasks
<1>2. Types /\ OnePlace /\ ForCurrent /\ Chosen /\ Counting
  BY <1>1 DEF IInv
<1>3. Now = 0 /\ Now' = 1
  BY <1>1 DEF Now
<1>4. PICK d : d = fdc.current_drive
  OBVIOUS
<1>5. d \in Drive /\ moff[d] \in Nat /\ mon[d] \in Nat
  BY <1>2, <1>4, Ticks DEF Types, Flags
<1>6. CURRENT' = CURRENT
  BY <1>1 DEF CURRENT
<1>7. CASE timer = << >>
  <2>1. UNCHANGED <<timer, at>>
    BY <1>7 DEF Tick
  <2>2. Types'
    BY <1>1, <1>2, <2>1 DEF Types
  <2>3. OnePlace' /\ ForCurrent' /\ Chosen'
    BY <1>1, <1>2, <1>6, <2>1 DEF OnePlace, ForCurrent, Chosen, Waits, Transferring
  <2>4. Counting'
    BY <1>1, <1>7, <2>1 DEF Counting, Waits
  <2> QED
    BY <1>1, <2>2, <2>3, <2>4 DEF IInv
<1>8. CASE timer # << >>
  <2>1. PICK j, f : j = timer[1].jiffies /\ f = timer[1].fn
    OBVIOUS
  <2>2. /\ Len(timer) = 1 /\ timer[1] \in Entry /\ Head(timer) = timer[1]
        /\ Tail(timer) = << >> /\ j \in 1 .. ON
        /\ f \in {"floppy_on_interrupt", "transfer"} /\ ~fdc.busy
        /\ queue # << >> /\ CURRENT.dev = d
    BY <1>1, <1>4, <1>8, <2>1, TimerIs
  <2>3. f = "floppy_on_interrupt" =>
           d \in dor.on /\ moff[d] >= j + SELECT /\ mon[d] <= IF j < SELECT THEN SELECT ELSE j
    <3>1. SUFFICES ASSUME Waits("floppy_on_interrupt")
                   PROVE  d \in dor.on /\ moff[d] >= j + SELECT
                          /\ mon[d] <= IF j < SELECT THEN SELECT ELSE j
      BY <1>8, <2>1 DEF Waits
    <3>2. MotorOn(j + SELECT, Now + IF j < SELECT THEN SELECT ELSE j)
      BY <1>2, <2>1, <3>1 DEF Counting
    <3> QED
      BY <1>3, <1>4, <2>2, <3>2, Ticks DEF MotorOn
  <2>4. f = "transfer" =>
           /\ d \in dor.on /\ moff[d] >= j /\ mon[d] <= SELECT
           /\ selected /\ dor.drive = d
    <3>1. SUFFICES ASSUME Waits("transfer")
                   PROVE  /\ d \in dor.on /\ moff[d] >= j /\ mon[d] <= SELECT
                          /\ selected /\ dor.drive = d
      BY <1>8, <2>1 DEF Waits
    <3>2. MotorOn(j, SELECT) /\ selected /\ dor.drive = d
      BY <1>2, <1>4, <2>1, <3>1 DEF Counting, Chosen
    <3> QED
      BY <1>3, <1>4, <2>2, <3>2, Ticks DEF MotorOn
  <2>5. CASE j = 1
    <3>1. timer' = << >> /\ at' = f
      BY <1>8, <2>1, <2>2, <2>5 DEF Tick
    <3>2. Types'
      BY <1>1, <1>2, <2>2, <3>1 DEF Types
    <3>3. Len(timer') = 0
      BY <3>1
    <3>4. OnePlace'
      BY <1>1, <2>2, <3>1, <3>3 DEF OnePlace
    <3>5. ForCurrent'
      BY <1>1, <1>4, <1>6, <2>2 DEF ForCurrent
    <3>6. Chosen'
      BY <1>1, <1>4, <2>2, <2>4, <3>1 DEF Chosen, Waits, Transferring
    <3>7. f = "floppy_on_interrupt" => moff[d] >= SELECT + 1 /\ mon[d] <= SELECT
      BY <1>5, <2>3, <2>5, Ticks
    <3>8. f = "transfer" => moff[d] >= 0 + 1
      BY <2>4, <2>5
    <3>9. Counting'
      BY <1>1, <1>3, <1>4, <2>3, <2>4, <3>1, <3>7, <3>8 DEF Counting, MotorOn, Waits
    <3> QED
      BY <1>1, <3>2, <3>4, <3>5, <3>6, <3>9 DEF IInv
  <2>6. CASE j # 1
    <3>1. timer' = [timer EXCEPT ![1].jiffies = j - 1] /\ at' = at
      BY <1>8, <2>1, <2>2, <2>6 DEF Tick
    <3>2. PICK e : e = [timer[1] EXCEPT !.jiffies = j - 1]
      OBVIOUS
    <3>3. e \in Entry /\ e.jiffies = j - 1 /\ e.fn = f
      BY <2>1, <2>2, <2>6, <3>2, Ticks DEF Entry
    <3>4. timer' = [timer EXCEPT ![1] = e]
      BY <3>1, <3>2
    <3>5. timer' \in Seq(Entry) /\ Len(timer') = 1 /\ timer'[1] = e
      <4>1. timer \in Seq(Entry) /\ 1 \in 1 .. Len(timer)
        BY <1>2, <2>2 DEF Types
      <4> QED
        BY <2>2, <3>3, <3>4, <4>1, ExceptSeq, SMTT(40)
    <3>6. timer' # << >>
      BY <3>5
    <3>7. Types'
      BY <1>1, <1>2, <3>1, <3>5 DEF Types
    <3>8. OnePlace'
      <4>1. Len(timer') <= 1
        BY <3>5
      <4> QED
        BY <1>1, <2>2, <3>1, <3>6, <4>1, Zenon DEF OnePlace
    <3>9. ForCurrent'
      BY <1>1, <1>4, <1>6, <2>2 DEF ForCurrent
    <3>10. Chosen'
      <4>1. timer'[1].fn = f
        BY <3>3, <3>5
      <4> QED
        BY <1>1, <1>4, <2>2, <2>4, <3>1, <4>1 DEF Chosen, Waits, Transferring
    <3>11. f = "floppy_on_interrupt" =>
              /\ moff[d] >= (j - 1) + SELECT + 1
              /\ mon[d] <= 1 + IF j - 1 < SELECT THEN SELECT ELSE j - 1
      BY <1>5, <2>2, <2>3, Ticks
    <3>12. f = "transfer" => moff[d] >= (j - 1) + 1
      BY <2>2, <2>4
    <3>13. Counting'
      <4>1. timer'[1].fn = f /\ timer'[1].jiffies = j - 1
        BY <3>3, <3>5
      <4> QED
        BY <1>1, <1>3, <1>4, <2>2, <2>3, <2>4, <3>1, <3>11, <3>12, <4>1
           DEF Counting, MotorOn, Waits
    <3> QED
      BY <1>1, <3>7, <3>8, <3>9, <3>10, <3>13 DEF IInv
  <2> QED
    BY <2>5, <2>6
<1> QED
  BY <1>7, <1>8

LEMMA TimerStep == ASSUME IInv, DoFloppyTimer PROVE IInv'
<1>1. /\ ~raced /\ at = "out" /\ ticking /\ ticking' = FALSE
      /\ UNCHANGED <<queue, timer, selected, fdc, at, nr, raced>>
  BY DEF DoFloppyTimer, tasks
<1>2. Types /\ OnePlace /\ ForCurrent /\ Chosen /\ Counting
  BY <1>1 DEF IInv
<1>3. Now = 1 /\ Now' = 0
  BY <1>1 DEF Now
<1>4. PICK spinning, idle : spinning = {d \in dor.on : mon[d] # 0} /\ idle = dor.on \ spinning
  OBVIOUS
<1>5. /\ mon' = [d \in Drive |-> IF d \in spinning THEN mon[d] - 1 ELSE mon[d]]
      /\ moff' = [d \in Drive |-> IF d \in idle /\ moff[d] # 0 THEN moff[d] - 1 ELSE moff[d]]
      /\ dor' = [dor EXCEPT !.on = @ \ {d \in idle : moff[d] = 0}]
  BY <1>4 DEF DoFloppyTimer
<1>6. dor \in Dor /\ mon \in [Drive -> 0 .. ON] /\ moff \in [Drive -> 0 .. BIG]
  BY <1>2 DEF Types
<1>7. dor' \in Dor /\ dor'.drive = dor.drive /\ dor'.on = dor.on \ {d \in idle : moff[d] = 0}
  BY <1>5, <1>6 DEF Dor
<1>8. mon' \in [Drive -> 0 .. ON] /\ moff' \in [Drive -> 0 .. BIG]
  BY <1>4, <1>5, <1>6, Ticks
<1>9. PICK e : e = fdc.current_drive
  OBVIOUS
<1>10. e \in Drive /\ mon[e] \in Nat /\ moff[e] \in Nat
  BY <1>2, <1>6, <1>9, Ticks DEF Types, Flags
<1>11. e \in dor.on /\ moff[e] >= 1 => e \in dor'.on
  BY <1>7, <1>10
<1>12. moff'[e] >= moff[e] - 1 /\ (mon[e] = 0 => mon'[e] = 0) /\ mon'[e] <= mon[e]
       /\ (e \in dor.on => mon'[e] <= IF mon[e] = 0 THEN 0 ELSE mon[e] - 1)
  BY <1>4, <1>5, <1>10
<1>13. ASSUME NEW i \in Nat, NEW m \in Nat, MotorOn(i, m) PROVE MotorOn(i, m)'
  <2>1. e \in dor.on /\ moff[e] >= i + 1 /\ mon[e] <= m
    BY <1>3, <1>9, <1>13 DEF MotorOn
  <2>2. e \in dor'.on /\ moff'[e] >= i + 0 /\ mon'[e] <= m
    BY <1>8, <1>10, <1>11, <1>12, <2>1
  <2>3. fdc'.current_drive = e
    BY <1>1, <1>9
  <2> QED
    BY <1>3, <2>2, <2>3 DEF MotorOn
<1>14. Types'
  BY <1>1, <1>2, <1>7, <1>8 DEF Types
<1>15. OnePlace' /\ ForCurrent'
  BY <1>1, <1>2 DEF OnePlace, ForCurrent, Transferring, CURRENT
<1>16. Chosen'
  BY <1>1, <1>2, <1>7 DEF Chosen, Waits, Transferring
<1>17. Counting'
  <2>1. at' = "out"
    BY <1>1
  <2>2. ASSUME Waits("transfer")' PROVE MotorOn(timer[1].jiffies, SELECT)'
    <3>1. Waits("transfer") /\ MotorOn(timer[1].jiffies, SELECT)
      BY <1>1, <1>2, <2>2 DEF Waits, Counting
    <3>2. timer[1].jiffies \in Nat
      BY <1>1, <3>1, TimerIs DEF Waits
    <3>3. PICK j : j = timer[1].jiffies
      OBVIOUS
    <3>4. MotorOn(j, SELECT)'
      BY <1>13, <3>1, <3>2, <3>3, Ticks
    <3> QED
      BY <1>1, <3>3, <3>4 DEF MotorOn
  <2>3. ASSUME Waits("floppy_on_interrupt")'
        PROVE  LET j == timer[1].jiffies
               IN  MotorOn(j + SELECT, Now + IF j < SELECT THEN SELECT ELSE j)'
    <3>1. PICK j : j = timer[1].jiffies
      OBVIOUS
    <3>2. Waits("floppy_on_interrupt")
      BY <1>1, <2>3 DEF Waits
    <3>3. j \in Nat
      BY <1>1, <3>1, <3>2, TimerIs DEF Waits
    <3>4. PICK m : m = IF j < SELECT THEN SELECT ELSE j
      OBVIOUS
    <3>5. m \in Nat
      BY <3>3, <3>4, Ticks
    <3>6. MotorOn(j + SELECT, 1 + m)
      BY <1>2, <1>3, <3>1, <3>2, <3>4 DEF Counting
    <3>7. j + SELECT \in Nat /\ 1 + m \in Nat
      BY <3>3, <3>5, Ticks
    <3>8. MotorOn(j + SELECT, 1 + m)'
      BY <1>13, <3>6, <3>7
    <3>9. mon'[e] <= m
      <4>1. e \in dor.on /\ mon[e] <= 1 + m
        BY <1>9, <3>6 DEF MotorOn
      <4> QED
        BY <1>8, <1>10, <1>12, <3>5, <4>1
    <3>10. MotorOn(j + SELECT, m)'
      BY <1>1, <1>9, <3>8, <3>9 DEF MotorOn
    <3>11. timer'[1].jiffies = j /\ 0 + m = m
      BY <1>1, <3>1, <3>5
    <3> QED
      BY <1>1, <1>3, <3>1, <3>4, <3>10, <3>11
  <2> QED
    BY <2>1, <2>2, <2>3 DEF Counting
<1> QED
  BY <1>1, <1>14, <1>15, <1>16, <1>17 DEF IInv

-----------------------------------------------------------------------------
(***************************************************************************)
(* The tasks.                                                               *)
(***************************************************************************)
LEMMA UnchangedStep ==
    ASSUME IInv, UNCHANGED <<driver, motors>>, nr' \in [Task -> Drive]
    PROVE  IInv'
<1>1. UNCHANGED <<queue, timer, ticking, fdc, at, raced, dor, selected, mon, moff>>
  BY DEF driver, motors
<1>2. Types'
  BY <1>1 DEF IInv, Types
<1>3. CASE raced
  BY <1>1, <1>2, <1>3 DEF IInv, Transferring
<1>4. CASE ~raced
  <2>1. OnePlace /\ ForCurrent /\ Chosen /\ Counting
    BY <1>4 DEF IInv
  <2>2. OnePlace'
    BY <1>1, <2>1 DEF OnePlace
  <2>3. ForCurrent'
    BY <1>1, <2>1 DEF ForCurrent, Transferring, CURRENT
  <2>4. Chosen'
    BY <1>1, <2>1 DEF Chosen, Waits, Transferring
  <2>5. Counting'
    BY <1>1, <2>1 DEF Counting, MotorOn, Waits, Now
  <2> QED
    BY <1>1, <1>2, <1>4, <2>2, <2>3, <2>4, <2>5 DEF IInv
<1> QED
  BY <1>3, <1>4

\* What a task may do to the motors while a request is under way.
LEMMA MotorsStep ==
    ASSUME IInv, Quiet, UNCHANGED <<driver, nr>>,
           dor' \in Dor, dor.on \subseteq dor'.on,
           selected' = selected, selected => dor'.drive = dor.drive,
           mon' \in [Drive -> 0 .. ON], moff' \in [Drive -> 0 .. BIG],
           \A d \in dor.on :
              /\ mon'[d] <= mon[d] \/ mon'[d] <= SELECT
              /\ moff'[d] >= moff[d] \/ moff'[d] >= OFF
    PROVE  IInv'
<1>1. /\ UNCHANGED <<queue, timer, ticking, fdc, at, raced, nr>>
      /\ at = "out" /\ ~raced /\ ~ticking
  BY DEF driver, Quiet
<1>2. Types /\ OnePlace /\ ForCurrent /\ Chosen /\ Counting
  BY <1>1 DEF IInv
<1>3. Now = 0 /\ Now' = 0
  BY <1>1 DEF Now
<1>4. PICK e : e = fdc.current_drive
  OBVIOUS
<1>5. e \in Drive /\ mon[e] \in Nat /\ moff[e] \in Nat /\ mon'[e] \in Nat /\ moff'[e] \in Nat
  BY <1>2, <1>4, Ticks DEF Types, Flags
<1>6. ASSUME NEW i \in Nat, NEW m \in Nat, i <= ON + SELECT, SELECT <= m, MotorOn(i, m)
      PROVE  MotorOn(i, m)'
  <2>1. e \in dor.on /\ moff[e] >= i /\ mon[e] <= m
    BY <1>3, <1>4, <1>6 DEF MotorOn
  <2>2. mon'[e] <= mon[e] \/ mon'[e] <= SELECT
    BY <2>1
  <2>3. moff'[e] >= moff[e] \/ moff'[e] >= OFF
    BY <2>1
  <2>4. mon'[e] <= m
    BY <1>5, <1>6, <2>1, <2>2, Ticks
  <2>5. moff'[e] >= i
    BY <1>5, <1>6, <2>1, <2>3, Ticks
  <2>6. fdc'.current_drive = e /\ i + 0 = i
    BY <1>1, <1>4
  <2> QED
    BY <1>3, <2>1, <2>4, <2>5, <2>6 DEF MotorOn
<1>7. Types'
  BY <1>1, <1>2 DEF Types
<1>8. OnePlace'
  BY <1>1, <1>2 DEF OnePlace
<1>9. ForCurrent'
  BY <1>1, <1>2 DEF ForCurrent, Transferring, CURRENT
<1>10. Chosen'
  BY <1>1, <1>2 DEF Chosen, Waits, Transferring
<1>11. Counting'
  <2>1. at' = "out"
    BY <1>1
  <2>2. ASSUME timer # << >> PROVE timer[1].jiffies \in 1 .. ON
    BY <1>1, <2>2, TimerIs
  <2>3. PICK j : j = timer[1].jiffies
    OBVIOUS
  <2>4. ASSUME Waits("transfer")' PROVE MotorOn(j, SELECT)'
    <3>1. Waits("transfer") /\ j \in 1 .. ON
      BY <1>1, <2>2, <2>3, <2>4 DEF Waits
    <3>2. MotorOn(j, SELECT)
      BY <1>2, <2>3, <3>1 DEF Counting
    <3>3. j \in Nat /\ j <= ON + SELECT
      BY <3>1, Ticks
    <3> QED
      BY <1>6, <3>2, <3>3, Ticks
  <2>5. PICK m : m = IF j < SELECT THEN SELECT ELSE j
    OBVIOUS
  <2>6. ASSUME Waits("floppy_on_interrupt")' PROVE MotorOn(j + SELECT, m)' /\ 0 + m = m
    <3>1. Waits("floppy_on_interrupt") /\ j \in 1 .. ON
      BY <1>1, <2>2, <2>3, <2>6 DEF Waits
    <3>2. m \in Nat /\ SELECT <= m /\ j + SELECT \in Nat /\ j + SELECT <= ON + SELECT
      BY <2>5, <3>1, Ticks
    <3>3. 0 + m = m
      BY <3>2
    <3>4. MotorOn(j + SELECT, 0 + m)
      BY <1>2, <1>3, <2>3, <2>5, <3>1 DEF Counting
    <3>5. MotorOn(j + SELECT, m)
      BY <3>3, <3>4
    <3> QED
      BY <1>6, <3>2, <3>3, <3>5
  <2>7. timer'[1].jiffies = j
    BY <1>1, <2>3
  <2> QED
    BY <1>1, <1>3, <2>1, <2>4, <2>5, <2>6, <2>7 DEF Counting
<1> QED
  BY <1>1, <1>7, <1>8, <1>9, <1>10, <1>11 DEF IInv

LEMMA MotorOnStep == ASSUME IInv, NEW t \in Task, FloppyOn(t) PROVE IInv'
<1>1. Quiet /\ TicksToFloppyOn(nr[t]) /\ UNCHANGED <<driver, nr>>
  BY DEF FloppyOn, In
<1>2. Types
  BY DEF IInv
<1>3. PICK d : d = nr[t]
  OBVIOUS
<1>4. d \in Drive
  BY <1>2, <1>3 DEF Types
<1>5. /\ dor' \in Dor /\ dor.on \subseteq dor'.on
      /\ selected' = selected /\ (selected => dor'.drive = dor.drive)
      /\ mon' \in [Drive -> 0 .. ON] /\ moff' \in [Drive -> 0 .. BIG]
      /\ moff'[d] = BIG
      /\ \A e \in Drive : e # d => mon'[e] = mon[e] /\ moff'[e] = moff[e]
      /\ d \in dor.on => mon'[d] <= IF mon[d] < SELECT THEN SELECT ELSE mon[d]
  BY <1>1, <1>2, <1>3, <1>4, MotorTurnedOn
<1>6. ASSUME NEW e \in dor.on
      PROVE  /\ mon'[e] <= mon[e] \/ mon'[e] <= SELECT
             /\ moff'[e] >= moff[e] \/ moff'[e] >= OFF
  <2>1. e \in Drive /\ mon[e] \in 0 .. ON /\ moff[e] \in 0 .. BIG
    BY <1>2 DEF Types, Dor
  <2>2. CASE e = d
    BY <1>5, <2>1, <2>2, Ticks
  <2>3. CASE e # d
    <3>1. mon'[e] = mon[e] /\ moff'[e] = moff[e]
      BY <1>5, <2>1, <2>3
    <3> QED
      BY <2>1, <3>1, Ticks
  <2> QED
    BY <2>2, <2>3
<1> QED
  BY <1>1, <1>5, <1>6, MotorsStep

LEMMA DirStep == ASSUME IInv, NEW t \in Task, ReadDir(t) PROVE IInv'
<1>1. /\ Quiet /\ moff' = [moff EXCEPT ![nr[t]] = OFF]
      /\ UNCHANGED <<driver, nr, dor, selected, mon>>
  BY DEF ReadDir, In
<1>2. dor \in Dor /\ mon \in [Drive -> 0 .. ON] /\ moff \in [Drive -> 0 .. BIG] /\ nr[t] \in Drive
  BY DEF IInv, Types
<1>3. moff' \in [Drive -> 0 .. BIG]
  BY <1>1, <1>2, OffIs
<1>4. ASSUME NEW e \in dor.on
      PROVE  /\ mon'[e] <= mon[e] \/ mon'[e] <= SELECT
             /\ moff'[e] >= moff[e] \/ moff'[e] >= OFF
  <2>1. e \in Drive /\ mon[e] \in 0 .. ON /\ moff[e] \in 0 .. BIG
    BY <1>2 DEF Dor
  <2>2. moff'[e] = moff[e] \/ moff'[e] = OFF
    BY <1>1, <1>2, <2>1
  <2> QED
    BY <1>1, <2>1, <2>2, Ticks
<1> QED
  BY <1>1, <1>2, <1>3, <1>4, MotorsStep

LEMMA TaskStep == ASSUME IInv, NEW t \in Task, Step(t) PROVE IInv'
<1>1. nr \in [Task -> Drive]
  BY DEF IInv, Types
<1>2. CASE \E d \in Drive : FloppyChange(t, d)
  <2>1. PICK d \in Drive : FloppyChange(t, d)
    BY <1>2
  <2>2. nr' \in [Task -> Drive] /\ UNCHANGED <<driver, motors>>
    BY <1>1, <2>1 DEF FloppyChange
  <2> QED
    BY <2>2, UnchangedStep
<1>3. CASE FloppyOn(t)
  BY <1>3, MotorOnStep
<1>4. CASE ReadDir(t)
  BY <1>4, DirStep
<1>5. CASE \/ MotorSleeps(t) \/ MotorResumes(t)
           \/ LooksAtSelection(t) \/ SelectSleeps(t) \/ SelectResumes(t)
  <2>1. UNCHANGED <<driver, motors, nr>>
    BY <1>5 DEF MotorSleeps, MotorResumes, LooksAtSelection, SelectSleeps, SelectResumes
  <2> QED
    BY <1>1, <2>1, UnchangedStep
<1> QED
  BY <1>2, <1>3, <1>4, <1>5 DEF Step

\* A request that is put behind the first leaves the first where it is.
LEMMA Behind ==
    ASSUME NEW q \in Seq(Request), NEW i \in 1 .. Len(q) + 1, NEW r \in Request
    PROVE  /\ InsertAt(q, i, r) \in Seq(Request) /\ Len(InsertAt(q, i, r)) = Len(q) + 1
           /\ i # 1 => Head(InsertAt(q, i, r)) = Head(q)
<1> DEFINE a == SubSeq(q, 1, i - 1)
           c == SubSeq(q, i, Len(q))
           b == a \o <<r>>
<1>1. a \in Seq(Request) /\ Len(a) = i - 1 /\ (i # 1 => a[1] = q[1])
  OBVIOUS
<1>2. c \in Seq(Request) /\ Len(c) = Len(q) + 1 - i
  OBVIOUS
<1> HIDE DEF a, c
<1>3. b \in Seq(Request) /\ Len(b) = i /\ (i # 1 => b[1] = q[1])
  BY <1>1
<1> HIDE DEF b
<1>4. b \o c \in Seq(Request) /\ Len(b \o c) = Len(q) + 1 /\ (i # 1 => (b \o c)[1] = q[1])
  BY <1>2, <1>3
<1>5. InsertAt(q, i, r) = b \o c
  BY DEF InsertAt, a, b, c
<1>6. PICK p : p = b \o c
  OBVIOUS
<1>7. i # 1 => Head(p) = Head(q)
  <2>1. SUFFICES ASSUME i # 1 PROVE Head(p) = Head(q)
    OBVIOUS
  <2>2. Len(q) >= 1 /\ p \in Seq(Request) /\ Len(p) >= 1 /\ p[1] = q[1]
    BY <1>4, <1>6, <2>1
  <2> QED
    BY <2>2
<1> QED
  BY <1>4, <1>5, <1>6, <1>7

LEMMA AddStep ==
    ASSUME IInv, NEW d \in Drive, NEW i \in 1 .. Len(queue) + 1, AddRequest(d, i),
           i = 1 => queue = << >>
    PROVE  IInv'
<1>1. /\ ~raced /\ at = "out" /\ ~ticking /\ Len(queue) < MAX_QUEUE
      /\ queue' = InsertAt(queue, i, [dev |-> d, errors |-> 0])
      /\ UNCHANGED <<timer, ticking, dor, selected, mon, moff, fdc, nr>>
  BY DEF AddRequest, Quiet, motors, tasks
<1>2. Types /\ OnePlace /\ ForCurrent /\ Chosen /\ Counting
  BY <1>1 DEF IInv
<1>3. queue \in Seq(Request) /\ Len(queue) \in Nat
  BY <1>2 DEF Types
<1>4. PICK r : r = [dev |-> d, errors |-> 0]
  OBVIOUS
<1>5. r \in Request
  BY <1>4, Ticks DEF Request
<1>6. /\ queue' \in Seq(Request) /\ Len(queue') = Len(queue) + 1
      /\ i # 1 => Head(queue') = Head(queue)
  BY <1>1, <1>3, <1>4, <1>5, Behind
<1>7. Len(queue') <= MAX_QUEUE
  BY <1>1, <1>3, <1>6, FloppyAssumption
<1>8. queue' # << >>
  BY <1>3, <1>6
<1>9. CASE queue = << >>
  <2>1. at' = "do_fd_request" /\ raced' = UnderWay
    BY <1>9 DEF AddRequest
  <2>2. timer = << >> /\ ~Transferring
    BY <1>2, <1>9 DEF ForCurrent
  <2>3. UnderWay \in BOOLEAN
    BY DEF UnderWay
  <2>4. Types'
    BY <1>1, <1>2, <1>6, <1>7, <2>1, <2>3 DEF Types
  <2>5. CASE UnderWay
    <3>1. ~Transferring'
      BY <1>1, <2>2 DEF Transferring
    <3> QED
      BY <2>1, <2>4, <2>5, <3>1 DEF IInv
  <2>6. CASE ~UnderWay
    <3>1. ~fdc.busy
      BY <2>6 DEF UnderWay
    <3> QED
      BY <1>1, <2>1, <2>2, <2>4, <3>1, AtRequest
  <2> QED
    BY <2>5, <2>6
<1>10. CASE queue # << >>
  <2>1. UNCHANGED <<at, raced>>
    BY <1>10 DEF AddRequest
  <2>2. i # 1
    BY <1>10
  <2>3. CURRENT' = CURRENT
    BY <1>6, <2>2 DEF CURRENT
  <2>4. Types'
    BY <1>1, <1>2, <1>6, <1>7, <2>1 DEF Types
  <2>5. OnePlace'
    BY <1>1, <1>2, <1>10, <2>1 DEF OnePlace
  <2>6. ForCurrent'
    BY <1>1, <1>2, <1>8, <2>1, <2>3 DEF ForCurrent, Transferring
  <2>7. Chosen'
    BY <1>1, <1>2, <2>1 DEF Chosen, Waits, Transferring
  <2>8. Counting'
    BY <1>1, <1>2, <2>1 DEF Counting, MotorOn, Waits, Now
  <2> QED
    BY <2>1, <1>1, <2>4, <2>5, <2>6, <2>7, <2>8 DEF IInv
<1> QED
  BY <1>9, <1>10

-----------------------------------------------------------------------------
LEMMA IInvInit == Init => IInv
<1> SUFFICES ASSUME Init PROVE IInv
  OBVIOUS
<1>1. fdc \in Flags /\ ~fdc.busy
  BY Ticks DEF Init, Flags, Handler
<1>2. dor \in Dor
  BY Ticks DEF Init, Dor
<1>3. queue = << >> /\ timer = << >> /\ at = "out" /\ raced = FALSE
      /\ ticking = FALSE /\ selected = FALSE
  BY DEF Init
<1>4. queue \in Seq(Request) /\ timer \in Seq(Entry) /\ Len(queue) = 0 /\ Len(timer) = 0
  BY <1>3
<1>5. mon \in [Drive -> 0 .. ON] /\ moff \in [Drive -> 0 .. BIG] /\ nr \in [Task -> Drive]
  BY Ticks DEF Init
<1>6. Types
  <2>1. Len(queue) <= MAX_QUEUE
    BY <1>4, FloppyAssumption
  <2>2. ticking \in BOOLEAN /\ selected \in BOOLEAN /\ raced \in BOOLEAN
    BY <1>3
  <2>3. fdc \in Flags /\ at \in {"out", "do_fd_request", "floppy_on_interrupt", "transfer"}
    BY <1>1, <1>3
  <2> QED
    BY <1>2, <1>4, <1>5, <2>1, <2>2, <2>3, Zenon DEF Types
<1>7. OnePlace /\ ForCurrent /\ Chosen /\ Counting
  BY <1>1, <1>3, <1>4 DEF OnePlace, ForCurrent, Chosen, Counting, Waits, Transferring
<1> QED
  BY <1>3, <1>6, <1>7 DEF IInv

LEMMA IInvNext == ASSUME IInv, [Next]_vars PROVE IInv'
<1>1. CASE Timers
  BY <1>1, TickStep, TimerStep DEF Timers
<1>2. CASE Code
  BY <1>2, ResetStep, RecalibrateStep, NoRequestStep, RefuseStep, StartStep, OnStep,
     TransferStep DEF Code
<1>3. CASE Answer
  BY <1>3, RwStep, FailsStep, SeekStep, AnswerStep DEF Answer
<1>4. CASE \E t \in Task : Step(t)
  BY <1>4, TaskStep
<1>5. CASE \E d \in Drive, i \in 2 .. Len(queue) + 1 : AddRequest(d, i)
  <2>1. PICK d \in Drive, i \in 2 .. Len(queue) + 1 : AddRequest(d, i)
    BY <1>5
  <2>2. Len(queue) \in Nat
    BY DEF IInv, Types
  <2>3. i \in 1 .. Len(queue) + 1 /\ i # 1
    BY <2>2
  <2> QED
    BY <2>1, <2>3, AddStep
<1>6. CASE \E d \in Drive : queue = << >> /\ AddRequest(d, 1)
  <2>1. PICK d \in Drive : queue = << >> /\ AddRequest(d, 1)
    BY <1>6
  <2>2. 1 \in 1 .. Len(queue) + 1
    BY <2>1
  <2> QED
    BY <2>1, <2>2, AddStep
<1>7. CASE UNCHANGED vars
  <2>1. UNCHANGED <<driver, motors, nr>> /\ nr \in [Task -> Drive]
    BY <1>7 DEF vars, driver, motors, tasks, IInv, Types
  <2> QED
    BY <2>1, UnchangedStep
<1> QED
  BY <1>1, <1>2, <1>3, <1>4, <1>5, <1>6, <1>7 DEF Next

\* The driver is nowhere or in one place, a timer, an interrupt that is due or a call
\* of do_fd_request, and with a request in the queue it is somewhere: whatever the
\* controller refuses or fails, and whenever requests are added behind the first.
THEOREM DriverIsInOnePlace == Spec => []OneThread
<1>1. Init => IInv
  BY IInvInit
<1>2. IInv /\ [Next]_vars => IInv'
  BY IInvNext
<1>3. IInv => OneThread
  BY IInvIs
<1> QED
  BY <1>1, <1>2, <1>3, PTL DEF Spec

\* transfer() runs with the motor of its drive on and spun up and the drive selected,
\* for all spin-up and run-on times in the proportions of the code, and however many
\* tasks turn motors on and off meanwhile.
THEOREM TransfersAreSetUp == Spec => []TransferIsSetUp
<1>1. Init => IInv
  BY IInvInit
<1>2. IInv /\ [Next]_vars => IInv'
  BY IInvNext
<1>3. IInv => TransferIsSetUp
  BY IInvIs
<1> QED
  BY <1>1, <1>2, <1>3, PTL DEF Spec

-----------------------------------------------------------------------------
\* Induction, for a set in the place of a predicate.
LEMMA SetInduction ==
    ASSUME NEW S, 0 \in S, \A n \in Nat : n \in S => n + 1 \in S
    PROVE  \A n \in Nat : n \in S
<1> DEFINE R == {ss \in Nat \X Nat : ss[1] < ss[2]}
           Out == Nat \ S
<1>1. IsWellFoundedOn(R, Nat)
  BY NatLessThanWellFounded DEF OpToRel
<1>2. SUFFICES ASSUME Out # {} PROVE FALSE
  OBVIOUS
<1>3. Out \subseteq Nat
  OBVIOUS
<1> HIDE DEF Out
<1>4. PICK x \in Out : \A y \in Out : ~(<<y, x>> \in R)
  BY <1>1, <1>2, <1>3, WFMin
<1> USE DEF Out
<1>5. x - 1 \in Nat /\ x - 1 < x
  BY <1>4
<1>6. x - 1 \in S
  BY <1>4, <1>5
<1>7. (x - 1) + 1 \in S
  BY <1>5, <1>6
<1> QED
  BY <1>4, <1>7

-----------------------------------------------------------------------------
(***************************************************************************)
(* The wait queues, and what the tasks hold of them.                        *)
(***************************************************************************)
\* The queue operations yield wait queues.
LEMMA FallAsleepType ==
    ASSUME NEW w \in WaitQueues, NEW q \in Queue, NEW t \in Task,
           NEW how \in TaskState
    PROVE  FallAsleep(w, q, t, how) \in WaitQueues
BY DEF FallAsleep, WaitQueues

LEMMA MakeRunningType ==
    ASSUME NEW w \in WaitQueues, NEW t \in Task \cup {NoTask}
    PROVE  MakeRunning(w, t) \in WaitQueues
BY DEF MakeRunning, WaitQueues, TaskState, RUNNING

LEMMA SleepOnType ==
    ASSUME NEW w \in WaitQueues, NEW q \in Queue, NEW t \in Task
    PROVE  SleepOn(w, q, t) \in WaitQueues
BY FallAsleepType DEF SleepOn, TaskState

LEMMA SleepReturnsType ==
    ASSUME NEW w \in WaitQueues, NEW q \in Queue, NEW t \in Task
    PROVE  SleepReturns(w, q, t) \in WaitQueues
<1>1. w.tmp[t] \in Task \cup {NoTask}
  BY DEF WaitQueues
<1>2. MakeRunning(w, w.tmp[t]) \in WaitQueues
  BY <1>1, MakeRunningType
<1> QED
  BY <1>1, <1>2 DEF SleepReturns, WaitQueues

LEMMA WakeUpType ==
    ASSUME NEW w \in WaitQueues, NEW q \in Queue
    PROVE  WakeUp(w, q) \in WaitQueues
<1>1. w.head[q] \in Task \cup {NoTask}
  BY DEF WaitQueues
<1>2. MakeRunning(w, w.head[q]) \in WaitQueues
  BY <1>1, MakeRunningType
<1> QED
  BY <1>2 DEF WakeUp, WaitQueues

\* The initial queues are empty.
LEMMA NobodyWaitsType == NobodyWaits \in WaitQueues
BY DEF NobodyWaits, WaitQueues, TaskState


LEMMA InterruptibleTypes ==
    ASSUME NEW w \in WaitQueues, NEW q \in Queue, NEW t \in Task
    PROVE  /\ InterruptibleSleepOn(w, q, t) \in WaitQueues
           /\ SleepsAgain(w, q, t) \in WaitQueues
           /\ InterruptibleReturns(w, q, t) \in WaitQueues
<1>1. InterruptibleSleepOn(w, q, t) \in WaitQueues
  BY FallAsleepType DEF InterruptibleSleepOn, TaskState
<1>2. SleepsAgain(w, q, t) \in WaitQueues
  <2>1. w.head[q] \in Task \cup {NoTask}
    BY DEF WaitQueues
  <2>2. MakeRunning(w, w.head[q]) \in WaitQueues
    BY <2>1, MakeRunningType
  <2> QED
    BY <2>2 DEF SleepsAgain, WaitQueues, TaskState
<1>3. InterruptibleReturns(w, q, t) \in WaitQueues
  BY SleepReturnsType DEF InterruptibleReturns, WaitQueues, TaskState
<1> QED
  BY <1>1, <1>2, <1>3

-----------------------------------------------------------------------------
(***************************************************************************)
(* do_floppy_timer wakes the queues of several motors: the fold is unrolled *)
(* along the number of the queues.                                          *)
(***************************************************************************)
WakeAll(f, w, s) ==
    IF s = {} THEN w ELSE LET d == CHOOSE x \in s : TRUE
                          IN  WakeUp(f[s \ {d}], wait_motor[d])

IsFold(f, w, D) == f = [s \in SUBSET D |-> WakeAll(f, w, s)]

LEMMA OneFewer ==
    ASSUME NEW D, IsFiniteSet(D), NEW s \in SUBSET D, s # {}, NEW n \in Nat,
           Cardinality(s) <= n + 1
    PROVE  LET d == CHOOSE x \in s : TRUE
           IN  d \in s /\ s \ {d} \in SUBSET D /\ Cardinality(s \ {d}) <= n
<1> DEFINE d == CHOOSE x \in s : TRUE
<1>1. d \in s
  OBVIOUS
<1> HIDE DEF d
<1>2. IsFiniteSet(s)
  BY FS_Subset
<1>3. Cardinality(s) \in Nat /\ Cardinality(s \ {d}) = Cardinality(s) - 1
  BY <1>1, <1>2, FS_CardinalityType, FS_RemoveElement
<1>4. s \ {d} \in SUBSET D /\ Cardinality(s \ {d}) <= n
  BY <1>3
<1> QED
  BY <1>1, <1>4 DEF d

LEMMA NoneLeft ==
    ASSUME NEW D, IsFiniteSet(D), NEW s \in SUBSET D, Cardinality(s) <= 0
    PROVE  s = {}
<1>1. IsFiniteSet(s)
  BY FS_Subset
<1>2. Cardinality(s) = 0
  BY <1>1, FS_CardinalityType
<1> QED
  BY <1>1, <1>2, FS_EmptySet

LEMMA FoldExists ==
    ASSUME NEW w, NEW D, IsFiniteSet(D)
    PROVE  \E f : IsFold(f, w, D)
<1> DEFINE Good(f, n) == /\ f = [s \in SUBSET D |-> f[s]]
                         /\ \A s \in SUBSET D : Cardinality(s) <= n => f[s] = WakeAll(f, w, s)
           S == {n \in Nat : \E f : Good(f, n)}
<1>1. 0 \in S
  <2> DEFINE f == [s \in SUBSET D |-> w]
  <2>1. ASSUME NEW s \in SUBSET D, Cardinality(s) <= 0 PROVE f[s] = WakeAll(f, w, s)
    BY <2>1, NoneLeft DEF WakeAll
  <2>2. Good(f, 0)
    BY <2>1
  <2> QED
    BY <2>2
<1>2. ASSUME NEW n \in Nat, n \in S PROVE n + 1 \in S
  <2>1. PICK f : Good(f, n)
    BY <1>2
  <2> DEFINE g == [s \in SUBSET D |-> WakeAll(f, w, s)]
  <2>2. g = [s \in SUBSET D |-> g[s]]
    OBVIOUS
  <2>3. ASSUME NEW s \in SUBSET D, Cardinality(s) <= n PROVE g[s] = f[s]
    BY <2>1, <2>3
  <2>4. ASSUME NEW s \in SUBSET D, Cardinality(s) <= n + 1 PROVE g[s] = WakeAll(g, w, s)
    <3>0. g[s] = WakeAll(f, w, s)
      OBVIOUS
    <3> HIDE DEF g
    <3>1. CASE s = {}
      BY <3>0, <3>1 DEF WakeAll
    <3>2. CASE s # {}
      <4> DEFINE d == CHOOSE x \in s : TRUE
      <4>1. s \ {d} \in SUBSET D /\ Cardinality(s \ {d}) <= n
        BY <2>4, <3>2, OneFewer
      <4>2. g[s \ {d}] = f[s \ {d}]
        BY <4>1, <2>3
      <4>3. /\ WakeAll(f, w, s) = WakeUp(f[s \ {d}], wait_motor[d])
            /\ WakeAll(g, w, s) = WakeUp(g[s \ {d}], wait_motor[d])
        BY <3>2 DEF WakeAll
      <4> QED
        BY <3>0, <4>2, <4>3
    <3> QED
      BY <3>1, <3>2
  <2> HIDE DEF g
  <2>5. Good(g, n + 1)
    BY <2>2, <2>4
  <2> HIDE DEF Good
  <2>6. n + 1 \in Nat /\ \E h : Good(h, n + 1)
    BY <2>5
  <2> QED
    BY <2>6
<1> HIDE DEF S
<1>3. \A n \in Nat : n \in S
  BY <1>1, <1>2, SetInduction
<1>4. Cardinality(D) \in Nat
  BY FS_CardinalityType
<1>5. PICK f : Good(f, Cardinality(D))
  BY <1>3, <1>4 DEF S
<1>6. ASSUME NEW s \in SUBSET D PROVE f[s] = WakeAll(f, w, s)
  <2>1. Cardinality(s) <= Cardinality(D)
    BY FS_Subset
  <2> QED
    BY <1>5, <2>1
<1>7. IsFold(f, w, D)
  BY <1>5, <1>6 DEF IsFold
<1> QED
  BY <1>7

\* However many motors have spun up in one tick, wait queues are left.
LEMMA WokenType ==
    ASSUME wq \in WaitQueues, NEW D \in SUBSET Drive
    PROVE  Woken(D) \in WaitQueues
<1>0. IsFiniteSet(D)
  BY FloppyAssumption, FS_Subset
<1> DEFINE Def(f) == [s \in SUBSET D |-> IF s = {} THEN wq
                                         ELSE LET d == CHOOSE x \in s : TRUE
                                              IN  WakeUp(f[s \ {d}], wait_motor[d])]
<1>1. \E f : f = Def(f)
  <2>1. PICK f : IsFold(f, wq, D)
    BY <1>0, FoldExists
  <2> QED
    BY <2>1 DEF IsFold, WakeAll
<1>2. PICK h : h = CHOOSE f : f = Def(f)
  OBVIOUS
<1>3. h = Def(h)
  BY <1>1, <1>2
<1>4. Woken(D) = h[D]
  BY <1>2 DEF Woken, FoldSet, MapThenFoldSet
<1> DEFINE S == {n \in Nat : \A s \in SUBSET D : Cardinality(s) <= n => h[s] \in WaitQueues}
<1>5. 0 \in S
  <2>1. ASSUME NEW s \in SUBSET D, Cardinality(s) <= 0 PROVE h[s] \in WaitQueues
    <3>1. s = {}
      BY <1>0, <2>1, NoneLeft
    <3> QED
      BY <1>3, <3>1
  <2> QED
    BY <2>1
<1>6. ASSUME NEW n \in Nat, n \in S PROVE n + 1 \in S
  <2>1. ASSUME NEW s \in SUBSET D, Cardinality(s) <= n + 1 PROVE h[s] \in WaitQueues
    <3>1. CASE s = {}
      BY <1>3, <3>1
    <3>2. CASE s # {}
      <4> DEFINE d == CHOOSE x \in s : TRUE
      <4>1. d \in s /\ s \ {d} \in SUBSET D /\ Cardinality(s \ {d}) <= n
        BY <1>0, <2>1, <3>2, OneFewer
      <4>2. h[s \ {d}] \in WaitQueues
        BY <1>6, <4>1
      <4>3. wait_motor[d] \in Queue
        BY <4>1, FloppyAssumption
      <4>4. h[s] = WakeUp(h[s \ {d}], wait_motor[d])
        BY <1>3, <3>2
      <4> HIDE DEF d
      <4> QED
        BY <4>2, <4>3, <4>4, WakeUpType
    <3> QED
      BY <3>1, <3>2
  <2> HIDE DEF Def
  <2>2. \A s \in SUBSET D : Cardinality(s) <= n + 1 => h[s] \in WaitQueues
    BY <2>1
  <2> QED
    BY <2>2
<1> HIDE DEF S
<1>7. \A n \in Nat : n \in S
  BY <1>5, <1>6, SetInduction
<1>8. Cardinality(D) \in Nat /\ D \in SUBSET D
  BY <1>0, FS_CardinalityType
<1> QED
  BY <1>4, <1>7, <1>8 DEF S

-----------------------------------------------------------------------------
Label == {"user", "on", "nap", "motor_sleep", "select", "drowsy", "select_sleep", "dir"}

TaskTypes == /\ wq \in WaitQueues
             /\ pc \in [Task -> Label]
             /\ running \in Task \cup {NoTask}

LEMMA TypesAre == IInv /\ TaskTypes => TypeOK
BY DEF IInv, Types, TaskTypes, TypeOK, Entry, Flags, Dor, Label

LEMMA TaskTypesInit == Init => TaskTypes
BY NobodyWaitsType DEF Init, TaskTypes, Label

LEMMA Queues == /\ \A d \in Drive : wait_motor[d] \in Queue
                /\ wait_on_floppy_select \in Queue
BY FloppyAssumption

LEMMA GoesTo ==
    ASSUME TaskTypes, NEW t \in Task, NEW label \in Label, GoTo(t, label)
    PROVE  pc' \in [Task -> Label]
BY DEF GoTo, TaskTypes

\* A step of a task.
LEMMA StepTypes ==
    ASSUME IInv, TaskTypes, NEW t \in Task, Step(t)
    PROVE  TaskTypes'
<1>0. nr[t] \in Drive
  BY DEF IInv, Types
<1>1. wait_motor[nr[t]] \in Queue /\ wait_on_floppy_select \in Queue
  BY <1>0, Queues
<1>2. wq \in WaitQueues /\ pc \in [Task -> Label] /\ running \in Task \cup {NoTask}
  BY DEF TaskTypes
<1>3. /\ SleepOn(wq, wait_motor[nr[t]], t) \in WaitQueues
      /\ SleepReturns(wq, wait_motor[nr[t]], t) \in WaitQueues
      /\ InterruptibleSleepOn(wq, wait_on_floppy_select, t) \in WaitQueues
      /\ SleepsAgain(wq, wait_on_floppy_select, t) \in WaitQueues
      /\ InterruptibleReturns(wq, wait_on_floppy_select, t) \in WaitQueues
  BY <1>1, <1>2, SleepOnType, SleepReturnsType, InterruptibleTypes
<1>a. ASSUME NEW d \in Drive, FloppyChange(t, d) PROVE TaskTypes'
  <2>1. pc' \in [Task -> Label]
    BY <1>a, GoesTo DEF FloppyChange, Label
  <2> QED
    BY <1>2, <1>a, <2>1 DEF FloppyChange, TaskTypes
<1>b. CASE FloppyOn(t)
  <2>1. pc' \in [Task -> Label]
    BY <1>b, GoesTo DEF FloppyOn, Label
  <2> QED
    BY <1>2, <1>b, <2>1 DEF FloppyOn, TaskTypes
<1>c. CASE MotorSleeps(t)
  <2>1. pc' \in [Task -> Label]
    BY <1>c, GoesTo DEF MotorSleeps, Label
  <2> QED
    BY <1>2, <1>3, <1>c, <2>1 DEF MotorSleeps, TaskTypes
<1>d. CASE MotorResumes(t)
  <2>1. pc' \in [Task -> Label]
    BY <1>d, GoesTo DEF MotorResumes, Label
  <2> QED
    BY <1>2, <1>3, <1>d, <2>1 DEF MotorResumes, TaskTypes
<1>e. CASE LooksAtSelection(t)
  <2>1. pc' \in [Task -> Label]
    BY <1>e, GoesTo DEF LooksAtSelection, Label
  <2> QED
    BY <1>2, <1>e, <2>1 DEF LooksAtSelection, TaskTypes
<1>f. CASE SelectSleeps(t)
  <2>1. pc' \in [Task -> Label]
    BY <1>f, GoesTo DEF SelectSleeps, Label
  <2> QED
    BY <1>2, <1>3, <1>f, <2>1 DEF SelectSleeps, TaskTypes
<1>g. CASE SelectResumes(t)
  <2>1. CASE AnotherIsLast(wq, wait_on_floppy_select, t)
    BY <1>2, <1>3, <1>g, <2>1 DEF SelectResumes, TaskTypes
  <2>2. CASE ~AnotherIsLast(wq, wait_on_floppy_select, t)
    <3>1. pc' \in [Task -> Label]
      BY <1>g, <2>2, GoesTo DEF SelectResumes, Label
    <3> QED
      BY <1>2, <1>3, <1>g, <2>2, <3>1 DEF SelectResumes, TaskTypes
  <2> QED
    BY <2>1, <2>2
<1>h. CASE ReadDir(t)
  <2>1. pc' \in [Task -> Label]
    BY <1>h, GoesTo DEF ReadDir, Label
  <2> QED
    BY <1>2, <1>h, <2>1 DEF ReadDir, TaskTypes
<1> QED
  BY <1>a, <1>b, <1>c, <1>d, <1>e, <1>f, <1>g, <1>h DEF Step

LEMMA TaskTypesNext == ASSUME IInv, TaskTypes, [Next]_vars PROVE TaskTypes'
<1>0. wq \in WaitQueues /\ pc \in [Task -> Label] /\ running \in Task \cup {NoTask}
  BY DEF TaskTypes
<1>1. SUFFICES ASSUME ~ \E t \in Task : Step(t)
               PROVE  wq' \in WaitQueues /\ UNCHANGED <<pc, running>>
  BY <1>0, StepTypes DEF TaskTypes
<1>2. CASE Tick
  BY <1>0, <1>2 DEF Tick, tasks
<1>3. CASE DoFloppyTimer
  <2>1. PICK D : D = {d \in {d \in dor.on : mon[d] # 0} : mon[d] = 1} /\ wq' = Woken(D)
    BY <1>3 DEF DoFloppyTimer
  <2>2. D \in SUBSET Drive
    BY <2>1 DEF IInv, Types, Dor
  <2> QED
    BY <1>0, <1>3, <2>1, <2>2, WokenType DEF DoFloppyTimer, tasks
<1>4. CASE Code
  BY <1>0, <1>4 DEF Code, ResetFloppy, RecalibrateFloppy, NoRequest, RefuseRequest,
                    StartRequest, FloppyOnInterrupt, Transfer, Command, tasks
<1>5. CASE Answer
  <2>1. WakeUp(wq, wait_on_floppy_select) \in WaitQueues
    BY <1>0, Queues, WakeUpType
  <2>2. CASE RwInterrupt
    BY <2>1, <2>2 DEF RwInterrupt, Deselect, Continue, tasks
  <2>3. CASE TransferFails
    BY <1>0, <2>1, <2>3 DEF TransferFails, BadFlpIntr, Deselect, Continue, tasks
  <2>4. CASE SeekInterrupt \/ Recalibrated \/ RecalFails \/ ResetInterrupt
    BY <1>0, <2>4 DEF SeekInterrupt, Recalibrated, RecalFails, ResetInterrupt, Continue,
                      Command, tasks
  <2> QED
    BY <1>5, <2>2, <2>3, <2>4 DEF Answer
<1>6. ASSUME NEW d, NEW i, AddRequest(d, i) PROVE wq' \in WaitQueues /\ UNCHANGED <<pc, running>>
  BY <1>0, <1>6 DEF AddRequest, tasks
<1>7. CASE UNCHANGED vars
  BY <1>0, <1>7 DEF vars, tasks
<1> QED
  BY <1>1, <1>2, <1>3, <1>4, <1>5, <1>6, <1>7 DEF Next, Timers

\* The variables keep their types: no label is outside the function the tasks run, no
\* timer counts below 1 or above what a motor needs, and whatever is slept on or woken
\* in a tick, wait queues are left.
THEOREM TypeCorrect == Spec => []TypeOK
<1>1. Init => IInv /\ TaskTypes
  BY IInvInit, TaskTypesInit
<1>2. IInv /\ TaskTypes /\ [Next]_vars => (IInv /\ TaskTypes)'
  BY IInvNext, TaskTypesNext
<1>3. IInv /\ TaskTypes => TypeOK
  BY TypesAre
<1> QED
  BY <1>1, <1>2, <1>3, PTL DEF Spec

=============================================================================
