-------------------------------- MODULE Tty --------------------------------
(***************************************************************************)
(* A terminal (kernel/chr_drv/tty_io.c): tasks in tty_read and tty_write,   *)
(* the receive interrupt with copy_to_cooked, and the output of con_write   *)
(* (console.c) or of rs_write and the transmit interrupt (serial.c,         *)
(* rs_io.s).                                                                *)
(*                                                                         *)
(* A ring of BUF bytes holds up to BUF - 1; a byte more, and head has come  *)
(* round to tail: the ring is empty.  So a ring is the sequence of its      *)
(* bytes.  The kernel is not preemptive, but interrupts come between any    *)
(* two steps of a task: where it fetches a byte, puts one, or calls.  The   *)
(* two halves of PUTCH are one step here, as are interrupt handlers.        *)
(*                                                                         *)
(* One task reads.  Of two readers interruptible_sleep_on may forget one:   *)
(* wake_up clears the pointer, and a task that does not find itself there   *)
(* when it resumes sleeps on, known to nobody.                              *)
(*                                                                         *)
(* What follows a race on the pointers of a ring is not modelled: with      *)
(* raced set the model stops.                                               *)
(***************************************************************************)
EXTENDS WaitQueue, Naturals, SequencesExt

CONSTANTS secondary, write_q,   \* the two queues tasks sleep on
          Reader,               \* the one task that reads, see below
          Modes,                \* the terminals and settings to look at
          Keys,                 \* the characters that are typed
          BUF,                  \* TTY_BUF_SIZE
          SLEEP_LEFT,           \* sleep_if_full wants that much room (128)
          STARTUP,              \* startup in rs_io.s (256)
          CANON_LEFT,           \* a full queue is read without a line end (20)
          MAX_NR,               \* bound on nr of a call
          MAX_AHEAD             \* bound on the bytes in read_q when a key is pressed

Characters == {"a", "nl", "eof", "erase", "kill", "intr"}

\* canon: ICANON and ISIG are set; echo: ECHO and ECHOCTL.
Mode == [serial : BOOLEAN, canon : BOOLEAN, echo : BOOLEAN]

Echo == "echo"          \* who wrote the bytes that are no task's

ASSUME TtyAssumption ==
    /\ Queue = {secondary, write_q} /\ secondary # write_q
    /\ Echo \notin Task
    /\ Reader \in Task /\ Modes \subseteq Mode /\ Keys \subseteq Characters
    /\ BUF \in Nat /\ BUF > 2 /\ MAX_NR \in Nat /\ MAX_AHEAD \in 1 .. BUF
    /\ SLEEP_LEFT \in 1 .. BUF - 1 /\ STARTUP \in 0 .. BUF - 1 - SLEEP_LEFT
    /\ CANON_LEFT \in 0 .. BUF - 2

VARIABLES mode,
          read, cooked, data,   \* read_q, secondary and its data field
          out,                  \* write_q: who wrote each byte
          transmits,            \* the transmit interrupt is enabled
          wq,
          signal,               \* the tasks in a call with a signal pending
          pc, nr, left,         \* a call: bytes to go, bytes con_write has left
          running,
          accepted,             \* bytes of each task put and not yet sent
          raced                 \* see Erases and ConWrites

vars == <<mode, read, cooked, data, out, transmits, wq, signal, pc, nr, left, running,
          accepted, raced>>

input  == <<read, cooked, data>>
output == <<out, transmits, accepted>>
call   == <<nr, left>>

Bytes == 0 .. BUF - 1

TypeOK ==
    /\ mode \in Modes
    /\ read \in Seq(Characters) /\ Len(read) < BUF
    /\ cooked \in Seq(Characters) /\ Len(cooked) < BUF
    /\ data \in 0 .. BUF - 1
    /\ out \in Seq(Task \cup {Echo}) /\ Len(out) < BUF
    /\ transmits \in BOOLEAN
    /\ wq \in WaitQueues
    /\ signal \subseteq Task
    /\ pc \in [Task -> {"user", "read", "fetched", "read_sleep",
                        "write", "put", "write_sleep", "con_write"}]
    /\ nr \in [Task -> 0 .. MAX_NR] /\ left \in [Task -> 0 .. BUF - 1]
    /\ running \in Task \cup {NoTask}
    /\ accepted \in [Task -> 0 .. BUF]
    /\ raced \in BOOLEAN

LEFT(q) == BUF - 1 - Len(q)
FULL(q) == LEFT(q) = 0

LineEnds == {"nl", "eof"}
HowMany(q, S) == Cardinality({i \in DOMAIN q : q[i] \in S})

Init ==
    /\ mode \in Modes
    /\ read = << >> /\ cooked = << >> /\ data = 0
    /\ out = << >> /\ transmits = FALSE
    /\ wq = NobodyWaits
    /\ signal = {}
    /\ pc = [t \in Task |-> "user"]
    /\ nr = [t \in Task |-> 0] /\ left = [t \in Task |-> 0]
    /\ running = NoTask
    /\ accepted = [t \in Task |-> 0]
    /\ raced = FALSE

GoTo(t, label) == pc' = [pc EXCEPT ![t] = label]

In(t, label) == running = t /\ pc[t] = label /\ ~raced

\* schedule() picks t; it makes a task runnable that has left a signal.
Scheduled(t) ==
    /\ running = NoTask /\ ~raced
    /\ Runnable(wq, t) \/ t \in signal

\* do_signal handles the signals of t on its way back to the user.
Returns(t) == /\ GoTo(t, "user") /\ running' = NoTask
              /\ signal' = signal \ {t}
              /\ nr' = [nr EXCEPT ![t] = 0] /\ left' = [left EXCEPT ![t] = 0]

-----------------------------------------------------------------------------
(***************************************************************************)
(* sleep_if_empty and sleep_if_full: the test and the sleep happen under    *)
(* cli().                                                                   *)
(***************************************************************************)
AsleepAt == [read_sleep |-> secondary, write_sleep |-> write_q]

FallsAsleep(t, label, w) ==
    /\ wq' = InterruptibleSleepOn(w, AsleepAt[label], t)
    /\ GoTo(t, label)
    /\ running' = NoTask

Waits(t, label) == IF label = "read_sleep" THEN cooked = << >> ELSE LEFT(out) < SLEEP_LEFT

\* t gets the processor back: it sleeps on where it is, returns from
\* interruptible_sleep_on and calls it once more, or leaves the loop.
SleepEnds(t, label, next) ==
    LET q == AsleepAt[label]
        w == InterruptibleReturns(wq, q, t)
    IN  /\ Scheduled(t) /\ pc[t] = label
        /\ \/ /\ AnotherIsLast(wq, q, t)
              /\ wq' = SleepsAgain(wq, q, t)
              /\ UNCHANGED <<pc, running>>
           \/ /\ ~AnotherIsLast(wq, q, t) /\ t \notin signal /\ Waits(t, label)
              /\ FallsAsleep(t, label, w)
           \/ /\ ~AnotherIsLast(wq, q, t) /\ (t \in signal \/ ~Waits(t, label))
              /\ wq' = w
              /\ GoTo(t, next) /\ running' = t
        /\ UNCHANGED <<mode, input, output, signal, call, raced>>

-----------------------------------------------------------------------------
(***************************************************************************)
(* tty_read, with VMIN 1 and VTIME 0.                                       *)
(***************************************************************************)
Call(t, n, label) ==
    /\ running = NoTask /\ pc[t] = "user" /\ ~raced
    /\ running' = t
    /\ GoTo(t, label)
    /\ nr' = [nr EXCEPT ![t] = n]
    /\ UNCHANGED <<mode, input, output, wq, signal, left, raced>>

ReadCall(t, n) == t = Reader /\ Call(t, n, "read")

\* The top of the loop: nothing to read for this task.
NothingToRead == cooked = << >> \/ (mode.canon /\ data = 0 /\ LEFT(cooked) > CANON_LEFT)

ReadInterrupted(t) ==
    /\ In(t, "read") /\ t \in signal
    /\ Returns(t)
    /\ UNCHANGED <<mode, input, output, wq, raced>>

\* sleep_if_empty does not sleep when there is part of a line: then the task goes
\* round the loop and keeps the processor until an interrupt changes that.
ReadSleeps(t) ==
    /\ In(t, "read") /\ t \notin signal /\ cooked = << >>
    /\ FallsAsleep(t, "read_sleep", wq)
    /\ UNCHANGED <<mode, input, output, signal, call, raced>>

ReadGoesOn(t) ==
    /\ In(t, "read") /\ t \notin signal /\ ~NothingToRead
    /\ GoTo(t, "fetched")
    /\ UNCHANGED <<mode, input, output, wq, signal, call, running, raced>>

\* Mutant: end of file is not counted as the end of a line.
DataForNewLines(c) == IF c = "nl" THEN data - 1 ELSE data

DataLeft(c) == IF c \in LineEnds THEN data - 1 ELSE data

\* GETCH: buf[tail] is loaded and tail moves on.  An interrupt may have erased the
\* byte since the queue was found not empty: see Erases.  What follows the end of
\* a line is read too.
Fetched(t) ==
    LET c == Head(cooked)
    IN  /\ In(t, "fetched")
        /\ cooked' = Tail(cooked)
        /\ data' = DataLeft(c)
        /\ IF c = "eof" /\ mode.canon
           THEN Returns(t)
           ELSE IF nr[t] > 1 /\ cooked' # << >>
           THEN nr' = [nr EXCEPT ![t] = @ - 1] /\ UNCHANGED <<pc, left, signal, running>>
           ELSE Returns(t)
        /\ UNCHANGED <<mode, read, output, wq, raced>>

-----------------------------------------------------------------------------
(***************************************************************************)
(* tty_write and the calls of tty->write.                                   *)
(***************************************************************************)
WriteCall(t, n) == Call(t, n, "write")

WriteSleeps(t) ==
    /\ In(t, "write") /\ FULL(out) /\ t \notin signal
    /\ FallsAsleep(t, "write_sleep", wq)
    /\ UNCHANGED <<mode, input, output, signal, call, raced>>

WriteInterrupted(t) ==
    /\ In(t, "write") /\ t \in signal
    /\ Returns(t)
    /\ UNCHANGED <<mode, input, output, wq, raced>>

WriteGoesOn(t) ==
    /\ In(t, "write") /\ ~FULL(out) /\ t \notin signal
    /\ GoTo(t, "put")
    /\ UNCHANGED <<mode, input, output, wq, signal, call, running, raced>>

\* Head meets tail when one byte too many is put.
PUTCH(q, c) == IF FULL(q) THEN << >> ELSE Append(q, c)

\* Mutant: the last place of the ring is used too.
HasRoomAlways == TRUE

HasRoom == ~FULL(out)

MoreToPut(t) == nr[t] > 0

Puts(t) ==
    /\ In(t, "put") /\ MoreToPut(t) /\ HasRoom
    /\ out' = PUTCH(out, t)
    /\ accepted' = [accepted EXCEPT ![t] = @ + 1]
    /\ nr' = [nr EXCEPT ![t] = @ - 1]
    /\ UNCHANGED <<mode, input, transmits, wq, signal, pc, left, running, raced>>

\* Mutant: the transmit interrupt is left as it is.
StaysQuiet == FALSE

RsWrite == out # << >>

\* What follows tty->write: schedule(), or the return.
WriteLoops(t) ==
    IF nr[t] > 0 THEN GoTo(t, "write") /\ running' = NoTask /\ UNCHANGED <<call, signal>>
                 ELSE Returns(t)

CallsRsWrite(t) ==
    /\ In(t, "put") /\ (nr[t] = 0 \/ FULL(out)) /\ mode.serial
    /\ transmits' = (transmits \/ RsWrite)
    /\ WriteLoops(t)
    /\ UNCHANGED <<mode, input, out, accepted, wq, raced>>

\* con_write takes the number of bytes in the queue before it begins.
CallsConWrite(t) ==
    /\ In(t, "put") /\ (nr[t] = 0 \/ FULL(out)) /\ ~mode.serial
    /\ left' = [left EXCEPT ![t] = Len(out)]
    /\ GoTo(t, "con_write")
    /\ UNCHANGED <<mode, input, output, wq, signal, nr, running, raced>>

Sent(c) == IF c \in Task THEN accepted' = [accepted EXCEPT ![c] = @ - 1] ELSE UNCHANGED accepted

\* raced: a keyboard interrupt has written the rest of the queue meanwhile, and
\* GETCH moves tail past head.
ConWrites(t) ==
    /\ In(t, "con_write") /\ left[t] > 0
    /\ IF out = << >>
       THEN raced' = TRUE /\ UNCHANGED <<out, accepted, left>>
       ELSE /\ out' = Tail(out) /\ Sent(Head(out))
            /\ left' = [left EXCEPT ![t] = @ - 1]
            /\ UNCHANGED raced
    /\ UNCHANGED <<mode, input, transmits, wq, signal, pc, nr, running>>

ConWritten(t) ==
    /\ In(t, "con_write") /\ left[t] = 0
    /\ WriteLoops(t)
    /\ UNCHANGED <<mode, input, output, wq, raced>>

\* The task that went on after schedule() in tty_write.
WriteResumes(t) ==
    /\ Scheduled(t) /\ pc[t] = "write"
    /\ running' = t
    /\ UNCHANGED <<mode, input, output, wq, signal, pc, call, raced>>

-----------------------------------------------------------------------------
(***************************************************************************)
(* copy_to_cooked: read_q is worked off one character at a time, as long as *)
(* there is room in secondary.  s holds what it changes.                    *)
(***************************************************************************)
Erasable(q) == q # << >> /\ Last(q) \notin LineEnds

\* The last line end of q, or 0.
LineStart(q) == Max({0} \cup {i \in DOMAIN q : q[i] \in LineEnds})

\* n bytes of echo are put, whatever the room, and written: con_write empties
\* the queue, rs_write starts the transmitter.
Echoes(s, n) ==
    IF ~mode.echo \/ n = 0 THEN s
    ELSE [s EXCEPT !.out = CASE ~mode.serial -> << >>
                             [] mode.serial /\ n <= LEFT(@) -> @ \o [i \in 1 .. n |-> Echo]
                             [] OTHER -> [i \in 1 .. Len(@) + n - BUF |-> Echo],
                   !.echoed = TRUE,
                   !.raced = @ \/ n > LEFT(s.out)]

\* raced: the byte that is erased is the one a task is about to take.
Erases(s, n) ==
    [Echoes(s, Len(s.cooked) - n) EXCEPT
        !.cooked = SubSeq(@, 1, n),
        !.raced  = @ \/ (n = 0 /\ \E t \in Task : pc[t] = "fetched")]

\* Mutant: the line ends are forgotten.
EditsAll(s, c) == IF s.cooked = << >> THEN s
                  ELSE Erases(s, IF c = "erase" THEN Len(s.cooked) - 1 ELSE 0)

Edits(s, c) == IF ~Erasable(s.cooked) THEN s
               ELSE Erases(s, IF c = "erase" THEN Len(s.cooked) - 1 ELSE LineStart(s.cooked))

Accepts(s, c) ==
    [Echoes(s, IF c = "a" THEN 1 ELSE 2) EXCEPT
        !.cooked = Append(@, c),
        !.data   = IF c \in LineEnds THEN @ + 1 ELSE @]

Cook(s, c) ==
    IF s.rest # << >> \/ FULL(s.cooked) THEN [s EXCEPT !.rest = Append(@, c)]
    ELSE CASE mode.canon /\ c \in {"erase", "kill"} -> Edits(s, c)
           [] mode.canon /\ c = "intr"              -> [s EXCEPT !.intr = TRUE]
           [] OTHER                                 -> Accepts(s, c)

\* read_char or put_queue, then do_tty_interrupt.  A full read_q drops the byte.
Receive(c) ==
    LET typed == IF FULL(read) THEN read ELSE Append(read, c)
        s == FoldLeft(Cook, [rest |-> << >>, cooked |-> cooked, data |-> data, out |-> out,
                             intr |-> FALSE, echoed |-> FALSE, raced |-> FALSE], typed)
    IN  /\ ~raced /\ Len(read) < MAX_AHEAD
        /\ read' = s.rest /\ cooked' = s.cooked /\ data' = s.data
        /\ out' = s.out
        /\ transmits' = (transmits \/ (mode.serial /\ s.echoed))
        /\ accepted' = IF mode.serial \/ ~s.echoed THEN accepted
                       ELSE [t \in Task |-> accepted[t] - HowMany(out, {t})]
        /\ signal' = IF s.intr THEN {t \in Task : pc[t] # "user"} ELSE signal
        /\ raced' = s.raced
        /\ wq' = WakeUp(wq, secondary)
        /\ UNCHANGED <<mode, pc, call, running>>

-----------------------------------------------------------------------------
\* The transmit interrupt, write_char.  The sleeper is made runnable and stays in
\* the pointer.
WakesWriter == MakeRunning(wq, wq.head[write_q])

\* It has at most STARTUP bytes to go, or the last one has been sent.
MayWake(n) == n < STARTUP \/ n = 0

Transmit ==
    /\ transmits /\ ~raced
    /\ IF out = << >>
       THEN transmits' = FALSE /\ wq' = WakesWriter /\ UNCHANGED <<out, accepted>>
       ELSE LET n == Len(out) - 1
            IN  /\ out' = Tail(out) /\ Sent(Head(out))
                /\ wq' = IF MayWake(n) THEN WakesWriter ELSE wq
                /\ transmits' = (n # 0)
    /\ UNCHANGED <<mode, input, signal, pc, call, running, raced>>

Reads(t)  == \/ ReadInterrupted(t) \/ ReadSleeps(t) \/ ReadGoesOn(t)
             \/ Fetched(t) \/ SleepEnds(t, "read_sleep", "read")
Writes(t) == \/ WriteSleeps(t) \/ WriteInterrupted(t) \/ WriteGoesOn(t) \/ Puts(t)
             \/ CallsRsWrite(t) \/ CallsConWrite(t) \/ ConWrites(t) \/ ConWritten(t)
             \/ WriteResumes(t) \/ SleepEnds(t, "write_sleep", "write")

Kernel(t) == Reads(t) \/ Writes(t)

\* Without ICANON and ISIG "erase", "kill" and "intr" are characters like "a".
Typed == IF mode.canon THEN Keys ELSE Keys \ {"erase", "kill", "intr"}

Next == \/ \E t \in Task : Kernel(t)
        \/ \E t \in Task, n \in 1 .. MAX_NR : ReadCall(t, n) \/ WriteCall(t, n)
        \/ \E c \in Typed : Receive(c)
        \/ Transmit

Spec == Init /\ [][Next]_vars

\* schedule() runs every runnable task in the end; the line sends what it is given.
FairSpec == Spec /\ (\A t \in Task : SF_vars(Kernel(t))) /\ WF_vars(Transmit)
-----------------------------------------------------------------------------
\* secondary.data is the number of line ends between tail and head, whatever is
\* typed, erased and read in between: a canonical read waits for a line exactly
\* when there is none.
DataCountsLines == ~raced => data = HowMany(cooked, LineEnds)

\* The bytes tty_write has accepted are in the queue until they are sent: none is
\* overwritten, sent twice or dropped.
OutputIsKept == ~raced => \A t \in Task : accepted[t] = HowMany(out, {t})

\* A reader or a writer that sleeps can still be woken: it is on its queue, or a
\* task that is awake will make it runnable.  And when there is input, or there is
\* room and nothing left to send, one of those who sleep for it is awake.
Awake(t) == Runnable(wq, t) \/ t \in signal

Awaited(label) == IF label = "read_sleep" THEN cooked # << >>
                                          ELSE out = << >> /\ ~transmits

SleepersAreFound ==
    \A label \in DOMAIN AsleepAt :
        LET sleepers == {t \in Task : pc[t] = label}
        IN  /\ \A t \in sleepers : t \in signal \/ Reachable(wq, AsleepAt[label], t)
            /\ sleepers # {} /\ Awaited(label) => \E t \in sleepers : Awake(t)

\* A task that keeps the processor in tty_read because part of a line has been typed.
Spins(t) == running = t /\ pc[t] = "read" /\ t \notin signal /\ NothingToRead /\ cooked # << >>

Writing(t) == pc[t] \in {"write", "put", "write_sleep", "con_write"}

\* Every write ends, unless a reader keeps the processor for good, or others put
\* bytes again and again: they may keep the queue from falling to STARTUP bytes.
OthersPut(t) == \E u \in (Task \cup {Echo}) \ {t} : HowMany(out', {u}) > HowMany(out, {u})

WritesEnd ==
    \A t \in Task : \/ []<>~Writing(t)
                    \/ <>[](raced \/ \E u \in Task : Spins(u))
                    \/ []<><<OthersPut(t)>>_vars
=============================================================================
