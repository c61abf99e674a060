------------------------------ MODULE HardDisk ------------------------------
(***************************************************************************)
(* The hard-disk driver kernel/blk_drv/hd.c on top of the request queue.    *)
(*                                                                         *)
(* do_hd_request starts the command for the head of the queue and stores    *)
(* the function the next interrupt calls in do_hd.  It runs in the task     *)
(* that queued the first request, or in the interrupt that ended one; until *)
(* it returns (driver.at = "do_hd_request") no task takes a step.  The      *)
(* drive is external: it answers every command with an interrupt, well or   *)
(* with an error, except a write for which it never asked for the data.     *)
(***************************************************************************)
EXTENDS LLRwBlk

CONSTANTS MAX_ERRORS,     \* give a request up after so many errors
          OutOfRange      \* the buffers whose block the drive does not have

ASSUME HardDiskAssumption ==
    MAX_ERRORS \in Nat \ {0} /\ OutOfRange \subseteq Buf

CURRENT == req[queue[1]]

Handler == {"none", "read_intr", "write_intr", "recal_intr"}

TypeOK ==
    /\ req \in [Slot -> Request \cup {Free}]
    /\ queue \in Seq(Slot)
    /\ b_lock \in [Buf -> BOOLEAN] /\ b_dirt \in [Buf -> BOOLEAN]
    /\ b_uptodate \in [Buf -> BOOLEAN]
    /\ mem \in Blocks /\ disk \in Blocks
    /\ wq \in WaitQueues
    /\ pc \in [Task -> {"idle", "lock_buffer", "make_request", "no_request",
                        "wait_for_request", "wait_on_buffer"}]
    /\ call \in [Task -> Call \cup {NoCall}]
    /\ running \in Task \cup {NoTask}
    /\ driver \in [at : {"out", "do_hd_request"}, do_hd : Handler, answers : BOOLEAN,
                   reset : BOOLEAN, recalibrate : BOOLEAN,
                   sent : {<< >>} \cup {<<v>> : v \in Val}]

Init ==
    /\ req = [s \in Slot |-> Free]
    /\ queue = << >>
    /\ b_lock = [b \in Buf |-> FALSE]
    /\ b_dirt = [b \in Buf |-> FALSE]
    /\ b_uptodate = [b \in Buf |-> FALSE]
    /\ \E f \in [Buf -> Val] : /\ \A b \in Buf : f[b] \in Contents[b]
                             /\ mem = [b \in Buf |-> [i \in 0 .. 1 |-> f[b]]]
    /\ disk = mem
    /\ wq = NobodyWaits
    /\ pc = [t \in Task |-> "idle"]
    /\ call = [t \in Task |-> NoCall]
    /\ running = NoTask
    /\ driver = [at |-> "out", do_hd |-> "none", answers |-> FALSE,
                 reset |-> FALSE, recalibrate |-> FALSE, sent |-> << >>]

\* Mutant: the buffer counts as clean when its write ends.
EndRequestClean(uptodate) ==
    LET b == CURRENT.bh
    IN  /\ b_uptodate' = Set(b_uptodate, b, uptodate)
        /\ b_dirt' = Set(b_dirt, b, FALSE)
        /\ b_lock' = Set(b_lock, b, FALSE)
        /\ wq' = WakeUp(WakeUp(wq, b), wait_for_request)
        /\ req' = [req EXCEPT ![queue[1]] = Free]
        /\ queue' = Tail(queue)
        /\ UNCHANGED <<pc, call, running>>

(***************************************************************************)
(* end_request: the buffer is unlocked, its waiters and the tasks that wait *)
(* for a request are woken, the slot is free, the next request is CURRENT.  *)
(***************************************************************************)
EndRequest(uptodate) ==
    LET b == CURRENT.bh
    IN  /\ b_uptodate' = Set(b_uptodate, b, uptodate)
        /\ b_lock' = Set(b_lock, b, FALSE)
        /\ wq' = WakeUp(WakeUp(wq, b), wait_for_request)
        /\ req' = [req EXCEPT ![queue[1]] = Free]
        /\ queue' = Tail(queue)
        /\ UNCHANGED <<b_dirt, pc, call, running>>

KeepRequest(r) ==
    /\ req' = [req EXCEPT ![queue[1]] = r]
    /\ UNCHANGED <<queue, headers, tasks>>

(***************************************************************************)
(* bad_rw_intr.  After end_request CURRENT is the next request, whose       *)
(* errors the second test reads.  With no next request it reads through a   *)
(* NULL pointer: what is there decides about the reset.                     *)
(***************************************************************************)
BadRwIntr(then) ==
    /\ LET errors == CURRENT.errors + 1
       IN  IF errors >= MAX_ERRORS
           THEN /\ EndRequest(FALSE)
                /\ \E r \in BOOLEAN :
                    /\ queue' # << >> =>
                          r = (req[queue'[1]].errors > MAX_ERRORS \div 2)
                    /\ driver' = [then EXCEPT !.reset = @ \/ r]
           ELSE /\ KeepRequest([CURRENT EXCEPT !.errors = errors])
                /\ driver' = [then EXCEPT !.reset = @ \/ errors > MAX_ERRORS \div 2]
    /\ UNCHANGED data

(***************************************************************************)
(* do_hd_request                                                            *)
(***************************************************************************)
Driving == driver.at = "do_hd_request"

\* hd_out: the drive will answer with an interrupt, which calls the handler.
Command(handler) ==
    [driver EXCEPT !.at = "out", !.do_hd = handler, !.answers = TRUE]

QueueEmpty ==
    /\ Driving /\ queue = << >>
    /\ driver' = [driver EXCEPT !.at = "out"]
    /\ UNCHANGED <<req, queue, headers, data, tasks>>

\* A block past the end of the drive; goto repeat.
RefuseRequest ==
    /\ Driving /\ queue # << >> /\ CURRENT.bh \in OutOfRange
    /\ EndRequest(FALSE)
    /\ UNCHANGED <<data, driver>>

Starts == Driving /\ queue # << >> /\ CURRENT.bh \notin OutOfRange

ResetHd ==
    /\ Starts /\ driver.reset
    /\ driver' = [Command("recal_intr") EXCEPT !.reset = FALSE, !.recalibrate = TRUE]
    /\ UNCHANGED <<req, queue, headers, data, tasks>>

Recalibrate ==
    /\ Starts /\ ~driver.reset /\ driver.recalibrate
    /\ driver' = [Command("recal_intr") EXCEPT !.recalibrate = FALSE]
    /\ UNCHANGED <<req, queue, headers, data, tasks>>

ReadyFor(cmd) == /\ Starts /\ ~driver.reset /\ ~driver.recalibrate
                 /\ CURRENT.cmd = cmd

StartRead ==
    /\ ReadyFor(READ)
    /\ driver' = Command("read_intr")
    /\ UNCHANGED <<req, queue, headers, data, tasks>>

\* The sector goes to the controller; the drive has it when it says so.
StartWrite ==
    /\ ReadyFor(WRITE)
    /\ driver' = [Command("write_intr") EXCEPT
                     !.sent = <<mem[CURRENT.bh][CURRENT.sectors_done]>>]
    /\ UNCHANGED <<req, queue, headers, data, tasks>>

\* The controller does not ask for the data; bad_rw_intr, goto repeat.  The
\* command has stored write_intr in do_hd.
NoDataRequest ==
    /\ ReadyFor(WRITE)
    /\ BadRwIntr([driver EXCEPT !.do_hd = "write_intr"])

(***************************************************************************)
(* The interrupt.  hd_interrupt clears do_hd and calls what was in it.      *)
(***************************************************************************)
Interrupt(handler) ==
    driver.at = "out" /\ driver.answers /\ driver.do_hd = handler

RunsNext ==
    [driver EXCEPT !.do_hd = "none", !.answers = FALSE, !.sent = << >>,
                   !.at = "do_hd_request"]

\* read_intr and write_intr after a good sector that was not the last one.
NextSector(errors) ==
    KeepRequest([CURRENT EXCEPT !.sectors_done = 1, !.errors = errors])

ReadIntr ==
    /\ Interrupt("read_intr")
    /\ LET b == CURRENT.bh  i == CURRENT.sectors_done
       IN  mem' = [mem EXCEPT ![b][i] = disk[b][i]]
    /\ IF CURRENT.sectors_done = 0
       THEN NextSector(0) /\ driver' = Command("read_intr")
       ELSE EndRequest(TRUE) /\ driver' = RunsNext
    /\ UNCHANGED disk

WriteIntr ==
    /\ Interrupt("write_intr")
    /\ LET b == CURRENT.bh  i == CURRENT.sectors_done
       IN  disk' = [disk EXCEPT ![b][i] = Head(driver.sent)]
    /\ IF CURRENT.sectors_done = 0
       THEN /\ NextSector(CURRENT.errors)
            /\ driver' = [Command("write_intr") EXCEPT !.sent = <<mem[CURRENT.bh][1]>>]
       ELSE EndRequest(TRUE) /\ driver' = RunsNext
    /\ UNCHANGED mem

TransferFails ==
    /\ Interrupt("read_intr") \/ Interrupt("write_intr")
    /\ BadRwIntr(RunsNext)

RecalIntr ==
    /\ Interrupt("recal_intr")
    /\ driver' = RunsNext
    /\ UNCHANGED <<req, queue, headers, data, tasks>>

RecalFails ==
    /\ Interrupt("recal_intr")
    /\ BadRwIntr(RunsNext)

DoHdRequest == \/ QueueEmpty \/ RefuseRequest \/ ResetHd \/ Recalibrate
               \/ StartRead \/ StartWrite \/ NoDataRequest

HdInterrupt == ReadIntr \/ WriteIntr \/ TransferFails \/ RecalIntr \/ RecalFails

Next == (\E t \in Task : TaskStep(t)) \/ DoHdRequest \/ HdInterrupt

Spec == Init /\ [][Next]_vars

(***************************************************************************)
(* do_hd_request runs to its end, and the drive answers every command; it   *)
(* may answer with errors as often as it likes.                             *)
(***************************************************************************)
FairSpec == Spec /\ WF_vars(DoHdRequest) /\ WF_vars(HdInterrupt)
-----------------------------------------------------------------------------
InQueue(b) == {s \in Busy : req[s].bh = b}

HoldsLock(t, b) ==
    /\ pc[t] \in {"make_request", "no_request", "wait_for_request"}
    /\ call[t].bh = b

\* A locked buffer has exactly one owner, who will unlock it: a request in the
\* queue or a task inside make_request.  Otherwise the driver panics with
\* "block not locked", or the buffer stays locked for ever.
LockHasOneOwner ==
    \A b \in Buf :
        Cardinality(InQueue(b)) + Cardinality({t \in Task : HoldsLock(t, b)})
            = (IF b_lock[b] THEN 1 ELSE 0)

\* The driver has a command outstanding, or is about to start one, exactly
\* when there are requests: the list never waits for a driver that sleeps, and
\* no interrupt handler runs with CURRENT = NULL.
DriverWorksIffRequests ==
    driver.at = "out" => (driver.answers <=> queue # << >>)

\* The list holds the rest of the sweep the drive is in and one more sweep:
\* behind the head the order of add_request drops at most once.
AtMostTwoSweeps ==
    Cardinality({i \in 1 .. Len(queue) - 1 :
                    ~InOrder(req[queue[i]], req[queue[i + 1]])}) <= 1

\* A clean buffer that is up to date and has no write under way holds what is
\* on the disk: no modification is lost, whatever the buffer's users do while
\* its sectors are on their way.
CleanMatchesDisk ==
    \A b \in Buf :
        b_uptodate[b] /\ ~b_dirt[b] /\ (\A s \in InQueue(b) : req[s].cmd = READ)
            => mem[b] = disk[b]

\* Every request ends, however many requests keep coming and however often the
\* drive fails: the elevator starves nobody, and errors are given up on.
EveryRequestEnds ==
    \A b \in Buf : InQueue(b) # {} ~> InQueue(b) = {}

\* Seen by one buffer, the queue, the elevator, the retries and the resets are
\* a device that performs one transfer at a time and unlocks the buffer.
Io == [b \in Buf |-> IF InQueue(b) = {} THEN "none"
                     ELSE req[CHOOSE s \in InQueue(b) : TRUE].cmd]
Device == INSTANCE BlkDev WITH io <- Io
IsBlockDevice == Device!Spec
=============================================================================
