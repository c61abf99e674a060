------------------------------- MODULE BlkDev -------------------------------
(***************************************************************************)
(* What the block layer promises the buffer cache about one buffer header:  *)
(* a transfer starts on a locked buffer only, at most one at a time, only   *)
(* when it is of use, and it ends by unlocking the buffer.  b_dirt is       *)
(* cleared when the transfer is queued, so that a later modification is     *)
(* written by a later transfer.                                             *)
(***************************************************************************)
CONSTANT Buf

VARIABLES b_lock, b_dirt, b_uptodate,
          io                            \* the transfer under way, if any

Command == {"READ", "WRITE"}

Init == /\ b_lock = [b \in Buf |-> FALSE]
        /\ b_dirt = [b \in Buf |-> FALSE]
        /\ b_uptodate = [b \in Buf |-> FALSE]
        /\ io = [b \in Buf |-> "none"]

LockBuffer(b) ==
    /\ ~b_lock[b]
    /\ b_lock' = [b_lock EXCEPT ![b] = TRUE]
    /\ UNCHANGED <<b_dirt, b_uptodate, io>>

\* The transfer turned out to be of no use, or could not be queued at once.
GiveUp(b) ==
    /\ b_lock[b]
    /\ b_lock' = [b_lock EXCEPT ![b] = FALSE]
    /\ io[b] = "none"
    /\ UNCHANGED <<b_dirt, b_uptodate, io>>

Start(b, cmd) ==
    /\ b_lock[b]
    /\ IF cmd = "READ" THEN ~b_uptodate[b] ELSE b_dirt[b]
    /\ UNCHANGED <<b_lock, b_uptodate>>
    /\ b_dirt' = [b_dirt EXCEPT ![b] = FALSE]
    /\ io[b] = "none" /\ io' = [io EXCEPT ![b] = cmd]

Finish(b, ok) ==
    /\ b_lock' = [b_lock EXCEPT ![b] = FALSE]
    /\ b_uptodate' = [b_uptodate EXCEPT ![b] = ok]
    /\ io[b] # "none" /\ io' = [io EXCEPT ![b] = "none"]
    /\ UNCHANGED b_dirt

\* A task that holds the buffer writes into it.
Modify(b) ==
    /\ b_uptodate[b]
    /\ b_dirt' = [b_dirt EXCEPT ![b] = TRUE]
    /\ UNCHANGED <<b_lock, b_uptodate, io>>

Next == \E b \in Buf : \/ LockBuffer(b)
                       \/ GiveUp(b)
                       \/ \E cmd \in Command : Start(b, cmd)
                       \/ \E ok \in BOOLEAN : Finish(b, ok)
                       \/ Modify(b)

Spec == Init /\ [][Next]_<<b_lock, b_dirt, b_uptodate, io>>
=============================================================================
