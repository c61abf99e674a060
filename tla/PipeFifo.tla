------------------------------ MODULE PipeFifo ------------------------------
(***************************************************************************)
(* What a pipe promises: bytes come out in the order they went in, each     *)
(* once, and at most Capacity of them are under way.  Bytes are stamped in  *)
(* the order the pipe accepts them; Stamps is larger than Capacity, so two  *)
(* bytes under way never have the same stamp.                               *)
(***************************************************************************)
EXTENDS Integers, Sequences

CONSTANTS Capacity, Stamps

VARIABLES contents,   \* the bytes accepted and not yet delivered
          accepted,   \* the stamp of the next byte to be accepted
          delivered   \* the stamps of the last delivery

Run(from, n) == [i \in 1..n |-> (from + i - 1) % Stamps]

Init == contents = << >> /\ accepted = 0 /\ delivered = << >>

Accept(n) ==
    /\ Len(contents) + n <= Capacity
    /\ contents' = contents \o Run(accepted, n)
    /\ accepted' = (accepted + n) % Stamps
    /\ UNCHANGED delivered

Deliver(n) ==
    /\ n <= Len(contents)
    /\ delivered' = SubSeq(contents, 1, n)
    /\ contents' = SubSeq(contents, n + 1, Len(contents))
    /\ UNCHANGED accepted

Next == \E n \in 1..Capacity : Accept(n) \/ Deliver(n)

Spec == Init /\ [][Next]_<<contents, accepted, delivered>>
=============================================================================
