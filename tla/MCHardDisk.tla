----------------------------- MODULE MCHardDisk -----------------------------
(* HardDisk on small instances: blocks two sectors apart, in the order of   *)
(* their names.                                                              *)
EXTENDS HardDisk, TLC

CONSTANTS t1, t2, b1, b2, b3, v0, v1

PlaceOf == [b \in Buf |-> CASE b = b1 -> 0 [] b = b2 -> 2 [] b = b3 -> 4]

\* Two contents for the first block only, or for none.
FirstVaries == [b \in Buf |-> IF b = b1 THEN {v0, v1} ELSE {v0}]
NoneVaries  == [b \in Buf |-> {v0}]

\* The tasks are interchangeable; the buffers, which have a place, are not.
Symmetry == Permutations(Task)
=============================================================================
