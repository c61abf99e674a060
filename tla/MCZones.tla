------------------------------ MODULE MCZones ------------------------------
(* Zones with a direct block and a double indirect one, which holds a       *)
(* single indirect one.                                                     *)
EXTENDS Zones, TLC

CONSTANTS t1, t2, f1, f2

Depths   == <<0, 2>>
Symmetry == Permutations(Caller) \cup Permutations(File)
=============================================================================
