------------------------------ MODULE MCInode ------------------------------
(* Inode on small instances.                                                *)
EXTENDS Inode, TLC

CONSTANTS t1, t2, a, b

Symmetry == Permutations(Task) \cup Permutations(Name)
=============================================================================
