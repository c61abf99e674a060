--------------------------- MODULE MCBufferCache ---------------------------
(* BufferCache on small instances: fewer buffers than blocks, so that       *)
(* buffers are reused.                                                       *)
EXTENDS BufferCache, TLC

CONSTANTS t1, t2, x1, x2, x3

Symmetry == Permutations(Task) \cup Permutations(Block)
=============================================================================
