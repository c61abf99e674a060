------------------------------- MODULE MCPipe -------------------------------
(* Pipe on small instances: a ring of 4 bytes, so that a chunk wraps and a  *)
(* call of MaxCount bytes does not fit.                                      *)
EXTENDS Pipe

CONSTANTS r1, w1, w2
=============================================================================
