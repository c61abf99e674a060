------------------------------ MODULE MCFloppy ------------------------------
(* Floppy with two drives, so that one may be selected while another one's *)
(* request is under way.                                                    *)
EXTENDS Floppy

CONSTANTS t1, A, B, mA, mB

WaitMotor == (A :> mA @@ B :> mB)
=============================================================================
