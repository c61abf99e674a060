----------------------------- MODULE MCProcess -----------------------------
(* Process on small instances: init and two more slots. *)
EXTENDS Process
=============================================================================
