------------------------------- MODULE MCTty -------------------------------
(* Tty with four kinds of terminal.                                         *)
EXTENDS Tty, TLC

CONSTANTS t1, t2

\* A serial line as rs_init leaves it and with ICANON, and the console.
RawLine   == [serial |-> TRUE, canon |-> FALSE, echo |-> FALSE]
CanonLine == [serial |-> TRUE, canon |-> TRUE, echo |-> FALSE]
EchoLine  == [serial |-> TRUE, canon |-> TRUE, echo |-> TRUE]
Console   == [serial |-> FALSE, canon |-> TRUE, echo |-> TRUE]

AllModes == {RawLine, CanonLine, EchoLine, Console}
=============================================================================
