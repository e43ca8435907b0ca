---------------------------- MODULE MCFlautoPlayer ----------------------------
(* Two files, of two and of three buffers.  The node's clock is not read.  *)
EXTENDS FlautoPlayer

CONSTANTS short, long

MCFiles == {short, long}
MCLength == [f \in MCFiles |-> IF f = short THEN 2 ELSE 3]

=============================================================================
