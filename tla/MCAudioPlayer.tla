---------------------------- MODULE MCAudioPlayer ----------------------------
(* Two files, of one and of two display periods.                           *)
EXTENDS AudioPlayer

CONSTANTS short, long

MCFiles == {short, long}
MCLength == [f \in MCFiles |-> IF f = short THEN 1 ELSE 2]

=============================================================================
