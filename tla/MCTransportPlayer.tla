-------------------------- MODULE MCTransportPlayer -------------------------
(* A file of two display periods, one of four, and skips of two.          *)
EXTENDS TransportPlayer

CONSTANTS short, long

MCFiles == {short, long}
MCLength == [f \in MCFiles |-> IF f = short THEN 2 ELSE 4]

=============================================================================
