--------------------------- MODULE MCWrapperPool ---------------------------
(* Two threads, two ids; 10 ms are two frames of two channels, with a       *)
(* remainder in the division of the rate.                                   *)
EXTENDS WrapperPool

CONSTANTS t1, t2, w1, w2, id1, id2

MCThreads == {t1, t2}
MCWrappers == {w1, w2}
MCIds == {id1, id2}
MCSizes == {1, 4, 5}

=============================================================================
