--------------------------- MODULE MCSegmentPlayer ---------------------------
(* A file of three frames in segments of two: the last one is short.       *)
EXTENDS SegmentPlayer

MCTargets == {0, 1, 3}
MCInside == {1}

=============================================================================
