------------------------ MODULE MCNoiseReductionNode ------------------------
(* The main thread and another; slices of three sizes against a pool of two *)
(* buffers, so that the pool fills up; a time of 4 is too slow for all but  *)
(* the longest.                                                             *)
EXTENDS NoiseReductionNode

CONSTANTS main, other

MCCallers == {main, other}
MCSlices == {1, 3, 6}
MCTimes == {0, 4}

=============================================================================
