------------------------- MODULE MCPlayerViewModel2 -------------------------
(* A file of three display periods, skips of two, chunks of two frames and *)
(* tap buffers shorter than a chunk, of a chunk, and longer.               *)
EXTENDS PlayerViewModel2

CONSTANTS song

MCFiles == {song}
MCLength == [f \in MCFiles |-> 3]
MCBuffers == {1, 2, 5}

=============================================================================
