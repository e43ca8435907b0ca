----------------------------- MODULE MCRenderFile -----------------------------
(* Blocks of two frames (or three, rounded up), buffers of five: a buffer  *)
(* is no multiple of a block, nor a request of either.                     *)
EXTENDS RenderFile

MCMethods == {"playFile0", "playFile00", "playFile3", "playFile"}
MCDrains == {"playFile00"}
MCRoundings == {2, 3}
MCRequests == {1, 3, 4, 7}

=============================================================================
