---------------------------- MODULE FilePlayback ----------------------------
(***************************************************************************)
(* What AudioNoiseReductionPlayer promises of a playback, with the node,   *)
(* the segments, the completion handlers and the threads left out: the     *)
(* frames of the file are heard one after the other up to the end, and     *)
(* only a player that does not play, or has come to the end, goes to       *)
(* another frame or is stopped.  A call that cuts into a playback ends the *)
(* promise; what is heard afterwards is still a frame of the file.         *)
(***************************************************************************)
EXTENDS Naturals

CONSTANTS
  Frames,     \* the length of the file
  Starts      \* the frames a playback may start from

VARIABLES
  next,       \* the frame after the one heard last, or where to start
  playing,    \* the player says that it plays
  cut         \* a call cut into a playback

vars == <<next, playing, cut>>

Init == next = 0 /\ playing = FALSE /\ cut = FALSE

Hear ==
  /\ next < Frames
  /\ next' = next + 1
  /\ UNCHANGED <<playing, cut>>

Begin ==
  /\ playing' = TRUE
  /\ UNCHANGED <<next, cut>>

Over == playing => next = Frames

End ==
  /\ Over
  /\ playing' = FALSE
  /\ UNCHANGED <<next, cut>>

Place ==
  /\ Over
  /\ next' \in Starts
  /\ playing' = FALSE
  /\ UNCHANGED cut

Cut ==
  /\ cut' = TRUE
  /\ UNCHANGED <<next, playing>>

AfterCut ==
  /\ cut
  /\ next' \in 0..Frames
  /\ playing' \in BOOLEAN
  /\ UNCHANGED cut

Next == Hear \/ Begin \/ End \/ Place \/ Cut \/ AfterCut

Spec == Init /\ [][Next]_vars

=============================================================================
