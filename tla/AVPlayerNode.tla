---------------------------- MODULE AVPlayerNode ----------------------------
(***************************************************************************)
(* AVAudioPlayerNode, the AVFoundation class the players drive, as far as  *)
(* they use it: a queue of stretches of files, a clock that runs while the *)
(* node plays, and completion handlers.  Time and file positions are       *)
(* counted in display periods.  The system may deliver a handler any time  *)
(* after its stretch has been consumed or dropped; the player that         *)
(* scheduled it keeps that count.                                          *)
(***************************************************************************)
EXTENDS Naturals, Sequences

CONSTANT MaxTime    \* bound: the clock is not told apart beyond this

ASSUME MaxTimeAssumption == MaxTime \in Nat

Stretch(f, first, n) == [file |-> f, start |-> first, count |-> n]

Stretches(files) == [file : files, start : Nat, count : Nat \ {0}]

Nodes(files) ==
  [playing : BOOLEAN, time : 0..MaxTime, queue : Seq(Stretches(files))]

(* A new node, and what stop leaves: the queue is dropped, the clock at 0. *)
StoppedNode == [playing |-> FALSE, time |-> 0, queue |-> <<>>]

Schedule(n, s) == [n EXCEPT !.queue = Append(@, s)]
Play(n) == [playing |-> TRUE, time |-> n.time, queue |-> n.queue]
Pause(n) == [playing |-> FALSE, time |-> n.time, queue |-> n.queue]

(* playerTimeForNodeTime: is nil when the node does not play; its callers  *)
(* read nil as 0.                                                          *)
SampleTime(n) == IF n.playing THEN n.time ELSE 0

Clock(n) == IF n.time < MaxTime THEN n.time + 1 ELSE MaxTime

(* The stretch whose handler falls due when the node renders a period.     *)
Consumes(n) == n.queue # <<>> /\ Head(n.queue).count = 1

Advanced(s) == Stretch(s.file, s.start + 1, s.count - 1)

RenderedQueue(n) ==
  IF n.queue = <<>> THEN <<>>
  ELSE IF Consumes(n) THEN Tail(n.queue)
  ELSE <<Advanced(Head(n.queue))>> \o Tail(n.queue)

(* A rendered period: the clock runs even when nothing is queued.          *)
Rendered(n) ==
  [playing |-> n.playing, time |-> Clock(n), queue |-> RenderedQueue(n)]

=============================================================================
