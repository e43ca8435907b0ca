---------------------------- MODULE SegmentPlayer ----------------------------
(***************************************************************************)
(* AudioNoiseReductionPlayer                                               *)
(* (Example/WebRTCAudioProcessing/AudioNoiseReductionPlayer.m).            *)
(*                                                                         *)
(* The player queues about 100 ms of the file at a time; the completion    *)
(* handler of each segment advances _currentFrame and queues the next one. *)
(* The calls of the user run on the main thread, the handlers one at a     *)
(* time, in the order their segments ended, on a thread of AVFoundation.   *)
(* Both write _currentFrame and both run scheduleAudioFile, with no lock:  *)
(* every access of theirs to shared state is a step of its own.            *)
(*                                                                         *)
(* init goes on after setupAudioFile: failed, and _isPrepared is set all   *)
(* the same: a player of a file that could not be read has _totalFrames 0, *)
(* as one of an empty file has, and its play runs with nothing to queue.   *)
(***************************************************************************)
EXTENDS AVPlayerNode

CONSTANTS
  File,           \* _audioFile
  TotalFrames,    \* _totalFrames; 0 when the file is empty or unreadable
  SegmentFrames,  \* the frames of about 100 ms
  Targets,        \* where seekToTime: may go, already clamped to the file
  MaxActs         \* bound: calls from the user in a behaviour

ASSUME FramesAssumption ==
  /\ TotalFrames \in Nat /\ TotalFrames < MaxTime
  /\ SegmentFrames \in Nat \ {0}
  /\ Targets \subseteq 0..TotalFrames
ASSUME ActsAssumption == MaxActs \in Nat

Main == "main"
Handler == "handler"

VARIABLES
  currentFrame,   \* _currentFrame
  isPlaying,      \* _isPlaying
  running,        \* the engine runs
  node,           \* _playerNode
  sizes,          \* preferredBufferSize in the handler of each queued segment
  due,            \* the same for handlers due and not delivered
  raised,         \* AVFoundation raised an exception: the program is gone
  pc,             \* where the main thread and the handler's thread are
  count,          \* preferredBufferSize on each of them
  sum,            \* _currentFrame as the handler read it, to add to it; like
                  \* count it is reset to 0 once it was used
  call,           \* the user's call the main thread is in
  wasPlaying,     \* seekToTime:'s local
  target,         \* the same, targetFrame
  acts,           \* calls from the user so far (bounded by MaxActs)
  next,           \* history: the frame after the one heard last
  jumped,         \* history: some frame heard was not the next one
  disturbed,      \* history: a call cut into a chain, or a seek went to 0
  overtaken       \* history: a chain ended while a call was under way

threads == <<pc, count, sum, call, wasPlaying, target, acts>>
player == <<currentFrame, isPlaying, running>>
queue == <<node, sizes, due>>
history == <<next, jumped, disturbed, overtaken>>
vars == <<threads, player, queue, history, raised>>

MainLocations ==
  {"idle", "rewind", "zero", "engine", "test", "guard", "count", "submit",
   "start", "mark", "pause", "locate", "hold", "target", "halt", "reset",
   "resume"}
HandlerLocations == {"idle", "add", "test", "guard", "count", "submit"}

TypeOK ==
  /\ currentFrame \in Nat /\ next \in Nat
  /\ isPlaying \in BOOLEAN /\ running \in BOOLEAN /\ raised \in BOOLEAN
  /\ node \in Nodes({File})
  /\ sizes \in Seq(1..SegmentFrames) /\ Len(sizes) = Len(node.queue)
  /\ due \in Seq(1..SegmentFrames)
  /\ pc \in [{Main, Handler} -> MainLocations \cup HandlerLocations]
  /\ pc[Main] \in MainLocations /\ pc[Handler] \in HandlerLocations
  /\ count \in [{Main, Handler} -> 0..SegmentFrames]
  /\ sum \in Nat
  /\ call \in {"play", "pause", "stop", "seek"}
  /\ wasPlaying \in BOOLEAN
  /\ target \in Targets \cup {0}
  /\ acts \in 0..MaxActs
  /\ jumped \in BOOLEAN /\ disturbed \in BOOLEAN /\ overtaken \in BOOLEAN

(* A chain of segments is under way.                                       *)
Alive == node.queue # <<>> \/ due # <<>> \/ pc[Handler] # "idle"

Init ==
  /\ currentFrame = 0
  /\ isPlaying = FALSE
  /\ running = FALSE
  /\ node = StoppedNode
  /\ sizes = <<>>
  /\ due = <<>>
  /\ raised = FALSE
  /\ pc = [a \in {Main, Handler} |-> "idle"]
  /\ count = [a \in {Main, Handler} |-> 0]
  /\ sum = 0
  /\ call = "stop"
  /\ wasPlaying = FALSE
  /\ target = 0
  /\ acts = 0
  /\ next = 0
  /\ jumped = FALSE
  /\ disturbed = FALSE
  /\ overtaken = FALSE

At(a, l) == ~raised /\ pc[a] = l
Goto(a, l) == pc' = [pc EXCEPT ![a] = l]

-----------------------------------------------------------------------------
AtMost(n, limit) == IF n < limit THEN n ELSE limit

(* scheduleAudioFile, on either thread: the test against the end, the size *)
(* of the segment, and its start are three reads of _currentFrame.         *)
Return(a) ==
  IF a = Handler THEN "idle" ELSE IF call = "play" THEN "start" ELSE "resume"

(* Mutant of TestEnd: > for >=.                                            *)
TestPastEnd(a) ==
  /\ At(a, "guard")
  /\ Goto(a, IF currentFrame > TotalFrames THEN Return(a) ELSE "count")
  /\ UNCHANGED <<count, sum, call, wasPlaying, target, acts, player, queue,
                 history, raised>>

TestEnd(a) ==
  /\ At(a, "guard")
  /\ Goto(a, IF currentFrame >= TotalFrames THEN Return(a) ELSE "count")
  /\ UNCHANGED <<count, sum, call, wasPlaying, target, acts, player, queue,
                 history, raised>>

(* A negative difference becomes a huge unsigned one.                      *)
PreferredSize ==
  IF currentFrame > TotalFrames THEN SegmentFrames
  ELSE AtMost(TotalFrames - currentFrame, SegmentFrames)

MeasureSegment(a) ==
  /\ At(a, "count")
  /\ count' = [count EXCEPT ![a] = PreferredSize]
  /\ Goto(a, "submit")
  /\ UNCHANGED <<sum, call, wasPlaying, target, acts, player, queue, history,
                 raised>>

(* scheduleSegment: raises for no frames, and plays what there is of a     *)
(* segment that reaches beyond the file.                                   *)
ScheduleSegment(a) ==
  /\ At(a, "submit")
  /\ IF count[a] = 0
       THEN raised' = TRUE /\ UNCHANGED queue
       ELSE /\ IF currentFrame >= TotalFrames
                 THEN /\ due' = Append(due, count[a])
                      /\ UNCHANGED <<node, sizes>>
                 ELSE /\ node' = Schedule(node, Stretch(File, currentFrame,
                            AtMost(count[a], TotalFrames - currentFrame)))
                      /\ sizes' = Append(sizes, count[a])
                      /\ UNCHANGED due
            /\ UNCHANGED raised
  /\ count' = [count EXCEPT ![a] = 0]
  /\ Goto(a, Return(a))
  /\ UNCHANGED <<sum, call, wasPlaying, target, acts, player, history>>

-----------------------------------------------------------------------------
(* A call from the user, and whether it cuts into a chain of segments.     *)
Call(c, cuts) ==
  /\ At(Main, "idle")
  /\ acts < MaxActs
  /\ acts' = acts + 1
  /\ call' = c
  /\ disturbed' = (disturbed \/ cuts)

(* Mutant of play: without the test of _isPlaying.                         *)
playAgain ==
  /\ Call("play", FALSE)
  /\ Goto(Main, "rewind")
  /\ UNCHANGED <<count, sum, wasPlaying, target, player, queue, next, jumped,
                 overtaken, raised>>

(* play, which seekToTime: runs too: rewinds at the end and starts the     *)
(* engine, which may fail.                                                 *)
play ==
  /\ Call("play", FALSE)
  /\ ~isPlaying
  /\ Goto(Main, "rewind")
  /\ UNCHANGED <<count, sum, wasPlaying, target, player, queue, next, jumped,
                 overtaken, raised>>

(* Mutant of TestRewind: play goes on from the end.                        *)
TestRewindNever ==
  /\ At(Main, "rewind")
  /\ Goto(Main, "engine")
  /\ UNCHANGED <<count, sum, call, wasPlaying, target, acts, player, queue,
                 history, raised>>

TestRewind ==
  /\ At(Main, "rewind")
  /\ Goto(Main, IF currentFrame >= TotalFrames THEN "zero" ELSE "engine")
  /\ UNCHANGED <<count, sum, call, wasPlaying, target, acts, player, queue,
                 history, raised>>

Rewind ==
  /\ At(Main, "zero")
  /\ currentFrame' = 0
  /\ next' = 0
  /\ Goto(Main, "engine")
  /\ UNCHANGED <<count, sum, call, wasPlaying, target, acts, isPlaying,
                 running, queue, jumped, disturbed, overtaken, raised>>

StartEngine ==
  /\ At(Main, "engine")
  /\ running' \in {TRUE, running}
  /\ Goto(Main, IF running' THEN "test" ELSE "idle")
  /\ UNCHANGED <<count, sum, call, wasPlaying, target, acts, currentFrame,
                 isPlaying, queue, history, raised>>

TestStart ==
  /\ At(Main, "test")
  /\ Goto(Main, IF currentFrame = 0 THEN "guard" ELSE "start")
  /\ call' = "play"
  /\ UNCHANGED <<count, sum, wasPlaying, target, acts, player, queue, history,
                 raised>>

StartNode ==
  /\ At(Main, "start")
  /\ node' = Play(node)
  /\ Goto(Main, "mark")
  /\ UNCHANGED <<count, sum, call, wasPlaying, target, acts, player, sizes,
                 due, history, raised>>

MarkPlaying ==
  /\ At(Main, "mark")
  /\ isPlaying' = TRUE
  /\ Goto(Main, "idle")
  /\ UNCHANGED <<count, sum, call, wasPlaying, target, acts, currentFrame,
                 running, queue, history, raised>>

(* pause, which seekToTime: runs too: the node's clock is taken for the    *)
(* position, then the node is held.                                        *)
pause ==
  /\ Call("pause", Alive)
  /\ Goto(Main, "pause")
  /\ UNCHANGED <<count, sum, wasPlaying, target, player, queue, next, jumped,
                 overtaken, raised>>

PauseReturn == IF call = "seek" THEN "target" ELSE "idle"

TestPlaying ==
  /\ At(Main, "pause")
  /\ Goto(Main, IF isPlaying THEN "locate" ELSE PauseReturn)
  /\ UNCHANGED <<count, sum, call, wasPlaying, target, acts, player, queue,
                 history, raised>>

Locate ==
  /\ At(Main, "locate")
  /\ currentFrame' = IF node.playing THEN node.time ELSE currentFrame
  /\ Goto(Main, "hold")
  /\ UNCHANGED <<count, sum, call, wasPlaying, target, acts, isPlaying,
                 running, queue, history, raised>>

HoldNode ==
  /\ At(Main, "hold")
  /\ node' = Pause(node)
  /\ isPlaying' = FALSE
  /\ Goto(Main, PauseReturn)
  /\ UNCHANGED <<count, sum, call, wasPlaying, target, acts, currentFrame,
                 running, sizes, due, history, raised>>

(* stop, and the stop within seekToTime:.                                  *)
stop ==
  /\ Call("stop", Alive)
  /\ Goto(Main, "halt")
  /\ UNCHANGED <<count, sum, wasPlaying, target, player, queue, next, jumped,
                 overtaken, raised>>

HaltNode ==
  /\ At(Main, "halt")
  /\ node' = StoppedNode
  /\ sizes' = <<>>
  /\ due' = due \o sizes
  /\ running' = (running /\ call = "seek")
  /\ Goto(Main, IF call = "seek" THEN "guard" ELSE "reset")
  /\ UNCHANGED <<count, sum, call, wasPlaying, target, acts, currentFrame,
                 isPlaying, history, raised>>

ResetPosition ==
  /\ At(Main, "reset")
  /\ currentFrame' = 0
  /\ next' = 0
  /\ isPlaying' = FALSE
  /\ Goto(Main, "idle")
  /\ UNCHANGED <<count, sum, call, wasPlaying, target, acts, running, queue,
                 jumped, disturbed, overtaken, raised>>

(* seekToTime:completion:                                                  *)
seekToTime(t) ==
  /\ Call("seek", Alive \/ t = 0)
  /\ wasPlaying' = isPlaying
  /\ target' = t
  /\ Goto(Main, IF isPlaying THEN "pause" ELSE "target")
  /\ UNCHANGED <<count, sum, player, queue, next, jumped, overtaken, raised>>

SetPosition ==
  /\ At(Main, "target")
  /\ currentFrame' = target
  /\ next' = target
  /\ Goto(Main, "halt")
  /\ UNCHANGED <<count, sum, call, wasPlaying, target, acts, isPlaying,
                 running, queue, jumped, disturbed, overtaken, raised>>

ResumePlaying ==
  /\ At(Main, "resume")
  /\ Goto(Main, IF wasPlaying /\ ~isPlaying THEN "rewind" ELSE "idle")
  /\ UNCHANGED <<count, sum, call, wasPlaying, target, acts, player, queue,
                 history, raised>>

-----------------------------------------------------------------------------
(* The engine renders a frame.                                             *)
Render ==
  /\ ~raised
  /\ running /\ node.playing
  /\ node' = Rendered(node)
  /\ IF Consumes(node)
       THEN due' = Append(due, Head(sizes)) /\ sizes' = Tail(sizes)
       ELSE UNCHANGED <<due, sizes>>
  /\ IF node.queue = <<>>
       THEN UNCHANGED <<next, jumped>>
       ELSE /\ next' = Head(node.queue).start + 1
            /\ jumped' = (jumped \/ Head(node.queue).start # next)
  /\ UNCHANGED <<threads, player, disturbed, overtaken, raised>>

(* The completion handler of a segment: reads _currentFrame, adds the size *)
(* of the segment, and queues the next one or ends the playback.           *)
HandlerReads ==
  /\ At(Handler, "idle")
  /\ due # <<>>
  /\ due' = Tail(due)
  /\ count' = [count EXCEPT ![Handler] = Head(due)]
  /\ sum' = currentFrame
  /\ Goto(Handler, "add")
  /\ UNCHANGED <<call, wasPlaying, target, acts, player, node, sizes, history,
                 raised>>

(* Mutant of HandlerAdds: the position is not advanced.                    *)
HandlerAddsNothing ==
  /\ At(Handler, "add")
  /\ Goto(Handler, "test")
  /\ UNCHANGED <<count, sum, call, wasPlaying, target, acts, player, queue,
                 history, raised>>

HandlerAdds ==
  /\ At(Handler, "add")
  /\ currentFrame' = sum + count[Handler]
  /\ sum' = 0
  /\ Goto(Handler, "test")
  /\ UNCHANGED <<count, call, wasPlaying, target, acts, isPlaying,
                 running, queue, history, raised>>

(* Mutant of HandlerTests: the end leaves isPlaying set.                   *)
HandlerTestsSilently ==
  /\ At(Handler, "test")
  /\ Goto(Handler, IF currentFrame < TotalFrames THEN "guard" ELSE "idle")
  /\ UNCHANGED <<count, sum, call, wasPlaying, target, acts, player, queue,
                 history, raised>>

HandlerTests ==
  /\ At(Handler, "test")
  /\ IF currentFrame < TotalFrames
       THEN Goto(Handler, "guard") /\ UNCHANGED <<isPlaying, overtaken>>
       ELSE /\ Goto(Handler, "idle")
            /\ isPlaying' = FALSE
            /\ overtaken' = (overtaken \/ pc[Main] # "idle")
  /\ UNCHANGED <<count, sum, call, wasPlaying, target, acts, currentFrame,
                 running, queue, next, jumped, disturbed, raised>>

ScheduleAudioFile(a) ==
  TestEnd(a) \/ MeasureSegment(a) \/ ScheduleSegment(a)

MainStep ==
  \/ TestRewind \/ Rewind \/ StartEngine
  \/ TestStart \/ StartNode \/ MarkPlaying
  \/ TestPlaying \/ Locate \/ HoldNode
  \/ HaltNode \/ ResetPosition
  \/ SetPosition \/ ResumePlaying
  \/ ScheduleAudioFile(Main)

HandlerStep ==
  \/ HandlerReads \/ HandlerAdds \/ HandlerTests
  \/ ScheduleAudioFile(Handler)

Next ==
  \/ play \/ pause \/ stop
  \/ \E t \in Targets : seekToTime(t)
  \/ MainStep
  \/ Render
  \/ HandlerStep

Spec == Init /\ [][Next]_vars

(* Calls that were begun run on, the engine renders while it runs, and     *)
(* AVFoundation runs every handler.                                        *)
Fairness == WF_vars(MainStep) /\ WF_vars(Render) /\ WF_vars(HandlerStep)

FairSpec == Spec /\ Fairness

-----------------------------------------------------------------------------
(* Unless a call cut into it, a chain of segments plays its frames in      *)
(* order, each once, whatever the handlers' delays.                        *)
PlaysInOrder == ~disturbed => ~jumped

(* ... and a chain that was left alone ends at the end of the file.        *)
NotCutShort ==
  [][isPlaying /\ ~isPlaying' /\ ~disturbed' => next = TotalFrames]_vars

(* scheduleSegment: is asked for no frames only when a call raced a        *)
(* handler.                                                                *)
RaisesOnlyRaced == raised => disturbed

(* Segments, handlers and threads taken away, the player is a playback of  *)
(* the file: unless a call cuts into it each frame follows the one before, *)
(* and play, stop and seekToTime: go elsewhere only when nothing plays or  *)
(* the end was reached.                                                    *)
Playback ==
  INSTANCE FilePlayback WITH
    Frames <- TotalFrames, Starts <- Targets \cup {0},
    playing <- isPlaying, cut <- disturbed

PlaysFile == Playback!Spec

(* Whatever calls cut into it, a player that says it plays has a node that *)
(* plays on a running engine, and a chain under way, without which nothing *)
(* would ever end the playback.  Two cases are without a chain: one that   *)
(* ended during a call, and a file without frames, which play takes for    *)
(* one that plays.                                                         *)
NeverStuck ==
  isPlaying /\ At(Main, "idle") /\ ~overtaken
    => /\ node.playing /\ running
       /\ Alive \/ TotalFrames = 0

(* A playback of a file that has frames comes to its end.                  *)
PlaybackEnds ==
  isPlaying /\ TotalFrames # 0 ~> ~isPlaying \/ raised \/ overtaken

(* AudioNoiseReductionPlayer.m:213 says that a seek clears what is         *)
(* scheduled: once it is done there is only the segment it scheduled.      *)
SeekClears == At(Main, "idle") /\ call = "seek" => Len(node.queue) <= 1

=============================================================================
