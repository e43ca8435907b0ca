------------------------ MODULE SegmentPlayerProofs ------------------------
(***************************************************************************)
(* Theorems about SegmentPlayer, for every length of the file and of its   *)
(* segments, every target of a seek and any number of calls.  ChainInv     *)
(* follows the one segment of a chain that no call cut into through the    *)
(* node's queue, its completion handler and the main thread's calls; that  *)
(* frames are heard in order, that no empty segment is scheduled, that a   *)
(* playback ends at the end of the file, and the refinement all rest on it.*)
(***************************************************************************)
EXTENDS SegmentPlayer, SequenceTheorems, TLAPS

-----------------------------------------------------------------------------
(* What the operations of AVPlayerNode keep.                               *)
LEMMA NodeFields ==
  ASSUME NEW files, NEW n \in Nodes(files)
  PROVE  /\ n.playing \in BOOLEAN /\ n.time \in 0..MaxTime
         /\ n.queue \in Seq(Stretches(files))
         /\ Len(n.queue) \in Nat
         /\ n.queue = <<>> <=> Len(n.queue) = 0
<1>1. n.queue \in Seq(Stretches(files))
  BY DEF Nodes
<1>2. Len(n.queue) \in Nat /\ (n.queue = <<>> <=> Len(n.queue) = 0)
  BY <1>1, EmptySeq, LenProperties
<1>. QED
  BY <1>1, <1>2 DEF Nodes

LEMMA StretchType ==
  ASSUME NEW files, NEW f \in files, NEW first \in Nat, NEW c \in Nat \ {0}
  PROVE  /\ Stretch(f, first, c) \in Stretches(files)
         /\ Stretch(f, first, c).start = first
         /\ Stretch(f, first, c).count = c
         /\ Stretch(f, first, c).file = f
BY DEF Stretch, Stretches

LEMMA StoppedNodeType ==
  ASSUME NEW files
  PROVE  StoppedNode \in Nodes(files)
<1>1. <<>> \in Seq(Stretches(files))
  BY EmptySeq
<1>. QED
  BY <1>1, MaxTimeAssumption DEF StoppedNode, Nodes

LEMMA ScheduleType ==
  ASSUME NEW files, NEW n \in Nodes(files), NEW s \in Stretches(files)
  PROVE  /\ Schedule(n, s) \in Nodes(files)
         /\ Schedule(n, s).playing = n.playing
         /\ Schedule(n, s).time = n.time
         /\ Schedule(n, s).queue = Append(n.queue, s)
         /\ Schedule(n, s).queue # <<>>
         /\ Len(Schedule(n, s).queue) = Len(n.queue) + 1
         /\ n.queue = <<>> => Head(Schedule(n, s).queue) = s
BY AppendProperties DEF Schedule, Nodes

LEMMA PlayPauseType ==
  ASSUME NEW files, NEW n \in Nodes(files)
  PROVE  /\ Play(n) \in Nodes(files) /\ Pause(n) \in Nodes(files)
         /\ Play(n).playing /\ ~Pause(n).playing
         /\ Play(n).time = n.time /\ Pause(n).time = n.time
         /\ Play(n).queue = n.queue /\ Pause(n).queue = n.queue
BY DEF Play, Pause, Nodes

(* Rendering either takes the head off the queue or starts it one period   *)
(* later, its end unchanged.                                               *)
LEMMA RenderedType ==
  ASSUME NEW files, NEW n \in Nodes(files)
  PROVE  /\ Rendered(n) \in Nodes(files)
         /\ Rendered(n).playing = n.playing
         /\ n.time < MaxTime => Rendered(n).time = n.time + 1
         /\ n.queue = <<>> => Rendered(n).queue = <<>>
         /\ Consumes(n) => Len(Rendered(n).queue) = Len(n.queue) - 1
         /\ Consumes(n) /\ Len(n.queue) <= 1 => Rendered(n).queue = <<>>
         /\ n.queue # <<>> /\ ~Consumes(n)
              => /\ Rendered(n).queue # <<>>
                 /\ Len(Rendered(n).queue) = Len(n.queue)
                 /\ Head(Rendered(n).queue).start = Head(n.queue).start + 1
                 /\ Head(Rendered(n).queue).start + Head(Rendered(n).queue).count
                      = Head(n.queue).start + Head(n.queue).count
<1>. DEFINE S == Stretches(files)
            h == Head(n.queue)
<1>1. n.queue \in Seq(S) /\ n.playing \in BOOLEAN /\ Clock(n) \in 0..MaxTime
      /\ (n.time < MaxTime => Clock(n) = n.time + 1)
  BY MaxTimeAssumption DEF Nodes, Clock
<1>2. n.queue # <<>> => h \in S /\ Tail(n.queue) \in Seq(S)
                        /\ Len(Tail(n.queue)) = Len(n.queue) - 1
  BY <1>1, HeadTailProperties
<1>3. n.queue # <<>> /\ ~Consumes(n)
        => Advanced(h) \in S /\ Advanced(h).start = h.start + 1
           /\ Advanced(h).start + Advanced(h).count = h.start + h.count
  BY <1>2 DEF Advanced, Stretch, Stretches, Consumes
<1>. HIDE DEF S
<1>4. CASE n.queue = <<>> \/ Consumes(n)
  BY <1>1, <1>2, <1>4, EmptySeq DEF Rendered, RenderedQueue, Nodes, S, Consumes
<1>5. CASE n.queue # <<>> /\ ~Consumes(n)
  <2>1. Rendered(n).queue = <<Advanced(h)>> \o Tail(n.queue)
    BY <1>5 DEF Rendered, RenderedQueue
  <2>2. Rendered(n).queue \in Seq(S)
        /\ Len(Rendered(n).queue) = Len(n.queue)
        /\ Head(Rendered(n).queue) = Advanced(h)
    BY <1>1, <1>2, <1>3, <1>5, <2>1
  <2>. QED
    BY <1>1, <1>3, <1>5, <2>2, EmptySeq DEF Rendered, Nodes, S
<1>. QED
  BY <1>4, <1>5

-----------------------------------------------------------------------------
(* Main and Handler name two different threads.                            *)
LEMMA TwoThreads == Main # Handler
BY DEF Main, Handler

(* What a step of one thread leaves of the other's place and count.        *)
LEMMA GotoPlaces ==
  ASSUME TypeOK, NEW a \in {Main, Handler}, NEW l, Goto(a, l),
         l \in MainLocations \cup HandlerLocations
  PROVE  /\ pc' \in [{Main, Handler} -> MainLocations \cup HandlerLocations]
         /\ pc'[a] = l
         /\ \A b \in {Main, Handler} : b # a => pc'[b] = pc[b]
BY DEF Goto, TypeOK

LEMMA PreferredSizeType ==
  ASSUME currentFrame \in Nat
  PROVE  /\ PreferredSize \in 0..SegmentFrames
         /\ currentFrame < TotalFrames
              => /\ PreferredSize \in 1..SegmentFrames
                 /\ currentFrame + PreferredSize <= TotalFrames
BY FramesAssumption DEF PreferredSize, AtMost

LEMMA InitType == Init => TypeOK
<1>. SUFFICES ASSUME Init PROVE TypeOK
  OBVIOUS
<1>1. node \in Nodes({File}) /\ Len(node.queue) = 0
  BY StoppedNodeType DEF Init, StoppedNode
<1>2. sizes \in Seq(1..SegmentFrames) /\ Len(sizes) = 0
      /\ due \in Seq(1..SegmentFrames)
  BY DEF Init
<1>3. /\ pc \in [{Main, Handler} -> MainLocations \cup HandlerLocations]
      /\ pc[Main] = "idle" /\ pc[Handler] = "idle"
      /\ count \in [{Main, Handler} -> 0..SegmentFrames]
  BY FramesAssumption DEF Init, MainLocations, HandlerLocations
<1>4. /\ isPlaying \in BOOLEAN /\ running \in BOOLEAN /\ raised \in BOOLEAN
      /\ wasPlaying \in BOOLEAN
      /\ jumped \in BOOLEAN /\ disturbed \in BOOLEAN /\ overtaken \in BOOLEAN
  BY DEF Init
<1>5. /\ currentFrame \in Nat /\ next \in Nat /\ sum \in Nat
      /\ target \in Targets \cup {0} /\ acts \in 0..MaxActs
      /\ call \in {"play", "pause", "stop", "seek"}
  BY FramesAssumption, ActsAssumption DEF Init
<1>. QED
  BY <1>1, <1>2, <1>3, <1>4, <1>5
     DEF TypeOK, MainLocations, HandlerLocations

-----------------------------------------------------------------------------
LEMMA TestEndType ==
  ASSUME TypeOK, NEW a \in {Main, Handler}, TestEnd(a)
  PROVE  TypeOK'
BY TwoThreads
   DEF TestEnd, TypeOK, Goto, Return, player, queue, history,
       MainLocations, HandlerLocations

LEMMA MeasureSegmentType ==
  ASSUME TypeOK, NEW a \in {Main, Handler}, MeasureSegment(a)
  PROVE  TypeOK'
<1>1. PreferredSize \in 0..SegmentFrames
  BY PreferredSizeType DEF TypeOK
<1>. QED
  BY <1>1, TwoThreads
     DEF MeasureSegment, TypeOK, Goto, player, queue, history,
         MainLocations, HandlerLocations

LEMMA ScheduleSegmentType ==
  ASSUME TypeOK, NEW a \in {Main, Handler}, ScheduleSegment(a)
  PROVE  TypeOK'
<1>1. node' \in Nodes({File}) /\ sizes' \in Seq(1..SegmentFrames)
      /\ Len(sizes') = Len(node'.queue)
      /\ due' \in Seq(1..SegmentFrames) /\ raised' \in BOOLEAN
  <2>1. count[a] \in 0..SegmentFrames /\ node \in Nodes({File})
        /\ sizes \in Seq(1..SegmentFrames) /\ due \in Seq(1..SegmentFrames)
        /\ Len(sizes) = Len(node.queue) /\ raised \in BOOLEAN
        /\ currentFrame \in Nat
    BY DEF TypeOK
  <2>2. CASE count[a] = 0
    BY <2>1, <2>2 DEF ScheduleSegment, queue
  <2>3. CASE count[a] # 0 /\ currentFrame >= TotalFrames
    <3>1. due' = Append(due, count[a]) /\ UNCHANGED <<node, sizes, raised>>
      BY <2>3 DEF ScheduleSegment
    <3>2. count[a] \in 1..SegmentFrames
      BY <2>1, <2>3, FramesAssumption
    <3>. QED
      BY <2>1, <3>1, <3>2, AppendProperties
  <2>4. CASE count[a] # 0 /\ ~(currentFrame >= TotalFrames)
    <3>. DEFINE c == AtMost(count[a], TotalFrames - currentFrame)
                s == Stretch(File, currentFrame, c)
    <3>1. /\ node' = Schedule(node, s)
          /\ sizes' = Append(sizes, count[a]) /\ UNCHANGED <<due, raised>>
      BY <2>4 DEF ScheduleSegment
    <3>2. count[a] \in 1..SegmentFrames /\ c \in Nat \ {0}
      BY <2>1, <2>4, FramesAssumption DEF AtMost
    <3>. HIDE DEF c
    <3>3. s \in Stretches({File})
      BY <2>1, <3>2, StretchType
    <3>. HIDE DEF s
    <3>4. node' \in Nodes({File}) /\ Len(node'.queue) = Len(node.queue) + 1
      BY <2>1, <3>1, <3>3, ScheduleType
    <3>5. sizes' \in Seq(1..SegmentFrames) /\ Len(sizes') = Len(sizes) + 1
      BY <2>1, <3>1, <3>2, AppendProperties
    <3>. QED
      BY <2>1, <3>1, <3>4, <3>5
  <2>. QED
    BY <2>2, <2>3, <2>4
<1>2. /\ count' = [count EXCEPT ![a] = 0] /\ Goto(a, Return(a))
      /\ UNCHANGED <<sum, call, wasPlaying, target, acts, player, history>>
  BY DEF ScheduleSegment
<1>3. count' \in [{Main, Handler} -> 0..SegmentFrames]
  BY <1>2, FramesAssumption DEF TypeOK
<1>4. /\ pc' \in [{Main, Handler} -> MainLocations \cup HandlerLocations]
      /\ pc'[Main] \in MainLocations /\ pc'[Handler] \in HandlerLocations
  BY <1>2, TwoThreads
     DEF TypeOK, Goto, Return, MainLocations, HandlerLocations
<1>. QED
  BY <1>1, <1>2, <1>3, <1>4 DEF TypeOK, player, history

LEMMA CallType ==
  ASSUME TypeOK, NEW c \in {"play", "pause", "stop", "seek"},
         NEW cuts \in BOOLEAN, Call(c, cuts)
  PROVE  call' = c /\ acts' \in 0..MaxActs /\ disturbed' \in BOOLEAN
<1>1. acts' \in 0..MaxActs
  BY ActsAssumption DEF Call, TypeOK
<1>2. disturbed' \in BOOLEAN
  BY DEF Call, TypeOK
<1>. QED
  BY <1>1, <1>2 DEF Call

LEMMA UserType ==
  ASSUME TypeOK, play \/ pause \/ stop \/ \E t \in Targets : seekToTime(t)
  PROVE  TypeOK'
<1>1. CASE play
  <2>1. call' = "play" /\ acts' \in 0..MaxActs /\ disturbed' \in BOOLEAN
    BY <1>1, CallType DEF play
  <2>. QED
    BY <1>1, <2>1, TwoThreads
       DEF play, TypeOK, Goto, queue, player, MainLocations, HandlerLocations
<1>2. CASE pause
  <2>1. Alive \in BOOLEAN
    BY DEF Alive
  <2>2. /\ call' = "pause" /\ acts' \in 0..MaxActs /\ disturbed' \in BOOLEAN
    BY <1>2, <2>1, CallType DEF pause
  <2>. QED
    BY <1>2, <2>2, TwoThreads
       DEF pause, TypeOK, Goto, queue, player, MainLocations, HandlerLocations
<1>3. CASE stop
  <2>1. Alive \in BOOLEAN
    BY DEF Alive
  <2>2. /\ call' = "stop" /\ acts' \in 0..MaxActs /\ disturbed' \in BOOLEAN
    BY <1>3, <2>1, CallType DEF stop
  <2>. QED
    BY <1>3, <2>2, TwoThreads
       DEF stop, TypeOK, Goto, queue, player, MainLocations, HandlerLocations
<1>4. ASSUME NEW t \in Targets, seekToTime(t) PROVE TypeOK'
  <2>1. (Alive \/ t = 0) \in BOOLEAN
    BY DEF Alive
  <2>2. /\ call' = "seek" /\ acts' \in 0..MaxActs /\ disturbed' \in BOOLEAN
    BY <1>4, <2>1, CallType DEF seekToTime
  <2>3. wasPlaying' \in BOOLEAN /\ target' \in Targets \cup {0}
    BY <1>4, FramesAssumption DEF seekToTime, TypeOK
  <2>. QED
    BY <1>4, <2>2, <2>3, TwoThreads
       DEF seekToTime, TypeOK, Goto, queue, player, MainLocations,
           HandlerLocations
<1>. QED
  BY <1>1, <1>2, <1>3, <1>4

LEMMA MainStepType ==
  ASSUME TypeOK, MainStep
  PROVE  TypeOK'
<1>. USE TwoThreads DEF TypeOK, Goto, queue, player, history, MainLocations,
                        HandlerLocations
<1>1. CASE TestStart
  BY <1>1 DEF TestStart
<1>2. CASE StartNode
  <2>1. node' \in Nodes({File}) /\ node'.queue = node.queue
    BY <1>2, PlayPauseType DEF StartNode
  <2>. QED
    BY <1>2, <2>1 DEF StartNode
<1>3. CASE MarkPlaying
  BY <1>3 DEF MarkPlaying
<1>4. CASE TestPlaying
  BY <1>4 DEF TestPlaying, PauseReturn
<1>5. CASE Locate
  <2>1. node.time \in Nat
    BY NodeFields, MaxTimeAssumption
  <2>. QED
    BY <1>5, <2>1 DEF Locate
<1>6. CASE HoldNode
  <2>1. node' \in Nodes({File}) /\ node'.queue = node.queue
    BY <1>6, PlayPauseType DEF HoldNode
  <2>. QED
    BY <1>6, <2>1 DEF HoldNode, PauseReturn
<1>7. CASE HaltNode
  <2>1. node' \in Nodes({File}) /\ Len(node'.queue) = 0
    BY <1>7, StoppedNodeType DEF HaltNode, StoppedNode
  <2>2. /\ sizes' \in Seq(1..SegmentFrames) /\ Len(sizes') = 0
        /\ due' \in Seq(1..SegmentFrames)
    BY <1>7, ConcatProperties DEF HaltNode
  <2>3. running' \in BOOLEAN
    BY <1>7 DEF HaltNode
  <2>. QED
    BY <1>7, <2>1, <2>2, <2>3 DEF HaltNode
<1>8. CASE ResetPosition
  BY <1>8 DEF ResetPosition
<1>9. CASE SetPosition
  BY <1>9, FramesAssumption DEF SetPosition
<1>10. CASE ResumePlaying
  BY <1>10 DEF ResumePlaying
<1>12. CASE TestRewind
  BY <1>12 DEF TestRewind
<1>13. CASE Rewind
  BY <1>13 DEF Rewind
<1>14. CASE StartEngine
  <2>1. running' \in BOOLEAN
    BY <1>14 DEF StartEngine
  <2>. QED
    BY <1>14, <2>1 DEF StartEngine
<1>11. CASE ScheduleAudioFile(Main)
  BY <1>11, TestEndType, MeasureSegmentType, ScheduleSegmentType
     DEF ScheduleAudioFile
<1>. QED
  BY <1>1, <1>2, <1>3, <1>4, <1>5, <1>6, <1>7, <1>8, <1>9, <1>10, <1>11,
     <1>12, <1>13, <1>14
     DEF MainStep

LEMMA RenderNode ==
  ASSUME TypeOK, Render
  PROVE  /\ node' \in Nodes({File}) /\ sizes' \in Seq(1..SegmentFrames)
         /\ Len(sizes') = Len(node'.queue)
         /\ due' \in Seq(1..SegmentFrames)
<1>1. /\ node \in Nodes({File}) /\ sizes \in Seq(1..SegmentFrames)
      /\ Len(sizes) = Len(node.queue) /\ due \in Seq(1..SegmentFrames)
      /\ node' = Rendered(node)
  BY DEF TypeOK, Render
<1>2. CASE Consumes(node)
  <2>1. node.queue # <<>> /\ sizes # <<>>
    BY <1>1, <1>2, NodeFields, EmptySeq DEF Consumes
  <2>2. due' = Append(due, Head(sizes)) /\ sizes' = Tail(sizes)
    BY <1>2 DEF Render
  <2>3. /\ Head(sizes) \in 1..SegmentFrames
        /\ Tail(sizes) \in Seq(1..SegmentFrames)
        /\ Len(Tail(sizes)) = Len(sizes) - 1
    BY <1>1, <2>1, HeadTailProperties
  <2>. QED
    BY <1>1, <1>2, <2>2, <2>3, RenderedType, AppendProperties
<1>3. CASE ~Consumes(node)
  <2>1. UNCHANGED <<due, sizes>>
    BY <1>3 DEF Render
  <2>2. Len(node'.queue) = Len(node.queue)
    BY <1>1, <1>3, RenderedType, NodeFields
  <2>. QED
    BY <1>1, <2>1, <2>2, RenderedType
<1>. QED
  BY <1>2, <1>3

LEMMA RenderType ==
  ASSUME TypeOK, Render
  PROVE  TypeOK'
<1>1. next' \in Nat /\ jumped' \in BOOLEAN
  <2>1. CASE node.queue = <<>>
    BY <2>1 DEF Render, TypeOK
  <2>2. CASE node.queue # <<>>
    <3>1. Head(node.queue) \in Stretches({File})
      BY <2>2, HeadTailProperties DEF TypeOK, Nodes
    <3>2. Head(node.queue).start \in Nat
      BY <3>1 DEF Stretches
    <3>3. jumped' \in BOOLEAN
      BY <2>2 DEF Render, TypeOK
    <3>. QED
      BY <2>2, <3>2, <3>3 DEF Render
  <2>. QED
    BY <2>1, <2>2
<1>. QED
  BY <1>1, RenderNode DEF Render, TypeOK, threads, player

LEMMA HandlerStepType ==
  ASSUME TypeOK, HandlerStep
  PROVE  TypeOK'
<1>. USE TwoThreads DEF TypeOK, Goto, player, queue, history, MainLocations,
                        HandlerLocations
<1>1. CASE HandlerReads
  <2>1. Head(due) \in 1..SegmentFrames /\ Tail(due) \in Seq(1..SegmentFrames)
    BY <1>1, HeadTailProperties DEF HandlerReads
  <2>. QED
    BY <1>1, <2>1 DEF HandlerReads
<1>2. CASE HandlerAdds
  <2>1. sum + count[Handler] \in Nat
    OBVIOUS
  <2>. QED
    BY <1>2, <2>1 DEF HandlerAdds
<1>3. CASE HandlerTests
  <2>1. overtaken' \in BOOLEAN /\ isPlaying' \in BOOLEAN
    BY <1>3 DEF HandlerTests
  <2>. QED
    BY <1>3, <2>1 DEF HandlerTests
<1>4. CASE ScheduleAudioFile(Handler)
  BY <1>4, TestEndType, MeasureSegmentType, ScheduleSegmentType
     DEF ScheduleAudioFile
<1>. QED
  BY <1>1, <1>2, <1>3, <1>4 DEF HandlerStep

LEMMA NextType == TypeOK /\ [Next]_vars => TypeOK'
<1>. SUFFICES ASSUME TypeOK, [Next]_vars PROVE TypeOK'
  OBVIOUS
<1>1. CASE UNCHANGED vars
  BY <1>1 DEF TypeOK, vars, threads, player, queue, history
<1>. QED
  BY <1>1, UserType, MainStepType, RenderType, HandlerStepType DEF Next

(* Every variable keeps its type, and there is a size for the handler of   *)
(* every segment in the node's queue.                                      *)
THEOREM TypeCorrect == Spec => []TypeOK
<1>. QED
  BY InitType, NextType, PTL DEF Spec

-----------------------------------------------------------------------------
(* The segment of a chain that was left alone is in one place at a time:   *)
(* in the node's queue, with its handler due, or with its handler running. *)
(* _currentFrame is where the segment starts until its handler has added   *)
(* its size, the next frame to be heard lies within it until it was played *)
(* and follows it from then on.                                            *)
InQueue ==
  /\ Len(node.queue) = 1 /\ due = <<>> /\ pc[Handler] = "idle"
  /\ Head(node.queue).start = next
  /\ currentFrame + Head(sizes) = next + Head(node.queue).count
  /\ currentFrame + Head(sizes) <= TotalFrames

IsDue ==
  /\ node.queue = <<>> /\ Len(due) = 1 /\ pc[Handler] = "idle"
  /\ next = currentFrame + Head(due)
  /\ next <= TotalFrames
  /\ node.time > 0

InHandler ==
  /\ node.queue = <<>> /\ due = <<>> /\ pc[Handler] # "idle"
  /\ pc[Handler] = "add" => sum = currentFrame /\ next = sum + count[Handler]
  /\ pc[Handler] # "add" => next = currentFrame
  /\ pc[Handler] \in {"guard", "count", "submit"} => next < TotalFrames
  /\ pc[Handler] = "submit" => count[Handler] = PreferredSize
  /\ next <= TotalFrames
  /\ node.time > 0

(* No chain is under way; a node that plays has played something, if the   *)
(* file has anything to play.                                              *)
Quiet == ~Alive /\ (node.playing => node.time > 0 \/ TotalFrames = 0)

OneSegment == Quiet \/ InQueue \/ IsDue \/ InHandler

(* A segment that seekToTime: queued, on a node that does not play yet.    *)
Parked == InQueue /\ ~node.playing /\ currentFrame # 0

(* A chain played to the end of the file and nothing was heard since; a    *)
(* file without frames is always at its end.                               *)
AtEnd ==
  /\ next = TotalFrames
  /\ (node.time > 0 /\ currentFrame # 0) \/ TotalFrames = 0

(* Nothing to play: a position within the file that play would go on from  *)
(* is left over from a chain that had reached the end.                     *)
Rest ==
  /\ Quiet
  /\ currentFrame = 0 => next = 0
  /\ currentFrame \in 1..(TotalFrames - 1) => AtEnd
  /\ isPlaying => next = TotalFrames

(* The end that a seek to the end of the file leaves.                      *)
SoughtEnd ==
  Quiet /\ ~node.playing /\ currentFrame = TotalFrames /\ next = TotalFrames

(* A position from which play starts a chain or carries one on.            *)
Playable == Parked \/ (Rest /\ (currentFrame < TotalFrames \/ currentFrame = 0))

(* What the main thread may rely on in each of its places.                 *)
InCall ==
  /\ pc[Main] = "idle" => Rest \/ Parked \/ (Alive /\ isPlaying)
  /\ pc[Main] \in {"pause", "locate", "hold"} => Rest
  /\ pc[Main] \in {"locate", "hold"} => isPlaying
  /\ pc[Main] = "target" => call = "seek" /\ ~isPlaying
  /\ pc[Main] \in {"pause", "locate", "hold", "target"} /\ call = "seek"
       => target # 0
  /\ pc[Main] = "reset" \/ (pc[Main] = "halt" /\ call # "seek")
       => (isPlaying => next = TotalFrames)
  /\ pc[Main] \in {"target", "halt", "reset"} => Quiet
  /\ pc[Main] = "halt" /\ call = "seek" => next = currentFrame /\ next # 0
  /\ pc[Main] = "halt" /\ call = "seek" => next <= TotalFrames
  /\ pc[Main] \in {"rewind", "zero", "engine"} => ~isPlaying
  /\ pc[Main] = "rewind" => Rest \/ Parked \/ SoughtEnd
  /\ pc[Main] = "zero" => Quiet
  /\ pc[Main] \in {"engine", "test"} => Playable
  /\ pc[Main] \in {"start", "mark"} => Alive \/ AtEnd

(* ... and while it is in scheduleAudioFile.                               *)
InSchedule ==
  /\ pc[Main] \in {"guard", "count", "submit"}
       => /\ Quiet
          /\ next = currentFrame /\ next <= TotalFrames
          /\ call = "seek" => next # 0 /\ ~node.playing
          /\ call # "seek" => call = "play" /\ next = 0
  /\ pc[Main] \in {"count", "submit"} => next < TotalFrames
  /\ pc[Main] = "submit" => count[Main] = PreferredSize
  /\ pc[Main] = "resume" => Parked \/ SoughtEnd

LeftAlone == ~raised /\ ~jumped /\ OneSegment /\ InCall /\ InSchedule

ChainInv == ~disturbed => LeftAlone

-----------------------------------------------------------------------------
LEMMA ChainInit == Init => ChainInv
<1>. SUFFICES ASSUME Init PROVE LeftAlone
  BY DEF ChainInv
<1>1. ~Alive /\ Quiet
  BY DEF Init, Alive, Quiet, StoppedNode
<1>2. Rest
  BY <1>1, FramesAssumption DEF Init, Rest
<1>. QED
  BY <1>1, <1>2 DEF Init, LeftAlone, OneSegment, InCall, InSchedule

(* A step that leaves the segment and the two positions alone.             *)
LEMMA SameChain ==
  ASSUME UNCHANGED <<currentFrame, next, node, sizes, due, sum>>,
         pc'[Handler] = pc[Handler], count'[Handler] = count[Handler]
  PROVE  /\ Alive' <=> Alive
         /\ Quiet' <=> Quiet
         /\ InQueue' <=> InQueue
         /\ IsDue' <=> IsDue
         /\ InHandler' <=> InHandler
         /\ OneSegment' <=> OneSegment
         /\ Parked' <=> Parked
         /\ AtEnd' <=> AtEnd
         /\ SoughtEnd' <=> SoughtEnd
<1>1. /\ Alive' <=> Alive
      /\ InQueue' <=> InQueue
      /\ IsDue' <=> IsDue
      /\ AtEnd' <=> AtEnd
  BY DEF Alive, InQueue, IsDue, AtEnd
<1>2. InHandler' <=> InHandler
  BY DEF InHandler, PreferredSize
<1>. QED
  BY <1>1, <1>2 DEF Quiet, OneSegment, Parked, SoughtEnd

(* What each place of the segment says of Alive, and of the others.        *)
LEMMA AliveParts ==
  ASSUME TypeOK
  PROVE  /\ InQueue => Alive
         /\ IsDue => Alive
         /\ InHandler => Alive
         /\ Parked => Alive /\ InQueue
         /\ Quiet => ~Alive
         /\ Alive /\ OneSegment => InQueue \/ IsDue \/ InHandler
<1>1. Len(<<>>) = 0
  OBVIOUS
<1>. QED
  BY <1>1 DEF Alive, InQueue, IsDue, InHandler, Parked, Quiet, OneSegment

(* While a chain goes on, the main thread is out of its way.               *)
LEMMA GoingPlaces ==
  ASSUME TypeOK, LeftAlone,
         InHandler \/ IsDue \/ (InQueue /\ node.playing)
  PROVE  /\ pc[Main] \in {"idle", "start", "mark"}
         /\ pc[Main] = "idle" => isPlaying
<1>1. ~Parked /\ ~Quiet /\ ~Rest
  <2>1. ~Parked
    BY DEF Parked, InHandler, IsDue, InQueue
  <2>2. ~Quiet
    BY AliveParts
  <2>. QED
    BY <2>1, <2>2 DEF Rest
<1>2. pc[Main] \in MainLocations
  BY DEF TypeOK
<1>. QED
  BY <1>1, <1>2
     DEF LeftAlone, InCall, InSchedule, MainLocations, Playable, SoughtEnd

(* ... and stays there when the chain goes on, or reaches the end.         *)
LEMMA GoingOn ==
  ASSUME pc'[Main] = pc[Main], pc[Main] \in {"idle", "start", "mark"},
         pc[Main] = "idle" => isPlaying,
         \/ Alive' /\ isPlaying' = isPlaying
         \/ Quiet' /\ AtEnd' /\ ~isPlaying' /\ currentFrame' >= TotalFrames
  PROVE  InCall' /\ InSchedule'
<1>1. CASE Alive' /\ isPlaying' = isPlaying
  BY <1>1 DEF InCall, InSchedule
<1>2. CASE Quiet' /\ AtEnd' /\ ~isPlaying' /\ currentFrame' >= TotalFrames
  <2>1. Rest'
    BY <1>2 DEF Rest, AtEnd
  <2>. QED
    BY <1>2, <2>1 DEF InCall, InSchedule
<1>. QED
  BY <1>1, <1>2

LEMMA GotoMain ==
  ASSUME TypeOK, NEW l, Goto(Main, l)
  PROVE  pc'[Main] = l /\ pc'[Handler] = pc[Handler]
BY TwoThreads DEF TypeOK, Goto

LEMMA GotoHandler ==
  ASSUME TypeOK, NEW l, Goto(Handler, l)
  PROVE  pc'[Handler] = l /\ pc'[Main] = pc[Main]
BY TwoThreads DEF TypeOK, Goto

-----------------------------------------------------------------------------
(* A segment that waits for play leaves something to play.                 *)
LEMMA ParkedInside ==
  ASSUME TypeOK, Parked
  PROVE  currentFrame < TotalFrames
<1>1. Head(sizes) \in 1..SegmentFrames /\ Head(node.queue) \in Stretches({File})
  <2>1. node.queue # <<>> /\ sizes # <<>>
    BY EmptySeq DEF TypeOK, Parked, InQueue
  <2>. QED
    BY <2>1, HeadTailProperties DEF TypeOK, Nodes
<1>. QED
  BY <1>1, FramesAssumption DEF Parked, InQueue, TypeOK

(* The steps of play before its test of the start, and of the play within  *)
(* seekToTime:, from a state of rest.                                      *)
LEMMA EnterChain ==
  ASSUME TypeOK, LeftAlone, TestRewind \/ Rewind \/ StartEngine
  PROVE  LeftAlone'
<1>. USE DEF LeftAlone
<1>1. CASE TestRewind
  <2>1. /\ pc[Main] = "rewind"
        /\ Goto(Main, IF currentFrame >= TotalFrames THEN "zero" ELSE "engine")
        /\ UNCHANGED <<node, sizes, due, sum, count, currentFrame, next, call,
                       target, isPlaying, raised, jumped>>
    BY <1>1 DEF TestRewind, At, player, queue, history
  <2>2. ~isPlaying /\ (Rest \/ Parked \/ SoughtEnd)
    BY <2>1 DEF InCall
  <2>3. /\ pc'[Main] = IF currentFrame >= TotalFrames THEN "zero" ELSE "engine"
        /\ pc'[Handler] = pc[Handler]
    BY <2>1, GotoMain
  <2>4. OneSegment' /\ (Parked' <=> Parked) /\ (Quiet' <=> Quiet)
        /\ (AtEnd' <=> AtEnd)
    BY <2>1, <2>3, SameChain
  <2>5. Rest' <=> Rest
    BY <2>1, <2>4 DEF Rest
  <2>6. CASE currentFrame >= TotalFrames
    <3>1. ~Parked
      BY <2>6, ParkedInside, FramesAssumption DEF TypeOK
    <3>2. Quiet'
      BY <2>2, <2>4, <3>1 DEF Rest, SoughtEnd
    <3>. QED
      BY <2>1, <2>2, <2>3, <2>4, <2>6, <3>2 DEF InCall, InSchedule
  <2>7. CASE ~(currentFrame >= TotalFrames)
    <3>1. ~SoughtEnd /\ currentFrame < TotalFrames
      BY <2>7, FramesAssumption DEF SoughtEnd, TypeOK
    <3>2. Playable'
      BY <2>1, <2>2, <2>4, <2>5, <3>1 DEF Playable
    <3>. QED
      BY <2>1, <2>2, <2>3, <2>4, <2>7, <3>2 DEF InCall, InSchedule
  <2>. QED
    BY <2>6, <2>7
<1>2. CASE Rewind
  <2>1. /\ pc[Main] = "zero" /\ Goto(Main, "engine")
        /\ currentFrame' = 0 /\ next' = 0
        /\ UNCHANGED <<node, sizes, due, sum, count, call, target, isPlaying,
                       raised, jumped>>
    BY <1>2 DEF Rewind, At, queue
  <2>2. Quiet /\ ~isPlaying
    BY <2>1 DEF InCall
  <2>3. pc'[Main] = "engine" /\ pc'[Handler] = pc[Handler]
    BY <2>1, GotoMain
  <2>4. Quiet'
    BY <2>1, <2>2, <2>3 DEF Quiet, Alive
  <2>5. Rest' /\ Playable'
    BY <2>1, <2>2, <2>4 DEF Rest, Playable
  <2>. QED
    BY <2>1, <2>2, <2>3, <2>4, <2>5 DEF OneSegment, InCall, InSchedule
<1>3. CASE StartEngine
  <2>1. /\ pc[Main] = "engine"
        /\ Goto(Main, IF running' THEN "test" ELSE "idle")
        /\ UNCHANGED <<node, sizes, due, sum, count, currentFrame, next, call,
                       target, isPlaying, raised, jumped>>
    BY <1>3 DEF StartEngine, At, queue, history
  <2>2. ~isPlaying /\ Playable
    BY <2>1 DEF InCall
  <2>3. /\ pc'[Main] = IF running' THEN "test" ELSE "idle"
        /\ pc'[Handler] = pc[Handler]
    BY <2>1, GotoMain
  <2>4. OneSegment' /\ (Parked' <=> Parked) /\ (Quiet' <=> Quiet)
        /\ (AtEnd' <=> AtEnd)
    BY <2>1, <2>3, SameChain
  <2>5. Rest' <=> Rest
    BY <2>1, <2>4 DEF Rest
  <2>6. Playable' /\ (Rest' \/ Parked')
    BY <2>1, <2>2, <2>4, <2>5 DEF Playable
  <2>. QED
    BY <2>1, <2>2, <2>3, <2>4, <2>6 DEF InCall, InSchedule
<1>. QED
  BY <1>1, <1>2, <1>3

LEMMA UserChain ==
  ASSUME TypeOK, LeftAlone, ~disturbed',
         play \/ pause \/ stop \/ \E t \in Targets : seekToTime(t)
  PROVE  LeftAlone'
<1>. USE DEF LeftAlone
<1>1. CASE play
  <2>1. /\ pc[Main] = "idle" /\ ~isPlaying /\ call' = "play"
        /\ Goto(Main, "rewind")
        /\ UNCHANGED <<node, sizes, due, sum, count, currentFrame, next,
                       isPlaying, raised, jumped>>
    BY <1>1 DEF play, Call, At, player, queue
  <2>2. pc'[Main] = "rewind" /\ pc'[Handler] = pc[Handler]
    BY <2>1, GotoMain
  <2>3. OneSegment' /\ (Quiet' <=> Quiet) /\ (AtEnd' <=> AtEnd)
        /\ (Parked' <=> Parked) /\ (Alive' <=> Alive)
    BY <2>1, <2>2, SameChain
  <2>4. Rest \/ Parked
    BY <2>1 DEF InCall
  <2>5. Rest' \/ Parked'
    BY <2>1, <2>3, <2>4 DEF Rest
  <2>. QED
    BY <2>1, <2>2, <2>3, <2>5 DEF InCall, InSchedule
<1>2. ASSUME NEW c \in {"pause", "stop"}, Call(c, Alive),
             Goto(Main, IF c = "pause" THEN "pause" ELSE "halt"),
             UNCHANGED <<count, sum, wasPlaying, target, player, queue, next,
                         jumped, overtaken, raised>>
      PROVE  LeftAlone'
  <2>1. pc[Main] = "idle" /\ call' = c /\ ~Alive
    BY <1>2 DEF Call, At
  <2>2. Rest
    BY <2>1, AliveParts DEF InCall
  <2>3. pc'[Main] = (IF c = "pause" THEN "pause" ELSE "halt")
        /\ pc'[Handler] = pc[Handler]
    BY <1>2, GotoMain
  <2>4. OneSegment' /\ (Quiet' <=> Quiet) /\ (AtEnd' <=> AtEnd)
    BY <1>2, <2>3, SameChain DEF player, queue
  <2>5. Rest'
    BY <1>2, <2>2, <2>4 DEF Rest, player
  <2>. QED
    BY <1>2, <2>1, <2>3, <2>4, <2>5 DEF Rest, InCall, InSchedule
<1>3. CASE pause
  BY <1>2, <1>3 DEF pause
<1>4. CASE stop
  BY <1>2, <1>4 DEF stop
<1>5. ASSUME NEW t \in Targets, seekToTime(t) PROVE LeftAlone'
  <2>1. /\ pc[Main] = "idle" /\ call' = "seek" /\ ~Alive /\ t # 0 /\ target' = t
        /\ UNCHANGED <<node, sizes, due, sum, count, currentFrame, next,
                       isPlaying, raised, jumped>>
    BY <1>5 DEF seekToTime, Call, At, player, queue
  <2>2. Rest
    BY <2>1, AliveParts DEF InCall
  <2>3. /\ pc'[Main] = IF isPlaying THEN "pause" ELSE "target"
        /\ pc'[Handler] = pc[Handler]
    BY <1>5, GotoMain DEF seekToTime
  <2>4. OneSegment' /\ (Quiet' <=> Quiet) /\ (AtEnd' <=> AtEnd)
    BY <2>1, <2>3, SameChain
  <2>5. Rest'
    BY <2>1, <2>2, <2>4 DEF Rest
  <2>. QED
    BY <2>1, <2>3, <2>4, <2>5 DEF Rest, InCall, InSchedule
<1>. QED
  BY <1>1, <1>3, <1>4, <1>5

-----------------------------------------------------------------------------
LEMMA TestEndChain ==
  ASSUME TypeOK, LeftAlone, ~disturbed', NEW a \in {Main, Handler}, TestEnd(a)
  PROVE  LeftAlone'
<1>. USE DEF LeftAlone
<1>1. /\ pc[a] = "guard"
      /\ Goto(a, IF currentFrame >= TotalFrames THEN Return(a) ELSE "count")
      /\ UNCHANGED <<node, sizes, due, sum, count, call, target, currentFrame,
                     next, isPlaying, raised, jumped>>
  BY DEF TestEnd, At, player, queue, history
<1>2. CASE a = Main
  <2>1. /\ Quiet /\ next = currentFrame /\ next <= TotalFrames
        /\ call = "seek" => next # 0 /\ ~node.playing
        /\ call # "seek" => call = "play" /\ next = 0
    BY <1>1, <1>2 DEF InSchedule
  <2>2. /\ pc'[Main] = IF currentFrame >= TotalFrames
                         THEN IF call = "play" THEN "start" ELSE "resume"
                         ELSE "count"
        /\ pc'[Handler] = pc[Handler]
    BY <1>1, <1>2, <2>1, GotoMain, TwoThreads, FramesAssumption DEF Return
  <2>3. OneSegment' /\ Quiet'
    BY <1>1, <2>1, <2>2, SameChain
  <2>4. CASE currentFrame >= TotalFrames
    <3>1. next = TotalFrames
      BY <2>1, <2>4, FramesAssumption DEF TypeOK
    <3>2. CASE call = "play"
      <4>1. TotalFrames = 0 /\ AtEnd'
        BY <1>1, <2>1, <3>1, <3>2 DEF AtEnd
      <4>. QED
        BY <1>1, <2>2, <2>3, <2>4, <3>2, <4>1 DEF InCall, InSchedule
    <3>3. CASE call # "play"
      <4>1. SoughtEnd'
        BY <1>1, <2>1, <2>3, <3>1, <3>3 DEF SoughtEnd
      <4>. QED
        BY <1>1, <2>2, <2>3, <2>4, <3>3, <4>1 DEF InCall, InSchedule
    <3>. QED
      BY <3>2, <3>3
  <2>5. CASE ~(currentFrame >= TotalFrames)
    BY <1>1, <2>1, <2>2, <2>3, <2>5, FramesAssumption
       DEF InCall, InSchedule, TypeOK
  <2>. QED
    BY <2>4, <2>5
<1>3. CASE a = Handler
  <2>1. InHandler /\ next = currentFrame /\ next <= TotalFrames
    BY <1>1, <1>3, AliveParts DEF OneSegment, Alive, InQueue, IsDue, InHandler
  <2>2. /\ pc'[Handler] = IF currentFrame >= TotalFrames THEN "idle" ELSE "count"
        /\ pc'[Main] = pc[Main]
    BY <1>1, <1>3, GotoHandler, TwoThreads DEF Return
  <2>3. pc'[Handler] = "count" /\ InHandler' /\ Alive'
    BY <1>1, <1>3, <2>1, <2>2, FramesAssumption DEF InHandler, Alive, TypeOK
  <2>. QED
    BY <1>1, <2>1, <2>2, <2>3, GoingPlaces, GoingOn DEF OneSegment
<1>. QED
  BY <1>2, <1>3

LEMMA MeasureSegmentChain ==
  ASSUME TypeOK, LeftAlone, ~disturbed', NEW a \in {Main, Handler},
         MeasureSegment(a)
  PROVE  LeftAlone'
<1>. USE DEF LeftAlone
<1>1. /\ pc[a] = "count" /\ Goto(a, "submit")
      /\ count' = [count EXCEPT ![a] = PreferredSize]
      /\ UNCHANGED <<node, sizes, due, sum, call, target, currentFrame,
                     next, isPlaying, raised, jumped>>
  BY DEF MeasureSegment, At, player, queue, history
<1>2. PreferredSize' = PreferredSize
  BY <1>1 DEF PreferredSize
<1>3. CASE a = Main
  <2>1. /\ Quiet /\ next = currentFrame /\ next < TotalFrames
        /\ call = "seek" => next # 0 /\ ~node.playing
        /\ call # "seek" => call = "play" /\ next = 0
    BY <1>1, <1>3 DEF InSchedule
  <2>2. /\ pc'[Main] = "submit" /\ pc'[Handler] = pc[Handler]
        /\ count'[Main] = PreferredSize /\ count'[Handler] = count[Handler]
    BY <1>1, <1>3, GotoMain, TwoThreads DEF TypeOK
  <2>3. OneSegment' /\ Quiet'
    BY <1>1, <2>1, <2>2, SameChain
  <2>. QED
    BY <1>1, <1>2, <2>1, <2>2, <2>3, FramesAssumption
       DEF InCall, InSchedule, TypeOK
<1>4. CASE a = Handler
  <2>1. InHandler /\ next = currentFrame /\ next < TotalFrames
    BY <1>1, <1>4, AliveParts DEF OneSegment, Alive, InQueue, IsDue, InHandler
  <2>2. /\ pc'[Handler] = "submit" /\ pc'[Main] = pc[Main]
        /\ count'[Handler] = PreferredSize
    BY <1>1, <1>4, GotoHandler, TwoThreads DEF TypeOK
  <2>3. InHandler' /\ Alive'
    BY <1>1, <1>2, <2>1, <2>2 DEF InHandler, Alive
  <2>. QED
    BY <1>1, <2>1, <2>2, <2>3, GoingPlaces, GoingOn DEF OneSegment
<1>. QED
  BY <1>3, <1>4

(* scheduleSegment: hands the node a segment that starts at the next frame *)
(* and is never empty.                                                     *)
LEMMA ScheduleSegmentChain ==
  ASSUME TypeOK, LeftAlone, ~disturbed', NEW a \in {Main, Handler},
         ScheduleSegment(a)
  PROVE  LeftAlone'
<1>. USE DEF LeftAlone
<1>1. /\ pc[a] = "submit" /\ Goto(a, Return(a))
      /\ count' = [count EXCEPT ![a] = 0]
      /\ UNCHANGED <<sum, call, target, currentFrame, next, isPlaying, jumped>>
  BY DEF ScheduleSegment, At, player, history
<1>2. /\ node.queue = <<>> /\ sizes = <<>> /\ due = <<>>
      /\ next = currentFrame /\ next < TotalFrames
      /\ count[a] = PreferredSize
      /\ \/ a = Main /\ Quiet
         \/ a = Handler /\ InHandler
  <2>1. CASE a = Main
    <3>1. Quiet /\ next = currentFrame /\ next < TotalFrames
          /\ count[a] = PreferredSize
      BY <1>1, <2>1 DEF InSchedule
    <3>2. node.queue = <<>> /\ due = <<>>
      BY <3>1 DEF Quiet, Alive
    <3>. QED
      BY <2>1, <3>1, <3>2, EmptySeq DEF TypeOK
  <2>2. CASE a = Handler
    <3>1. InHandler /\ next = currentFrame /\ next < TotalFrames
          /\ count[a] = PreferredSize
      BY <1>1, <2>2, AliveParts DEF OneSegment, Alive, InQueue, IsDue, InHandler
    <3>. QED
      BY <2>2, <3>1, EmptySeq DEF TypeOK, InHandler
  <2>. QED
    BY <2>1, <2>2
<1>. DEFINE k == count[a]
            s == Stretch(File, currentFrame, AtMost(k, TotalFrames - currentFrame))
<1>3. k \in 1..SegmentFrames /\ currentFrame + k <= TotalFrames
      /\ currentFrame \in Nat
  BY <1>2, PreferredSizeType DEF TypeOK
<1>4. /\ node' = Schedule(node, s) /\ sizes' = Append(sizes, k)
      /\ UNCHANGED <<due, raised>>
  <2>1. k # 0 /\ ~(currentFrame >= TotalFrames)
    BY <1>2, <1>3, FramesAssumption
  <2>. QED
    BY <2>1 DEF ScheduleSegment
<1>5. s = Stretch(File, currentFrame, k)
  <2>1. AtMost(k, TotalFrames - currentFrame) = k
    BY <1>3, FramesAssumption DEF AtMost
  <2>. QED
    BY <2>1
<1>6. k \in Nat \ {0}
  BY <1>3, FramesAssumption
<1>. HIDE DEF s, k
<1>7. s \in Stretches({File}) /\ s.start = currentFrame /\ s.count = k
  BY <1>3, <1>5, <1>6, StretchType
<1>8. /\ Len(node'.queue) = 1 /\ Head(node'.queue) = s
      /\ node'.playing = node.playing /\ node'.time = node.time
  <2>1. node \in Nodes({File}) /\ Len(node.queue) = 0
    BY <1>2 DEF TypeOK
  <2>. QED
    BY <1>2, <1>4, <1>7, <2>1, ScheduleType
<1>9. Head(sizes') = k
  BY <1>2, <1>4, <1>6
<1>10. pc'[a] = Return(a) /\ (\A b \in {Main, Handler} : b # a => pc'[b] = pc[b])
  BY <1>1, TwoThreads DEF Goto, TypeOK, Return
<1>11. due' = <<>> /\ pc'[Handler] = "idle"
  BY <1>2, <1>4, <1>10, TwoThreads DEF Return, Quiet, Alive
<1>12. InQueue' /\ Alive'
  <2>1. InQueue'
    BY <1>1, <1>2, <1>3, <1>7, <1>8, <1>9, <1>11 DEF InQueue
  <2>2. node'.queue # <<>>
    BY <1>8
  <2>. QED
    BY <2>1, <2>2 DEF Alive
<1>13. CASE a = Main
  <2>1. /\ call = "seek" => next # 0 /\ ~node.playing
        /\ call # "seek" => call = "play"
    BY <1>1, <1>13 DEF InSchedule
  <2>2. pc'[Main] = IF call = "play" THEN "start" ELSE "resume"
    BY <1>10, <1>13, TwoThreads DEF Return
  <2>3. CASE call = "seek"
    <3>1. Parked'
      BY <1>1, <1>2, <1>8, <1>12, <2>1, <2>3 DEF Parked
    <3>. QED
      BY <1>1, <1>4, <1>12, <2>2, <2>3, <3>1 DEF OneSegment, InCall, InSchedule
  <2>4. CASE call # "seek"
    BY <1>1, <1>4, <1>12, <2>1, <2>2, <2>4 DEF OneSegment, InCall, InSchedule
  <2>. QED
    BY <2>3, <2>4
<1>14. CASE a = Handler
  <2>1. pc'[Main] = pc[Main]
    BY <1>10, <1>14, TwoThreads
  <2>2. InHandler
    BY <1>2, <1>14, TwoThreads
  <2>. QED
    BY <1>1, <1>4, <1>12, <2>1, <2>2, GoingPlaces, GoingOn DEF OneSegment
<1>. QED
  BY <1>13, <1>14

LEMMA MainStepChain ==
  ASSUME TypeOK, LeftAlone, ~disturbed', MainStep
  PROVE  LeftAlone'
<1>. USE DEF LeftAlone
<1>1. ASSUME NEW l, Goto(Main, l),
             UNCHANGED <<node, sizes, due, sum, count, currentFrame, next>>
      PROVE  /\ pc'[Main] = l
             /\ OneSegment' /\ (Alive' <=> Alive) /\ (Quiet' <=> Quiet)
             /\ (Parked' <=> Parked) /\ (AtEnd' <=> AtEnd)
             /\ (SoughtEnd' <=> SoughtEnd)
             /\ (Rest /\ (isPlaying' => isPlaying) => Rest')
  <2>1. pc'[Main] = l /\ pc'[Handler] = pc[Handler]
    BY <1>1, GotoMain
  <2>2. /\ OneSegment' /\ (Alive' <=> Alive) /\ (Quiet' <=> Quiet)
        /\ (Parked' <=> Parked) /\ (AtEnd' <=> AtEnd)
        /\ (SoughtEnd' <=> SoughtEnd)
    BY <1>1, <2>1, SameChain
  <2>3. Rest /\ (isPlaying' => isPlaying) => Rest'
    BY <1>1, <2>2 DEF Rest
  <2>. QED
    BY <2>1, <2>2, <2>3
<1>2. CASE TestStart
  <2>1. /\ pc[Main] = "test" /\ call' = "play"
        /\ Goto(Main, IF currentFrame = 0 THEN "guard" ELSE "start")
        /\ UNCHANGED <<node, sizes, due, sum, count, currentFrame, next,
                       isPlaying, target, raised, jumped>>
    BY <1>2 DEF TestStart, At, player, queue, history
  <2>2. Parked \/ (Rest /\ (currentFrame < TotalFrames \/ currentFrame = 0))
    BY <2>1 DEF InCall, Playable
  <2>3. /\ pc'[Main] = IF currentFrame = 0 THEN "guard" ELSE "start"
        /\ OneSegment' /\ (Alive' <=> Alive) /\ (Quiet' <=> Quiet)
        /\ (Parked' <=> Parked) /\ (AtEnd' <=> AtEnd)
    BY <1>1, <2>1
  <2>4. CASE currentFrame = 0
    <3>1. Quiet /\ next = 0
      BY <2>2, <2>4 DEF Parked, Rest
    <3>. QED
      BY <2>1, <2>3, <2>4, <3>1, FramesAssumption DEF InCall, InSchedule
  <2>5. CASE currentFrame # 0
    <3>1. Alive \/ AtEnd
      <4>1. CASE Rest /\ currentFrame < TotalFrames
        BY <2>5, <4>1, FramesAssumption DEF Rest, TypeOK
      <4>. QED
        BY <2>2, <2>5, <4>1, AliveParts
    <3>. QED
      BY <2>1, <2>3, <2>5, <3>1 DEF InCall, InSchedule
  <2>. QED
    BY <2>4, <2>5
<1>3. CASE StartNode
  <2>1. /\ pc[Main] = "start" /\ Goto(Main, "mark") /\ node' = Play(node)
        /\ UNCHANGED <<sizes, due, sum, count, currentFrame, next,
                       isPlaying, call, target, raised, jumped>>
    BY <1>3 DEF StartNode, At, player, history
  <2>2. node'.queue = node.queue /\ node'.time = node.time
    BY <2>1, PlayPauseType DEF TypeOK
  <2>3. pc'[Main] = "mark" /\ pc'[Handler] = pc[Handler]
    BY <2>1, GotoMain
  <2>4. (Alive' <=> Alive) /\ (AtEnd' <=> AtEnd)
    BY <2>1, <2>2, <2>3 DEF Alive, AtEnd
  <2>5. Alive \/ AtEnd
    BY <2>1 DEF InCall
  <2>6. OneSegment'
    <3>1. CASE InQueue
      BY <2>1, <2>2, <2>3, <3>1 DEF InQueue, OneSegment
    <3>2. CASE IsDue
      BY <2>1, <2>2, <2>3, <3>2 DEF IsDue, OneSegment
    <3>3. CASE InHandler
      BY <2>1, <2>2, <2>3, <3>3 DEF InHandler, PreferredSize, OneSegment
    <3>4. CASE Quiet
      BY <2>1, <2>2, <2>4, <2>5, <3>4 DEF Quiet, AtEnd, OneSegment
    <3>. QED
      BY <3>1, <3>2, <3>3, <3>4 DEF OneSegment
  <2>. QED
    BY <2>1, <2>3, <2>4, <2>5, <2>6 DEF InCall, InSchedule
<1>4. CASE MarkPlaying
  <2>1. /\ pc[Main] = "mark" /\ Goto(Main, "idle") /\ isPlaying'
        /\ UNCHANGED <<node, sizes, due, sum, count, currentFrame, next,
                       call, target, raised, jumped>>
    BY <1>4 DEF MarkPlaying, At, queue, history
  <2>2. /\ pc'[Main] = "idle"
        /\ OneSegment' /\ (Alive' <=> Alive) /\ (Quiet' <=> Quiet)
        /\ (AtEnd' <=> AtEnd)
    BY <1>1, <2>1
  <2>3. ~Alive => Rest'
    <3>1. ~Alive => AtEnd /\ Quiet
      BY <2>1, AliveParts DEF InCall, OneSegment
    <3>2. ~Alive => AtEnd' /\ Quiet'
      BY <2>2, <3>1
    <3>. QED
      BY <3>2 DEF Rest, AtEnd
  <2>. QED
    BY <2>1, <2>2, <2>3 DEF InCall, InSchedule
<1>5. CASE TestPlaying
  <2>1. /\ pc[Main] = "pause"
        /\ Goto(Main, IF isPlaying THEN "locate" ELSE PauseReturn)
        /\ UNCHANGED <<node, sizes, due, sum, count, currentFrame, next,
                       isPlaying, call, target, raised, jumped>>
    BY <1>5 DEF TestPlaying, At, player, queue, history
  <2>2. Rest /\ (call = "seek" => target # 0)
    BY <2>1 DEF InCall
  <2>3. /\ pc'[Main] = IF isPlaying THEN "locate" ELSE PauseReturn
        /\ OneSegment' /\ Rest'
    BY <1>1, <2>1, <2>2
  <2>. QED
    BY <2>1, <2>2, <2>3 DEF PauseReturn, InCall, InSchedule, Rest
<1>6. CASE Locate
  <2>1. /\ pc[Main] = "locate" /\ Goto(Main, "hold")
        /\ currentFrame' = IF node.playing THEN node.time ELSE currentFrame
        /\ UNCHANGED <<node, sizes, due, sum, count, next, isPlaying, call,
                       target, raised, jumped>>
    BY <1>6 DEF Locate, At, queue, history
  <2>2. Rest /\ (call = "seek" => target # 0)
    BY <2>1 DEF InCall
  <2>3. pc'[Main] = "hold" /\ pc'[Handler] = pc[Handler]
    BY <2>1, GotoMain
  <2>4. Quiet'
    BY <2>1, <2>2, <2>3 DEF Rest, Quiet, Alive
  <2>5. isPlaying
    BY <2>1 DEF InCall
  <2>6. Rest'
    <3>1. node.playing => (node.time > 0 /\ node.time # 0) \/ TotalFrames = 0
      BY <2>2, NodeFields, MaxTimeAssumption DEF TypeOK, Rest, Quiet
    <3>2. CASE node.playing
      BY <2>1, <2>2, <2>4, <2>5, <3>1, <3>2 DEF Rest, AtEnd
    <3>3. CASE ~node.playing
      BY <2>1, <2>2, <2>4, <3>3 DEF Rest, AtEnd
    <3>. QED
      BY <3>2, <3>3
  <2>. QED
    BY <2>1, <2>2, <2>3, <2>6 DEF InCall, InSchedule, Rest, OneSegment
<1>7. CASE HoldNode
  <2>1. /\ pc[Main] = "hold" /\ Goto(Main, PauseReturn) /\ node' = Pause(node)
        /\ ~isPlaying'
        /\ UNCHANGED <<sizes, due, sum, count, currentFrame, next, call,
                       target, raised, jumped>>
    BY <1>7 DEF HoldNode, At, history
  <2>2. Rest /\ (call = "seek" => target # 0)
    BY <2>1 DEF InCall
  <2>3. pc'[Main] = PauseReturn /\ pc'[Handler] = pc[Handler]
    BY <2>1, GotoMain
  <2>4. node'.queue = node.queue /\ node'.time = node.time /\ ~node'.playing
    BY <2>1, PlayPauseType DEF TypeOK
  <2>5. Quiet'
    BY <2>1, <2>2, <2>3, <2>4 DEF Rest, Quiet, Alive
  <2>6. Rest'
    BY <2>1, <2>2, <2>4, <2>5 DEF Rest, AtEnd
  <2>. QED
    BY <2>1, <2>2, <2>3, <2>6
       DEF PauseReturn, InCall, InSchedule, Rest, OneSegment
<1>8. CASE HaltNode
  <2>1. /\ pc[Main] = "halt" /\ node' = StoppedNode /\ sizes' = <<>>
        /\ due' = due \o sizes
        /\ Goto(Main, IF call = "seek" THEN "guard" ELSE "reset")
        /\ UNCHANGED <<sum, count, currentFrame, next, call, target, isPlaying,
                       raised, jumped>>
    BY <1>8 DEF HaltNode, At, history
  <2>2. Quiet
    BY <2>1 DEF InCall
  <2>3. node'.queue = <<>> /\ ~node'.playing
    BY <2>1 DEF StoppedNode
  <2>4. due' = <<>>
    <3>1. due = <<>> /\ sizes = <<>>
      BY <2>2, EmptySeq DEF Quiet, Alive, TypeOK
    <3>. QED
      BY <2>1, <3>1
  <2>5. /\ pc'[Main] = IF call = "seek" THEN "guard" ELSE "reset"
        /\ pc'[Handler] = pc[Handler]
    BY <2>1, GotoMain
  <2>6. Quiet'
    BY <2>2, <2>3, <2>4, <2>5 DEF Quiet, Alive
  <2>. QED
    BY <2>1, <2>3, <2>5, <2>6 DEF InCall, InSchedule, OneSegment
<1>9. CASE ResetPosition
  <2>1. /\ pc[Main] = "reset" /\ Goto(Main, "idle")
        /\ currentFrame' = 0 /\ next' = 0 /\ ~isPlaying'
        /\ UNCHANGED <<node, sizes, due, sum, count, call, target, raised,
                       jumped>>
    BY <1>9 DEF ResetPosition, At, queue
  <2>2. Quiet
    BY <2>1 DEF InCall
  <2>3. pc'[Main] = "idle" /\ pc'[Handler] = pc[Handler]
    BY <2>1, GotoMain
  <2>4. Quiet'
    BY <2>1, <2>2, <2>3 DEF Quiet, Alive
  <2>5. Rest'
    BY <2>1, <2>4 DEF Rest
  <2>. QED
    BY <2>1, <2>3, <2>5 DEF InCall, InSchedule, Rest, OneSegment
<1>10. CASE SetPosition
  <2>1. /\ pc[Main] = "target" /\ Goto(Main, "halt")
        /\ currentFrame' = target /\ next' = target
        /\ UNCHANGED <<node, sizes, due, sum, count, call, target, isPlaying,
                       raised, jumped>>
    BY <1>10 DEF SetPosition, At, queue
  <2>2. Quiet /\ call = "seek" /\ target # 0
    BY <2>1 DEF InCall
  <2>3. pc'[Main] = "halt" /\ pc'[Handler] = pc[Handler]
    BY <2>1, GotoMain
  <2>4. Quiet'
    BY <2>1, <2>2, <2>3 DEF Quiet, Alive
  <2>5. target <= TotalFrames
    BY FramesAssumption DEF TypeOK
  <2>. QED
    BY <2>1, <2>2, <2>3, <2>4, <2>5 DEF InCall, InSchedule, OneSegment
<1>11. CASE ResumePlaying
  <2>1. /\ pc[Main] = "resume"
        /\ Goto(Main, IF wasPlaying /\ ~isPlaying THEN "rewind" ELSE "idle")
        /\ UNCHANGED <<node, sizes, due, sum, count, currentFrame, next, call,
                       target, isPlaying, raised, jumped>>
    BY <1>11 DEF ResumePlaying, At, player, queue, history
  <2>2. Parked \/ SoughtEnd
    BY <2>1 DEF InSchedule
  <2>3. /\ pc'[Main] = IF wasPlaying /\ ~isPlaying THEN "rewind" ELSE "idle"
        /\ OneSegment' /\ (Parked' <=> Parked) /\ (Quiet' <=> Quiet)
        /\ (SoughtEnd' <=> SoughtEnd)
    BY <1>1, <2>1
  <2>4. SoughtEnd' => Rest'
    BY <2>1, FramesAssumption DEF Rest, SoughtEnd
  <2>. QED
    BY <2>1, <2>2, <2>3, <2>4 DEF InCall, InSchedule
<1>12. CASE ScheduleAudioFile(Main)
  BY <1>12, TestEndChain, MeasureSegmentChain, ScheduleSegmentChain
     DEF ScheduleAudioFile
<1>. QED
  BY <1>2, <1>3, <1>4, <1>5, <1>6, <1>7, <1>8, <1>9, <1>10, <1>11, <1>12,
     EnterChain
     DEF MainStep

-----------------------------------------------------------------------------
(* A rendered frame is the next one; the last frame of the segment makes   *)
(* its handler due.                                                        *)
LEMMA RenderChain ==
  ASSUME TypeOK, LeftAlone, ~disturbed', Render
  PROVE  LeftAlone'
<1>. USE DEF LeftAlone
<1>1. /\ node.playing /\ node' = Rendered(node)
      /\ UNCHANGED <<pc, count, sum, call, target, currentFrame, isPlaying,
                     raised>>
      /\ node \in Nodes({File})
  BY DEF Render, threads, player, TypeOK
<1>2. node'.playing = node.playing /\ node'.time > 0
  <2>1. Clock(node) > 0
    BY <1>1, NodeFields, FramesAssumption, MaxTimeAssumption DEF Clock
  <2>. QED
    BY <1>1, <2>1 DEF Rendered
<1>3. CASE node.queue = <<>>
  <2>1. node'.queue = <<>> /\ ~Consumes(node)
    BY <1>1, <1>3, RenderedType DEF Consumes
  <2>2. UNCHANGED <<due, sizes, next, jumped>>
    BY <1>3, <2>1 DEF Render
  <2>3. ~InQueue /\ ~Parked
    BY <1>1, <1>3, EmptySeq DEF InQueue, Parked
  <2>4. (Alive' <=> Alive) /\ (Quiet => Quiet') /\ (AtEnd => AtEnd')
    BY <1>1, <1>2, <1>3, <2>1, <2>2 DEF Alive, Quiet, AtEnd
  <2>5. Rest => Rest'
    BY <1>1, <2>2, <2>4 DEF Rest
  <2>6. OneSegment'
    BY <1>1, <1>2, <1>3, <2>1, <2>2, <2>3, <2>4
       DEF OneSegment, IsDue, InHandler, PreferredSize
  <2>7. InCall'
    BY <1>1, <2>2, <2>3, <2>4, <2>5 DEF InCall, Playable, SoughtEnd
  <2>8. InSchedule'
    BY <1>1, <2>2, <2>3, <2>4, <2>6
       DEF InSchedule, PreferredSize, Parked, SoughtEnd
  <2>. QED
    BY <1>1, <2>2, <2>6, <2>7, <2>8
<1>4. CASE node.queue # <<>>
  <2>. DEFINE h == Head(node.queue)
  <2>1. InQueue
    BY <1>4 DEF OneSegment, Quiet, Alive, IsDue, InHandler
  <2>2. sizes # <<>> /\ Len(sizes) = 1 /\ Head(sizes) \in 1..SegmentFrames
    <3>1. Len(sizes) = 1
      BY <2>1 DEF TypeOK, InQueue
    <3>2. sizes # <<>>
      BY <3>1
    <3>. QED
      BY <3>1, <3>2, HeadTailProperties DEF TypeOK
  <2>3. h.start = next /\ next' = next + 1 /\ h.count \in Nat \ {0}
        /\ ~jumped'
    <3>1. h \in Stretches({File})
      BY <1>1, <1>4, HeadTailProperties DEF Nodes
    <3>2. h.count \in Nat \ {0}
      BY <3>1 DEF Stretches
    <3>. QED
      BY <1>4, <2>1, <3>2 DEF Render, InQueue
  <2>4. CASE Consumes(node)
    <3>1. due' = Append(due, Head(sizes)) /\ node'.queue = <<>> /\ h.count = 1
      <4>1. Len(node.queue) <= 1
        BY <2>1 DEF InQueue
      <4>. QED
        BY <1>1, <2>4, <4>1, RenderedType DEF Render, Consumes
    <3>2. Len(due') = 1 /\ Head(due') = Head(sizes)
      BY <2>1, <2>2, <3>1 DEF InQueue
    <3>3. IsDue' /\ Alive'
      <4>1. next' = currentFrame + Head(sizes) /\ next' <= TotalFrames
        BY <2>1, <2>3, <3>1 DEF InQueue
      <4>2. IsDue'
        BY <1>1, <1>2, <2>1, <3>1, <3>2, <4>1 DEF InQueue, IsDue
      <4>3. due' # <<>>
        BY <3>2
      <4>. QED
        BY <4>2, <4>3 DEF Alive
    <3>. QED
      BY <1>1, <2>1, <2>3, <3>3, GoingPlaces, GoingOn DEF OneSegment
  <2>5. CASE ~Consumes(node)
    <3>1. UNCHANGED <<due, sizes>>
      BY <2>5 DEF Render
    <3>2. /\ node'.queue # <<>> /\ Len(node'.queue) = Len(node.queue)
          /\ Head(node'.queue).start = h.start + 1
          /\ Head(node'.queue).start + Head(node'.queue).count
               = h.start + h.count
      BY <1>1, <1>4, <2>5, RenderedType
    <3>3. InQueue' /\ Alive'
      BY <1>1, <2>1, <2>3, <3>1, <3>2 DEF InQueue, Alive
    <3>. QED
      BY <1>1, <2>1, <2>3, <3>3, GoingPlaces, GoingOn DEF OneSegment
  <2>. QED
    BY <2>4, <2>5
<1>. QED
  BY <1>3, <1>4

(* The completion handler carries the chain on from the frame it reached,  *)
(* or ends it at the end of the file.                                      *)
LEMMA HandlerStepChain ==
  ASSUME TypeOK, LeftAlone, ~disturbed', HandlerStep
  PROVE  LeftAlone'
<1>. USE DEF LeftAlone
<1>1. CASE HandlerReads
  <2>1. /\ pc[Handler] = "idle" /\ due # <<>> /\ due' = Tail(due)
        /\ count' = [count EXCEPT ![Handler] = Head(due)]
        /\ sum' = currentFrame /\ Goto(Handler, "add")
        /\ UNCHANGED <<node, currentFrame, isPlaying, next, raised, jumped>>
    BY <1>1 DEF HandlerReads, At, player, history
  <2>2. IsDue
    BY <2>1 DEF OneSegment, Quiet, Alive, InQueue, IsDue, InHandler
  <2>3. due' = <<>>
    BY <2>1, <2>2 DEF IsDue, TypeOK
  <2>4. pc'[Handler] = "add" /\ pc'[Main] = pc[Main]
        /\ count'[Handler] = Head(due)
    BY <2>1, GotoHandler DEF TypeOK
  <2>5. InHandler' /\ Alive'
    BY <2>1, <2>2, <2>3, <2>4 DEF IsDue, InHandler, Alive
  <2>. QED
    BY <2>1, <2>2, <2>4, <2>5, GoingPlaces, GoingOn DEF OneSegment
<1>2. ASSUME pc[Handler] # "idle" PROVE InHandler
  BY <1>2 DEF OneSegment, Quiet, Alive, InQueue, IsDue
<1>3. CASE HandlerAdds
  <2>1. /\ pc[Handler] = "add" /\ currentFrame' = sum + count[Handler]
        /\ Goto(Handler, "test")
        /\ UNCHANGED <<node, due, isPlaying, next, raised, jumped>>
    BY <1>3 DEF HandlerAdds, At, queue, history
  <2>2. InHandler
    BY <1>2, <2>1
  <2>3. pc'[Handler] = "test" /\ pc'[Main] = pc[Main]
    BY <2>1, GotoHandler
  <2>4. InHandler' /\ Alive'
    BY <2>1, <2>2, <2>3 DEF InHandler, Alive
  <2>. QED
    BY <2>1, <2>2, <2>3, <2>4, GoingPlaces, GoingOn DEF OneSegment
<1>4. CASE HandlerTests
  <2>1. /\ pc[Handler] = "test"
        /\ UNCHANGED <<node, due, currentFrame, next, raised, jumped>>
    BY <1>4 DEF HandlerTests, At, queue
  <2>2. InHandler /\ next = currentFrame /\ next <= TotalFrames
    BY <1>2, <2>1 DEF InHandler
  <2>3. CASE currentFrame < TotalFrames
    <3>1. Goto(Handler, "guard") /\ isPlaying' = isPlaying
      BY <1>4, <2>3 DEF HandlerTests
    <3>2. pc'[Handler] = "guard" /\ pc'[Main] = pc[Main]
      BY <3>1, GotoHandler
    <3>3. InHandler' /\ Alive'
      BY <2>1, <2>2, <2>3, <3>2 DEF InHandler, Alive
    <3>. QED
      BY <2>1, <2>2, <3>1, <3>2, <3>3, GoingPlaces, GoingOn DEF OneSegment
  <2>4. CASE ~(currentFrame < TotalFrames)
    <3>1. Goto(Handler, "idle") /\ ~isPlaying'
      BY <1>4, <2>4 DEF HandlerTests
    <3>2. pc'[Handler] = "idle" /\ pc'[Main] = pc[Main]
      BY <3>1, GotoHandler
    <3>3. Quiet'
      BY <2>1, <2>2, <3>2 DEF InHandler, Quiet, Alive
    <3>4. currentFrame = TotalFrames
      BY <2>2, <2>4, FramesAssumption DEF TypeOK
    <3>5. AtEnd' /\ currentFrame' >= TotalFrames
      BY <2>1, <2>2, <3>4, FramesAssumption DEF AtEnd, InHandler
    <3>. QED
      BY <2>1, <2>2, <3>1, <3>2, <3>3, <3>5, GoingPlaces, GoingOn
         DEF OneSegment
  <2>. QED
    BY <2>3, <2>4
<1>5. CASE ScheduleAudioFile(Handler)
  BY <1>5, TestEndChain, MeasureSegmentChain, ScheduleSegmentChain
     DEF ScheduleAudioFile
<1>. QED
  BY <1>1, <1>3, <1>4, <1>5 DEF HandlerStep

-----------------------------------------------------------------------------
(* A chain that was cut into stays marked.                                 *)
LEMMA DisturbedStays == [Next]_vars /\ disturbed => disturbed'
<1>. SUFFICES ASSUME [Next]_vars, disturbed PROVE disturbed'
  OBVIOUS
<1>1. CASE UNCHANGED vars
  BY <1>1 DEF vars, history
<1>2. CASE play \/ pause \/ stop \/ \E t \in Targets : seekToTime(t)
  BY <1>2 DEF play, pause, stop, seekToTime, Call
<1>3. CASE MainStep
  BY <1>3 DEF MainStep, ScheduleAudioFile, TestRewind, Rewind, StartEngine,
              TestStart, StartNode, MarkPlaying,
              TestPlaying, Locate, HoldNode, HaltNode, ResetPosition,
              SetPosition, ResumePlaying, TestEnd, MeasureSegment,
              ScheduleSegment, history
<1>4. CASE Render
  BY <1>4 DEF Render
<1>5. CASE HandlerStep
  BY <1>5 DEF HandlerStep, ScheduleAudioFile, HandlerReads, HandlerAdds,
              HandlerTests, TestEnd, MeasureSegment, ScheduleSegment, history
<1>. QED
  BY <1>1, <1>2, <1>3, <1>4, <1>5 DEF Next

LEMMA ChainStep == TypeOK /\ ChainInv /\ [Next]_vars => ChainInv'
<1>. SUFFICES ASSUME TypeOK, ChainInv, [Next]_vars, ~disturbed'
              PROVE  LeftAlone'
  BY DEF ChainInv
<1>1. LeftAlone
  BY DisturbedStays DEF ChainInv
<1>2. CASE UNCHANGED vars
  <2>1. UNCHANGED <<currentFrame, next, node, sizes, due, sum, pc, count, call,
                    target, isPlaying, raised, jumped>>
    BY <1>2 DEF vars, threads, player, queue, history
  <2>2. (Parked' <=> Parked) /\ (Quiet' <=> Quiet) /\ (Alive' <=> Alive)
        /\ (AtEnd' <=> AtEnd) /\ (SoughtEnd' <=> SoughtEnd) /\ OneSegment'
    BY <1>1, <2>1, SameChain DEF LeftAlone
  <2>3. Rest' <=> Rest
    BY <2>1, <2>2 DEF Rest
  <2>4. InCall'
    BY <1>1, <2>1, <2>2, <2>3 DEF LeftAlone, InCall, Playable
  <2>5. InSchedule'
    BY <1>1, <2>1, <2>2 DEF LeftAlone, InSchedule, PreferredSize
  <2>. QED
    BY <1>1, <2>1, <2>2, <2>4, <2>5 DEF LeftAlone
<1>. QED
  BY <1>1, <1>2, UserChain, MainStepChain, RenderChain, HandlerStepChain
     DEF Next

(* The invariant of a chain that no call cut into.                         *)
THEOREM ChainCorrect == Spec => []ChainInv
BY ChainInit, ChainStep, TypeCorrect, PTL DEF Spec

(* However the completion handlers, which advance _currentFrame and queue  *)
(* the next segment, fall between the calls: unless a call cut into the    *)
(* chain the frames of the file are heard in order, each once.             *)
THEOREM OrderKept == Spec => []PlaysInOrder
<1>1. ChainInv => PlaysInOrder
  BY DEF ChainInv, LeftAlone, PlaysInOrder
<1>. QED
  BY <1>1, ChainCorrect, PTL

(* scheduleSegment: is asked for no frames only when a call raced a        *)
(* completion handler.                                                     *)
THEOREM RaiseIsRaced == Spec => []RaisesOnlyRaced
<1>1. ChainInv => RaisesOnlyRaced
  BY DEF ChainInv, LeftAlone, RaisesOnlyRaced
<1>. QED
  BY <1>1, ChainCorrect, PTL

(* A playback that was left alone is over only at the end of the file: the *)
(* handler's test, pause and stop end no other.                            *)
THEOREM PlayedToTheEnd == Spec => NotCutShort
<1>1. ASSUME TypeOK, ChainInv, [Next]_vars, isPlaying, ~isPlaying', ~disturbed'
      PROVE  next = TotalFrames
  <2>1. LeftAlone
    BY <1>1, DisturbedStays DEF ChainInv
  <2>2. CASE HoldNode
    BY <1>1, <2>1, <2>2 DEF HoldNode, At, LeftAlone, InCall, Rest
  <2>3. CASE ResetPosition
    BY <1>1, <2>1, <2>3 DEF ResetPosition, At, LeftAlone, InCall
  <2>4. CASE HandlerTests
    <3>1. pc[Handler] = "test" /\ ~(currentFrame < TotalFrames)
      BY <1>1, <2>4 DEF HandlerTests, At
    <3>2. next = currentFrame /\ next <= TotalFrames
      BY <2>1, <3>1 DEF LeftAlone, OneSegment, Quiet, Alive, InQueue, IsDue,
                        InHandler
    <3>. QED
      BY <1>1, <3>1, <3>2, FramesAssumption DEF TypeOK
  <2>5. ASSUME UNCHANGED isPlaying \/ MarkPlaying PROVE FALSE
    BY <1>1, <2>5 DEF MarkPlaying
  <2>6. CASE UNCHANGED vars
    BY <2>5, <2>6 DEF vars, player
  <2>7. CASE play \/ pause \/ stop \/ \E t \in Targets : seekToTime(t)
    BY <2>5, <2>7 DEF play, pause, stop, seekToTime, player
  <2>8. CASE MainStep
    BY <2>2, <2>3, <2>5, <2>8
       DEF MainStep, ScheduleAudioFile, TestRewind, Rewind, StartEngine,
           TestStart, StartNode,
           TestPlaying, Locate, HaltNode, SetPosition, ResumePlaying,
           TestEnd, MeasureSegment, ScheduleSegment, player
  <2>9. CASE Render
    BY <2>5, <2>9 DEF Render, player
  <2>10. CASE HandlerStep
    BY <2>4, <2>5, <2>10
       DEF HandlerStep, ScheduleAudioFile, HandlerReads, HandlerAdds, TestEnd,
           MeasureSegment, ScheduleSegment, player
  <2>. QED
    BY <1>1, <2>6, <2>7, <2>8, <2>9, <2>10 DEF Next
<1>2. TypeOK /\ ChainInv /\ [Next]_vars
        => [isPlaying /\ ~isPlaying' /\ ~disturbed' => next = TotalFrames]_vars
  BY <1>1
<1>. QED
  BY <1>2, TypeCorrect, ChainCorrect, PTL DEF Spec, NotCutShort

-----------------------------------------------------------------------------
(* Whatever calls cut into it, no stretch reaches beyond the file, and     *)
(* what is heard is a frame of the file.                                   *)
InsideFile == {s \in Stretches({File}) : s.start + s.count <= TotalFrames}

WithinFile == node.queue \in Seq(InsideFile) /\ next \in 0..TotalFrames

LEMMA WithinInit == Init => WithinFile
<1>1. <<>> \in Seq(InsideFile)
  OBVIOUS
<1>. QED
  BY <1>1, FramesAssumption DEF Init, WithinFile, StoppedNode

LEMMA ScheduleWithin ==
  ASSUME TypeOK, WithinFile, NEW a \in {Main, Handler}, ScheduleSegment(a)
  PROVE  node'.queue \in Seq(InsideFile)
<1>1. CASE UNCHANGED node
  BY <1>1 DEF WithinFile
<1>2. CASE count[a] # 0 /\ ~(currentFrame >= TotalFrames)
  <2>. DEFINE c == AtMost(count[a], TotalFrames - currentFrame)
              s == Stretch(File, currentFrame, c)
  <2>1. node' = Schedule(node, s)
    BY <1>2 DEF ScheduleSegment
  <2>2. currentFrame \in Nat /\ c \in Nat \ {0}
        /\ currentFrame + c <= TotalFrames
    BY <1>2, FramesAssumption DEF AtMost, TypeOK
  <2>. HIDE DEF c
  <2>3. /\ s \in Stretches({File}) /\ s.start = currentFrame /\ s.count = c
    BY <2>2, StretchType
  <2>. HIDE DEF s
  <2>4. s \in InsideFile
    BY <2>2, <2>3 DEF InsideFile
  <2>5. node'.queue = Append(node.queue, s)
    BY <2>1, <2>3, ScheduleType DEF TypeOK
  <2>. QED
    BY <2>4, <2>5, AppendProperties DEF WithinFile
<1>. QED
  BY <1>1, <1>2 DEF ScheduleSegment, queue

LEMMA RenderWithin ==
  ASSUME TypeOK, WithinFile, Render
  PROVE  WithinFile'
<1>1. node' = Rendered(node) /\ node'.queue = RenderedQueue(node)
  BY DEF Render, Rendered
<1>2. CASE node.queue = <<>>
  BY <1>1, <1>2 DEF RenderedQueue, WithinFile, Render
<1>3. CASE node.queue # <<>>
  <2>. DEFINE h == Head(node.queue)
  <2>1. h \in InsideFile /\ Tail(node.queue) \in Seq(InsideFile)
    BY <1>3, HeadTailProperties DEF WithinFile
  <2>2. /\ h.file = File /\ h.start \in Nat /\ h.count \in Nat \ {0}
        /\ h.start + h.count <= TotalFrames
    BY <2>1 DEF InsideFile, Stretches
  <2>3. next' = h.start + 1 /\ next' \in 0..TotalFrames
    BY <1>3, <2>2, FramesAssumption DEF Render
  <2>4. CASE Consumes(node)
    BY <1>1, <1>3, <2>1, <2>3, <2>4 DEF RenderedQueue, WithinFile
  <2>5. CASE ~Consumes(node)
    <3>1. h.count - 1 \in Nat \ {0}
      BY <1>3, <2>2, <2>5 DEF Consumes
    <3>2. Advanced(h) = [file |-> File, start |-> h.start + 1,
                         count |-> h.count - 1]
      BY <2>2 DEF Advanced, Stretch
    <3>3. Advanced(h) \in InsideFile
      BY <2>2, <3>1, <3>2 DEF InsideFile, Stretches
    <3>4. RenderedQueue(node) = <<Advanced(h)>> \o Tail(node.queue)
      BY <1>3, <2>5 DEF RenderedQueue
    <3>. HIDE DEF h
    <3>5. <<Advanced(h)>> \in Seq(InsideFile)
      BY <3>3
    <3>. QED
      BY <1>1, <2>1, <2>3, <3>4, <3>5, ConcatProperties DEF WithinFile
  <2>. QED
    BY <2>4, <2>5
<1>. QED
  BY <1>2, <1>3

LEMMA WithinStep == TypeOK /\ WithinFile /\ [Next]_vars => WithinFile'
<1>. SUFFICES ASSUME TypeOK, WithinFile, [Next]_vars PROVE WithinFile'
  OBVIOUS
<1>1. ASSUME UNCHANGED <<node, next>> PROVE WithinFile'
  BY <1>1 DEF WithinFile
<1>3. CASE UNCHANGED vars
  BY <1>1, <1>3 DEF vars, queue, history
<1>4. CASE play \/ pause \/ stop \/ \E t \in Targets : seekToTime(t)
  BY <1>1, <1>4 DEF play, pause, stop, seekToTime, queue
<1>5. CASE MainStep
  <2>1. ASSUME node'.queue = node.queue, next' \in {next, 0, target}
        PROVE  WithinFile'
    <3>1. 0 \in 0..TotalFrames /\ target \in 0..TotalFrames
      BY FramesAssumption DEF TypeOK
    <3>. QED
      BY <2>1, <3>1 DEF WithinFile
  <2>2. CASE StartNode \/ HoldNode
    BY <2>1, <2>2, PlayPauseType DEF StartNode, HoldNode, TypeOK, history
  <2>3. CASE HaltNode
    BY <2>3 DEF HaltNode, StoppedNode, WithinFile, history
  <2>4. CASE ScheduleSegment(Main)
    BY <2>4, ScheduleWithin DEF ScheduleSegment, WithinFile, history
  <2>5. CASE ResumePlaying
    BY <1>1, <2>5 DEF ResumePlaying, queue, history
  <2>. QED
    BY <1>5, <1>1, <2>1, <2>2, <2>3, <2>4, <2>5
       DEF MainStep, ScheduleAudioFile, TestRewind, Rewind, StartEngine,
           TestStart, MarkPlaying, TestPlaying, Locate, ResetPosition, SetPosition, TestEnd, MeasureSegment, queue,
           history
<1>6. CASE Render
  BY <1>6, RenderWithin
<1>7. CASE HandlerStep
  <2>1. CASE ScheduleSegment(Handler)
    BY <2>1, ScheduleWithin DEF ScheduleSegment, WithinFile, history
  <2>. QED
    BY <1>7, <1>1, <2>1
       DEF HandlerStep, ScheduleAudioFile, HandlerReads, HandlerAdds,
           HandlerTests, TestEnd, MeasureSegment, queue, history
<1>. QED
  BY <1>3, <1>4, <1>5, <1>6, <1>7 DEF Next

(* No call and no race makes the node play beyond the file.                *)
THEOREM HeardIsInFile == Spec => []WithinFile
BY WithinInit, WithinStep, TypeCorrect, PTL DEF Spec

-----------------------------------------------------------------------------
(* The steps of a playback that no call cut into, as steps of a playback   *)
(* of the file.                                                            *)
LEMMA LeftAlonePlays ==
  ASSUME TypeOK, LeftAlone, ~disturbed, ~disturbed', Next
  PROVE  [Playback!Next]_(Playback!vars)
<1>. USE DEF Playback!Next, Playback!vars
<1>0. UNCHANGED disturbed
  BY NextType DEF TypeOK
<1>1. ASSUME UNCHANGED <<next, isPlaying>> PROVE UNCHANGED Playback!vars
  BY <1>0, <1>1
<1>2. CASE Rewind
  <2>1. ~isPlaying /\ isPlaying' = FALSE
    BY <1>2 DEF Rewind, At, LeftAlone, InCall, TypeOK
  <2>2. next' = 0
    BY <1>2 DEF Rewind
  <2>. QED
    BY <1>0, <2>1, <2>2 DEF Playback!Place, Playback!Over
<1>3. CASE play
  BY <1>1, <1>3 DEF play, player
<1>4. CASE pause \/ stop \/ \E t \in Targets : seekToTime(t)
  BY <1>1, <1>4 DEF pause, stop, seekToTime, player
<1>5. CASE MarkPlaying
  BY <1>0, <1>5 DEF MarkPlaying, Playback!Begin, history
<1>6. CASE HoldNode
  <2>1. isPlaying => next = TotalFrames
    BY <1>6 DEF HoldNode, At, LeftAlone, InCall, Rest
  <2>. QED
    BY <1>0, <1>6, <2>1
       DEF HoldNode, Playback!End, Playback!Over, history
<1>7. CASE ResetPosition
  <2>1. isPlaying => next = TotalFrames
    BY <1>7 DEF ResetPosition, At, LeftAlone, InCall
  <2>. QED
    BY <1>0, <1>7, <2>1 DEF ResetPosition, Playback!Place, Playback!Over
<1>8. CASE SetPosition
  <2>1. ~isPlaying /\ isPlaying' = FALSE
    BY <1>8 DEF SetPosition, At, LeftAlone, InCall, TypeOK
  <2>2. next' = target /\ target \in Targets \cup {0}
    BY <1>8 DEF SetPosition, TypeOK
  <2>. QED
    BY <1>0, <2>1, <2>2 DEF Playback!Place, Playback!Over
<1>9. CASE TestRewind \/ StartEngine \/ ResumePlaying
  BY <1>1, <1>9 DEF TestRewind, StartEngine, ResumePlaying, player, history
<1>10. CASE Render
  <2>1. CASE node.queue = <<>>
    BY <1>1, <1>10, <2>1 DEF Render, player
  <2>2. CASE node.queue # <<>>
    <3>1. InQueue
      BY <2>2 DEF LeftAlone, OneSegment, Quiet, Alive, IsDue, InHandler
    <3>2. Head(node.queue) \in Stretches({File})
      BY <2>2, HeadTailProperties DEF TypeOK, Nodes
    <3>3. next' = next + 1 /\ next < TotalFrames
      <4>1. Head(node.queue).start = next /\ next' = next + 1
        BY <1>10, <2>2, <3>1 DEF Render, InQueue
      <4>2. Head(node.queue).count \in Nat \ {0} /\ next \in Nat
        BY <3>2 DEF Stretches, TypeOK
      <4>. QED
        BY <3>1, <4>1, <4>2, FramesAssumption DEF InQueue
    <3>. QED
      BY <1>0, <1>10, <3>3 DEF Render, Playback!Hear, player
  <2>. QED
    BY <2>1, <2>2
<1>11. CASE HandlerTests
  <2>1. CASE currentFrame < TotalFrames
    BY <1>1, <1>11, <2>1 DEF HandlerTests
  <2>2. CASE ~(currentFrame < TotalFrames)
    <3>1. pc[Handler] = "test" /\ isPlaying' = FALSE /\ next' = next
      BY <1>11, <2>2 DEF HandlerTests, At
    <3>2. next = currentFrame /\ next <= TotalFrames
      BY <3>1 DEF LeftAlone, OneSegment, Quiet, Alive, InQueue, IsDue,
                  InHandler
    <3>3. next = TotalFrames
      BY <2>2, <3>2, FramesAssumption DEF TypeOK
    <3>. QED
      BY <1>0, <3>1, <3>3 DEF Playback!End, Playback!Over
  <2>. QED
    BY <2>1, <2>2
<1>12. CASE \/ TestStart \/ StartNode \/ TestPlaying \/ Locate \/ HaltNode
            \/ HandlerReads \/ HandlerAdds
            \/ \E a \in {Main, Handler} : ScheduleAudioFile(a)
  BY <1>1, <1>12
     DEF TestStart, StartNode, TestPlaying, Locate, HaltNode, HandlerReads,
         HandlerAdds, ScheduleAudioFile, TestEnd, MeasureSegment,
         ScheduleSegment, player, history
<1>. QED
  BY <1>2, <1>3, <1>4, <1>5, <1>6, <1>7, <1>8, <1>9, <1>10, <1>11, <1>12
     DEF Next, MainStep, HandlerStep

LEMMA PlaybackStep ==
  ASSUME TypeOK, ChainInv, WithinFile, WithinFile', [Next]_vars
  PROVE  [Playback!Next]_(Playback!vars)
<1>. USE DEF Playback!Next, Playback!vars
<1>1. CASE UNCHANGED vars
  BY <1>1 DEF vars, player, history
<1>2. CASE Next /\ disturbed
  <2>1. disturbed' = disturbed /\ isPlaying' \in BOOLEAN
    BY <1>2, DisturbedStays, NextType DEF TypeOK
  <2>. QED
    BY <1>2, <2>1 DEF Playback!AfterCut, WithinFile
<1>3. CASE Next /\ ~disturbed /\ disturbed'
  <2>1. disturbed' = TRUE
    BY <1>3, NextType DEF TypeOK
  <2>2. CASE pause \/ stop \/ \E t \in Targets : seekToTime(t)
    BY <2>1, <2>2 DEF pause, stop, seekToTime, player, Playback!Cut
  <2>3. disturbed' = disturbed \/ pause \/ stop
          \/ \E t \in Targets : seekToTime(t)
    <3>1. CASE play
      BY <3>1 DEF play, Call, TypeOK
    <3>2. CASE MainStep
      BY <3>2 DEF MainStep, ScheduleAudioFile, TestRewind, Rewind, StartEngine,
                  TestStart, StartNode,
                  MarkPlaying, TestPlaying, Locate, HoldNode, HaltNode,
                  ResetPosition, SetPosition, ResumePlaying, TestEnd,
                  MeasureSegment, ScheduleSegment, history
    <3>3. CASE Render
      BY <3>3 DEF Render
    <3>4. CASE HandlerStep
      BY <3>4 DEF HandlerStep, ScheduleAudioFile, HandlerReads, HandlerAdds,
                  HandlerTests, TestEnd, MeasureSegment, ScheduleSegment,
                  history
    <3>. QED
      BY <1>3, <3>1, <3>2, <3>3, <3>4 DEF Next
  <2>. QED
    BY <1>3, <2>2, <2>3
<1>4. CASE Next /\ ~disturbed /\ ~disturbed'
  BY <1>4, LeftAlonePlays DEF ChainInv
<1>. QED
  BY <1>1, <1>2, <1>3, <1>4

(* The player implements the playback of a file: rendering is Hear, the    *)
(* main thread and the handler that finds the end are Begin, End and       *)
(* Place, and everything about segments leaves it alone.                   *)
THEOREM PlayerPlaysFile == Spec => PlaysFile
<1>1. Init => Playback!Init
  BY DEF Init, Playback!Init
<1>2. TypeOK /\ ChainInv /\ WithinFile /\ WithinFile' /\ [Next]_vars
        => [Playback!Next]_(Playback!vars)
  BY PlaybackStep
<1>. QED
  BY <1>1, <1>2, TypeCorrect, ChainCorrect, HeardIsInFile, PTL
     DEF Spec, PlaysFile, Playback!Spec

-----------------------------------------------------------------------------
(* The main thread is in play, past the rewind.                            *)
InPlay ==
  \/ pc[Main] \in {"engine", "test", "start", "mark"}
  \/ pc[Main] \in {"guard", "count", "submit"} /\ call # "seek"

(* The main thread is in seekToTime:, after the pause within it.           *)
InSeek ==
  \/ pc[Main] \in {"target", "resume"}
  \/ pc[Main] \in {"halt", "guard", "count", "submit"} /\ call = "seek"

Stopped == currentFrame = 0 \/ currentFrame >= TotalFrames

(* The chain goes on; a file without frames never has one.                 *)
Fed == Alive \/ TotalFrames = 0

(* What keeps a playback going, whatever calls cut into it, until a chain  *)
(* ends in the middle of a call: where nothing is under way the position   *)
(* is one from which play starts a chain; and the test against the end     *)
(* that a handler is about to repeat has the outcome it had before.        *)
GoesOn ==
  /\ pc[Main] \in {"idle", "pause", "hold", "rewind", "zero"} /\ ~Fed => Stopped
  /\ pc[Main] = "resume" /\ ~Fed => currentFrame >= TotalFrames
  /\ InPlay /\ ~Fed => currentFrame = 0
  /\ pc[Main] \in {"start", "mark", "locate"} => Fed
  /\ pc[Main] \in {"locate", "hold"} => isPlaying
  /\ pc[Main] \in {"idle", "pause"} /\ isPlaying
       => Fed /\ node.playing /\ running
  /\ InPlay \/ (pc[Main] \in {"idle", "pause", "locate"} /\ isPlaying)
       => (pc[Handler] = "guard"
             => currentFrame < TotalFrames \/ TotalFrames = 0)
  /\ InSeek => ~isPlaying
  /\ InPlay /\ pc[Main] # "engine" => running
  /\ pc[Main] = "mark" => node.playing
  /\ pc[Main] \in {"rewind", "zero", "engine"} => ~isPlaying
  /\ pc[Main] \in {"guard", "count", "submit"} => call \in {"play", "seek"}
  /\ pc[Main] = "target" => call = "seek"

AliveInv == ~raised /\ ~overtaken => GoesOn

LEMMA AliveInit == Init => AliveInv
BY DEF Init, AliveInv, GoesOn, InPlay, InSeek, Stopped, Alive, Fed

(* A step of the main thread that touches neither chain nor engine.        *)
LEMMA SameAlive ==
  ASSUME node'.queue = node.queue, due' = due, pc'[Handler] = pc[Handler]
  PROVE  /\ Alive' <=> Alive
         /\ Fed' <=> Fed
BY DEF Alive, Fed

LEMMA EnterGoesOn ==
  ASSUME TypeOK, GoesOn, TestRewind \/ Rewind \/ StartEngine
  PROVE  GoesOn'
<1>. USE DEF GoesOn, InPlay, InSeek, Stopped
<1>1. CASE TestRewind
  <2>1. /\ pc[Main] = "rewind"
        /\ Goto(Main, IF currentFrame >= TotalFrames THEN "zero" ELSE "engine")
        /\ UNCHANGED <<currentFrame, isPlaying, running, node, due, call>>
    BY <1>1 DEF TestRewind, At, player, queue
  <2>2. /\ pc'[Main] = IF currentFrame >= TotalFrames THEN "zero" ELSE "engine"
        /\ pc'[Handler] = pc[Handler]
    BY <2>1, GotoMain
  <2>3. Fed' <=> Fed
    BY <2>1, <2>2, SameAlive
  <2>4. ~(currentFrame >= TotalFrames) => currentFrame < TotalFrames
    BY FramesAssumption DEF TypeOK
  <2>. QED
    BY <2>1, <2>2, <2>3, <2>4
<1>2. CASE Rewind
  <2>1. /\ pc[Main] = "zero" /\ Goto(Main, "engine") /\ currentFrame' = 0
        /\ UNCHANGED <<isPlaying, running, node, due, call>>
    BY <1>2 DEF Rewind, At, queue
  <2>2. pc'[Main] = "engine" /\ pc'[Handler] = pc[Handler]
    BY <2>1, GotoMain
  <2>3. 0 < TotalFrames \/ TotalFrames = 0
    BY FramesAssumption
  <2>. QED
    BY <2>1, <2>2, <2>3
<1>3. CASE StartEngine
  <2>1. /\ pc[Main] = "engine"
        /\ Goto(Main, IF running' THEN "test" ELSE "idle")
        /\ UNCHANGED <<currentFrame, isPlaying, node, due, call>>
    BY <1>3 DEF StartEngine, At, queue
  <2>2. /\ pc'[Main] = IF running' THEN "test" ELSE "idle"
        /\ pc'[Handler] = pc[Handler]
    BY <2>1, GotoMain
  <2>3. Fed' <=> Fed
    BY <2>1, <2>2, SameAlive
  <2>. QED
    BY <2>1, <2>2, <2>3
<1>. QED
  BY <1>1, <1>2, <1>3

LEMMA UserGoesOn ==
  ASSUME TypeOK, GoesOn, play \/ pause \/ stop \/ \E t \in Targets : seekToTime(t)
  PROVE  GoesOn'
<1>2. ASSUME NEW l \in {"pause", "halt", "target", "rewind"}, Goto(Main, l),
             pc[Main] = "idle",
             l = "halt" => call' = "stop",
             l = "target" => call' = "seek" /\ ~isPlaying,
             l = "rewind" => ~isPlaying,
             UNCHANGED <<currentFrame, isPlaying, running, node, due>>
      PROVE  GoesOn'
  <2>1. pc'[Main] = l /\ pc'[Handler] = pc[Handler]
    BY <1>2, GotoMain
  <2>2. Fed' <=> Fed
    BY <1>2, <2>1, SameAlive
  <2>. QED
    BY <1>2, <2>1, <2>2 DEF GoesOn, InPlay, InSeek, Stopped
<1>1. CASE play
  BY <1>1, <1>2 DEF play, Call, At, player, queue
<1>3. CASE pause
  BY <1>2, <1>3 DEF pause, Call, At, player, queue
<1>4. CASE stop
  BY <1>2, <1>4 DEF stop, Call, At, player, queue
<1>5. ASSUME NEW t \in Targets, seekToTime(t) PROVE GoesOn'
  BY <1>2, <1>5 DEF seekToTime, Call, At, player, queue
<1>. QED
  BY <1>1, <1>3, <1>4, <1>5

LEMMA ScheduleGoesOn ==
  ASSUME TypeOK, GoesOn, NEW a \in {Main, Handler}, ScheduleAudioFile(a),
         ~raised'
  PROVE  GoesOn'
<1>0. UNCHANGED <<currentFrame, isPlaying, running, call>>
      /\ node'.playing = node.playing
  <2>1. ASSUME ScheduleSegment(a), count[a] # 0, ~(currentFrame >= TotalFrames)
        PROVE  node'.playing = node.playing
    BY <2>1 DEF ScheduleSegment, Schedule, TypeOK, Nodes
  <2>. QED
    BY <2>1 DEF ScheduleAudioFile, TestEnd, MeasureSegment, ScheduleSegment,
                player, queue
<1>1. CASE TestEnd(a)
  <2>1. /\ pc[a] = "guard" /\ UNCHANGED <<node, due>>
        /\ Goto(a, IF currentFrame >= TotalFrames THEN Return(a) ELSE "count")
    BY <1>1 DEF TestEnd, At, queue
  <2>2. CASE a = Main
    <3>1. /\ pc'[Main] = IF currentFrame >= TotalFrames
                           THEN IF call = "play" THEN "start" ELSE "resume"
                           ELSE "count"
          /\ pc'[Handler] = pc[Handler]
      BY <2>1, <2>2, GotoMain, TwoThreads DEF Return
    <3>2. Fed' <=> Fed
      BY <2>1, <3>1, SameAlive
    <3>. QED
      BY <1>0, <2>1, <2>2, <3>1, <3>2, FramesAssumption
         DEF GoesOn, Fed, InPlay, InSeek, Stopped, TypeOK
  <2>3. CASE a = Handler
    <3>1. /\ pc'[Handler] = IF currentFrame >= TotalFrames THEN "idle"
                              ELSE "count"
          /\ pc'[Main] = pc[Main]
      BY <2>1, <2>3, GotoHandler, TwoThreads DEF Return
    <3>2. CASE currentFrame >= TotalFrames
      <4>1. CASE TotalFrames = 0
        <5>1. Fed /\ Fed'
          BY <4>1 DEF Fed
        <5>. QED
          BY <1>0, <2>1, <3>1, <3>2, <5>1 DEF GoesOn, InPlay, InSeek, Stopped
      <4>2. CASE TotalFrames # 0
        <5>1. ~(currentFrame < TotalFrames)
          BY <3>2, <4>2, FramesAssumption DEF TypeOK
        <5>2. ~InPlay /\ ~(pc[Main] \in {"idle", "pause", "locate"} /\ isPlaying)
          BY <2>1, <2>3, <4>2, <5>1 DEF GoesOn, Fed
        <5>3. ~InPlay' /\ (InSeek' <=> InSeek) /\ Stopped'
          BY <1>0, <3>1, <3>2, <5>2 DEF InPlay, InSeek, Stopped
        <5>4. pc[Main] \notin {"start", "mark", "locate"}
          BY <5>2 DEF InPlay, GoesOn, Fed
        <5>. QED
          BY <1>0, <2>1, <3>1, <3>2, <5>2, <5>3, <5>4 DEF GoesOn, Fed
      <4>. QED
        BY <4>1, <4>2
    <3>3. CASE ~(currentFrame >= TotalFrames)
      <4>1. Alive /\ Alive'
        BY <2>1, <2>3, <3>1, <3>3 DEF Alive
      <4>. QED
        BY <1>0, <2>1, <3>1, <3>3, <4>1 DEF GoesOn, Fed, InPlay, InSeek
    <3>. QED
      BY <3>2, <3>3
  <2>. QED
    BY <2>2, <2>3
<1>2. CASE MeasureSegment(a)
  <2>1. /\ pc[a] = "count" /\ Goto(a, "submit") /\ UNCHANGED <<node, due>>
    BY <1>2 DEF MeasureSegment, At, queue
  <2>2. /\ pc'[a] = "submit"
        /\ \A b \in {Main, Handler} : b # a => pc'[b] = pc[b]
    BY <2>1, GotoPlaces DEF HandlerLocations
  <2>3. Fed' <=> Fed
    BY <2>1, <2>2, TwoThreads DEF Alive, Fed
  <2>4. CASE a = Main
    BY <1>0, <2>1, <2>2, <2>3, <2>4, TwoThreads
       DEF GoesOn, Fed, InPlay, InSeek, Stopped
  <2>5. CASE a = Handler
    BY <1>0, <2>1, <2>2, <2>3, <2>5, TwoThreads
       DEF GoesOn, Fed, InPlay, InSeek, Stopped
  <2>. QED
    BY <2>4, <2>5
<1>3. CASE ScheduleSegment(a)
  <2>1. pc[a] = "submit" /\ Goto(a, Return(a))
    BY <1>3 DEF ScheduleSegment, At
  <2>2. Alive'
    <3>1. CASE currentFrame >= TotalFrames
      <4>1. due' = Append(due, count[a]) /\ count[a] \in 1..SegmentFrames
        BY <1>3, <3>1, FramesAssumption DEF ScheduleSegment, TypeOK
      <4>2. due' # <<>>
        BY <4>1, AppendProperties DEF TypeOK
      <4>. QED
        BY <4>2 DEF Alive
    <3>2. CASE ~(currentFrame >= TotalFrames)
      <4>. DEFINE c == AtMost(count[a], TotalFrames - currentFrame)
                  s == Stretch(File, currentFrame, c)
      <4>1. node' = Schedule(node, s) /\ count[a] # 0
        BY <1>3, <3>2 DEF ScheduleSegment
      <4>2. c \in Nat \ {0} /\ currentFrame \in Nat
        BY <4>1, <3>2, FramesAssumption DEF AtMost, TypeOK
      <4>. HIDE DEF c
      <4>3. s \in Stretches({File}) /\ node \in Nodes({File})
        BY <4>2, StretchType DEF TypeOK
      <4>. HIDE DEF s
      <4>4. node'.queue # <<>>
        BY <4>1, <4>3, ScheduleType
      <4>. QED
        BY <4>4 DEF Alive
    <3>. QED
      BY <3>1, <3>2
  <2>3. CASE a = Main
    <3>1. /\ pc'[Main] = IF call = "play" THEN "start" ELSE "resume"
          /\ pc'[Handler] = pc[Handler]
      BY <2>1, <2>3, GotoMain, TwoThreads DEF Return
    <3>. QED
      BY <1>0, <2>1, <2>2, <2>3, <3>1 DEF GoesOn, Fed, InPlay, InSeek
  <2>4. CASE a = Handler
    <3>1. pc'[Handler] = "idle" /\ pc'[Main] = pc[Main]
      BY <2>1, <2>4, GotoHandler, TwoThreads DEF Return
    <3>2. Alive
      BY <2>1, <2>4 DEF Alive
    <3>. QED
      BY <1>0, <2>1, <2>2, <2>4, <3>1, <3>2 DEF GoesOn, Fed, InPlay, InSeek
  <2>. QED
    BY <2>3, <2>4
<1>. QED
  BY <1>1, <1>2, <1>3 DEF ScheduleAudioFile

LEMMA MainGoesOn ==
  ASSUME TypeOK, GoesOn, MainStep, ~raised'
  PROVE  GoesOn'
<1>. USE DEF GoesOn, Fed, InPlay, InSeek, Stopped
<1>1. CASE TestStart
  <2>1. /\ pc[Main] = "test" /\ call' = "play"
        /\ Goto(Main, IF currentFrame = 0 THEN "guard" ELSE "start")
        /\ UNCHANGED <<currentFrame, isPlaying, running, node, due>>
    BY <1>1 DEF TestStart, At, player, queue
  <2>2. /\ pc'[Main] = IF currentFrame = 0 THEN "guard" ELSE "start"
        /\ pc'[Handler] = pc[Handler]
    BY <2>1, GotoMain
  <2>3. Fed' <=> Fed
    BY <2>1, <2>2, SameAlive
  <2>. QED
    BY <2>1, <2>2, <2>3
<1>2. CASE StartNode
  <2>1. /\ pc[Main] = "start" /\ Goto(Main, "mark") /\ node' = Play(node)
        /\ UNCHANGED <<currentFrame, isPlaying, running, due, call>>
    BY <1>2 DEF StartNode, At, player
  <2>2. pc'[Main] = "mark" /\ pc'[Handler] = pc[Handler]
    BY <2>1, GotoMain
  <2>3. node'.playing /\ node'.queue = node.queue
    BY <2>1, PlayPauseType DEF TypeOK
  <2>4. Fed' <=> Fed
    BY <2>1, <2>2, <2>3, SameAlive
  <2>. QED
    BY <2>1, <2>2, <2>3, <2>4
<1>3. CASE MarkPlaying
  <2>1. /\ pc[Main] = "mark" /\ Goto(Main, "idle")
        /\ UNCHANGED <<currentFrame, running, node, due>>
    BY <1>3 DEF MarkPlaying, At, queue
  <2>2. pc'[Main] = "idle" /\ pc'[Handler] = pc[Handler]
    BY <2>1, GotoMain
  <2>3. Fed' <=> Fed
    BY <2>1, <2>2, SameAlive
  <2>. QED
    BY <2>1, <2>2, <2>3
<1>4. CASE TestPlaying
  <2>1. /\ pc[Main] = "pause"
        /\ Goto(Main, IF isPlaying THEN "locate" ELSE PauseReturn)
        /\ UNCHANGED <<currentFrame, isPlaying, running, node, due, call>>
    BY <1>4 DEF TestPlaying, At, player, queue
  <2>2. /\ pc'[Main] = IF isPlaying THEN "locate"
                         ELSE IF call = "seek" THEN "target" ELSE "idle"
        /\ pc'[Handler] = pc[Handler]
    BY <2>1, GotoMain DEF PauseReturn
  <2>3. Fed' <=> Fed
    BY <2>1, <2>2, SameAlive
  <2>. QED
    BY <2>1, <2>2, <2>3
<1>5. CASE Locate
  <2>1. /\ pc[Main] = "locate" /\ Goto(Main, "hold")
        /\ UNCHANGED <<isPlaying, running, node, due>>
    BY <1>5 DEF Locate, At, queue
  <2>2. pc'[Main] = "hold" /\ pc'[Handler] = pc[Handler]
    BY <2>1, GotoMain
  <2>3. Fed' <=> Fed
    BY <2>1, <2>2, SameAlive
  <2>. QED
    BY <2>1, <2>2, <2>3
<1>6. CASE HoldNode
  <2>1. /\ pc[Main] = "hold" /\ Goto(Main, PauseReturn) /\ ~isPlaying'
        /\ node' = Pause(node) /\ UNCHANGED <<currentFrame, due, call>>
    BY <1>6 DEF HoldNode, At
  <2>2. /\ pc'[Main] = IF call = "seek" THEN "target" ELSE "idle"
        /\ pc'[Handler] = pc[Handler]
    BY <2>1, GotoMain DEF PauseReturn
  <2>3. node'.queue = node.queue
    BY <2>1, PlayPauseType DEF TypeOK
  <2>4. Fed' <=> Fed
    BY <2>1, <2>2, <2>3, SameAlive
  <2>. QED
    BY <2>1, <2>2, <2>4
<1>7. CASE HaltNode
  <2>1. /\ pc[Main] = "halt"
        /\ Goto(Main, IF call = "seek" THEN "guard" ELSE "reset")
        /\ UNCHANGED <<isPlaying, call>>
    BY <1>7 DEF HaltNode, At
  <2>2. pc'[Main] = IF call = "seek" THEN "guard" ELSE "reset"
    BY <2>1, GotoMain
  <2>. QED
    BY <2>1, <2>2
<1>8. CASE ResetPosition
  <2>1. Goto(Main, "idle") /\ currentFrame' = 0 /\ ~isPlaying'
    BY <1>8 DEF ResetPosition
  <2>2. pc'[Main] = "idle"
    BY <2>1, GotoMain
  <2>. QED
    BY <2>1, <2>2
<1>9. CASE SetPosition
  <2>1. /\ pc[Main] = "target" /\ Goto(Main, "halt")
        /\ UNCHANGED <<isPlaying, call>>
    BY <1>9 DEF SetPosition, At
  <2>2. pc'[Main] = "halt"
    BY <2>1, GotoMain
  <2>. QED
    BY <2>1, <2>2
<1>10. CASE ResumePlaying
  <2>1. /\ pc[Main] = "resume" /\ ~isPlaying /\ ~isPlaying'
        /\ Goto(Main, IF wasPlaying /\ ~isPlaying THEN "rewind" ELSE "idle")
        /\ UNCHANGED <<currentFrame, running, node, due>>
    BY <1>10 DEF ResumePlaying, At, player, queue
  <2>2. pc'[Main] \in {"rewind", "idle"} /\ pc'[Handler] = pc[Handler]
    BY <2>1, GotoMain
  <2>3. Fed' <=> Fed
    BY <2>1, <2>2, SameAlive
  <2>. QED
    BY <2>1, <2>2, <2>3
<1>11. CASE ScheduleAudioFile(Main)
  BY <1>11, ScheduleGoesOn
<1>. QED
  BY <1>1, <1>2, <1>3, <1>4, <1>5, <1>6, <1>7, <1>8, <1>9, <1>10, <1>11,
     EnterGoesOn
     DEF MainStep

LEMMA RenderGoesOn ==
  ASSUME TypeOK, GoesOn, Render
  PROVE  GoesOn'
<1>1. /\ UNCHANGED <<pc, call, currentFrame, isPlaying, running>>
      /\ node' = Rendered(node) /\ node \in Nodes({File})
  BY DEF Render, threads, player, TypeOK
<1>2. node'.playing = node.playing
  BY <1>1, RenderedType
<1>3. Alive' <=> Alive
  <2>1. CASE Consumes(node)
    <3>1. due' = Append(due, Head(sizes)) /\ node.queue # <<>>
      BY <2>1 DEF Render, Consumes
    <3>2. due' # <<>>
      BY <3>1, RenderNode, AppendProperties, EmptySeq DEF TypeOK
    <3>. QED
      BY <3>1, <3>2 DEF Alive
  <2>2. CASE ~Consumes(node)
    <3>1. due' = due
      BY <2>2 DEF Render
    <3>2. node'.queue = <<>> <=> node.queue = <<>>
      BY <1>1, <2>2, RenderedType
    <3>. QED
      BY <1>1, <3>1, <3>2 DEF Alive
  <2>. QED
    BY <2>1, <2>2
<1>. QED
  BY <1>1, <1>2, <1>3 DEF GoesOn, Fed, InPlay, InSeek, Stopped

LEMMA HandlerGoesOn ==
  ASSUME TypeOK, GoesOn, HandlerStep, ~raised', ~overtaken'
  PROVE  GoesOn'
<1>. USE DEF GoesOn, Fed, InPlay, InSeek
<1>1. CASE HandlerReads
  <2>1. /\ due # <<>> /\ Goto(Handler, "add")
        /\ UNCHANGED <<currentFrame, isPlaying, running, node, call>>
    BY <1>1 DEF HandlerReads, player
  <2>2. pc'[Handler] = "add" /\ pc'[Main] = pc[Main]
    BY <2>1, GotoHandler
  <2>3. Alive /\ Alive'
    BY <2>1, <2>2 DEF Alive
  <2>. QED
    BY <2>1, <2>2, <2>3
<1>2. CASE HandlerAdds
  <2>1. /\ pc[Handler] = "add" /\ Goto(Handler, "test")
        /\ UNCHANGED <<isPlaying, running, node, call>>
    BY <1>2 DEF HandlerAdds, At, queue
  <2>2. pc'[Handler] = "test" /\ pc'[Main] = pc[Main]
    BY <2>1, GotoHandler
  <2>3. Alive /\ Alive'
    BY <2>1, <2>2 DEF Alive
  <2>. QED
    BY <2>1, <2>2, <2>3
<1>3. CASE HandlerTests
  <2>1. CASE currentFrame < TotalFrames
    <3>1. /\ pc[Handler] = "test" /\ Goto(Handler, "guard")
          /\ UNCHANGED <<currentFrame, isPlaying, running, node, call>>
      BY <1>3, <2>1 DEF HandlerTests, At, queue
    <3>2. pc'[Handler] = "guard" /\ pc'[Main] = pc[Main]
      BY <3>1, GotoHandler
    <3>3. Alive /\ Alive'
      BY <3>1, <3>2 DEF Alive
    <3>. QED
      BY <2>1, <3>1, <3>2, <3>3
  <2>2. CASE ~(currentFrame < TotalFrames)
    <3>1. /\ Goto(Handler, "idle") /\ ~isPlaying' /\ pc[Main] = "idle"
          /\ UNCHANGED currentFrame
      BY <1>3, <2>2 DEF HandlerTests
    <3>2. pc'[Main] = "idle"
      BY <3>1, GotoHandler
    <3>3. Stopped'
      BY <2>2, <3>1, FramesAssumption DEF Stopped, TypeOK
    <3>. QED
      BY <3>1, <3>2, <3>3
  <2>. QED
    BY <2>1, <2>2
<1>4. CASE ScheduleAudioFile(Handler)
  BY <1>4, ScheduleGoesOn
<1>. QED
  BY <1>1, <1>2, <1>3, <1>4 DEF HandlerStep

(* The program does not come back, and what overtook a call stays told.    *)
LEMMA GoneStays ==
  ASSUME TypeOK, [Next]_vars
  PROVE  (raised => raised') /\ (overtaken => overtaken')
<1>1. CASE UNCHANGED vars
  BY <1>1 DEF vars, history
<1>2. CASE play \/ pause \/ stop \/ \E t \in Targets : seekToTime(t)
  <2>1. UNCHANGED <<overtaken, raised>>
    BY <1>2 DEF play, pause, stop, seekToTime
  <2>. QED
    BY <2>1
<1>3. CASE MainStep
  <2>1. CASE TestRewind \/ Rewind \/ TestStart \/ StartNode \/ MarkPlaying
    BY <2>1 DEF TestRewind, Rewind, TestStart, StartNode, MarkPlaying, history
  <2>2. CASE StartEngine
    BY <2>2 DEF StartEngine, history
  <2>3. CASE TestPlaying \/ Locate \/ HoldNode \/ HaltNode
             \/ ResetPosition \/ SetPosition \/ ResumePlaying
    BY <2>3 DEF TestPlaying, Locate, HoldNode, HaltNode, ResetPosition,
                SetPosition, ResumePlaying, history
  <2>4. CASE ScheduleAudioFile(Main)
    BY <2>4 DEF ScheduleAudioFile, TestEnd, MeasureSegment,
                ScheduleSegment, history
  <2>. QED
    BY <1>3, <2>1, <2>2, <2>3, <2>4 DEF MainStep
<1>4. CASE Render
  BY <1>4 DEF Render
<1>5. CASE HandlerStep
  <2>1. CASE HandlerTests
    <3>1. raised' = raised
      BY <2>1 DEF HandlerTests
    <3>2. overtaken => overtaken'
      BY <2>1, Zenon DEF HandlerTests
    <3>. QED
      BY <3>1, <3>2
  <2>. QED
    BY <1>5, <2>1
       DEF HandlerStep, ScheduleAudioFile, HandlerReads, HandlerAdds, TestEnd,
           MeasureSegment, ScheduleSegment, history
<1>. QED
  BY <1>1, <1>2, <1>3, <1>4, <1>5 DEF Next

LEMMA AliveStep == TypeOK /\ AliveInv /\ [Next]_vars => AliveInv'
<1>. SUFFICES ASSUME TypeOK, AliveInv, [Next]_vars, ~raised', ~overtaken'
              PROVE  GoesOn'
  BY DEF AliveInv
<1>1. GoesOn
  BY GoneStays DEF AliveInv
<1>2. CASE UNCHANGED vars
  <2>1. UNCHANGED <<pc, call, currentFrame, isPlaying, running, node, due>>
    BY <1>2 DEF vars, threads, player, queue
  <2>2. Alive' <=> Alive
    BY <2>1 DEF Alive
  <2>. QED
    BY <1>1, <2>1, <2>2 DEF GoesOn, Fed, InPlay, InSeek, Stopped
<1>. QED
  BY <1>1, <1>2, UserGoesOn, MainGoesOn, RenderGoesOn, HandlerGoesOn DEF Next

(* However calls and completion handlers race: a player at rest that says  *)
(* it plays has a segment queued, played, or with its handler running, and *)
(* a running engine, so that its playback goes on.  Two cases are without  *)
(* a chain: one that ended during a call, and a file without frames, be it *)
(* empty or unreadable.                                                    *)
THEOREM PlaybackGoesOn == Spec => []NeverStuck
<1>1. AliveInv => NeverStuck
  BY DEF AliveInv, GoesOn, Fed, NeverStuck, At
<1>. QED
  BY <1>1, AliveInit, AliveStep, TypeCorrect, PTL DEF Spec

=============================================================================
