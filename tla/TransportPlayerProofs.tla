----------------------- MODULE TransportPlayerProofs ------------------------
(***************************************************************************)
(* Theorems about TransportPlayer, for every set of files, every length of *)
(* theirs, every skip, with and without the tap.  TypeOK is inductive;     *)
(* each later property is inductive together with the ones before it.      *)
(* At the end, theorems about PlayerViewModel2, whose steps are those of   *)
(* the transport and those of the tap's block.                             *)
(***************************************************************************)
EXTENDS PlayerViewModel2, SequenceTheorems, TLAPS

-----------------------------------------------------------------------------
(* What the operations of AVPlayerNode keep.                               *)
LEMMA NodeFields ==
  ASSUME NEW files, NEW n \in Nodes(files)
  PROVE  /\ n.playing \in BOOLEAN /\ n.time \in 0..MaxTime
         /\ n.queue \in Seq(Stretches(files))
         /\ Len(n.queue) \in Nat
         /\ n.queue = <<>> <=> Len(n.queue) = 0
<1>1. n.queue \in Seq(Stretches(files))
  BY DEF Nodes
<1>2. Len(n.queue) \in Nat /\ (n.queue = <<>> <=> Len(n.queue) = 0)
  BY <1>1, EmptySeq, LenProperties
<1>. QED
  BY <1>1, <1>2 DEF Nodes

LEMMA StretchType ==
  ASSUME NEW files, NEW f \in files, NEW first \in Nat, NEW c \in Nat \ {0}
  PROVE  /\ Stretch(f, first, c) \in Stretches(files)
         /\ Stretch(f, first, c).start = first
         /\ Stretch(f, first, c).count = c
         /\ Stretch(f, first, c).file = f
BY DEF Stretch, Stretches

LEMMA StoppedNodeType ==
  ASSUME NEW files
  PROVE  StoppedNode \in Nodes(files)
<1>1. <<>> \in Seq(Stretches(files))
  BY EmptySeq
<1>. QED
  BY <1>1, MaxTimeAssumption DEF StoppedNode, Nodes

LEMMA ScheduleType ==
  ASSUME NEW files, NEW n \in Nodes(files), NEW s \in Stretches(files)
  PROVE  /\ Schedule(n, s) \in Nodes(files)
         /\ Schedule(n, s).playing = n.playing
         /\ Schedule(n, s).time = n.time
         /\ Schedule(n, s).queue = Append(n.queue, s)
         /\ Schedule(n, s).queue # <<>>
         /\ Len(Schedule(n, s).queue) = Len(n.queue) + 1
         /\ n.queue = <<>> => Head(Schedule(n, s).queue) = s
BY AppendProperties DEF Schedule, Nodes

LEMMA PlayPauseType ==
  ASSUME NEW files, NEW n \in Nodes(files)
  PROVE  /\ Play(n) \in Nodes(files) /\ Pause(n) \in Nodes(files)
         /\ Play(n).playing /\ ~Pause(n).playing
         /\ Play(n).time = n.time /\ Pause(n).time = n.time
         /\ Play(n).queue = n.queue /\ Pause(n).queue = n.queue
BY DEF Play, Pause, Nodes

(* Rendering either takes the head off the queue or starts it one period   *)
(* later, its end unchanged.                                               *)
LEMMA RenderedType ==
  ASSUME NEW files, NEW n \in Nodes(files)
  PROVE  /\ Rendered(n) \in Nodes(files)
         /\ Rendered(n).playing = n.playing
         /\ n.time < MaxTime => Rendered(n).time = n.time + 1
         /\ n.queue = <<>> => Rendered(n).queue = <<>>
         /\ Consumes(n) => Len(Rendered(n).queue) = Len(n.queue) - 1
         /\ Consumes(n) /\ Len(n.queue) <= 1 => Rendered(n).queue = <<>>
         /\ n.queue # <<>> /\ ~Consumes(n)
              => /\ Rendered(n).queue # <<>>
                 /\ Len(Rendered(n).queue) = Len(n.queue)
                 /\ Head(Rendered(n).queue).start = Head(n.queue).start + 1
                 /\ Head(Rendered(n).queue).start + Head(Rendered(n).queue).count
                      = Head(n.queue).start + Head(n.queue).count
<1>. DEFINE S == Stretches(files)
            h == Head(n.queue)
<1>1. n.queue \in Seq(S) /\ n.playing \in BOOLEAN /\ Clock(n) \in 0..MaxTime
      /\ (n.time < MaxTime => Clock(n) = n.time + 1)
  BY MaxTimeAssumption DEF Nodes, Clock
<1>2. n.queue # <<>> => h \in S /\ Tail(n.queue) \in Seq(S)
                        /\ Len(Tail(n.queue)) = Len(n.queue) - 1
  BY <1>1, HeadTailProperties
<1>3. n.queue # <<>> /\ ~Consumes(n)
        => Advanced(h) \in S /\ Advanced(h).start = h.start + 1
           /\ Advanced(h).start + Advanced(h).count = h.start + h.count
  BY <1>2 DEF Advanced, Stretch, Stretches, Consumes
<1>. HIDE DEF S
<1>4. CASE n.queue = <<>> \/ Consumes(n)
  BY <1>1, <1>2, <1>4, EmptySeq DEF Rendered, RenderedQueue, Nodes, S, Consumes
<1>5. CASE n.queue # <<>> /\ ~Consumes(n)
  <2>1. Rendered(n).queue = <<Advanced(h)>> \o Tail(n.queue)
    BY <1>5 DEF Rendered, RenderedQueue
  <2>2. Rendered(n).queue \in Seq(S)
        /\ Len(Rendered(n).queue) = Len(n.queue)
        /\ Head(Rendered(n).queue) = Advanced(h)
    BY <1>1, <1>2, <1>3, <1>5, <2>1
  <2>. QED
    BY <1>1, <1>3, <1>5, <2>2, EmptySeq DEF Rendered, Nodes, S
<1>. QED
  BY <1>4, <1>5

-----------------------------------------------------------------------------
(* What the calls compute.                                                 *)

LEMMA FileLengths ==
  /\ \A f \in Files : FileLength(f) = Length[f] /\ Length[f] \in 1..MaxTime
  /\ FileLength(NoFile) = 0
BY FilesAssumption, MaxTimeAssumption DEF FileLength

LEMMA AudioLengthType ==
  ASSUME TypeOK
  PROVE  AudioLength \in 0..MaxTime
BY FileLengths, MaxTimeAssumption DEF TypeOK, AudioLength

LEMMA WithFileType ==
  ASSUME TypeOK, NEW f \in Files \cup {NoFile}
  PROVE  /\ WithFile(f) \in Nodes(Files)
         /\ WithFile(f).playing = node.playing
         /\ WithFile(f).time = node.time
         /\ ~Schedules(f) => WithFile(f) = node
         /\ Schedules(f) =>
              /\ WithFile(f).queue # <<>>
              /\ Len(WithFile(f).queue) = Len(node.queue) + 1
              /\ node.queue = <<>> =>
                   /\ Head(WithFile(f).queue).start = 0
                   /\ Head(WithFile(f).queue).count <= MaxTime
<1>1. node \in Nodes(Files)
  BY DEF TypeOK
<1>2. CASE ~Schedules(f)
  BY <1>1, <1>2 DEF WithFile
<1>3. CASE Schedules(f)
  <2>1. f \in Files
    BY <1>3 DEF Schedules
  <2>. DEFINE s == Stretch(f, 0, Length[f])
  <2>2. s \in Stretches(Files) /\ s.start = 0 /\ s.count = Length[f]
    <3>1. 0 \in Nat /\ Length[f] \in Nat \ {0}
      BY <2>1, FilesAssumption
    <3>. QED
      BY <2>1, <3>1 DEF Stretch, Stretches
  <2>3. WithFile(f) = Schedule(node, s)
    BY <1>3 DEF WithFile
  <2>4. Length[f] <= MaxTime
    BY <2>1, FileLengths, MaxTimeAssumption
  <2>. HIDE DEF s
  <2>. QED
    BY <1>1, <1>3, <2>2, <2>3, <2>4, ScheduleType
<1>. QED
  BY <1>2, <1>3

LEMMA SeekTargetType ==
  ASSUME TypeOK, NEW forwards \in BOOLEAN
  PROVE  SeekTarget(forwards) \in 0..AudioLength
BY AudioLengthType, SkipAssumption, MaxTimeAssumption DEF TypeOK, SeekTarget

(* The node a seek into the file leaves: the rest of the file queued,      *)
(* nothing of it played yet.                                               *)
LEMMA SeekQueue ==
  ASSUME TypeOK, audioFile # NoFile,
         NEW forwards \in BOOLEAN, seekIntoFile(forwards)
  PROVE  /\ node' \in Nodes(Files)
         /\ node'.playing = node.playing
         /\ node'.time = 0
         /\ Len(node'.queue) = 1 /\ node'.queue # <<>>
         /\ Head(node'.queue).start = seekFrame'
         /\ Head(node'.queue).start + Head(node'.queue).count <= MaxTime
         /\ callbacks' \in Nat
         /\ seekFrame' \in 0..MaxTime
         /\ currentPosition' = seekFrame'
<1>. DEFINE target == SeekTarget(forwards)
            rest == Stretch(audioFile, target, AudioLength - target)
            queued == Schedule(StoppedNode, rest)
<1>1. target \in 0..AudioLength /\ target < AudioLength
  BY SeekTargetType DEF seekIntoFile
<1>2. AudioLength \in 0..MaxTime /\ node \in Nodes(Files) /\ audioFile \in Files
  BY AudioLengthType DEF TypeOK
<1>3. target \in Nat /\ AudioLength - target \in Nat \ {0}
  BY <1>1, <1>2, MaxTimeAssumption
<1>. HIDE DEF target
<1>4. rest \in Stretches(Files) /\ rest.start = target
      /\ rest.count = AudioLength - target
  BY <1>2, <1>3, StretchType
<1>. HIDE DEF rest
<1>5. /\ StoppedNode \in Nodes(Files) /\ StoppedNode.queue = <<>>
      /\ StoppedNode.time = 0 /\ ~StoppedNode.playing
      /\ Len(StoppedNode.queue) = 0
  BY StoppedNodeType DEF StoppedNode
<1>6. /\ queued \in Nodes(Files) /\ queued.time = 0
      /\ queued.playing = StoppedNode.playing
      /\ Len(queued.queue) = 1 /\ queued.queue # <<>>
      /\ Head(queued.queue) = rest
  <2>1. /\ queued \in Nodes(Files) /\ queued.time = StoppedNode.time
        /\ queued.playing = StoppedNode.playing
        /\ Len(queued.queue) = Len(StoppedNode.queue) + 1
        /\ queued.queue # <<>>
        /\ Head(queued.queue) = rest
    BY <1>4, <1>5, ScheduleType, Zenon
  <2>. QED
    BY <1>5, <2>1
<1>. HIDE DEF queued
<1>7. node' = IF node.playing THEN Play(queued) ELSE queued
  BY DEF seekIntoFile, target, rest, queued
<1>8. /\ node' \in Nodes(Files) /\ node'.time = 0
      /\ node'.queue = queued.queue
      /\ node'.playing = node.playing
  <2>1. CASE node.playing
    <3>1. node' = Play(queued)
      BY <1>7, <2>1
    <3>2. node' \in Nodes(Files) /\ node'.playing
          /\ node'.time = queued.time /\ node'.queue = queued.queue
      BY <1>6, <3>1, PlayPauseType, Zenon
    <3>. QED
      BY <1>2, <1>6, <2>1, <3>2, NodeFields
  <2>2. CASE ~node.playing
    BY <1>2, <1>5, <1>6, <1>7, <2>2, NodeFields
  <2>. QED
    BY <2>1, <2>2
<1>9. seekFrame' = target
  BY DEF seekIntoFile, target
<1>10. currentPosition' = target
  BY <1>1, <1>2, <1>5, MaxTimeAssumption
     DEF seekIntoFile, target, DisplayedPosition, SampleTime
<1>11. callbacks' \in Nat
  <2>1. PICK early \in 0..Len(node.queue) :
          callbacks' = callbacks + Len(node.queue) - early
    BY DEF seekIntoFile
  <2>2. Len(node.queue) \in Nat /\ callbacks \in Nat
    BY <1>2, NodeFields DEF TypeOK
  <2>. QED
    BY <2>1, <2>2
<1>. QED
  BY <1>1, <1>2, <1>3, <1>4, <1>6, <1>8, <1>9, <1>10, <1>11, MaxTimeAssumption

LEMMA SeekToEndTarget ==
  ASSUME TypeOK, NEW forwards \in BOOLEAN, seekToEnd(forwards)
  PROVE  seekFrame' = AudioLength /\ currentPosition' = AudioLength
<1>1. SeekTarget(forwards) = AudioLength
  BY SeekTargetType, AudioLengthType, MaxTimeAssumption DEF seekToEnd
<1>. QED
  BY <1>1 DEF seekToEnd

(* Seeks change nothing but where the player is.                           *)
LEMMA SeekCases ==
  ASSUME NEW forwards \in BOOLEAN, skipForwards(forwards)
  PROVE  \/ audioFile # NoFile /\ seekIntoFile(forwards)
         \/ audioFile # NoFile /\ seekToEnd(forwards)
         \/ UNCHANGED <<position, callbacks, node, late>>
BY DEF skipForwards

-----------------------------------------------------------------------------
LEMMA TypeStep ==
  TypeOK /\ [Next]_vars => TypeOK'
<1>. SUFFICES ASSUME TypeOK, [Next]_vars PROVE TypeOK'
  OBVIOUS
<1>0. UserCall => acts' \in 0..MaxActs /\ ~raised
  BY BoundAssumption DEF UserCall, TypeOK
<1>1. CASE setupFails
  BY <1>0, <1>1 DEF setupFails, TypeOK, player, display, position
<1>2. ASSUME NEW f \in Files, setupAudioUrl(f) PROVE TypeOK'
  <2>1. WithFile(f) \in Nodes(Files)
    BY WithFileType
  <2>2. running' \in BOOLEAN /\ late' \in BOOLEAN
    BY <1>2 DEF setupAudioUrl, TypeOK, EndUnseen, SkippedToEnd, PlayedToEnd
  <2>3. needsFileScheduled' \in BOOLEAN /\ isPlayerReady' \in BOOLEAN
    BY <1>2 DEF setupAudioUrl, scheduleAudioFile, TypeOK
  <2>4. seekFrame' \in 0..MaxTime /\ node' \in Nodes(Files)
    BY <1>2, <2>1, MaxTimeAssumption
       DEF setupAudioUrl, scheduleAudioFile, TypeOK
  <2>. QED
    BY <1>0, <1>2, <2>2, <2>3, <2>4 DEF setupAudioUrl, TypeOK, display
<1>3. CASE playOrPause
  <2>1. isPlaying' \in BOOLEAN /\ late' \in BOOLEAN
    BY <1>3 DEF playOrPause, TypeOK, EndUnseen, SkippedToEnd, PlayedToEnd
  <2>2. CASE pausePlayer
    <3>1. node' \in Nodes(Files)
      BY <2>2, PlayPauseType DEF pausePlayer, TypeOK
    <3>. QED
      BY <1>0, <1>3, <2>1, <2>2, <3>1
         DEF pausePlayer, playOrPause, TypeOK, player
  <2>3. CASE startPlayer
    <3>1. node' \in Nodes(Files)
      BY <2>3, PlayPauseType, WithFileType DEF startPlayer, TypeOK
    <3>2. needsFileScheduled' \in BOOLEAN /\ raised' \in BOOLEAN
      BY <2>3 DEF startPlayer, scheduleAudioFile, TypeOK
    <3>3. seekFrame' \in 0..MaxTime
      BY <2>3, MaxTimeAssumption DEF startPlayer, scheduleAudioFile, TypeOK
    <3>4. linkPaused' \in BOOLEAN /\ tap' \in BOOLEAN
      BY <2>3, TappedAssumption DEF startPlayer
    <3>. QED
      BY <1>0, <1>3, <2>1, <3>1, <3>2, <3>3, <3>4
         DEF playOrPause, TypeOK, player
  <2>. QED
    BY <1>3, <2>2, <2>3 DEF playOrPause
<1>4. ASSUME NEW forwards \in BOOLEAN, skipForwards(forwards) PROVE TypeOK'
  <2>1. UNCHANGED <<player, display, raised, crossed>> /\ UserCall
    BY <1>4 DEF skipForwards
  <2>2. CASE audioFile # NoFile /\ seekIntoFile(forwards)
    <3>1. late' \in BOOLEAN /\ needsFileScheduled' \in BOOLEAN
      BY <2>2 DEF seekIntoFile, TypeOK, EndUnseen, SkippedToEnd, PlayedToEnd
    <3>. QED
      BY <1>0, <2>1, <2>2, <3>1, SeekQueue DEF TypeOK, player, display
  <2>3. CASE audioFile # NoFile /\ seekToEnd(forwards)
    <3>1. callbacks' \in Nat
      BY <2>3, NodeFields DEF seekToEnd, TypeOK
    <3>. QED
      BY <1>0, <2>1, <2>3, <3>1, SeekToEndTarget, AudioLengthType, StoppedNodeType
         DEF seekToEnd, TypeOK, player, display
  <2>4. CASE UNCHANGED <<position, callbacks, node, late>>
    BY <1>0, <2>1, <2>4 DEF TypeOK, player, display, position
  <2>. QED
    BY <1>4, <2>2, <2>3, <2>4, SeekCases
<1>5. CASE updateDisplay
  <2>1. /\ UNCHANGED <<player, needsFileScheduled, raised, acts, crossed>>
    BY <1>5 DEF updateDisplay
  <2>2. CASE showEnd
    <3>1. callbacks' \in Nat
      BY <2>2, NodeFields DEF showEnd, TypeOK
    <3>2. /\ isPlaying' \in BOOLEAN /\ linkPaused' \in BOOLEAN
          /\ tap' \in BOOLEAN /\ late' \in BOOLEAN
      BY <2>2 DEF showEnd
    <3>3. /\ node' \in Nodes(Files)
          /\ seekFrame' \in 0..MaxTime /\ currentPosition' \in 0..MaxTime
      BY <2>2, StoppedNodeType, MaxTimeAssumption DEF showEnd
    <3>. QED
      BY <2>1, <3>1, <3>2, <3>3 DEF TypeOK, player
  <2>3. CASE /\ currentPosition' =
                  DisplayedPosition(node, seekFrame, AudioLength)
             /\ UNCHANGED <<display, seekFrame, node, callbacks, late>>
    <3>1. SampleTime(node) \in Nat
      BY NodeFields, MaxTimeAssumption DEF SampleTime, TypeOK
    <3>2. currentPosition' \in 0..MaxTime
      BY <2>3, <3>1, AudioLengthType, MaxTimeAssumption
         DEF DisplayedPosition, TypeOK
    <3>. QED
      BY <2>1, <2>3, <3>2 DEF TypeOK, player, display
  <2>. QED
    BY <1>5, <2>2, <2>3 DEF updateDisplay
<1>6. CASE Render
  <2>1. node' \in Nodes(Files) /\ callbacks' \in Nat
    BY <1>6, RenderedType DEF Render, TypeOK
  <2>. QED
    BY <1>6, <2>1 DEF Render, TypeOK, player, display, position
<1>7. CASE completionHandler
  <2>1. callbacks' \in Nat /\ crossed' \in BOOLEAN
    BY <1>7 DEF completionHandler, TypeOK
  <2>. QED
    BY <1>7, <2>1 DEF completionHandler, TypeOK, player, display
<1>8. CASE UNCHANGED vars
  BY <1>8 DEF TypeOK, vars, player, display, position
<1>. QED
  BY <1>1, <1>2, <1>3, <1>4, <1>5, <1>6, <1>7, <1>8 DEF Next

(* The state is well typed; no position or clock leaves its range.         *)
THEOREM TypeCorrect == Spec => []TypeOK
<1>1. Init => TypeOK
  <2>. SUFFICES ASSUME Init PROVE TypeOK
    OBVIOUS
  <2>1. /\ isPlaying \in BOOLEAN /\ isPlayerReady \in BOOLEAN
        /\ needsFileScheduled \in BOOLEAN /\ linkPaused \in BOOLEAN
        /\ tap \in BOOLEAN /\ running \in BOOLEAN /\ raised \in BOOLEAN
        /\ late \in BOOLEAN /\ crossed \in BOOLEAN
    BY DEF Init
  <2>2. 0 \in 0..MaxTime /\ 0 \in 0..MaxActs
    BY BoundAssumption, MaxTimeAssumption
  <2>3. node \in Nodes(Files)
    BY StoppedNodeType DEF Init
  <2>. QED
    BY <2>1, <2>2, <2>3 DEF Init, TypeOK
<1>. QED
  BY <1>1, TypeStep, PTL DEF Spec

-----------------------------------------------------------------------------
(* Every step of the system, one disjunct per branch of an action of Next. *)
LEMMA StepCases ==
  ASSUME [Next]_vars
  PROVE  \/ \E f \in Files : setupAudioUrl(f)
         \/ playOrPause /\ node.playing /\ pausePlayer
         \/ playOrPause /\ ~node.playing /\ startPlayer
         \/ \E forwards \in BOOLEAN :
              skipForwards(forwards) /\ audioFile # NoFile
                /\ seekIntoFile(forwards)
         \/ \E forwards \in BOOLEAN :
              skipForwards(forwards) /\ audioFile # NoFile
                /\ seekToEnd(forwards)
         \/ updateDisplay /\ showEnd
         \/ updateDisplay
              /\ UNCHANGED <<display, seekFrame, node, callbacks, late>>
              /\ ~(DisplayedPosition(node, seekFrame, AudioLength) >= AudioLength)
         \/ Render
         \/ completionHandler
         \/ UNCHANGED <<player, display, position, node, callbacks, raised,
                        late, crossed>>
<1>1. ASSUME NEW forwards \in BOOLEAN, skipForwards(forwards)
      PROVE  \/ audioFile # NoFile /\ seekIntoFile(forwards)
             \/ audioFile # NoFile /\ seekToEnd(forwards)
             \/ UNCHANGED <<player, display, position, node, callbacks, raised,
                            late, crossed>>
  BY <1>1, SeekCases DEF skipForwards
<1>2. CASE playOrPause
  BY <1>2 DEF playOrPause
<1>3. CASE updateDisplay
  BY <1>3 DEF updateDisplay
<1>4. CASE UNCHANGED vars
  BY <1>4 DEF vars
<1>. QED
  BY <1>1, <1>2, <1>3, <1>4 DEF Next, setupFails

(* What setupAudioUrl: and the starting branch of playOrPause do to the    *)
(* node: nothing, or they queue the whole file behind what is queued.      *)
LEMMA SetupNode ==
  ASSUME TypeOK, NEW f \in Files, setupAudioUrl(f)
  PROVE  /\ node'.playing = node.playing
         /\ \/ UNCHANGED <<node, seekFrame, needsFileScheduled>>
            \/ Schedules(f) /\ node' = WithFile(f)
               /\ seekFrame' = 0 /\ ~needsFileScheduled'
<1>1. CASE ~running'
  BY <1>1 DEF setupAudioUrl
<1>2. CASE running' /\ ~Schedules(f)
  BY <1>2, WithFileType DEF setupAudioUrl, scheduleAudioFile, TypeOK
<1>3. CASE running' /\ Schedules(f)
  BY <1>3, WithFileType DEF setupAudioUrl, scheduleAudioFile
<1>. QED
  BY <1>1, <1>2, <1>3

LEMMA StartNode ==
  ASSUME TypeOK, ~node.playing, startPlayer
  PROVE  /\ node'.playing \/ raised'
         /\ node'.time = node.time
         /\ \/ node'.queue = node.queue
               /\ UNCHANGED <<seekFrame, needsFileScheduled>>
            \/ Schedules(audioFile) /\ node'.queue = WithFile(audioFile).queue
               /\ seekFrame' = 0 /\ ~needsFileScheduled'
<1>. DEFINE n == WithFile(audioFile)
<1>1. /\ n \in Nodes(Files) /\ n.time = node.time
      /\ ~Schedules(audioFile) => n = node
  BY WithFileType DEF TypeOK
<1>. HIDE DEF n
<1>2. /\ Play(n).playing /\ Play(n).time = n.time /\ Play(n).queue = n.queue
  BY <1>1, PlayPauseType, Zenon
<1>3. CASE Tapped /\ tap
  BY <1>3 DEF startPlayer
<1>4. CASE ~(Tapped /\ tap)
  <2>1. /\ scheduleAudioFile(audioFile)
        /\ raised' = ~running
        /\ node' = IF running THEN Play(n) ELSE n
    BY <1>4 DEF startPlayer, n
  <2>2. node'.playing \/ raised'
    BY <1>2, <2>1
  <2>3. node'.time = node.time /\ node'.queue = n.queue
    BY <1>1, <1>2, <2>1
  <2>4. CASE Schedules(audioFile)
    BY <2>1, <2>2, <2>3, <2>4 DEF scheduleAudioFile, n
  <2>5. CASE ~Schedules(audioFile)
    BY <1>1, <2>1, <2>2, <2>3, <2>5 DEF scheduleAudioFile, TypeOK
  <2>. QED
    BY <2>4, <2>5
<1>. QED
  BY <1>3, <1>4

-----------------------------------------------------------------------------
(* Play can always start something: the need to schedule the file is never *)
(* lost between stopped stretches, consumed stretches and late handlers.   *)
THEOREM PlayerRestartable == Spec => []Restartable
<1>1. Init => Restartable
  BY DEF Init, Restartable
<1>2. TypeOK /\ Restartable /\ [Next]_vars => Restartable'
  <2>. SUFFICES ASSUME TypeOK, Restartable, [Next]_vars PROVE Restartable'
    OBVIOUS
  <2>0. /\ node \in Nodes(Files) /\ callbacks \in Nat /\ Len(node.queue) \in Nat
        /\ node.queue = <<>> <=> Len(node.queue) = 0
    BY NodeFields DEF TypeOK
  <2>1. ASSUME NEW f \in Files, setupAudioUrl(f) PROVE Restartable'
    <3>1. UNCHANGED callbacks
      BY <2>1 DEF setupAudioUrl
    <3>. QED
      BY <2>1, <3>1, SetupNode, WithFileType DEF Restartable
  <2>2. CASE playOrPause /\ node.playing /\ pausePlayer
    BY <2>0, <2>2, PlayPauseType DEF playOrPause, pausePlayer, Restartable
  <2>3. CASE playOrPause /\ ~node.playing /\ startPlayer
    <3>1. UNCHANGED callbacks
      BY <2>3 DEF playOrPause
    <3>2. audioFile \in Files \cup {NoFile}
      BY DEF TypeOK
    <3>. QED
      BY <2>3, <3>1, <3>2, StartNode, WithFileType DEF Restartable
  <2>4. ASSUME NEW forwards \in BOOLEAN, audioFile # NoFile,
               seekIntoFile(forwards)
        PROVE  Restartable'
    BY <2>4, SeekQueue DEF Restartable
  <2>5. ASSUME \/ \E forwards \in BOOLEAN : seekToEnd(forwards)
               \/ updateDisplay /\ showEnd
        PROVE  Restartable'
    <3>1. /\ callbacks' = callbacks + Len(node.queue)
          /\ UNCHANGED needsFileScheduled
      BY <2>5 DEF seekToEnd, updateDisplay, showEnd
    <3>. QED
      BY <2>0, <3>1 DEF Restartable
  <2>6. CASE /\ updateDisplay
             /\ UNCHANGED <<display, seekFrame, node, callbacks, late>>
    BY <2>6 DEF updateDisplay, Restartable
  <2>7. CASE Render
    BY <2>0, <2>7, RenderedType DEF Render, Restartable, position
  <2>8. CASE completionHandler
    BY <2>8 DEF completionHandler, Restartable
  <2>9. CASE UNCHANGED <<player, display, position, node, callbacks, raised,
                         late, crossed>>
    BY <2>9 DEF Restartable, position
  <2>. QED
    BY <2>1, <2>2, <2>3, <2>4, <2>5, <2>6, <2>7, <2>8, <2>9, StepCases
<1>. QED
  BY <1>1, <1>2, TypeCorrect, PTL DEF Spec

LEMMA DisplayStep ==
  TypeOK /\ DisplayFollows /\ [Next]_vars => DisplayFollows'
<1>. SUFFICES ASSUME TypeOK, DisplayFollows, [Next]_vars, ~raised'
              PROVE  /\ node'.playing => ~linkPaused'
                     /\ tap' = (Tapped /\ ~linkPaused')
  BY DEF DisplayFollows
<1>0. node \in Nodes(Files) /\ tap \in BOOLEAN /\ linkPaused \in BOOLEAN
  BY DEF TypeOK
<1>1. ASSUME UNCHANGED <<display, raised>>, node'.playing = node.playing
      PROVE  /\ node'.playing => ~linkPaused'
             /\ tap' = (Tapped /\ ~linkPaused')
  BY <1>1 DEF DisplayFollows, display
<1>2. ASSUME NEW f \in Files, setupAudioUrl(f)
      PROVE  UNCHANGED <<display, raised>> /\ node'.playing = node.playing
  BY <1>2, SetupNode DEF setupAudioUrl
<1>3. CASE playOrPause /\ node.playing /\ pausePlayer
  <2>1. ~node'.playing
    BY <1>0, <1>3, PlayPauseType DEF pausePlayer
  <2>. QED
    BY <1>3, <2>1, TappedAssumption DEF pausePlayer
<1>4. CASE playOrPause /\ ~node.playing /\ startPlayer
  BY <1>4, TappedAssumption DEF startPlayer
<1>5. ASSUME NEW forwards \in BOOLEAN, skipForwards(forwards),
             audioFile # NoFile, seekIntoFile(forwards)
      PROVE  UNCHANGED <<display, raised>> /\ node'.playing = node.playing
  BY <1>5, SeekQueue DEF skipForwards
<1>6. ASSUME NEW forwards \in BOOLEAN, skipForwards(forwards),
             seekToEnd(forwards)
      PROVE  /\ node'.playing => ~linkPaused'
             /\ tap' = (Tapped /\ ~linkPaused')
  BY <1>6 DEF skipForwards, seekToEnd, StoppedNode, display, DisplayFollows
<1>7. CASE updateDisplay /\ showEnd
  BY <1>7, TappedAssumption DEF showEnd, StoppedNode
<1>8. CASE /\ updateDisplay
           /\ UNCHANGED <<display, seekFrame, node, callbacks, late>>
  BY <1>1, <1>8 DEF updateDisplay
<1>9. CASE Render
  BY <1>0, <1>1, <1>9, RenderedType DEF Render
<1>10. CASE completionHandler
  BY <1>1, <1>10 DEF completionHandler
<1>11. CASE UNCHANGED <<player, display, position, node, callbacks, raised,
                        late, crossed>>
  BY <1>1, <1>11
<1>. QED
  BY <1>1, <1>2, <1>3, <1>4, <1>5, <1>6, <1>7, <1>8, <1>9, <1>10, <1>11,
     StepCases

(* The display link runs whenever sound comes out, so the end is seen, and *)
(* the tap comes and goes with it.                                         *)
THEOREM DisplayRuns == Spec => []DisplayFollows
<1>1. Init => DisplayFollows
  <2>. SUFFICES ASSUME Init PROVE DisplayFollows
    OBVIOUS
  <2>1. node.playing = FALSE
    BY DEF Init, StoppedNode
  <2>2. isPlaying = FALSE /\ linkPaused = TRUE /\ tap = FALSE
    BY DEF Init
  <2>. QED
    BY <2>1, <2>2, TappedAssumption DEF DisplayFollows
<1>. QED
  BY <1>1, DisplayStep, TypeCorrect, PTL DEF Spec

LEMMA ShownStep ==
  TypeOK /\ ShownIsPlaying /\ [Next]_vars => ShownIsPlaying'
<1>. SUFFICES ASSUME TypeOK, ShownIsPlaying, [Next]_vars,
                     ~raised', ~late'
              PROVE  /\ isPlaying' = ~linkPaused'
                     /\ \/ isPlaying' = node'.playing
                        \/ /\ isPlaying' /\ ~node'.playing
                           /\ seekFrame' = AudioLength'
  BY DEF ShownIsPlaying, SkippedToEnd
<1>. DEFINE Goal == /\ isPlaying' = ~linkPaused'
                    /\ \/ isPlaying' = node'.playing
                       \/ /\ isPlaying' /\ ~node'.playing
                          /\ seekFrame' = AudioLength'
<1>0. /\ node \in Nodes(Files) /\ node.playing \in BOOLEAN
      /\ isPlaying \in BOOLEAN /\ linkPaused \in BOOLEAN
  BY NodeFields DEF TypeOK
<1>1. ASSUME ~raised, ~late
      PROVE  /\ isPlaying = ~linkPaused
             /\ \/ isPlaying = node.playing
                \/ SkippedToEnd /\ seekFrame = AudioLength
  BY <1>1 DEF ShownIsPlaying
<1>2. ASSUME ~raised, late' = (late \/ EndUnseen),
             UNCHANGED display, node'.playing = node.playing
      PROVE  Goal
  <2>1. ~late /\ ~SkippedToEnd
    BY <1>2 DEF EndUnseen
  <2>. QED
    BY <1>1, <1>2, <2>1 DEF display
<1>3. ASSUME NEW f \in Files, setupAudioUrl(f) PROVE Goal
  BY <1>2, <1>3, SetupNode DEF setupAudioUrl, UserCall
<1>4. CASE playOrPause /\ node.playing /\ pausePlayer
  <2>1. ~raised /\ ~late /\ node'.playing = FALSE
    BY <1>0, <1>4 DEF playOrPause, pausePlayer, UserCall, Pause
  <2>2. isPlaying
    BY <1>1, <1>4, <2>1 DEF SkippedToEnd
  <2>. QED
    BY <1>4, <2>1, <2>2 DEF playOrPause, pausePlayer
<1>5. CASE playOrPause /\ ~node.playing /\ startPlayer
  <2>1. ~raised /\ ~late /\ ~SkippedToEnd
    BY <1>5 DEF playOrPause, UserCall, EndUnseen
  <2>2. ~isPlaying
    BY <1>5, <2>1 DEF SkippedToEnd
  <2>3. node'.playing /\ node'.playing \in BOOLEAN
    <3>1. node'.playing
      BY <1>5, StartNode
    <3>2. node' \in Nodes(Files)
      BY <1>5, WithFileType, PlayPauseType DEF startPlayer, TypeOK
    <3>. QED
      BY <3>1, <3>2, NodeFields
  <2>. QED
    BY <1>0, <1>5, <2>2, <2>3 DEF playOrPause, startPlayer
<1>6. ASSUME NEW forwards \in BOOLEAN, skipForwards(forwards),
             audioFile # NoFile, seekIntoFile(forwards)
      PROVE  Goal
  BY <1>2, <1>6, SeekQueue DEF skipForwards, seekIntoFile, UserCall
<1>7. ASSUME NEW forwards \in BOOLEAN, skipForwards(forwards),
             seekToEnd(forwards)
      PROVE  Goal
  <2>1. ~raised /\ ~late
    BY <1>7 DEF skipForwards, UserCall, seekToEnd
  <2>2. ~node'.playing /\ node'.playing = FALSE
    BY <1>7 DEF seekToEnd, StoppedNode
  <2>3. seekFrame' = AudioLength'
    BY <1>7, SeekToEndTarget DEF skipForwards, AudioLength, player
  <2>4. UNCHANGED display
    BY <1>7 DEF skipForwards
  <2>. QED
    BY <1>0, <1>1, <2>1, <2>2, <2>3, <2>4 DEF display
<1>8. CASE updateDisplay /\ showEnd
  BY <1>8 DEF showEnd, StoppedNode
<1>9. ASSUME ~raised, ~late, UNCHANGED <<display, seekFrame, audioFile>>,
             node'.playing = node.playing
      PROVE  Goal
  BY <1>1, <1>9 DEF display, SkippedToEnd, AudioLength
<1>10. CASE /\ updateDisplay
            /\ UNCHANGED <<display, seekFrame, node, callbacks, late>>
  BY <1>9, <1>10 DEF updateDisplay, player
<1>11. CASE Render
  BY <1>0, <1>9, <1>11, RenderedType DEF Render, player, position
<1>12. CASE completionHandler
  BY <1>9, <1>12 DEF completionHandler, player
<1>13. CASE UNCHANGED <<player, display, position, node, callbacks, raised,
                        late, crossed>>
  BY <1>9, <1>13 DEF player, position
<1>. QED
  BY <1>3, <1>4, <1>5, <1>6, <1>7, <1>8, <1>10, <1>11, <1>12, <1>13,
     StepCases

(* The view, the display link and the node agree, outside the window that  *)
(* a skip to the end opens.                                                *)
THEOREM ShownIsTrue == Spec => []ShownIsPlaying
<1>1. Init => ShownIsPlaying
  <2>. SUFFICES ASSUME Init PROVE ShownIsPlaying
    OBVIOUS
  <2>1. node.playing = FALSE
    BY DEF Init, StoppedNode
  <2>2. isPlaying = FALSE /\ linkPaused = TRUE /\ tap = FALSE
    BY DEF Init
  <2>. QED
    BY <2>1, <2>2, TappedAssumption DEF ShownIsPlaying
<1>. QED
  BY <1>1, ShownStep, TypeCorrect, PTL DEF Spec

-----------------------------------------------------------------------------
(* A player that is ready has a running engine: configureEngine sets the   *)
(* flag last, and nothing stops the engine.                                *)
ReadyRuns == isPlayerReady => running

LEMMA ReadyStep ==
  TypeOK /\ ReadyRuns /\ [Next]_vars => ReadyRuns'
<1>. SUFFICES ASSUME TypeOK, ReadyRuns, [Next]_vars PROVE ReadyRuns'
  OBVIOUS
<1>1. ASSUME NEW f \in Files, setupAudioUrl(f) PROVE ReadyRuns'
  <2>1. CASE running'
    BY <2>1 DEF ReadyRuns
  <2>2. CASE ~running'
    <3>1. running' \in {TRUE, running} /\ UNCHANGED isPlayerReady
      BY <1>1, <2>2 DEF setupAudioUrl
    <3>2. running' # TRUE
      BY <2>2
    <3>3. running' = running
      BY <3>1, <3>2, Zenon
    <3>4. ~running
      BY <2>2, <3>3, Zenon
    <3>. QED
      BY <3>1, <3>4 DEF ReadyRuns
  <2>. QED
    BY <2>1, <2>2
<1>2. CASE UNCHANGED player
  BY <1>2 DEF ReadyRuns, player
<1>. QED
  BY <1>1, <1>2, StepCases
     DEF playOrPause, skipForwards, updateDisplay, Render, completionHandler

LEMMA ReadyEngineRuns == Spec => []ReadyRuns
<1>1. Init => ReadyRuns
  BY DEF Init, ReadyRuns
<1>. QED
  BY <1>1, ReadyStep, TypeCorrect, PTL DEF Spec

LEMMA SurvivesStep ==
  /\ TypeOK /\ ReadyRuns /\ DisplayFollows /\ ShownIsPlaying
  /\ RaisesOnlyUnready /\ [Next]_vars
  => RaisesOnlyUnready'
<1>. SUFFICES ASSUME TypeOK, ReadyRuns, DisplayFollows, ShownIsPlaying,
                     RaisesOnlyUnready, [Next]_vars
              PROVE  RaisesOnlyUnready'
  OBVIOUS
<1>1. CASE UNCHANGED <<player, raised, late>>
  BY <1>1 DEF RaisesOnlyUnready, player
<1>2. CASE ~raised /\ UNCHANGED raised
  BY <1>2 DEF RaisesOnlyUnready
<1>3. CASE playOrPause /\ ~node.playing /\ startPlayer
  <2>. SUFFICES ASSUME raised', isPlayerReady' PROVE Tapped /\ late'
    BY DEF RaisesOnlyUnready
  <2>1. ~raised /\ running
    BY <1>3 DEF playOrPause, UserCall, ReadyRuns, player
  <2>2. Tapped /\ tap
    BY <1>3, <2>1 DEF startPlayer
  <2>3. ~linkPaused
    BY <2>1, <2>2 DEF DisplayFollows
  <2>4. late \/ isPlaying
    BY <2>1, <2>3 DEF ShownIsPlaying, TypeOK
  <2>. QED
    BY <1>3, <2>2, <2>4 DEF playOrPause, EndUnseen, SkippedToEnd
<1>. QED
  BY <1>1, <1>2, <1>3, StepCases
     DEF setupAudioUrl, playOrPause, pausePlayer, skipForwards, UserCall,
         updateDisplay, Render, completionHandler

(* The only exceptions are play before the engine runs and, with the tap,  *)
(* a call in the window between a skip to the end and its display.         *)
THEOREM ReadyPlayerSurvives == Spec => []RaisesOnlyUnready
<1>1. Init => RaisesOnlyUnready
  BY DEF Init, RaisesOnlyUnready
<1>. QED
  BY <1>1, SurvivesStep, TypeCorrect, ReadyEngineRuns, DisplayRuns, ShownIsTrue, PTL
     DEF Spec

-----------------------------------------------------------------------------
(* The file is never queued twice unless a late handler asked for it.      *)
THEOREM FileQueuedOnce == Spec => []QueuedOnce
<1>1. Init => QueuedOnce
  BY DEF Init, QueuedOnce, StoppedNode
<1>2. TypeOK /\ QueuedOnce /\ [Next]_vars => QueuedOnce'
  <2>. SUFFICES ASSUME TypeOK, QueuedOnce, [Next]_vars, ~crossed'
                PROVE  /\ Len(node'.queue) <= 1
                       /\ needsFileScheduled' => node'.queue = <<>>
    BY DEF QueuedOnce
  <2>0. /\ node \in Nodes(Files) /\ Len(node.queue) \in Nat
        /\ node.queue = <<>> <=> Len(node.queue) = 0
    BY NodeFields DEF TypeOK
  <2>1. ~crossed
    BY StepCases DEF TypeOK, setupAudioUrl, playOrPause, skipForwards,
                     updateDisplay, Render, completionHandler
  <2>2. Len(node.queue) <= 1 /\ (needsFileScheduled => node.queue = <<>>)
    BY <2>1 DEF QueuedOnce
  <2>3. ASSUME NEW f \in Files \cup {NoFile}, Schedules(f)
        PROVE  Len(WithFile(f).queue) = 1
    <3>1. Len(node.queue) = 0
      BY <2>0, <2>2, <2>3 DEF Schedules
    <3>. QED
      BY <2>3, <3>1, WithFileType
  <2>4. ASSUME NEW f \in Files, setupAudioUrl(f)
        PROVE  /\ Len(node'.queue) <= 1
               /\ needsFileScheduled' => node'.queue = <<>>
    <3>1. CASE UNCHANGED <<node, seekFrame, needsFileScheduled>>
      BY <2>2, <3>1
    <3>2. CASE /\ Schedules(f) /\ node' = WithFile(f)
               /\ seekFrame' = 0 /\ ~needsFileScheduled'
      <4>1. Len(node'.queue) = 1
        BY <2>3, <3>2
      <4>. QED
        BY <3>2, <4>1
    <3>. QED
      BY <2>4, <3>1, <3>2, SetupNode
  <2>5. CASE playOrPause /\ node.playing /\ pausePlayer
    BY <2>0, <2>2, <2>5, PlayPauseType DEF pausePlayer
  <2>6. CASE playOrPause /\ ~node.playing /\ startPlayer
    <3>1. audioFile \in Files \cup {NoFile}
      BY DEF TypeOK
    <3>2. CASE /\ node'.queue = node.queue
               /\ UNCHANGED <<seekFrame, needsFileScheduled>>
      BY <2>2, <3>2
    <3>3. CASE /\ Schedules(audioFile)
               /\ node'.queue = WithFile(audioFile).queue
               /\ seekFrame' = 0 /\ ~needsFileScheduled'
      <4>1. Len(node'.queue) = 1
        BY <2>3, <3>1, <3>3
      <4>. QED
        BY <3>3, <4>1
    <3>. QED
      BY <2>6, <3>2, <3>3, StartNode
  <2>7. ASSUME NEW forwards \in BOOLEAN, audioFile # NoFile,
               seekIntoFile(forwards)
        PROVE  Len(node'.queue) = 1 /\ ~needsFileScheduled'
    BY <2>7, SeekQueue DEF seekIntoFile
  <2>8. ASSUME \/ \E forwards \in BOOLEAN : seekToEnd(forwards)
               \/ updateDisplay /\ showEnd
        PROVE  Len(node'.queue) = 0 /\ node'.queue = <<>>
    BY <2>8 DEF seekToEnd, showEnd, StoppedNode
  <2>9. CASE Render
    <3>1. node' = Rendered(node) /\ UNCHANGED needsFileScheduled
      BY <2>9 DEF Render, position
    <3>. QED
      BY <2>0, <2>2, <3>1, RenderedType, NodeFields DEF Consumes
  <2>10. CASE completionHandler
    BY <2>2, <2>10 DEF completionHandler
  <2>11. CASE UNCHANGED <<node, needsFileScheduled>>
    BY <2>2, <2>11
  <2>12. CASE \E forwards \in BOOLEAN :
               skipForwards(forwards) /\ audioFile # NoFile
                 /\ seekIntoFile(forwards)
    <3>1. Len(node'.queue) = 1 /\ ~needsFileScheduled'
      BY <2>7, <2>12
    <3>. QED
      BY <3>1
  <2>13. CASE \/ \E forwards \in BOOLEAN : seekToEnd(forwards)
              \/ updateDisplay /\ showEnd
    <3>1. Len(node'.queue) = 0 /\ node'.queue = <<>>
      BY <2>8, <2>13
    <3>. QED
      BY <3>1
  <2>14. CASE /\ updateDisplay
              /\ UNCHANGED <<display, seekFrame, node, callbacks, late>>
    BY <2>11, <2>14 DEF updateDisplay
  <2>15. CASE UNCHANGED <<player, display, position, node, callbacks, raised,
                          late, crossed>>
    BY <2>11, <2>15 DEF position
  <2>. QED
    BY <2>4, <2>5, <2>6, <2>9, <2>10, <2>12, <2>13, <2>14, <2>15, StepCases
<1>. QED
  BY <1>1, <1>2, TypeCorrect, PTL DEF Spec

(* The head of the queue is where the display puts it, playing or paused,  *)
(* and ends within the clock's range; the inductive form of ShownIsHeard.  *)
HeardInv ==
  node.queue # <<>> /\ ~crossed /\ ~late
    => /\ Head(node.queue).start = seekFrame + node.time
       /\ Head(node.queue).start + Head(node.queue).count <= MaxTime

(* What the display shows is what is heard, but for the two races.         *)
THEOREM ShownPositionHeard == Spec => []ShownIsHeard
<1>1. Init => HeardInv
  BY DEF Init, HeardInv, StoppedNode
<1>2. TypeOK /\ QueuedOnce /\ HeardInv /\ [Next]_vars => HeardInv'
  <2>. SUFFICES ASSUME TypeOK, QueuedOnce, HeardInv, [Next]_vars,
                       node'.queue # <<>>, ~crossed', ~late'
                PROVE  /\ Head(node'.queue).start = seekFrame' + node'.time
                       /\ Head(node'.queue).start + Head(node'.queue).count
                            <= MaxTime
    BY DEF HeardInv
  <2>. DEFINE Goal == /\ Head(node'.queue).start = seekFrame' + node'.time
                      /\ Head(node'.queue).start + Head(node'.queue).count
                           <= MaxTime
  <2>0. /\ node \in Nodes(Files) /\ Len(node.queue) \in Nat
        /\ node.queue = <<>> <=> Len(node.queue) = 0
        /\ node.time \in 0..MaxTime
    BY NodeFields DEF TypeOK
  <2>1. ~crossed
    BY StepCases DEF TypeOK, setupAudioUrl, playOrPause, skipForwards,
                     updateDisplay, Render, completionHandler
  <2>2. ASSUME ~late, UNCHANGED seekFrame,
               node'.queue = node.queue, node'.time = node.time
        PROVE  Goal
    BY <2>1, <2>2 DEF HeardInv
  <2>3. ASSUME NEW f \in Files \cup {NoFile}, Schedules(f), ~EndUnseen,
               node'.queue = WithFile(f).queue, node'.time = node.time,
               seekFrame' = 0
        PROVE  Goal
    <3>1. node.queue = <<>>
      BY <2>1, <2>3 DEF QueuedOnce, Schedules
    <3>2. node.time = 0
      BY <2>0, <2>3, <3>1, MaxTimeAssumption DEF EndUnseen, PlayedToEnd
    <3>3. /\ Head(WithFile(f).queue).start = 0
          /\ Head(WithFile(f).queue).count <= MaxTime
          /\ WithFile(f) \in Nodes(Files) /\ WithFile(f).queue # <<>>
      BY <2>3, <3>1, WithFileType
    <3>4. Head(WithFile(f).queue) \in Stretches(Files)
      BY <3>3, NodeFields, HeadTailProperties
    <3>5. Head(WithFile(f).queue).count \in Nat
      BY <3>4 DEF Stretches
    <3>. QED
      BY <2>3, <3>2, <3>3, <3>5, MaxTimeAssumption
  <2>4. ASSUME NEW f \in Files, setupAudioUrl(f) PROVE Goal
    <3>1. ~late /\ ~EndUnseen
      BY <2>4 DEF setupAudioUrl
    <3>2. Schedules(f) => WithFile(f).time = node.time
      BY WithFileType
    <3>. QED
      BY <2>2, <2>3, <2>4, <3>1, <3>2, SetupNode
  <2>5. CASE playOrPause /\ node.playing /\ pausePlayer
    BY <2>0, <2>2, <2>5, PlayPauseType DEF playOrPause, pausePlayer
  <2>6. CASE playOrPause /\ ~node.playing /\ startPlayer
    <3>1. ~late /\ ~EndUnseen /\ audioFile \in Files \cup {NoFile}
      BY <2>6 DEF playOrPause, TypeOK
    <3>. QED
      BY <2>2, <2>3, <2>6, <3>1, StartNode
  <2>7. ASSUME NEW forwards \in BOOLEAN, audioFile # NoFile,
               seekIntoFile(forwards)
        PROVE  Goal
    BY <2>7, SeekQueue, MaxTimeAssumption
  <2>8. ASSUME \/ \E forwards \in BOOLEAN : seekToEnd(forwards)
               \/ updateDisplay /\ showEnd
        PROVE  FALSE
    BY <2>8 DEF seekToEnd, showEnd, StoppedNode
  <2>. HIDE DEF Goal
  <2>9. ASSUME Render PROVE Goal
    <3>1. node' = Rendered(node) /\ UNCHANGED seekFrame /\ ~late
      BY <2>9 DEF Render, position
    <3>2. node.queue # <<>>
      BY <2>0, <3>1, RenderedType
    <3>3. Len(node.queue) <= 1
      BY <2>1 DEF QueuedOnce
    <3>4. ~Consumes(node)
      BY <2>0, <3>1, <3>3, RenderedType
    <3>5. /\ Head(node'.queue).start = Head(node.queue).start + 1
          /\ Head(node'.queue).start + Head(node'.queue).count
               = Head(node.queue).start + Head(node.queue).count
      BY <2>0, <3>1, <3>2, <3>4, RenderedType
    <3>6. node.time < MaxTime => node'.time = node.time + 1
      BY <2>0, <3>1, RenderedType
    <3>7. Head(node.queue) \in Stretches(Files)
      BY <2>0, <3>2, NodeFields, HeadTailProperties
    <3>8. Head(node.queue).start \in Nat /\ Head(node.queue).count \in Nat \ {0}
      BY <3>7 DEF Stretches
    <3>9. /\ Head(node.queue).start = seekFrame + node.time
          /\ Head(node.queue).start + Head(node.queue).count <= MaxTime
      BY <2>1, <3>1, <3>2 DEF HeardInv
    <3>10. seekFrame \in Nat
      BY MaxTimeAssumption DEF TypeOK
    <3>11. node.time < MaxTime
      BY <2>0, <3>8, <3>9, <3>10, MaxTimeAssumption
    <3>12. node'.time = node.time + 1 /\ seekFrame' = seekFrame
      BY <3>1, <3>6, <3>11
    <3>13. Head(node'.queue).start = seekFrame' + node'.time
      BY <2>0, <3>5, <3>9, <3>10, <3>12
    <3>. QED
      BY <3>5, <3>9, <3>13 DEF Goal
  <2>10. ASSUME UNCHANGED <<node, seekFrame, late>> PROVE Goal
    BY <2>2, <2>10
  <2>. QED
    BY <2>4, <2>5, <2>6, <2>7, <2>8, <2>9, <2>10, StepCases
       DEF completionHandler, position, Goal
<1>3. HeardInv => ShownIsHeard
  BY DEF HeardInv, ShownIsHeard
<1>. QED
  BY <1>1, <1>2, <1>3, TypeCorrect, FileQueuedOnce, PTL DEF Spec

-----------------------------------------------------------------------------
(* The cache of PlayerViewModel2: less than a chunk is left between        *)
(* buffers, and what the loop is about to take is there unless the cache   *)
(* was replaced.                                                           *)
CacheInv ==
  /\ LeftoverBelowChunk
  /\ block = "take" => pcmCache >= Chunk \/ replaced

(* Every step of PlayerViewModel2 is one of the transport or leaves it     *)
(* alone, but for a block that finds its chunk gone.                       *)
LEMMA TransportSteps ==
  ASSUME [Next2]_vars2
  PROVE  \/ [Next]_vars
         \/ /\ takeChunk /\ pcmCache < Chunk /\ raised'
            /\ UNCHANGED <<player, display, position, node, callbacks, acts,
                           late, crossed>>
<1>1. ASSUME NEW n \in Buffers, tapBuffer(n) PROVE UNCHANGED vars
  BY <1>1 DEF tapBuffer, vars
<1>2. CASE testCache
  BY <1>2 DEF testCache, vars
<1>3. CASE takeChunk
  BY <1>3 DEF takeChunk, vars
<1>. QED
  BY <1>1, <1>2, <1>3
  DEF Next2, vars2, playOrPause2, skipForwards2, updateDisplay2, Render2,
      completionHandler2, Next

LEMMA TypeInit2 == Init2 => TypeOK2
<1>. SUFFICES ASSUME Init2 PROVE TypeOK2
  OBVIOUS
<1>1. /\ audioFile \in Files \cup {NoFile} /\ running \in BOOLEAN
      /\ running => audioFile \in Files
  BY DEF Init2, setupAudio
<1>2. isPlayerReady \in BOOLEAN /\ needsFileScheduled \in BOOLEAN
  BY <1>1, Zenon DEF Init2
<1>3. node \in Nodes(Files)
  <2>1. CASE running
    <3>1. AudioLength \in Nat \ {0} /\ audioFile \in Files /\ 0 \in Nat
      BY <1>1, <2>1, FileLengths, FilesAssumption DEF AudioLength
    <3>2. Stretch(audioFile, 0, AudioLength) \in Stretches(Files)
      BY <3>1, StretchType
    <3>. QED
      BY <2>1, <3>2, StoppedNodeType, ScheduleType DEF Init2
  <2>2. CASE ~running
    BY <2>2, StoppedNodeType DEF Init2
  <2>. QED
    BY <2>1, <2>2
<1>4. /\ isPlaying \in BOOLEAN /\ linkPaused \in BOOLEAN /\ tap \in BOOLEAN
      /\ raised \in BOOLEAN /\ late \in BOOLEAN /\ crossed \in BOOLEAN
      /\ replaced \in BOOLEAN /\ dropped \in BOOLEAN
  BY Zenon DEF Init2
<1>. QED
  BY <1>1, <1>2, <1>3, <1>4, BoundAssumption, MaxTimeAssumption
  DEF Init2, TypeOK, TypeOK2

LEMMA TypeStep2 == TypeOK2 /\ [Next2]_vars2 => TypeOK2'
<1>. SUFFICES ASSUME TypeOK2, [Next2]_vars2 PROVE TypeOK2'
  OBVIOUS
<1>1. TypeOK'
  <2>1. CASE [Next]_vars
    BY <2>1, TypeStep DEF TypeOK2
  <2>2. CASE /\ raised'
             /\ UNCHANGED <<player, display, position, node, callbacks, acts,
                            late, crossed>>
             /\ takeChunk /\ pcmCache < Chunk
    <3>1. raised' = TRUE
      BY <2>2 DEF takeChunk
    <3>. QED
      BY <2>2, <3>1 DEF TypeOK2, TypeOK, player, display, position
  <2>. QED
    BY <2>1, <2>2, TransportSteps
<1>2. pcmCache' \in Nat /\ block' \in {"out", "loop", "take"}
      /\ replaced' \in BOOLEAN /\ dropped' \in BOOLEAN
  <2>0. /\ pcmCache \in Nat /\ block \in {"out", "loop", "take"}
        /\ replaced \in BOOLEAN /\ dropped \in BOOLEAN /\ Chunk \in Nat \ {0}
        /\ Buffers \subseteq Nat
    BY ChunkAssumption DEF TypeOK2
  <2>1. CASE playOrPause2
    <3>1. replaced' \in BOOLEAN
      BY <2>0, <2>1, Zenon DEF playOrPause2
    <3>. QED
      BY <2>0, <2>1, <3>1 DEF playOrPause2
  <2>2. ASSUME NEW n \in Buffers, tapBuffer(n)
        PROVE  /\ pcmCache' \in Nat /\ block' \in {"out", "loop", "take"}
               /\ replaced' \in BOOLEAN /\ dropped' \in BOOLEAN
    BY <2>0, <2>2 DEF tapBuffer
  <2>3. CASE testCache
    BY <2>0, <2>3 DEF testCache
  <2>4. CASE takeChunk
    BY <2>0, <2>4 DEF takeChunk
  <2>5. CASE UNCHANGED tapState
    BY <2>0, <2>5 DEF tapState
  <2>. QED
    BY <2>1, <2>2, <2>3, <2>4, <2>5
    DEF Next2, vars2, skipForwards2, updateDisplay2, Render2, completionHandler2
<1>. QED
  BY <1>1, <1>2 DEF TypeOK2

(* Every reachable state of PlayerViewModel2 has its type.                 *)
THEOREM ViewModelTypeCorrect == Spec2 => []TypeOK2
BY TypeInit2, TypeStep2, PTL DEF Spec2

LEMMA CacheStep == TypeOK2 /\ CacheInv /\ [Next2]_vars2 => CacheInv'
<1>. SUFFICES ASSUME TypeOK2, CacheInv, [Next2]_vars2 PROVE CacheInv'
  OBVIOUS
<1>0. pcmCache \in Nat /\ Chunk \in Nat \ {0} /\ block \in {"out", "loop", "take"}
  BY ChunkAssumption DEF TypeOK2
<1>1. CASE playOrPause2
  <2>1. CASE node.playing
    <3>1. pcmCache' = pcmCache /\ block' = block
      BY <1>1, <2>1 DEF playOrPause2
    <3>2. replaced' = replaced
      BY <1>1, <2>1, Zenon DEF playOrPause2
    <3>. QED
      BY <3>1, <3>2 DEF CacheInv, LeftoverBelowChunk
  <2>2. CASE ~node.playing
    <3>1. pcmCache' = 0 /\ block' = block
      BY <1>1, <2>2 DEF playOrPause2
    <3>2. block # "out" => replaced'
      BY <1>1, <2>2, Zenon DEF playOrPause2
    <3>. QED
      BY <1>0, <3>1, <3>2 DEF CacheInv, LeftoverBelowChunk
  <2>. QED
    BY <2>1, <2>2
<1>2. ASSUME NEW n \in Buffers, tapBuffer(n) PROVE CacheInv'
  BY <1>0, <1>2 DEF tapBuffer, CacheInv, LeftoverBelowChunk
<1>3. CASE testCache
  BY <1>0, <1>3 DEF testCache, CacheInv, LeftoverBelowChunk
<1>4. CASE takeChunk
  BY <1>0, <1>4 DEF takeChunk, CacheInv, LeftoverBelowChunk
<1>5. CASE UNCHANGED tapState
  BY <1>5 DEF tapState, CacheInv, LeftoverBelowChunk
<1>. QED
  BY <1>1, <1>2, <1>3, <1>4, <1>5
  DEF Next2, vars2, skipForwards2, updateDisplay2, Render2, completionHandler2

(* Between two buffers less than a chunk is left over.                     *)
THEOREM LittleIsLeftOver == Spec2 => []LeftoverBelowChunk
<1>1. Init2 => CacheInv
  BY ChunkAssumption DEF Init2, CacheInv, LeftoverBelowChunk
<1>2. CacheInv => LeftoverBelowChunk
  BY DEF CacheInv
<1>. QED
  BY <1>1, <1>2, TypeInit2, TypeStep2, CacheStep, PTL DEF Spec2

-----------------------------------------------------------------------------
(* What of the transport's invariants holds of PlayerViewModel2 too: all,  *)
(* but that the cache may have been replaced when it raises.               *)
ViewModelInv ==
  /\ TypeOK2 /\ CacheInv
  /\ ReadyRuns /\ DisplayFollows /\ ShownIsPlaying
  /\ RaisesOnlyUnready \/ replaced

LEMMA ViewModelInit == Init2 => ViewModelInv
<1>. SUFFICES ASSUME Init2 PROVE ViewModelInv
  OBVIOUS
<1>1. TypeOK2 /\ CacheInv
  BY TypeInit2, ChunkAssumption DEF Init2, CacheInv, LeftoverBelowChunk
<1>2. ~node.playing
  BY StoppedNodeType DEF Init2, StoppedNode, Schedule
<1>3. isPlaying = FALSE /\ linkPaused = TRUE /\ tap = FALSE /\ raised = FALSE
      /\ isPlayerReady = running
  BY DEF Init2
<1>. QED
  BY <1>1, <1>2, <1>3, TappedAssumption
  DEF ViewModelInv, ReadyRuns, DisplayFollows, ShownIsPlaying, RaisesOnlyUnready,
      TypeOK2, TypeOK, Nodes

LEMMA ReplacedForGood == [Next2]_vars2 /\ replaced => replaced'
BY DEF Next2, vars2, tapState, playOrPause2, skipForwards2, updateDisplay2,
       Render2, completionHandler2, tapBuffer, testCache, takeChunk

LEMMA ViewModelStep == ViewModelInv /\ [Next2]_vars2 => ViewModelInv'
<1>. SUFFICES ASSUME ViewModelInv, [Next2]_vars2 PROVE ViewModelInv'
  OBVIOUS
<1>1. TypeOK2' /\ CacheInv' /\ TypeOK
  BY TypeStep2, CacheStep DEF ViewModelInv, TypeOK2
<1>2. CASE [Next]_vars
  <2>1. ReadyRuns' /\ DisplayFollows' /\ ShownIsPlaying'
    BY <1>1, <1>2, ReadyStep, DisplayStep, ShownStep DEF ViewModelInv
  <2>2. RaisesOnlyUnready' \/ replaced'
    BY <1>1, <1>2, SurvivesStep, ReplacedForGood DEF ViewModelInv
  <2>. QED
    BY <1>1, <2>1, <2>2 DEF ViewModelInv
<1>3. CASE /\ takeChunk /\ pcmCache < Chunk /\ raised'
           /\ UNCHANGED <<player, display, position, node, callbacks, acts,
                          late, crossed>>
  <2>1. replaced'
    <3>1. pcmCache \in Nat /\ Chunk \in Nat /\ block = "take"
      BY <1>3, ChunkAssumption DEF ViewModelInv, TypeOK2, takeChunk
    <3>2. replaced
      BY <1>3, <3>1 DEF ViewModelInv, CacheInv
    <3>. QED
      BY <3>2, ReplacedForGood
  <2>2. ReadyRuns'
    BY <1>3 DEF ViewModelInv, ReadyRuns, player
  <2>3. DisplayFollows' /\ ShownIsPlaying'
    BY <1>3 DEF DisplayFollows, ShownIsPlaying
  <2>. QED
    BY <1>1, <2>1, <2>2, <2>3 DEF ViewModelInv
<1>. QED
  BY <1>2, <1>3, TransportSteps

(* A ready PlayerViewModel2 raises only in the two windows known.          *)
THEOREM ViewModelSurvives == Spec2 => []RaisesOnlyInWindows
<1>1. ViewModelInv => RaisesOnlyInWindows
  BY DEF ViewModelInv, RaisesOnlyUnready, RaisesOnlyInWindows
<1>. QED
  BY <1>1, ViewModelInit, ViewModelStep, PTL DEF Spec2

-----------------------------------------------------------------------------
(* The stretches that belong to file f and end where it ends.              *)
Ending(f) == {s \in Stretches({f}) : s.start + s.count = FileLength(f)}

FileInv == node.queue \in Seq(Ending(audioFile))

LEMMA EndingStretch ==
  ASSUME NEW f \in Files, NEW first \in Nat, first < Length[f]
  PROVE  Stretch(f, first, Length[f] - first) \in Ending(f)
<1>. DEFINE c == Length[f] - first
            s == Stretch(f, first, c)
<1>1. /\ Length[f] \in Nat /\ FileLength(f) = Length[f]
      /\ c \in Nat \ {0} /\ first + c = Length[f]
  BY FilesAssumption, FileLengths
<1>. HIDE DEF c
<1>2. f \in {f}
  OBVIOUS
<1>3. s \in Stretches({f}) /\ s.start = first /\ s.count = c
  BY <1>1, <1>2 DEF Stretch, Stretches
<1>. HIDE DEF s
<1>4. s \in Ending(f)
  BY <1>1, <1>3 DEF Ending
<1>. QED
  BY <1>4 DEF s, c

(* A rendered period leaves the stretches of a queue ending as they did.   *)
LEMMA RenderedEnding ==
  ASSUME NEW f, NEW q \in Seq(Ending(f)), node.queue = q
  PROVE  Rendered(node).queue \in Seq(Ending(f))
<1>0. Rendered(node).queue = RenderedQueue(node)
  BY DEF Rendered
<1>1. CASE node.queue = <<>>
  <2>1. RenderedQueue(node) = <<>>
    BY <1>1 DEF RenderedQueue
  <2>. QED
    BY <1>0, <2>1, EmptySeq
<1>2. CASE node.queue # <<>>
  <2>1. Head(q) \in Ending(f) /\ Tail(q) \in Seq(Ending(f))
    BY <1>2, HeadTailProperties
  <2>2. CASE Consumes(node)
    BY <1>0, <1>2, <2>1, <2>2 DEF RenderedQueue
  <2>3. CASE ~Consumes(node)
    <3>. DEFINE h == Head(q)
    <3>1. /\ h.file = f /\ h.start \in Nat /\ h.count \in Nat \ {0, 1}
          /\ h.start + h.count = FileLength(f)
      BY <1>2, <2>1, <2>3 DEF Ending, Stretches, Consumes
    <3>. HIDE DEF h
    <3>. DEFINE first == h.start + 1
                c == h.count - 1
    <3>2. first \in Nat /\ c \in Nat \ {0} /\ first + c = FileLength(f)
      BY <3>1
    <3>. HIDE DEF first, c
    <3>3. f \in {f}
      OBVIOUS
    <3>. DEFINE s == Stretch(f, first, c)
    <3>4. s \in Stretches({f}) /\ s.start = first /\ s.count = c
      BY <3>2, <3>3 DEF Stretch, Stretches
    <3>. HIDE DEF s
    <3>5. Advanced(h) \in Ending(f)
      <4>1. s \in Ending(f)
        BY <3>2, <3>4 DEF Ending
      <4>2. Advanced(h) = s
        BY <3>1 DEF Advanced, s, first, c
      <4>. QED
        BY <4>1, <4>2
    <3>6. <<Advanced(h)>> \in Seq(Ending(f))
      BY <3>5
    <3>7. <<Advanced(h)>> \o Tail(q) \in Seq(Ending(f))
      BY <2>1, <3>6, ConcatProperties
    <3>. QED
      BY <1>0, <1>2, <2>3, <3>7 DEF RenderedQueue, h
  <2>. QED
    BY <2>2, <2>3
<1>. QED
  BY <1>1, <1>2

(* scheduleAudioFile queues the file from its start to its end.            *)
LEMMA WithFileEnding ==
  ASSUME TypeOK, FileInv
  PROVE  WithFile(audioFile).queue \in Seq(Ending(audioFile))
<1>1. CASE ~Schedules(audioFile)
  BY <1>1 DEF WithFile, FileInv
<1>2. CASE Schedules(audioFile)
  <2>. DEFINE s == Stretch(audioFile, 0, Length[audioFile])
  <2>1. /\ audioFile \in Files /\ 0 \in Nat /\ 0 < Length[audioFile]
        /\ Length[audioFile] - 0 = Length[audioFile]
    BY <1>2, FilesAssumption DEF Schedules, TypeOK
  <2>2. s \in Ending(audioFile)
    BY <2>1, EndingStretch
  <2>3. s \in Stretches(Files)
    BY <2>1, FilesAssumption, StretchType
  <2>4. WithFile(audioFile) = Schedule(node, s) /\ node \in Nodes(Files)
    BY <1>2 DEF WithFile, TypeOK
  <2>. HIDE DEF s
  <2>5. WithFile(audioFile).queue = Append(node.queue, s)
    BY <2>3, <2>4, ScheduleType
  <2>. QED
    BY <2>2, <2>5, AppendProperties DEF FileInv
<1>. QED
  BY <1>1, <1>2

(* A seek into the file queues the rest of it.                             *)
LEMMA SeekEnding ==
  ASSUME TypeOK, audioFile # NoFile,
         NEW forwards \in BOOLEAN, seekIntoFile(forwards)
  PROVE  node'.queue \in Seq(Ending(audioFile))
<1>. DEFINE target == SeekTarget(forwards)
            rest == Stretch(audioFile, target, AudioLength - target)
            queued == Schedule(StoppedNode, rest)
<1>1. /\ target \in 0..AudioLength /\ target < AudioLength
      /\ audioFile \in Files /\ AudioLength = Length[audioFile]
  BY SeekTargetType, FileLengths DEF seekIntoFile, TypeOK, AudioLength
<1>2. AudioLength \in Nat /\ target \in Nat /\ AudioLength - target \in Nat \ {0}
  BY <1>1, AudioLengthType, MaxTimeAssumption
<1>. HIDE DEF target
<1>3. rest \in Ending(audioFile)
  BY <1>1, <1>2, EndingStretch
<1>4. rest \in Stretches(Files)
  BY <1>1, <1>2, StretchType
<1>. HIDE DEF rest
<1>5. StoppedNode \in Nodes(Files) /\ StoppedNode.queue = <<>>
  BY StoppedNodeType DEF StoppedNode
<1>6. queued \in Nodes(Files) /\ queued.queue = Append(<<>>, rest)
  BY <1>4, <1>5, ScheduleType
<1>7. queued.queue \in Seq(Ending(audioFile))
  BY <1>3, <1>6, EmptySeq, AppendProperties
<1>. HIDE DEF queued
<1>8. node' = IF node.playing THEN Play(queued) ELSE queued
  BY DEF seekIntoFile, target, rest, queued
<1>9. Play(queued).queue = queued.queue
  BY <1>6, PlayPauseType
<1>. QED
  BY <1>7, <1>8, <1>9

(* What a step of the transport without a setup does to the queue.         *)
LEMMA FileStep ==
  ASSUME TypeOK2, FileInv, [Next2]_vars2
  PROVE  FileInv'
<1>0. TypeOK /\ node \in Nodes(Files)
  BY DEF TypeOK2, TypeOK
<1>1. audioFile' = audioFile
  BY DEF Next2, vars2, vars, player, playOrPause2, playOrPause, skipForwards2,
         skipForwards, updateDisplay2, updateDisplay, Render2, Render,
         completionHandler2, completionHandler, tapBuffer, testCache, takeChunk
<1>2. node'.queue \in Seq(Ending(audioFile))
  <2>1. StoppedNode.queue \in Seq(Ending(audioFile))
    BY EmptySeq DEF StoppedNode
  <2>2. CASE node' = node
    BY <2>2 DEF FileInv
  <2>3. CASE playOrPause
    <3>1. \/ node' = node \/ node' = Pause(node)
          \/ node' = WithFile(audioFile) \/ node' = Play(WithFile(audioFile))
      BY <2>3 DEF playOrPause, pausePlayer, startPlayer
    <3>2. WithFile(audioFile) \in Nodes(Files)
      BY <1>0, WithFileType DEF TypeOK
    <3>3. /\ Play(WithFile(audioFile)).queue = WithFile(audioFile).queue
          /\ Pause(node).queue = node.queue
      BY <1>0, <3>2, PlayPauseType
    <3>. QED
      BY <1>0, <3>1, <3>3, WithFileEnding DEF FileInv
  <2>4. ASSUME NEW forwards \in BOOLEAN, skipForwards(forwards)
        PROVE  node'.queue \in Seq(Ending(audioFile))
    <3>1. CASE audioFile = NoFile
      BY <2>4, <3>1 DEF skipForwards, FileInv
    <3>2. CASE audioFile # NoFile /\ seekIntoFile(forwards)
      BY <1>0, <3>2, SeekEnding
    <3>3. CASE seekToEnd(forwards)
      BY <2>1, <3>3 DEF seekToEnd
    <3>. QED
      BY <2>4, <3>1, <3>2, <3>3 DEF skipForwards
  <2>5. CASE updateDisplay
    BY <2>1, <2>5 DEF updateDisplay, showEnd, FileInv
  <2>6. CASE Render
    BY <2>6, RenderedEnding DEF Render, FileInv
  <2>. QED
    BY <2>2, <2>3, <2>4, <2>5, <2>6
    DEF Next2, vars2, vars, playOrPause2, skipForwards2, updateDisplay2, Render2,
        completionHandler2, completionHandler, tapBuffer, testCache, takeChunk
<1>. QED
  BY <1>1, <1>2 DEF FileInv, Ending

(* With one file for the life of the player, what is queued is always of   *)
(* that file and ends where it ends, whatever skips led there.             *)
THEOREM QueueEndsWithFile == Spec2 => []QueueIsThisFile
<1>1. Init2 => FileInv
  <2>. SUFFICES ASSUME Init2 PROVE FileInv
    OBVIOUS
  <2>1. StoppedNode \in Nodes(Files) /\ StoppedNode.queue = <<>>
    BY StoppedNodeType DEF StoppedNode
  <2>2. CASE ~running
    <3>1. node.queue = <<>>
      BY <2>1, <2>2 DEF Init2
    <3>. QED
      BY <3>1, EmptySeq DEF FileInv
  <2>3. CASE running
    <3>. DEFINE s == Stretch(audioFile, 0, AudioLength)
    <3>1. /\ audioFile \in Files /\ AudioLength = Length[audioFile] /\ 0 \in Nat
          /\ 0 < Length[audioFile] /\ Length[audioFile] - 0 = Length[audioFile]
          /\ AudioLength \in Nat \ {0}
      BY <2>3, FilesAssumption, FileLengths DEF Init2, setupAudio, AudioLength
    <3>2. s \in Ending(audioFile)
      BY <3>1, EndingStretch
    <3>3. s \in Stretches(Files)
      BY <3>1, StretchType
    <3>4. node = Schedule(StoppedNode, s)
      BY <2>3 DEF Init2
    <3>. HIDE DEF s
    <3>5. node.queue = Append(<<>>, s)
      BY <2>1, <3>3, <3>4, ScheduleType
    <3>. QED
      BY <3>2, <3>5, EmptySeq, AppendProperties DEF FileInv
  <2>. QED
    BY <2>2, <2>3
<1>2. FileInv => QueueIsThisFile
  <2>. SUFFICES ASSUME FileInv, NEW i \in DOMAIN node.queue
                PROVE  /\ node.queue[i].file = audioFile
                       /\ node.queue[i].start + node.queue[i].count = AudioLength
    BY DEF QueueIsThisFile
  <2>1. node.queue[i] \in Ending(audioFile)
    BY DEF FileInv
  <2>. QED
    BY <2>1 DEF Ending, Stretches, AudioLength
<1>. QED
  BY <1>1, <1>2, TypeInit2, TypeStep2, FileStep, PTL DEF Spec2

-----------------------------------------------------------------------------
(* How many steps the tap's block has left at most.                        *)
BlockLeft ==
  2 * pcmCache + (CASE block = "out" -> 0
                    [] block = "take" -> 1
                    [] block = "loop" -> 2)

(* Every turn of the block's loop brings it nearer to its end, and nothing *)
(* the main thread does to the cache meanwhile takes it further away.      *)
(* This is the bound behind BlockReturns.                                  *)
BlockRunsDown ==
  [][block # "out" /\ ~raised'
       => /\ BlockLeft \in Nat
          /\ BlockLeft' <= BlockLeft
          /\ testCache \/ takeChunk => BlockLeft' < BlockLeft]_vars2

THEOREM TapBlockRunsDown == Spec2 => BlockRunsDown
<1>1. ASSUME TypeOK2, Next2, block # "out", ~raised'
      PROVE  /\ BlockLeft \in Nat /\ BlockLeft' <= BlockLeft
             /\ testCache \/ takeChunk => BlockLeft' < BlockLeft
  <2>1. pcmCache \in Nat /\ block \in {"loop", "take"} /\ BlockLeft \in Nat
    BY <1>1 DEF TypeOK2, BlockLeft
  <2>2. CASE testCache
    BY <2>1, <2>2 DEF testCache, BlockLeft
  <2>3. CASE takeChunk
    <3>1. /\ block = "take" /\ block' = "loop" /\ ~(pcmCache < Chunk)
          /\ pcmCache' = pcmCache - Chunk
      BY <1>1, <2>3 DEF takeChunk
    <3>. QED
      BY <2>1, <3>1, ChunkAssumption DEF BlockLeft
  <2>4. CASE playOrPause2
    <3>1. block' = block /\ pcmCache' \in {0, pcmCache}
          /\ ~testCache /\ ~takeChunk
      <4>1. block' = block /\ pcmCache' \in {0, pcmCache}
        BY <2>4 DEF playOrPause2
      <4>2. block' # block \/ raised' \/ (~testCache /\ ~takeChunk)
        BY <1>1 DEF testCache, takeChunk
      <4>. QED
        BY <1>1, <4>1, <4>2
    <3>. QED
      BY <2>1, <3>1 DEF BlockLeft
  <2>5. ASSUME UNCHANGED tapState PROVE BlockLeft' = BlockLeft
    BY <2>5 DEF tapState, BlockLeft
  <2>6. UNCHANGED tapState => ~testCache /\ ~takeChunk
    BY <1>1 DEF tapState, testCache, takeChunk
  <2>7. ~\E n \in Buffers : tapBuffer(n)
    BY <1>1 DEF tapBuffer
  <2>. QED
    BY <1>1, <2>1, <2>2, <2>3, <2>4, <2>5, <2>6, <2>7
       DEF Next2, skipForwards2, updateDisplay2, Render2, completionHandler2
<1>2. TypeOK2 /\ [Next2]_vars2
        => [block # "out" /\ ~raised'
              => /\ BlockLeft \in Nat
                 /\ BlockLeft' <= BlockLeft
                 /\ testCache \/ takeChunk => BlockLeft' < BlockLeft]_vars2
  BY <1>1
<1>. QED
  BY <1>2, ViewModelTypeCorrect, PTL DEF Spec2, BlockRunsDown

=============================================================================
