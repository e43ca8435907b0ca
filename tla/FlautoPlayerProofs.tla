------------------------- MODULE FlautoPlayerProofs -------------------------
(***************************************************************************)
(* Theorems about FlautoPlayer, for every set of files and every length of *)
(* theirs.  All of them rest on where the blocks of the main queue can     *)
(* be: dispatch_sync keeps the loop and the main thread in step.           *)
(***************************************************************************)
EXTENDS FlautoPlayer, SequenceTheorems, TLAPS

(* What the main queue holds while the loop is at a given place.           *)
InStep ==
  /\ loop = "wait" => mainQueue \in {<<"schedule">>, <<"play", "schedule">>}
  /\ loop = "play" => mainQueue = <<>>
  /\ loop \in {"none", "test", "read", "post"} => mainQueue \in {<<>>, <<"play">>}

(* The type invariant, with what makes it inductive.                       *)
ControlInv ==
  /\ TypeOK
  /\ InStep
  /\ audioFile = NoFile => framePosition = 0
  /\ opening # NoFile => audioFile = NoFile
  /\ loop \in {"post", "wait"} => buffer \in [data : Data, fresh : BOOLEAN]

(* Only the buffer the loop holds can be out of date, and only once.       *)
StaleInv ==
  /\ stale <= 1
  /\ stale = 1 /\ loop \in {"post", "wait"} => buffer.fresh

-----------------------------------------------------------------------------
LEMMA FileLength ==
  ASSUME NEW f \in Files
  PROVE  Length[f] \in Nat
BY FilesAssumption

(* A stop, a seek or a new file keeps the shape of the buffer.             *)
LEMMA OutOfDateType ==
  ASSUME ControlInv, OutOfDate
  PROVE  /\ IsBuffer(buffer') /\ stale' = 0
         /\ loop \in {"post", "wait"} => buffer' \in [data : Data, fresh : BOOLEAN]
<1>1. IsBuffer(buffer) /\ stale' = 0
      /\ buffer' = [data |-> buffer.data, fresh |-> FALSE]
  BY DEF ControlInv, TypeOK, OutOfDate
<1>2. CASE buffer = NoBuffer
  <2>1. buffer.data = <<>>
    BY <1>2 DEF NoBuffer
  <2>2. buffer' = NoBuffer
    BY <1>1, <2>1 DEF NoBuffer
  <2>. QED
    BY <1>1, <1>2, <2>2 DEF ControlInv, IsBuffer
<1>3. CASE buffer \in [data : Data, fresh : BOOLEAN]
  <2>1. buffer' \in [data : Data, fresh : BOOLEAN]
    BY <1>1, <1>3
  <2>. QED
    BY <1>1, <2>1 DEF IsBuffer
<1>. QED
  BY <1>1, <1>2, <1>3 DEF IsBuffer

LEMMA PlayNodeType ==
  ASSUME node \in Nodes(Files), running \in BOOLEAN, PlayNode
  PROVE  raised' \in BOOLEAN /\ node' \in Nodes(Files) /\ node'.queue = node.queue
<1>1. raised' \in BOOLEAN
  BY Zenon DEF PlayNode
<1>2. node' = node \/ node' = Play(node)
  BY Zenon DEF PlayNode
<1>3. Play(node) \in Nodes(Files) /\ Play(node).queue = node.queue
  BY DEF Play, Nodes
<1>. QED
  BY <1>1, <1>2, <1>3

LEMMA ControlInit == Init => ControlInv
<1>. SUFFICES ASSUME Init PROVE ControlInv
  OBVIOUS
<1>1. node \in Nodes(Files) /\ Len(node.queue) <= 1
  BY MaxTimeAssumption, EmptySeq DEF Init, StoppedNode, Nodes
<1>2. acts \in 0..MaxActs /\ IsBuffer(buffer)
  BY ActsAssumption DEF Init, IsBuffer
<1>3. mainQueue = <<>> /\ mainQueue \in Seq({"schedule", "play"}) /\ Len(mainQueue) <= 2
  BY DEF Init
<1>. QED
  BY <1>1, <1>2, <1>3 DEF Init, ControlInv, TypeOK, InStep

LEMMA QueueType ==
  ASSUME mainQueue' \in {<<>>, <<"play">>, <<"schedule">>, <<"play", "schedule">>}
  PROVE  mainQueue' \in Seq({"schedule", "play"}) /\ Len(mainQueue') <= 2
<1>1. CASE mainQueue' = <<>>
  BY <1>1
<1>2. CASE mainQueue' = <<"play">>
  BY <1>2
<1>3. CASE mainQueue' = <<"schedule">>
  BY <1>3
<1>4. CASE mainQueue' = <<"play", "schedule">>
  BY <1>4
<1>. QED
  BY <1>1, <1>2, <1>3, <1>4

(* How the three forms of the queue grow and shrink.                       *)
LEMMA QueueForms ==
  /\ Append(<<>>, "schedule") = <<"schedule">>
  /\ Append(<<>>, "play") = <<"play">>
  /\ Append(<<"play">>, "schedule") = <<"play", "schedule">>
  /\ Tail(<<"play">>) = <<>> /\ Tail(<<"schedule">>) = <<>>
  /\ Tail(<<"play", "schedule">>) = <<"schedule">>
  /\ Head(<<"schedule">>) = "schedule"
<1>1. Append(<<>>, "schedule") = <<"schedule">>
  OBVIOUS
<1>2. Append(<<>>, "play") = <<"play">>
  OBVIOUS
<1>3. Append(<<"play">>, "schedule") = <<"play", "schedule">>
  <2>. DEFINE S == {"schedule", "play"}
              s == Append(<<"play">>, "schedule")
              t == <<"play", "schedule">>
  <2>1. <<"play">> \in Seq(S) /\ Len(<<"play">>) = 1 /\ <<"play">>[1] = "play"
    OBVIOUS
  <2>2. s \in Seq(S) /\ Len(s) = 2 /\ s[1] = "play" /\ s[2] = "schedule"
    BY <2>1, AppendProperties
  <2>3. t \in Seq(S) /\ Len(t) = 2 /\ t[1] = "play" /\ t[2] = "schedule"
    OBVIOUS
  <2>. HIDE DEF s, t
  <2>4. \A i \in 1..2 : s[i] = t[i]
    BY <2>2, <2>3
  <2>5. s = t
    BY <2>2, <2>3, <2>4, SeqEqual
  <2>. QED
    BY <2>5 DEF s, t
<1>4. Tail(<<"play">>) = <<>>
  OBVIOUS
<1>5. Tail(<<"schedule">>) = <<>>
  OBVIOUS
<1>6. Tail(<<"play", "schedule">>) = <<"schedule">>
  OBVIOUS
<1>7. Head(<<"schedule">>) = "schedule"
  OBVIOUS
<1>. QED
  BY <1>1, <1>2, <1>3, <1>4, <1>5, <1>6, <1>7

-----------------------------------------------------------------------------
(* The calls.                                                              *)

LEMMA CallsTyped ==
  ASSUME ControlInv,
         \/ \E f \in Files : startPlayerFromURL(f)
         \/ audioFile # NoFile /\ \E t \in 0..(Length[audioFile] - 1) : seek(t)
         \/ play \/ pause \/ stop
  PROVE  ControlInv'
<1>1. /\ node \in Nodes(Files) /\ Len(node.queue) <= 1 /\ running \in BOOLEAN
      /\ opening = NoFile
      /\ acts' \in 0..MaxActs
  BY ActsAssumption DEF ControlInv, TypeOK, Call, MainFree, startPlayerFromURL,
                        seek, play, pause, stop
<1>2. StoppedNode \in Nodes(Files) /\ Len(StoppedNode.queue) <= 1
  BY MaxTimeAssumption, EmptySeq DEF StoppedNode, Nodes
<1>3. ASSUME NEW f \in Files, startPlayerFromURL(f) PROVE ControlInv'
  <2>1. OutOfDate
    BY <1>3 DEF startPlayerFromURL, halt
  <2>2. running' \in BOOLEAN /\ positionTimer' \in BOOLEAN /\ first' \in BOOLEAN
    BY <1>3, Zenon DEF startPlayerFromURL, halt
  <2>. QED
    BY <1>1, <1>2, <1>3, <2>1, <2>2, OutOfDateType
       DEF startPlayerFromURL, halt, ControlInv, TypeOK, InStep
<1>4. ASSUME audioFile # NoFile, NEW t \in 0..(Length[audioFile] - 1), seek(t)
      PROVE  ControlInv'
  <2>1. OutOfDate /\ audioFile \in Files
    BY <1>4 DEF seek, ControlInv, TypeOK
  <2>2. t \in Nat /\ t <= Length[audioFile]
    BY <1>4, <2>1, FileLength
  <2>. QED
    BY <1>1, <1>2, <1>4, <2>1, <2>2, OutOfDateType
       DEF seek, ControlInv, TypeOK, InStep
<1>5. CASE play
  <2>1. raised' \in BOOLEAN /\ node' \in Nodes(Files) /\ node'.queue = node.queue
    <3>1. CASE node.playing
      BY <1>1, <1>5, <3>1 DEF play, ControlInv, TypeOK
    <3>2. CASE ~node.playing
      BY <1>1, <1>5, <3>2, PlayNodeType DEF play
    <3>. QED
      BY <3>1, <3>2
  <2>. QED
    BY <1>1, <1>5, <2>1 DEF play, ControlInv, TypeOK, InStep, queues, history
<1>6. CASE pause
  <2>1. positionTimer' \in BOOLEAN
    BY <1>6, Zenon DEF pause
  <2>. QED
    BY <1>1, <1>6, <2>1
       DEF pause, Pause, Nodes, ControlInv, TypeOK, InStep, queues, history
<1>7. CASE stop
  <2>1. OutOfDate
    BY <1>7 DEF stop, halt
  <2>2. running' \in BOOLEAN /\ positionTimer' \in BOOLEAN /\ first' \in BOOLEAN
    BY <1>7, Zenon DEF stop, halt
  <2>. QED
    BY <1>1, <1>2, <1>7, <2>1, <2>2, OutOfDateType
       DEF stop, halt, ControlInv, TypeOK, InStep
<1>. QED
  BY <1>3, <1>4, <1>5, <1>6, <1>7

LEMMA OpenTyped ==
  ASSUME ControlInv, startPlaybackFromFile
  PROVE  ControlInv'
<1>1. /\ opening \in Files /\ audioFile = NoFile /\ framePosition = 0
  BY DEF ControlInv, TypeOK, startPlaybackFromFile
<1>2. Length[opening] \in Nat
  BY <1>1, FileLength
<1>3. first' \in BOOLEAN
  <2>1. first \in BOOLEAN
    BY DEF ControlInv, TypeOK
  <2>. QED
    BY <2>1, Zenon DEF startPlaybackFromFile
<1>. QED
  BY <1>1, <1>2, <1>3, FilesAssumption DEF startPlaybackFromFile, ControlInv, TypeOK, InStep

-----------------------------------------------------------------------------
(* The loop and the blocks it sends.                                       *)

LEMMA LoopTyped ==
  ASSUME ControlInv, LoopStep
  PROVE  ControlInv'
<1>1. CASE BeginLoop
  BY <1>1 DEF BeginLoop, LoopAt, LoopOnly, ControlInv, TypeOK, InStep, history
<1>2. CASE TestPosition
  BY <1>2 DEF TestPosition, LoopAt, LoopOnly, ControlInv, TypeOK, InStep, history
<1>3. CASE ReadBuffer
  <2>1. CASE loop' = "none" /\ UNCHANGED <<framePosition, buffer>>
    BY <1>3, <2>1 DEF ReadBuffer, LoopAt, LoopOnly, ControlInv, TypeOK, InStep, history
  <2>2. CASE /\ audioFile # NoFile /\ framePosition < Length[audioFile]
             /\ loop' = "post"
             /\ framePosition' = framePosition + 1
             /\ buffer' = [data |-> Stretch(audioFile, framePosition, 1),
                           fresh |-> TRUE]
    <3>1. audioFile \in Files /\ framePosition \in Nat
      BY <2>2 DEF ControlInv, TypeOK
    <3>2. Stretch(audioFile, framePosition, 1) \in Data
      BY <3>1 DEF Data, Stretch, Stretches
    <3>3. buffer' \in [data : Data, fresh : BOOLEAN]
      BY <2>2, <3>2
    <3>4. framePosition' \in Nat /\ framePosition' <= Length[audioFile]
      BY <2>2, <3>1, FileLength
    <3>. QED
      BY <1>3, <2>2, <3>3, <3>4
         DEF ReadBuffer, LoopAt, LoopOnly, ControlInv, TypeOK, InStep, IsBuffer, history
  <2>. QED
    BY <1>3, <2>1, <2>2 DEF ReadBuffer
<1>4. CASE PostBuffer
  <2>1. mainQueue' \in {<<"schedule">>, <<"play", "schedule">>}
    <3>1. mainQueue = <<>> \/ mainQueue = <<"play">>
      BY <1>4 DEF PostBuffer, LoopAt, ControlInv, InStep
    <3>2. mainQueue' = Append(mainQueue, "schedule")
      BY <1>4 DEF PostBuffer
    <3>. QED
      BY <3>1, <3>2, QueueForms
  <2>. QED
    BY <1>4, <2>1, QueueType
       DEF PostBuffer, LoopAt, LoopOnly, ControlInv, TypeOK, InStep, history
<1>5. CASE PostPlay
  <2>1. mainQueue' = <<"play">>
    BY <1>5 DEF PostPlay, LoopAt, ControlInv, InStep
  <2>. QED
    BY <1>5, <2>1, QueueType
       DEF PostPlay, LoopAt, LoopOnly, ControlInv, TypeOK, InStep, history
<1>. QED
  BY <1>1, <1>2, <1>3, <1>4, <1>5 DEF LoopStep

(* The block that queues a buffer finds the loop waiting for it.           *)
LEMMA ScheduleFindsLoop ==
  ASSUME ControlInv, mainBlock, scheduleBlock
  PROVE  loop = "wait" /\ loop' = "play" /\ mainQueue' = <<>>
<1>1. Head(mainQueue) = "schedule" /\ mainQueue # <<>> /\ mainQueue' = Tail(mainQueue)
  BY DEF mainBlock, scheduleBlock
<1>2. loop = "wait"
  BY <1>1 DEF ControlInv, TypeOK, InStep
<1>3. mainQueue = <<"schedule">>
  BY <1>1, <1>2 DEF ControlInv, InStep
<1>. QED
  BY <1>1, <1>2, <1>3 DEF scheduleBlock

LEMMA MainBlockTyped ==
  ASSUME ControlInv, mainBlock
  PROVE  ControlInv'
<1>1. CASE scheduleBlock
  <2>1. loop = "wait" /\ loop' = "play" /\ mainQueue' = <<>>
    BY <1>1, ScheduleFindsLoop
  <2>2. buffer.data \in Stretches(Files)
    BY <2>1 DEF ControlInv, Data
  <2>3. node' \in Nodes(Files) /\ Len(node'.queue) <= 1
    <3>1. <<buffer.data>> \in Seq(Stretches(Files)) /\ Len(<<buffer.data>>) = 1
      BY <2>2
    <3>2. node \in Nodes(Files)
      BY DEF ControlInv, TypeOK
    <3>. QED
      BY <1>1, <3>1, <3>2 DEF scheduleBlock, Nodes
  <2>4. stale' \in Nat
    BY <1>1 DEF scheduleBlock, ControlInv, TypeOK
  <2>. QED
    BY <1>1, <2>1, <2>3, <2>4, QueueType
       DEF mainBlock, scheduleBlock, ControlInv, TypeOK, InStep
<1>2. CASE playBlock
  <2>1. /\ mainQueue # <<>> /\ Head(mainQueue) = "play"
        /\ mainQueue' = Tail(mainQueue) /\ loop' = loop
    BY <1>2 DEF mainBlock, playBlock
  <2>2. /\ loop = "wait" => mainQueue' = <<"schedule">>
        /\ loop # "wait" => mainQueue' = <<>>
    <3>1. CASE loop = "wait"
      <4>1. mainQueue = <<"schedule">> \/ mainQueue = <<"play", "schedule">>
        BY <3>1 DEF ControlInv, InStep
      <4>2. mainQueue = <<"play", "schedule">>
        BY <2>1, <4>1, QueueForms
      <4>. QED
        BY <2>1, <3>1, <4>2, QueueForms
    <3>2. CASE loop # "wait"
      <4>1. mainQueue = <<>> \/ mainQueue = <<"play">>
        BY <3>2 DEF ControlInv, TypeOK, InStep
      <4>. QED
        BY <2>1, <3>2, <4>1, QueueForms
    <3>. QED
      BY <3>1, <3>2
  <2>3. /\ raised' \in BOOLEAN /\ positionTimer' \in BOOLEAN
        /\ node' \in Nodes(Files) /\ node'.queue = node.queue
    <3>1. node \in Nodes(Files) /\ running \in BOOLEAN /\ raised \in BOOLEAN
          /\ positionTimer \in BOOLEAN
      BY DEF ControlInv, TypeOK
    <3>2. CASE onceToken
      BY <1>2, <3>1, <3>2 DEF playBlock
    <3>3. CASE ~onceToken
      <4>1. PlayNode /\ positionTimer' = running
        BY <1>2, <3>3, Zenon DEF playBlock
      <4>2. raised' \in BOOLEAN /\ node' \in Nodes(Files) /\ node'.queue = node.queue
        BY <3>1, <4>1, PlayNodeType, Zenon
      <4>3. positionTimer' \in BOOLEAN
        BY <3>1, <4>1, Zenon
      <4>. QED
        BY <4>2, <4>3
    <3>. QED
      BY <3>2, <3>3
  <2>4. silent' \in BOOLEAN
    <3>1. silent' = (silent \/ (first /\ ~node'.playing)) /\ silent \in BOOLEAN
      BY <1>2, Zenon DEF playBlock, ControlInv, TypeOK
    <3>. QED
      BY <3>1, Zenon
  <2>5. onceToken' \in BOOLEAN /\ first' \in BOOLEAN
    BY <1>2, Zenon DEF playBlock
  <2>6. UNCHANGED <<audioFile, framePosition, running, opening, loops, buffer, acts,
                    loop, stale>>
    BY <1>2, Zenon DEF mainBlock, playBlock
  <2>7. Len(node'.queue) <= 1
    BY <2>3 DEF ControlInv, TypeOK
  <2>8. InStep'
    BY <2>2, <2>6 DEF InStep
  <2>9. mainQueue' \in Seq({"schedule", "play"}) /\ Len(mainQueue') <= 2
    BY <2>2, QueueType
  <2>. QED
    BY <2>3, <2>4, <2>5, <2>6, <2>7, <2>8, <2>9 DEF ControlInv, TypeOK
<1>. QED
  BY <1>1, <1>2 DEF mainBlock

LEMMA RenderedType ==
  ASSUME NEW n \in Nodes(Files)
  PROVE  /\ Rendered(n) \in Nodes(Files)
         /\ n.queue = <<>> => Rendered(n).queue = <<>>
         /\ Consumes(n) => Len(Rendered(n).queue) = Len(n.queue) - 1
         /\ n.queue # <<>> /\ ~Consumes(n)
              => Len(Rendered(n).queue) = Len(n.queue)
<1>. DEFINE S == Stretches(Files)
            h == Head(n.queue)
<1>1. n.queue \in Seq(S) /\ n.playing \in BOOLEAN /\ Clock(n) \in 0..MaxTime
  BY MaxTimeAssumption DEF Nodes, Clock
<1>2. n.queue # <<>> => h \in S /\ Tail(n.queue) \in Seq(S)
                        /\ Len(Tail(n.queue)) = Len(n.queue) - 1
  BY <1>1, HeadTailProperties
<1>3. n.queue # <<>> /\ ~Consumes(n) => Advanced(h) \in S
  BY <1>2 DEF Advanced, Stretch, Stretches, Consumes
<1>. HIDE DEF S
<1>4. CASE n.queue = <<>> \/ Consumes(n)
  BY <1>1, <1>2, <1>4, EmptySeq DEF Rendered, RenderedQueue, Nodes, S, Consumes
<1>5. CASE n.queue # <<>> /\ ~Consumes(n)
  <2>1. Rendered(n).queue = <<Advanced(h)>> \o Tail(n.queue)
    BY <1>5 DEF Rendered, RenderedQueue
  <2>2. Rendered(n).queue \in Seq(S) /\ Len(Rendered(n).queue) = Len(n.queue)
    BY <1>1, <1>2, <1>3, <1>5, <2>1
  <2>. QED
    BY <1>1, <1>5, <2>2, EmptySeq DEF Rendered, Nodes, S
<1>. QED
  BY <1>4, <1>5

LEMMA RenderTyped ==
  ASSUME ControlInv, Render
  PROVE  ControlInv'
<1>1. node \in Nodes(Files) /\ Len(node.queue) <= 1 /\ Len(node.queue) \in Nat
  BY LenProperties DEF ControlInv, TypeOK, Nodes
<1>2. /\ Rendered(node) \in Nodes(Files)
      /\ node.queue = <<>> => Rendered(node).queue = <<>>
      /\ Consumes(node) => Len(Rendered(node).queue) = Len(node.queue) - 1
      /\ node.queue # <<>> /\ ~Consumes(node)
           => Len(Rendered(node).queue) = Len(node.queue)
  BY <1>1, RenderedType, Zenon
<1>3. node' = Rendered(node)
  BY DEF Render
<1>4. node' \in Nodes(Files) /\ Len(node'.queue) <= 1
  BY <1>1, <1>2, <1>3, EmptySeq
<1>. QED
  BY <1>4 DEF Render, ControlInv, TypeOK, InStep, queues, history

LEMMA ControlStep == ControlInv /\ [Next]_vars => ControlInv'
<1>. SUFFICES ASSUME ControlInv, [Next]_vars PROVE ControlInv'
  OBVIOUS
<1>1. CASE UNCHANGED vars
  BY <1>1 DEF vars, player, queues, history, ControlInv, TypeOK, InStep
<1>. QED
  BY <1>1, CallsTyped, OpenTyped, LoopTyped, MainBlockTyped, RenderTyped DEF Next

LEMMA ControlCorrect == Spec => []ControlInv
BY ControlInit, ControlStep, PTL DEF Spec

(* Every reachable state has its type: the main queue never holds more     *)
(* than two blocks of the loop, the node never more than one buffer.       *)
THEOREM TypeCorrect == Spec => []TypeOK
<1>1. ControlInv => TypeOK
  BY DEF ControlInv
<1>. QED
  BY <1>1, ControlCorrect, PTL

-----------------------------------------------------------------------------
LEMMA StaleStep == ControlInv /\ StaleInv /\ [Next]_vars => StaleInv'
<1>. SUFFICES ASSUME ControlInv, StaleInv, [Next]_vars PROVE StaleInv'
  OBVIOUS
<1>1. stale \in Nat
  BY DEF ControlInv, TypeOK
<1>2. ASSUME stale' = 0 PROVE StaleInv'
  BY <1>2 DEF StaleInv
<1>3. ASSUME UNCHANGED <<stale, loop, buffer>> PROVE StaleInv'
  BY <1>3 DEF StaleInv
<1>4. ASSUME NEW f \in Files, startPlayerFromURL(f) PROVE StaleInv'
  BY <1>2, <1>4 DEF startPlayerFromURL, halt, OutOfDate
<1>5. CASE startPlaybackFromFile
  BY <1>3, <1>5 DEF startPlaybackFromFile
<1>6. ASSUME NEW t, seek(t) PROVE StaleInv'
  BY <1>2, <1>6 DEF seek, OutOfDate
<1>7. CASE play \/ pause
  BY <1>3, <1>7 DEF play, pause, queues, history
<1>8. CASE stop
  BY <1>2, <1>8 DEF stop, halt, OutOfDate
<1>9. CASE LoopStep
  <2>1. UNCHANGED stale
    BY <1>9 DEF LoopStep, BeginLoop, TestPosition, ReadBuffer, PostBuffer, PostPlay,
                LoopOnly, history
  <2>2. CASE ReadBuffer
    <3>1. loop' = "post" => buffer'.fresh
      BY <2>2 DEF ReadBuffer, LoopAt
    <3>2. loop' \in {"none", "post"}
      BY <2>2 DEF ReadBuffer
    <3>. QED
      BY <2>1, <3>1, <3>2 DEF StaleInv
  <2>3. CASE PostBuffer
    BY <2>1, <2>3 DEF PostBuffer, LoopAt, StaleInv
  <2>4. CASE BeginLoop \/ TestPosition \/ PostPlay
    BY <2>1, <2>4 DEF BeginLoop, TestPosition, PostPlay, StaleInv
  <2>. QED
    BY <1>9, <2>2, <2>3, <2>4 DEF LoopStep
<1>10. CASE mainBlock
  <2>1. CASE scheduleBlock
    <3>1. loop = "wait" /\ loop' = "play"
      BY <1>10, <2>1, ScheduleFindsLoop
    <3>2. stale' = IF buffer.fresh THEN stale ELSE stale + 1
      BY <2>1 DEF scheduleBlock
    <3>3. stale' <= 1
      <4>1. CASE buffer.fresh
        BY <3>2, <4>1 DEF StaleInv
      <4>2. CASE ~buffer.fresh
        <5>1. stale = 0
          BY <1>1, <3>1, <4>2 DEF StaleInv
        <5>. QED
          BY <3>2, <4>2, <5>1
      <4>. QED
        BY <4>1, <4>2
    <3>. QED
      BY <3>1, <3>3 DEF StaleInv
  <2>2. CASE playBlock
    BY <1>3, <1>10, <2>2 DEF mainBlock, playBlock
  <2>. QED
    BY <1>10, <2>1, <2>2 DEF mainBlock
<1>11. CASE Render
  BY <1>3, <1>11 DEF Render, queues, history
<1>12. CASE UNCHANGED vars
  BY <1>3, <1>12 DEF vars, queues, history
<1>. QED
  BY <1>4, <1>5, <1>6, <1>7, <1>8, <1>9, <1>10, <1>11, <1>12 DEF Next

(* Of what was read before a stop, a seek or the start of another file, at *)
(* most one buffer still reaches the node.                                 *)
THEOREM OneStaleBuffer == Spec => []StaleAtMostOne
<1>1. Init => StaleInv
  BY DEF Init, StaleInv
<1>2. StaleInv => StaleAtMostOne
  BY DEF StaleInv, StaleAtMostOne
<1>. QED
  BY <1>1, <1>2, StaleStep, ControlCorrect, PTL DEF Spec

-----------------------------------------------------------------------------
(* The loop waits in dispatch_sync exactly as long as its block is in the  *)
(* main queue: it is never left waiting for a block that has run or was    *)
(* never sent.                                                             *)
WaitsForItsBlock ==
  loop = "wait" <=> \E i \in 1..Len(mainQueue) : mainQueue[i] = "schedule"

THEOREM WaitIsServed == Spec => []WaitsForItsBlock
<1>1. ControlInv => WaitsForItsBlock
  <2>. SUFFICES ASSUME ControlInv PROVE WaitsForItsBlock
    OBVIOUS
  <2>1. CASE loop = "wait"
    <3>1. CASE mainQueue = <<"schedule">>
      BY <2>1, <3>1 DEF WaitsForItsBlock
    <3>2. CASE mainQueue = <<"play", "schedule">>
      BY <2>1, <3>2 DEF WaitsForItsBlock
    <3>. QED
      BY <2>1, <3>1, <3>2 DEF ControlInv, InStep
  <2>2. CASE loop # "wait"
    <3>1. mainQueue \in {<<>>, <<"play">>}
      BY <2>2 DEF ControlInv, InStep, TypeOK
    <3>. QED
      BY <2>2, <3>1 DEF WaitsForItsBlock
  <2>. QED
    BY <2>1, <2>2
<1>. QED
  BY <1>1, ControlCorrect, PTL

=============================================================================
