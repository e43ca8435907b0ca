----------------------------- MODULE FlautoPlayer -----------------------------
(***************************************************************************)
(* AudioPlayerFlauto                                                       *)
(* (Example/WebRTCAudioProcessing/AudioPlayerFlauto.m): a loop on the      *)
(* serial processing queue reads the file, processes it a buffer at a time *)
(* and hands each buffer to the node on the main queue.                    *)
(*                                                                         *)
(* The calls run on the main thread and exclude the blocks of the main     *)
(* queue.  The loop runs beside them and looks at the audioFile property   *)
(* anew each time.  Positions are counted in the loop's buffers, all files *)
(* have one format, and a sample's processing succeeds.                    *)
(***************************************************************************)
EXTENDS AVPlayerNode

CONSTANTS
  Files,      \* the files that can be played
  Length,     \* Length[f]: the length of f, in buffers
  NoFile,     \* nil
  MaxActs     \* bound: calls from the user in a behaviour

ASSUME FilesAssumption ==
  /\ NoFile \notin Files
  /\ Length \in [Files -> Nat]
ASSUME ActsAssumption == MaxActs \in Nat

VARIABLES
  audioFile,       \* the audioFile property
  framePosition,   \* its position
  running,         \* the engine runs
  node,            \* playerNode
  positionTimer,   \* the position timer runs
  onceToken,       \* the block of the static dispatch_once has run
  opening,         \* the file startPlayerFromURL: has still to open, or NoFile
  loops,           \* blocks waiting on processingQueue
  loop,            \* where the running block is
  buffer,          \* the buffer the loop has read, as [data, fresh]
  mainQueue,       \* blocks dispatched to the main queue
  raised,          \* AVFoundation raised an exception: the program is gone
  acts,            \* calls from the user so far (bounded by MaxActs)
  stale,           \* history: buffers queued since the last stop, seek or
                   \* start that were read before it
  first,           \* history: the file's first buffer is not yet queued
  silent           \* history: a file's first buffer did not start the node

player == <<audioFile, framePosition, running, node, positionTimer, onceToken>>
queues == <<loops, loop, buffer, mainQueue>>
history == <<stale, first, silent>>
vars == <<player, opening, queues, raised, acts, history>>

Data == Stretches(Files)
NoBuffer == [data |-> <<>>, fresh |-> FALSE]
IsBuffer(b) == b = NoBuffer \/ b \in [data : Data, fresh : BOOLEAN]

TypeOK ==
  /\ audioFile \in Files \cup {NoFile}
  /\ framePosition \in Nat
  /\ audioFile # NoFile => framePosition <= Length[audioFile]
  /\ running \in BOOLEAN
  /\ node \in Nodes(Files) /\ Len(node.queue) <= 1
  /\ positionTimer \in BOOLEAN /\ onceToken \in BOOLEAN
  /\ opening \in Files \cup {NoFile}
  /\ loops \in Nat
  /\ loop \in {"none", "test", "read", "post", "wait", "play"}
  /\ IsBuffer(buffer)
  /\ mainQueue \in Seq({"schedule", "play"}) /\ Len(mainQueue) <= 2
  /\ raised \in BOOLEAN
  /\ acts \in 0..MaxActs
  /\ stale \in Nat
  /\ first \in BOOLEAN /\ silent \in BOOLEAN

Init ==
  /\ audioFile = NoFile
  /\ framePosition = 0
  /\ running = FALSE
  /\ node = StoppedNode
  /\ positionTimer = FALSE
  /\ onceToken = FALSE
  /\ opening = NoFile
  /\ loops = 0
  /\ loop = "none"
  /\ buffer = NoBuffer
  /\ mainQueue = <<>>
  /\ raised = FALSE
  /\ acts = 0
  /\ stale = 0
  /\ first = FALSE
  /\ silent = FALSE

(* The main thread is free for a call or a block.                          *)
MainFree == ~raised /\ opening = NoFile

Call ==
  /\ MainFree
  /\ acts < MaxActs
  /\ acts' = acts + 1

(* The node's play raises when the engine does not run.                    *)
PlayNode ==
  /\ raised' = ~running
  /\ node' = IF running THEN Play(node) ELSE node

(* A stop, a seek or a new file: what was read before is out of date.      *)
OutOfDate ==
  /\ buffer' = [data |-> buffer.data, fresh |-> FALSE]
  /\ stale' = 0

-----------------------------------------------------------------------------
halt ==
  /\ node' = StoppedNode
  /\ running' = FALSE
  /\ audioFile' = NoFile
  /\ framePosition' = 0
  /\ positionTimer' = FALSE
  /\ OutOfDate

stop ==
  /\ Call
  /\ halt
  /\ first' = FALSE
  /\ UNCHANGED <<onceToken, opening, loops, loop, mainQueue, raised, silent>>

(* startPlayerFromURL: stops first, and then opens the file; the loop can  *)
(* look at audioFile between the two.                                      *)
startPlayerFromURL(f) ==
  /\ Call
  /\ halt
  /\ opening' = f
  /\ first' = FALSE
  /\ UNCHANGED <<onceToken, loops, loop, mainQueue, raised, silent>>

startPlaybackFromFile ==
  /\ ~raised /\ opening # NoFile
  /\ opening' = NoFile
  /\ \/ UNCHANGED <<audioFile, loops, first>>
     \/ /\ audioFile' = opening
        /\ loops' = loops + 1
        /\ first' = TRUE
  /\ UNCHANGED <<framePosition, running, node, positionTimer, onceToken, loop,
                 buffer, mainQueue, raised, acts, stale, silent>>

(* seek: restarts the engine, which may fail, and starts another loop.     *)
(* Positions before the start of the file, which the code lets through     *)
(* too, are left out: what AVAudioFile makes of one is not known here.     *)
seek(t) ==
  /\ Call
  /\ audioFile # NoFile
  /\ t < Length[audioFile]
  /\ node' = StoppedNode
  /\ framePosition' = t
  /\ running' \in BOOLEAN
  /\ loops' = loops + 1
  /\ OutOfDate
  /\ UNCHANGED <<audioFile, positionTimer, onceToken, opening, loop, mainQueue,
                 raised, first, silent>>

play ==
  /\ Call
  /\ IF node.playing THEN UNCHANGED <<node, raised>> ELSE PlayNode
  /\ UNCHANGED <<audioFile, framePosition, running, positionTimer, onceToken,
                 opening, queues, history>>

pause ==
  /\ Call
  /\ node' = Pause(node)
  /\ positionTimer' = FALSE
  /\ UNCHANGED <<audioFile, framePosition, running, onceToken, opening, queues,
                 raised, history>>

-----------------------------------------------------------------------------
(* The loop of scheduleAndPlayFromCurrentPosition.                         *)
LoopAt(l) == ~raised /\ loop = l
LoopOnly == UNCHANGED <<audioFile, running, node, positionTimer, onceToken,
                        opening, raised, acts, history>>

BeginLoop ==
  /\ LoopAt("none")
  /\ loops > 0
  /\ loops' = loops - 1
  /\ loop' = "test"
  /\ UNCHANGED <<framePosition, buffer, mainQueue>>
  /\ LoopOnly

(* A message to nil returns 0: without a file the loop ends.               *)
TestPosition ==
  /\ LoopAt("test")
  /\ loop' = IF audioFile # NoFile /\ framePosition < Length[audioFile]
               THEN "read" ELSE "none"
  /\ UNCHANGED <<framePosition, loops, buffer, mainQueue>>
  /\ LoopOnly

(* Mutant: the loop goes on when a read has failed.                        *)
ReadRetries ==
  /\ LoopAt("read")
  /\ \/ /\ loop' = "test"
        /\ UNCHANGED <<framePosition, buffer>>
     \/ /\ audioFile # NoFile /\ framePosition < Length[audioFile]
        /\ loop' = "post"
        /\ framePosition' = framePosition + 1
        /\ buffer' = [data |-> Stretch(audioFile, framePosition, 1),
                      fresh |-> TRUE]
  /\ UNCHANGED <<loops, mainQueue>>
  /\ LoopOnly

(* The read fails, as it always does on nil and at the end of the file, or *)
(* yields the next buffer, which is processed.                             *)
ReadBuffer ==
  /\ LoopAt("read")
  /\ \/ /\ loop' = "none"
        /\ UNCHANGED <<framePosition, buffer>>
     \/ /\ audioFile # NoFile /\ framePosition < Length[audioFile]
        /\ loop' = "post"
        /\ framePosition' = framePosition + 1
        /\ buffer' = [data |-> Stretch(audioFile, framePosition, 1),
                      fresh |-> TRUE]
  /\ UNCHANGED <<loops, mainQueue>>
  /\ LoopOnly

(* Mutant: dispatch_async for dispatch_sync.                               *)
PostAsync ==
  /\ LoopAt("post")
  /\ mainQueue' = mainQueue \o <<"schedule", "play">>
  /\ loop' = "test"
  /\ UNCHANGED <<framePosition, loops, buffer>>
  /\ LoopOnly

(* dispatch_sync to the main queue: the loop waits for the block.          *)
PostBuffer ==
  /\ LoopAt("post")
  /\ mainQueue' = Append(mainQueue, "schedule")
  /\ loop' = "wait"
  /\ UNCHANGED <<framePosition, loops, buffer>>
  /\ LoopOnly

PostPlay ==
  /\ LoopAt("play")
  /\ mainQueue' = Append(mainQueue, "play")
  /\ loop' = "test"
  /\ UNCHANGED <<framePosition, loops, buffer>>
  /\ LoopOnly

-----------------------------------------------------------------------------
(* The blocks of the main queue.  A buffer interrupts what was queued.     *)
scheduleBlock ==
  /\ Head(mainQueue) = "schedule"
  /\ node' = [playing |-> node.playing, time |-> node.time,
              queue |-> <<buffer.data>>]
  /\ loop' = IF loop = "wait" THEN "play" ELSE loop
  /\ stale' = IF buffer.fresh THEN stale ELSE stale + 1
  /\ UNCHANGED <<positionTimer, onceToken, raised, first, silent>>

(* The node is started by the first block of this kind that ever runs.     *)
playBlock ==
  /\ Head(mainQueue) = "play"
  /\ IF onceToken
       THEN UNCHANGED <<node, raised, positionTimer>>
       ELSE PlayNode /\ positionTimer' = running
  /\ onceToken' = TRUE
  /\ first' = FALSE
  /\ silent' = (silent \/ (first /\ ~node'.playing))
  /\ UNCHANGED <<loop, stale>>

mainBlock ==
  /\ MainFree
  /\ mainQueue # <<>>
  /\ mainQueue' = Tail(mainQueue)
  /\ scheduleBlock \/ playBlock
  /\ UNCHANGED <<audioFile, framePosition, running, opening, loops, buffer, acts>>

(* The engine renders.                                                     *)
Render ==
  /\ ~raised
  /\ running /\ node.playing
  /\ node' = Rendered(node)
  /\ UNCHANGED <<audioFile, framePosition, running, positionTimer, onceToken,
                 opening, queues, raised, acts, history>>

LoopStep ==
  BeginLoop \/ TestPosition \/ ReadBuffer \/ PostBuffer \/ PostPlay

Next ==
  \/ \E f \in Files : startPlayerFromURL(f)
  \/ startPlaybackFromFile
  \/ audioFile # NoFile /\ \E t \in 0..(Length[audioFile] - 1) : seek(t)
  \/ play \/ pause \/ stop
  \/ LoopStep
  \/ mainBlock
  \/ Render

Spec == Init /\ [][Next]_vars

(* The loop runs on, calls return, the main queue is served.               *)
Fairness ==
  WF_vars(LoopStep) /\ WF_vars(startPlaybackFromFile) /\ WF_vars(mainBlock)

FairSpec == Spec /\ Fairness

-----------------------------------------------------------------------------
(* After a stop, a seek or the start of another file, at most one buffer   *)
(* read before it still reaches the node: the loop is never further ahead. *)
StaleAtMostOne == stale <= 1

(* A loop ends, whatever file it comes to read from, although it waits for *)
(* the main thread to take each of its buffers.                            *)
LoopEnds == loop # "none" ~> loop = "none" \/ raised

(* AudioPlayerFlauto.m:236 says that playback starts once there is a first *)
(* block: of every file that is started.                                   *)
FirstBlockStarts == ~silent

=============================================================================
