----------------------------- MODULE AudioPlayer -----------------------------
(***************************************************************************)
(* AudioPlayer (Example/WebRTCAudioProcessing/AudioPlayer.m): plays a      *)
(* local file, or a remote one once it is downloaded.                      *)
(*                                                                         *)
(* The calls of AudioPlayer.h run on the main thread, and so do the blocks *)
(* dispatched to the main queue: the end of a playback, sent there by the  *)
(* completion handler, and the start of a downloaded file.  Each is one    *)
(* action; the engine, the handlers and the downloads run beside them.     *)
(* seekToTime: is not declared in AudioPlayer.h, has no caller, and is     *)
(* left out.                                                               *)
(***************************************************************************)
EXTENDS AVPlayerNode, FiniteSets

CONSTANTS
  Files,      \* the audio files, local or remote
  Length,     \* Length[f]: the length of file f
  NoFile,     \* nil
  MaxActs     \* bound: calls from the user in a behaviour

ASSUME FilesAssumption ==
  /\ NoFile \notin Files
  /\ Length \in [Files -> Nat \ {0}]
ASSUME ActsAssumption == MaxActs \in Nat

VARIABLES
  audioFile,      \* the audioFile property
  isPlaying,      \* _isPlaying
  timer,          \* the progress timer runs
  currentTime,    \* _currentTimeValue, the time shown
  isTapInstalled, \* what the player believes of its tap
  tap,            \* a tap is installed on the mixer
  running,        \* the engine runs
  node,           \* playerNode
  due,            \* completion handlers the system has still to run
  mainQueue,      \* blocks dispatched to the main queue
  downloads,      \* remote files being fetched
  raised,         \* AVFoundation raised an exception: the program is gone
  acts,           \* calls from the user so far (bounded by MaxActs)
  started,        \* history: playbacks scheduled
  notified,       \* history: AudioPlaybackFinished posted so often
  crossed,        \* history: an end arrived when the next file was queued
  replayed        \* history: play was called on an ended file, or on none

player == <<audioFile, isPlaying, timer, currentTime, isTapInstalled>>
engine == <<tap, running, node>>
pending == <<due, mainQueue, downloads>>
history == <<started, notified, crossed, replayed>>
vars == <<player, engine, pending, raised, acts, history>>

Finish == [task |-> "finish", file |-> NoFile]
Start(f) == [task |-> "start", file |-> f]

TypeOK ==
  /\ audioFile \in Files \cup {NoFile}
  /\ isPlaying \in BOOLEAN /\ timer \in BOOLEAN
  /\ currentTime \in 0..MaxTime
  /\ isTapInstalled \in BOOLEAN /\ tap \in BOOLEAN /\ running \in BOOLEAN
  /\ node \in Nodes(Files) /\ Len(node.queue) <= 1
  /\ due \in Nat
  /\ mainQueue \in Seq({Finish} \cup {Start(f) : f \in Files})
  /\ downloads \subseteq Files
  /\ raised \in BOOLEAN
  /\ acts \in 0..MaxActs
  /\ started \in Nat /\ notified \in Nat
  /\ crossed \in BOOLEAN
  /\ replayed \in BOOLEAN

Init ==
  /\ audioFile = NoFile
  /\ isPlaying = FALSE
  /\ timer = FALSE
  /\ currentTime = 0
  /\ isTapInstalled = FALSE
  /\ tap = FALSE
  /\ running = FALSE
  /\ node = StoppedNode
  /\ due = 0
  /\ mainQueue = <<>>
  /\ downloads = {}
  /\ raised = FALSE
  /\ acts = 0
  /\ started = 0
  /\ notified = 0
  /\ crossed = FALSE
  /\ replayed = FALSE

UserCall ==
  /\ ~raised
  /\ acts < MaxActs
  /\ acts' = acts + 1

(* The handlers that the node's stop makes due.                            *)
CutShort == Len(node.queue)

(* The playbacks whose end is still to be posted.                          *)
FinishesQueued == Cardinality({i \in 1..Len(mainQueue) : mainQueue[i] = Finish})

EndsToCome == Len(node.queue) + due + FinishesQueued

-----------------------------------------------------------------------------
(* startAudioEngineIfNeeded, then the node's play, which raises when the   *)
(* engine could not be started.  clash: an earlier statement raised.       *)
PlayNode(n, clash) ==
  /\ running' \in {TRUE, running}
  /\ raised' = (clash \/ ~running')
  /\ node' = IF raised' THEN n ELSE Play(n)
  /\ isPlaying' = ~raised'
  /\ timer' = ~raised'

(* removeTap, then installTap, which gives up when the mixer has no input  *)
(* format.  A second tap on the bus raises.                                *)
RenewTap ==
  /\ isTapInstalled' \in BOOLEAN
  /\ tap' = (isTapInstalled' \/ (tap /\ ~isTapInstalled))

SecondTap == tap /\ ~isTapInstalled /\ isTapInstalled'

(* playLocalAudio: with a file that cannot be read: the file is forgotten, *)
(* what plays goes on.                                                     *)
ReadFails ==
  /\ audioFile' = NoFile
  /\ UNCHANGED <<isPlaying, timer, currentTime, isTapInstalled, engine, due,
                 raised, started, replayed>>

(* Mutant: playLocalAudio: does not stop first.                            *)
playLocalAudioUnstopped(f) ==
  \/ ReadFails
  \/ /\ audioFile' = f
     /\ UNCHANGED <<currentTime, due>>
     /\ RenewTap
     /\ PlayNode(Schedule(node, Stretch(f, 0, Length[f])), SecondTap)
     /\ started' = started + 1
     /\ replayed' = FALSE

playLocalAudio(f) ==
  \/ ReadFails
  \/ /\ audioFile' = f
     /\ currentTime' = 0
     /\ due' = due + CutShort
     /\ RenewTap
     /\ PlayNode(Schedule(StoppedNode, Stretch(f, 0, Length[f])), SecondTap)
     /\ started' = started + 1
     /\ replayed' = FALSE

playLocal(f) ==
  /\ UserCall
  /\ playLocalAudio(f)
  /\ UNCHANGED <<mainQueue, downloads, notified, crossed>>

play ==
  /\ UserCall
  /\ IF isPlaying
       THEN UNCHANGED <<isPlaying, timer, running, node, raised, replayed>>
       ELSE /\ PlayNode(node, FALSE)
            /\ replayed' = (EndsToCome = 0)
  /\ UNCHANGED <<audioFile, currentTime, isTapInstalled, tap, pending, started,
                 notified, crossed>>

(* Mutant: pause does not reach the node.                                  *)
pauseShown ==
  /\ UserCall
  /\ isPlaying' = FALSE
  /\ timer' = FALSE
  /\ UNCHANGED <<audioFile, currentTime, isTapInstalled, engine, pending, raised,
                 history>>

pause ==
  /\ UserCall
  /\ IF isPlaying
       THEN /\ node' = Pause(node)
            /\ isPlaying' = FALSE
            /\ timer' = FALSE
       ELSE UNCHANGED <<node, isPlaying, timer>>
  /\ UNCHANGED <<audioFile, currentTime, isTapInstalled, tap, running, pending,
                 raised, history>>

stop ==
  /\ UserCall
  /\ node' = StoppedNode
  /\ due' = due + CutShort
  /\ isPlaying' = FALSE
  /\ timer' = FALSE
  /\ currentTime' = 0
  /\ UNCHANGED <<audioFile, isTapInstalled, tap, running, mainQueue, downloads,
                 raised, history>>

(* playRemoteAudio: fetches the file on a global queue; what was fetched   *)
(* and saved is started from the main queue.  (Bound: one download of a    *)
(* file at a time.)                                                        *)
playRemoteAudio(f) ==
  /\ UserCall
  /\ f \notin downloads
  /\ downloads' = downloads \cup {f}
  /\ UNCHANGED <<player, engine, due, mainQueue, raised, history>>

Downloaded(f) ==
  /\ ~raised
  /\ f \in downloads
  /\ downloads' = downloads \ {f}
  /\ mainQueue' \in {mainQueue, Append(mainQueue, Start(f))}
  /\ UNCHANGED <<player, engine, due, raised, acts, history>>

(* The progress timer fires.  A node that does not play has no player time. *)
updateProgress ==
  /\ ~raised
  /\ timer /\ isPlaying /\ audioFile # NoFile
  /\ node.playing
  /\ currentTime' = node.time
  /\ UNCHANGED <<audioFile, isPlaying, timer, isTapInstalled, engine, pending,
                 raised, acts, history>>

(* Mutant: an end is dropped when the player is not playing.               *)
completionHandlerPlaying ==
  /\ ~raised
  /\ due > 0
  /\ mainQueue' = IF isPlaying THEN Append(mainQueue, Finish) ELSE mainQueue
  /\ due' = due - 1
  /\ UNCHANGED <<player, engine, downloads, raised, acts, history>>

-----------------------------------------------------------------------------
(* The completion handler sends the end of its playback to the main queue. *)
completionHandler ==
  /\ ~raised
  /\ due > 0
  /\ mainQueue' = Append(mainQueue, Finish)
  /\ due' = due - 1
  /\ UNCHANGED <<player, engine, downloads, raised, acts, history>>

(* Mutant: the end is posted, the player still shown as playing.           *)
finishBlockPosts ==
  /\ Head(mainQueue) = Finish
  /\ UNCHANGED <<isPlaying, timer>>
  /\ notified' = notified + 1
  /\ crossed' = (crossed \/ node.queue # <<>>)
  /\ UNCHANGED <<audioFile, currentTime, isTapInstalled, engine, due, raised,
                 started, replayed>>

(* The main queue runs its first block: the end of a playback, or the      *)
(* start of a downloaded file.                                             *)
finishBlock ==
  /\ Head(mainQueue) = Finish
  /\ isPlaying' = FALSE
  /\ timer' = FALSE
  /\ notified' = notified + 1
  /\ crossed' = (crossed \/ node.queue # <<>>)
  /\ UNCHANGED <<audioFile, currentTime, isTapInstalled, engine, due, raised,
                 started, replayed>>

startBlock ==
  /\ Head(mainQueue).task = "start"
  /\ playLocalAudio(Head(mainQueue).file)
  /\ UNCHANGED <<notified, crossed>>

mainBlock ==
  /\ ~raised
  /\ mainQueue # <<>>
  /\ mainQueue' = Tail(mainQueue)
  /\ finishBlock \/ startBlock
  /\ UNCHANGED <<downloads, acts>>

(* The engine renders.                                                     *)
Render ==
  /\ ~raised
  /\ running /\ node.playing
  /\ node' = Rendered(node)
  /\ due' = IF Consumes(node) THEN due + 1 ELSE due
  /\ UNCHANGED <<player, tap, running, mainQueue, downloads, raised, acts,
                 history>>

Next ==
  \/ \E f \in Files : playLocal(f) \/ playRemoteAudio(f) \/ Downloaded(f)
  \/ play \/ pause \/ stop \/ updateProgress
  \/ completionHandler
  \/ mainBlock
  \/ Render

Spec == Init /\ [][Next]_vars

(* The engine renders while it runs, AVFoundation runs every handler, the  *)
(* main queue is served.                                                   *)
Fairness == WF_vars(Render) /\ WF_vars(completionHandler) /\ WF_vars(mainBlock)

FairSpec == Spec /\ Fairness

-----------------------------------------------------------------------------
(* Every playback that was scheduled posts its end exactly once, now or    *)
(* later: whatever is stopped, replaced or paused, no end is lost and none *)
(* is posted twice.                                                        *)
EachEndsOnce ==
  raised \/ started = notified + EndsToCome

(* What is heard is shown as playing, with the progress timer running,     *)
(* unless the end of a playback arrived after the next had begun.          *)
HeardIsShown ==
  node.playing /\ node.queue # <<>> /\ ~raised => (isPlaying /\ timer) \/ crossed

(* The time shown never runs ahead of what was heard of the file that      *)
(* plays, whatever was played, stopped or failed to load before it.        *)
NeverAheadOfSound ==
  node.queue # <<>> => currentTime <= Head(node.queue).start

(* The player does not show for good that it plays: what plays comes to an *)
(* end, by itself or by a call, and is then shown as ended.  The one case  *)
(* left out is that play was called with nothing queued and no end on its  *)
(* way, since nothing was played or it had ended: no handler clears that.  *)
PlaybackEnds == isPlaying ~> ~isPlaying \/ replayed

=============================================================================
