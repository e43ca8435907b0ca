-------------------------- MODULE TransportPlayer ---------------------------
(***************************************************************************)
(* YJAudioPlayer (Example/WebRTCAudioProcessing/YJAudioPlayer.m), the      *)
(* player behind the example's play button: play/pause, skip, and the end  *)
(* of the file.                                                            *)
(*                                                                         *)
(* The user's calls and the display link run on the main thread, each as   *)
(* one action.  The audio engine renders, and delivers the completion      *)
(* handlers of scheduled stretches, on threads of its own; a handler can   *)
(* arrive long after its stretch was stopped and replaced, and between two *)
(* statements of a call.                                                   *)
(*                                                                         *)
(* PlayerViewModel2.m holds the same code with a tap on the mixer; Tapped  *)
(* says which of the two is meant.                                         *)
(***************************************************************************)
EXTENDS AVPlayerNode

CONSTANTS
  Files,      \* the audio files
  Length,     \* Length[f]: the length of file f, in display periods
  NoFile,     \* _audioFile before a file was read
  SkipBy,     \* how far skipForwards: moves, in display periods
  Tapped,     \* connectVolumeTap installs a tap
  MaxActs     \* bound: calls from the user in a behaviour

ASSUME FilesAssumption ==
  /\ NoFile \notin Files
  /\ Length \in [Files -> Nat \ {0}]
  /\ \A f \in Files : Length[f] <= MaxTime
ASSUME SkipAssumption == SkipBy \in Nat \ {0}
ASSUME BoundAssumption == MaxActs \in Nat
ASSUME TappedAssumption == Tapped \in BOOLEAN

VARIABLES
  audioFile,          \* _audioFile
  isPlaying,          \* what the view shows
  isPlayerReady,
  needsFileScheduled,
  seekFrame,          \* _seekFrame: where the node's clock 0 lies in the file
  currentPosition,    \* _currentPosition
  linkPaused,         \* _displayLink.paused
  tap,                \* a tap is installed on the mixer
  running,            \* the engine runs
  node,               \* _player
  callbacks,          \* completion handlers due and not delivered
  raised,             \* AVFoundation raised an exception: the program is gone
  acts,               \* calls from the user so far (bounded by MaxActs)
  late,               \* history: a call came while the end was not yet shown
  crossed             \* history: a handler arrived while something was queued

player == <<audioFile, isPlayerReady, running>>
display == <<isPlaying, linkPaused, tap>>
position == <<needsFileScheduled, seekFrame, currentPosition>>
vars == <<player, display, position, node, callbacks, raised, acts, late,
          crossed>>

FileLength(f) == IF f = NoFile THEN 0 ELSE Length[f]
AudioLength == FileLength(audioFile)

TypeOK ==
  /\ audioFile \in Files \cup {NoFile}
  /\ isPlaying \in BOOLEAN /\ isPlayerReady \in BOOLEAN
  /\ needsFileScheduled \in BOOLEAN
  /\ seekFrame \in 0..MaxTime
  /\ currentPosition \in 0..MaxTime
  /\ linkPaused \in BOOLEAN /\ tap \in BOOLEAN /\ running \in BOOLEAN
  /\ node \in Nodes(Files)
  /\ callbacks \in Nat
  /\ raised \in BOOLEAN /\ late \in BOOLEAN /\ crossed \in BOOLEAN
  /\ acts \in 0..MaxActs

Init ==
  /\ audioFile = NoFile
  /\ isPlaying = FALSE
  /\ isPlayerReady = FALSE
  /\ needsFileScheduled = TRUE
  /\ seekFrame = 0
  /\ currentPosition = 0
  /\ linkPaused = TRUE
  /\ tap = FALSE
  /\ running = FALSE
  /\ node = StoppedNode
  /\ callbacks = 0
  /\ raised = FALSE
  /\ acts = 0
  /\ late = FALSE
  /\ crossed = FALSE

-----------------------------------------------------------------------------
(* The end was reached and the display link has not dealt with it yet:     *)
(* a skip to it stopped the node of a player shown playing, or the node    *)
(* played all that was queued.                                             *)
SkippedToEnd == isPlaying /\ ~node.playing
PlayedToEnd == node.time > 0 /\ node.queue = <<>>
EndUnseen == SkippedToEnd \/ PlayedToEnd

UserCall ==
  /\ ~raised
  /\ acts < MaxActs
  /\ acts' = acts + 1

(* scheduleAudioFile queues the whole of f unless it is queued already.    *)
Schedules(f) == f # NoFile /\ needsFileScheduled

WithFile(f) ==
  IF Schedules(f) THEN Schedule(node, Stretch(f, 0, Length[f])) ELSE node

(* Mutants of scheduleAudioFile: the flag is not cleared; the position of  *)
(* an earlier seek is kept.                                                *)
scheduleAgain(f) ==
  /\ UNCHANGED needsFileScheduled
  /\ seekFrame' = IF Schedules(f) THEN 0 ELSE seekFrame

scheduleAtSeek(f) ==
  /\ needsFileScheduled' = (needsFileScheduled /\ ~Schedules(f))
  /\ UNCHANGED seekFrame

scheduleAudioFile(f) ==
  /\ needsFileScheduled' = (needsFileScheduled /\ ~Schedules(f))
  /\ seekFrame' = IF Schedules(f) THEN 0 ELSE seekFrame

(* setupAudioUrl:, with configureEngine:.  Reading the file may fail, and  *)
(* so may starting an engine that does not run yet; both are only logged.  *)
setupFails ==
  /\ UserCall
  /\ UNCHANGED <<player, display, position, node, callbacks, raised, late,
                 crossed>>

(* Mutant of setupAudioUrl: ready even when the engine did not start.      *)
setupReadyAnyway(f) ==
  /\ UserCall
  /\ audioFile' = f
  /\ running' \in {TRUE, running}
  /\ isPlayerReady' = TRUE
  /\ scheduleAudioFile(f)
  /\ node' = WithFile(f)
  /\ late' = (late \/ EndUnseen)
  /\ UNCHANGED <<display, currentPosition, callbacks, raised, crossed>>

setupAudioUrl(f) ==
  /\ UserCall
  /\ audioFile' = f
  /\ running' \in {TRUE, running}
  /\ IF running'
       THEN /\ scheduleAudioFile(f)
            /\ node' = WithFile(f)
            /\ isPlayerReady' = TRUE
       ELSE UNCHANGED <<needsFileScheduled, seekFrame, node, isPlayerReady>>
  /\ late' = (late \/ EndUnseen)
  /\ UNCHANGED <<display, currentPosition, callbacks, raised, crossed>>

-----------------------------------------------------------------------------
(* Mutant of pausePlayer: disconnectVolumeTap is forgotten.                *)
pauseKeepsTap ==
  /\ linkPaused' = TRUE
  /\ node' = Pause(node)
  /\ UNCHANGED <<tap, needsFileScheduled, seekFrame, raised>>

(* The branch of playOrPause for a playing node.                           *)
pausePlayer ==
  /\ linkPaused' = TRUE
  /\ tap' = FALSE
  /\ node' = Pause(node)
  /\ UNCHANGED <<needsFileScheduled, seekFrame, raised>>

(* The other branch.  A second tap on the same bus raises before anything  *)
(* is scheduled; play raises when the engine does not run.                 *)
startPlayer ==
  /\ linkPaused' = FALSE
  /\ tap' = Tapped
  /\ IF Tapped /\ tap
       THEN /\ raised' = TRUE
            /\ UNCHANGED <<needsFileScheduled, seekFrame, node>>
       ELSE /\ scheduleAudioFile(audioFile)
            /\ raised' = ~running
            /\ node' = IF running THEN Play(WithFile(audioFile))
                                  ELSE WithFile(audioFile)

playOrPause ==
  /\ UserCall
  /\ isPlaying' = ~isPlaying
  /\ IF node.playing THEN pausePlayer ELSE startPlayer
  /\ late' = (late \/ EndUnseen)
  /\ UNCHANGED <<player, currentPosition, callbacks, crossed>>

-----------------------------------------------------------------------------
(* Where a seek by SkipBy goes, clamped to the file.                       *)
SeekTarget(forwards) ==
  LET wanted == IF forwards THEN currentPosition + SkipBy
                ELSE IF currentPosition > SkipBy THEN currentPosition - SkipBy
                ELSE 0
  IN  IF wanted < AudioLength THEN wanted ELSE AudioLength

(* What updateDisplay reads off the node's clock.                          *)
DisplayedPosition(n, seek, len) ==
  LET p == SampleTime(n) + seek IN IF p < len THEN p ELSE len

(* Mutant of seekIntoFile: the segment is as long as the whole file.       *)
seekWholeLength(forwards) ==
  LET target == SeekTarget(forwards)
      queued == Schedule(StoppedNode, Stretch(audioFile, target, AudioLength))
  IN  /\ target < AudioLength
      /\ seekFrame' = target
      /\ currentPosition' = target
      /\ needsFileScheduled' = FALSE
      /\ callbacks' = callbacks + Len(node.queue)
      /\ node' = IF node.playing THEN Play(queued) ELSE queued
      /\ late' = (late \/ EndUnseen)

(* seek: of skipForwards:.  The stop makes the handlers of all queued      *)
(* stretches due; early of them come before needsFileScheduled is cleared  *)
(* and are lost in it.  The updateDisplay in the middle sees a stopped     *)
(* node and a position short of the end, and takes no end branch.          *)
seekIntoFile(forwards) ==
  LET target == SeekTarget(forwards)
      rest == Stretch(audioFile, target, AudioLength - target)
      queued == Schedule(StoppedNode, rest)
  IN  /\ target < AudioLength
      /\ seekFrame' = target
      /\ currentPosition' = DisplayedPosition(StoppedNode, target, AudioLength)
      /\ needsFileScheduled' = FALSE
      /\ \E early \in 0..Len(node.queue) :
           callbacks' = callbacks + Len(node.queue) - early
      /\ node' = IF node.playing THEN Play(queued) ELSE queued
      /\ late' = (late \/ EndUnseen)

seekToEnd(forwards) ==
  /\ SeekTarget(forwards) >= AudioLength
  /\ seekFrame' = SeekTarget(forwards)
  /\ currentPosition' = SeekTarget(forwards)
  /\ callbacks' = callbacks + Len(node.queue)
  /\ node' = StoppedNode
  /\ UNCHANGED <<needsFileScheduled, late>>

skipForwards(forwards) ==
  /\ UserCall
  /\ IF audioFile = NoFile
       THEN UNCHANGED <<position, callbacks, node, late>>
       ELSE seekIntoFile(forwards) \/ seekToEnd(forwards)
  /\ UNCHANGED <<player, display, raised, crossed>>

-----------------------------------------------------------------------------
(* Mutant of showEnd: isPlaying is not cleared.                            *)
showEndStillPlaying ==
  /\ node' = StoppedNode
  /\ callbacks' = callbacks + Len(node.queue)
  /\ seekFrame' = 0
  /\ currentPosition' = 0
  /\ linkPaused' = TRUE
  /\ tap' = FALSE
  /\ late' = FALSE
  /\ UNCHANGED isPlaying

(* updateDisplay, fired by the display link: shows the position, and at    *)
(* the end of the file takes everything down.                              *)
showEnd ==
  /\ node' = StoppedNode
  /\ callbacks' = callbacks + Len(node.queue)
  /\ seekFrame' = 0
  /\ currentPosition' = 0
  /\ isPlaying' = FALSE
  /\ linkPaused' = TRUE
  /\ tap' = FALSE
  /\ late' = FALSE

(* Mutant of updateDisplay: > for >=, which the clamped position never is. *)
updateDisplayPastEnd ==
  /\ ~raised
  /\ ~linkPaused
  /\ LET p == DisplayedPosition(node, seekFrame, AudioLength)
     IN  IF p > AudioLength
           THEN showEnd
           ELSE /\ currentPosition' = p
                /\ UNCHANGED <<display, seekFrame, node, callbacks, late>>
  /\ UNCHANGED <<player, needsFileScheduled, raised, acts, crossed>>

updateDisplay ==
  /\ ~raised
  /\ ~linkPaused
  /\ LET p == DisplayedPosition(node, seekFrame, AudioLength)
     IN  IF p >= AudioLength
           THEN showEnd
           ELSE /\ currentPosition' = p
                /\ UNCHANGED <<display, seekFrame, node, callbacks, late>>
  /\ UNCHANGED <<player, needsFileScheduled, raised, acts, crossed>>

-----------------------------------------------------------------------------
(* The engine renders a display period.                                    *)
Render ==
  /\ ~raised
  /\ running /\ node.playing
  /\ node' = Rendered(node)
  /\ callbacks' = IF Consumes(node) THEN callbacks + 1 ELSE callbacks
  /\ UNCHANGED <<player, display, position, raised, acts, late, crossed>>

(* Mutant of completionHandler: the handler does nothing.                  *)
emptyHandler ==
  /\ ~raised
  /\ callbacks > 0
  /\ callbacks' = callbacks - 1
  /\ crossed' = (crossed \/ node.queue # <<>>)
  /\ UNCHANGED <<player, display, position, node, raised, acts, late>>

(* A completion handler: weakSelf.needsFileScheduled = YES.                *)
completionHandler ==
  /\ ~raised
  /\ callbacks > 0
  /\ callbacks' = callbacks - 1
  /\ needsFileScheduled' = TRUE
  /\ crossed' = (crossed \/ node.queue # <<>>)
  /\ UNCHANGED <<player, display, seekFrame, currentPosition, node, raised,
                 acts, late>>

Next ==
  \/ setupFails
  \/ \E f \in Files : setupAudioUrl(f)
  \/ playOrPause
  \/ \E forwards \in BOOLEAN : skipForwards(forwards)
  \/ updateDisplay
  \/ Render
  \/ completionHandler

Spec == Init /\ [][Next]_vars

(* The display link fires while it is not paused, the engine renders while *)
(* it runs, and AVFoundation delivers every handler.                       *)
Fairness ==
  WF_vars(updateDisplay) /\ WF_vars(Render) /\ WF_vars(completionHandler)

FairSpec == Spec /\ Fairness

-----------------------------------------------------------------------------
(* While sound comes out the display link runs, so the end of the file     *)
(* will be noticed; and it has a tap exactly when it runs, if there is one *)
(* at all.                                                                 *)
DisplayFollows ==
  ~raised => /\ node.playing => ~linkPaused
             /\ tap = (Tapped /\ ~linkPaused)

(* Play can always start something: either playOrPause will schedule the   *)
(* file, or a stretch is queued, or a handler that will make it schedule   *)
(* the file is on its way.                                                 *)
Restartable == needsFileScheduled \/ node.queue # <<>> \/ callbacks > 0

(* A ready player is never taken down by an exception, except the tapped   *)
(* one by a call that comes before the end of the file has been shown.     *)
RaisesOnlyUnready == raised /\ isPlayerReady => Tapped /\ late

(* What the view shows is what the node does, and the display link runs    *)
(* just then; except from a skip to the end until the display link shows   *)
(* it, and if a call comes in that window.                                 *)
ShownIsPlaying ==
  \/ raised \/ late
  \/ /\ isPlaying = ~linkPaused
     /\ \/ isPlaying = node.playing
        \/ SkippedToEnd /\ seekFrame = AudioLength

(* The file is queued at most once, and never queued and due to be queued, *)
(* unless a handler of a replaced stretch came after its replacement.      *)
QueuedOnce ==
  crossed \/ (Len(node.queue) <= 1 /\ (needsFileScheduled => node.queue = <<>>))

(* The position the next updateDisplay will show is the one being heard,   *)
(* except after one of the two races above.                                *)
ShownIsHeard ==
  node.playing /\ node.queue # <<>> /\ ~crossed /\ ~late
    => seekFrame + node.time = Head(node.queue).start

(* Playback comes to an end, and the view shows it.                        *)
PlaybackEnds == node.playing ~> ~node.playing
EndIsShown == isPlaying ~> ~isPlaying \/ late \/ raised

=============================================================================
