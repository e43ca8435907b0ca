-------------------------- MODULE PlayerViewModel2 --------------------------
(***************************************************************************)
(* PlayerViewModel2 (Example/WebRTCAudioProcessing/PlayerViewModel2.m):    *)
(* the transport of TransportPlayer, set up once by init, with a tap on    *)
(* the mixer that cuts the sound into 10 ms chunks for the noise reducer.  *)
(*                                                                         *)
(* The tap's block runs on a thread of the engine, one buffer at a time.   *)
(* It shares pcmCache with connectVolumeTap on the main thread, which      *)
(* replaces it; removing the tap does not wait for a block that runs.      *)
(* Tapped is TRUE for this player.                                         *)
(***************************************************************************)
EXTENDS TransportPlayer

CONSTANTS
  Chunk,      \* framePer10ms
  Buffers     \* the lengths of the tap's buffers, in frames of _targetFormat

ASSUME ChunkAssumption == Chunk \in Nat \ {0} /\ Buffers \subseteq Nat

VARIABLES
  pcmCache,   \* the frames in pcmCache
  block,      \* where the tap's block is: "out", at the "loop", at "take"
  replaced,   \* history: pcmCache was replaced under a running block
  dropped     \* history: a tap buffer had more frames than were appended

tapState == <<pcmCache, block, replaced, dropped>>
vars2 == <<vars, tapState>>

TypeOK2 ==
  /\ TypeOK
  /\ pcmCache \in Nat
  /\ block \in {"out", "loop", "take"}
  /\ replaced \in BOOLEAN /\ dropped \in BOOLEAN

-----------------------------------------------------------------------------
(* init, with setupAudio: nothing read; read, but the engine not started;  *)
(* or ready with the whole file queued.                                    *)
setupAudio ==
  \/ /\ audioFile = NoFile
     /\ running = FALSE
  \/ /\ audioFile \in Files
     /\ running \in BOOLEAN

Init2 ==
  /\ setupAudio
  /\ isPlayerReady = running
  /\ needsFileScheduled = ~running
  /\ node = IF running
              THEN Schedule(StoppedNode, Stretch(audioFile, 0, AudioLength))
              ELSE StoppedNode
  /\ isPlaying = FALSE
  /\ seekFrame = 0
  /\ currentPosition = 0
  /\ linkPaused = TRUE
  /\ tap = FALSE
  /\ callbacks = 0
  /\ raised = FALSE
  /\ acts = 0
  /\ late = FALSE
  /\ crossed = FALSE
  /\ pcmCache = 0
  /\ block = "out"
  /\ replaced = FALSE
  /\ dropped = FALSE

-----------------------------------------------------------------------------
(* playOrPause.  Its starting branch runs connectVolumeTap, which makes a  *)
(* new pcmCache before it installs the tap.                                *)
playOrPause2 ==
  /\ playOrPause
  /\ IF node.playing
       THEN UNCHANGED <<pcmCache, replaced>>
       ELSE /\ pcmCache' = 0
            /\ replaced' = (replaced \/ block # "out")
  /\ UNCHANGED <<block, dropped>>

skipForwards2(forwards) == skipForwards(forwards) /\ UNCHANGED tapState
updateDisplay2 == updateDisplay /\ UNCHANGED tapState
Render2 == Render /\ UNCHANGED tapState
completionHandler2 == completionHandler /\ UNCHANGED tapState

-----------------------------------------------------------------------------
(* The tap's block gets a buffer worth n frames of the target format.  The *)
(* converter writes into a buffer that holds one chunk: it fills that as   *)
(* far as its rate conversion allows (k; not at all on an error), and that *)
(* is all that is appended.                                                *)
tapBuffer(n) ==
  /\ ~raised
  /\ tap /\ running
  /\ block = "out"
  /\ block' = "loop"
  /\ \E k \in 0..Chunk : pcmCache' = pcmCache + k
  /\ dropped' = (dropped \/ n > Chunk)
  /\ UNCHANGED <<vars, replaced>>

(* Mutant of testCache: > for >=.                                          *)
testCacheMore ==
  /\ ~raised
  /\ block = "loop"
  /\ block' = IF pcmCache > Chunk THEN "take" ELSE "out"
  /\ UNCHANGED <<vars, pcmCache, replaced, dropped>>

(* The test of the block's loop.                                           *)
testCache ==
  /\ ~raised
  /\ block = "loop"
  /\ block' = IF pcmCache >= Chunk THEN "take" ELSE "out"
  /\ UNCHANGED <<vars, pcmCache, replaced, dropped>>

(* Mutant of takeChunk: the chunk is read and not removed.                 *)
peekChunk ==
  /\ ~raised
  /\ block = "take"
  /\ block' = "loop"
  /\ UNCHANGED <<vars, pcmCache, replaced, dropped>>

(* subdataWithRange: and replaceBytesInRange: raise when the cache is      *)
(* shorter than the chunk.                                                 *)
takeChunk ==
  /\ ~raised
  /\ block = "take"
  /\ IF pcmCache < Chunk
       THEN /\ raised' = TRUE
            /\ UNCHANGED <<pcmCache, block>>
       ELSE /\ pcmCache' = pcmCache - Chunk
            /\ block' = "loop"
            /\ UNCHANGED raised
  /\ UNCHANGED <<player, display, position, node, callbacks, acts, late,
                 crossed, replaced, dropped>>

Next2 ==
  \/ playOrPause2
  \/ \E forwards \in BOOLEAN : skipForwards2(forwards)
  \/ updateDisplay2
  \/ Render2
  \/ completionHandler2
  \/ \E n \in Buffers : tapBuffer(n)
  \/ testCache
  \/ takeChunk

Spec2 == Init2 /\ [][Next2]_vars2

(* As for the transport; and a block that has begun runs on.               *)
Fairness2 ==
  /\ WF_vars2(updateDisplay2) /\ WF_vars2(Render2)
  /\ WF_vars2(completionHandler2)
  /\ WF_vars2(testCache) /\ WF_vars2(takeChunk)

FairSpec2 == Spec2 /\ Fairness2

-----------------------------------------------------------------------------
(* Between buffers less than a chunk is left over, whatever the pauses and *)
(* restarts did to the cache: the block always catches up.                 *)
LeftoverBelowChunk ==
  /\ pcmCache < 2 * Chunk
  /\ block = "out" => pcmCache < Chunk

(* A ready player raises only in the two windows known: a call before the  *)
(* end of the file is shown, or a restart that replaces the cache under a  *)
(* running block.                                                          *)
RaisesOnlyInWindows == raised /\ isPlayerReady => late \/ replaced

(* With one file for the life of the player, the display is never ahead of *)
(* the file: what is queued always belongs to it and ends where it ends.   *)
QueueIsThisFile ==
  \A i \in DOMAIN node.queue :
    /\ node.queue[i].file = audioFile
    /\ node.queue[i].start + node.queue[i].count = AudioLength

(* A block never runs for ever: the loop drains the cache.                 *)
BlockReturns == block # "out" ~> block = "out" \/ raised

(* PlayerViewModel2.m:39 says that the data of buffer.frameLength frames   *)
(* is accumulated until it makes 10 ms: nothing the tap delivers is left   *)
(* out.                                                                    *)
AllAccumulated == ~dropped

=============================================================================
