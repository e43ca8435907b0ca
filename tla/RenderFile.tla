------------------------------ MODULE RenderFile ------------------------------
(***************************************************************************)
(* How NoiseReducedPlayer                                                 *)
(* (Example/WebRTCAudioProcessing/NoiseReducedPlayer.m) plays a file.      *)
(* playFile0:, playFile00: and playFile3: each give a source node a block  *)
(* that the engine calls for a number of frames, again and again, and that *)
(* reads them from the file and runs them through the wrapper.  playFile:  *)
(* does so in a loop in the background, and queues the blocks on a player  *)
(* node.  (YJAudioPlayer's audioProcessBuffer is the same loop.)           *)
(*                                                                         *)
(* A frame is its position in the file.  The engine asks for any number of *)
(* frames; the file returns any number up to what was asked for, or fails. *)
(***************************************************************************)
EXTENDS Naturals, FiniteSets

CONSTANTS
  Methods,     \* which of the four methods play
  Length,      \* the length of the file
  ReadSize,    \* frames read into a pending buffer at a time
  Block10ms,   \* sampleRate / 100, the frames of a block of the APM
  Roundings,   \* what (NSUInteger)round(sampleRate * 0.01) may come to
  Requests     \* the frames the engine may ask for

ASSUME MethodsAssumption == 
  Methods \subseteq {"playFile0", "playFile00", "playFile3", "playFile"}
ASSUME SizesAssumption ==
  /\ Length \in Nat
  /\ ReadSize \in Nat \ {0}
  /\ Block10ms \in Nat \ {0}
  /\ Roundings \subseteq {Block10ms, Block10ms + 1}
  /\ Requests \subseteq Nat \ {0}

VARIABLES
  method,          \* the method whose block this is
  framePer10ms,    \* as the block sees it: playFile00: computes its own
  filePos,         \* the position of the file
  front,           \* the pending buffer; empty when its count is 0
  pc,              \* where the callback is
  framesRemaining, \* still to be output by the callback
  heard,           \* history: the frames that were output
  denoised,        \* history: the frames that went through the APM
  refused,         \* history: those of blocks that the APM failed on
  before,          \* history: the next frame when the callback began
  repeated,        \* history: a frame was output again, or too late
  failed           \* history: a read failed, in this callback

source == <<method, framePer10ms>>
block == <<filePos, front, pc, framesRemaining>>
history == <<heard, denoised, refused, before, repeated, failed>>
vars == <<source, block, history>>

Span(first, n) == first..(first + n - 1)
NoBuffer == [start |-> 0, count |-> 0]

TypeOK ==
  /\ method \in Methods
  /\ framePer10ms \in Roundings \cup {Block10ms}
  /\ filePos \in 0..Length
  /\ front \in [start : 0..Length, count : 0..ReadSize]
  /\ front.start + front.count <= filePos
  /\ pc \in {"idle", "drain", "fill", "block", "direct",
             "read", "cut", "ended"}
  /\ pc = "block" => front.count > 0
  /\ framesRemaining \in Nat
  /\ pc \in {"drain", "fill", "block", "direct"} => framesRemaining > 0
  /\ heard \subseteq 0..(Length - 1)
  /\ denoised \subseteq 0..(Length - 1)
  /\ refused \subseteq 0..(Length - 1)
  /\ before \in 0..Length
  /\ repeated \in BOOLEAN /\ failed \in BOOLEAN

Init ==
  /\ method \in Methods
  /\ framePer10ms \in IF method = "playFile00" THEN {Block10ms} ELSE Roundings
  /\ filePos = 0
  /\ front = NoBuffer
  /\ pc = IF method = "playFile" THEN "read" ELSE "idle"
  /\ framesRemaining = 0
  /\ heard = {}
  /\ denoised = {}
  /\ refused = {}
  /\ before = 0
  /\ repeated = FALSE
  /\ failed = FALSE

AtMost(n, limit) == IF n < limit THEN n ELSE limit

(* readIntoBuffer: no frames at the end of the file, or when it fails.     *)
Reads(n) == 0..AtMost(n, Length - filePos)
NoteFailure(k) == failed' = (failed \/ (k = 0 /\ filePos < Length))

(* The frame that follows those read and no longer pending.                *)
Position == IF front.count > 0 THEN front.start ELSE filePos

Refill(f) == IF f.count = 0 THEN "fill" ELSE "block"

-----------------------------------------------------------------------------
(* The engine calls the block.                                             *)
renderBlock(n) ==
  /\ pc = "idle"
  /\ framesRemaining' = n
  /\ before' = Position
  /\ pc' = CASE method = "playFile0" -> Refill(front)
             [] method = "playFile00" -> "drain"
             [] method = "playFile3" -> "direct"
  /\ failed' = FALSE
  /\ UNCHANGED <<source, filePos, front, heard, denoised, refused, repeated>>

(* playFile00: reads on until no more frames come; it runs them through    *)
(* the APM and lets them go.                                               *)
Drain ==
  /\ pc = "drain"
  /\ \E k \in Reads(ReadSize) :
       /\ filePos' = filePos + k
       /\ pc' = IF k = 0 THEN Refill(front) ELSE "drain"
       /\ NoteFailure(k)
  /\ UNCHANGED <<source, front, framesRemaining, heard, denoised, refused,
                 before, repeated>>

(* Mutant: a short read is taken for the end of the file.                  *)
FillShort ==
  /\ pc = "fill"
  /\ \E k \in Reads(ReadSize) :
       /\ filePos' = filePos + k
       /\ front' = [start |-> filePos, count |-> k]
       /\ pc' = IF k < ReadSize THEN "idle" ELSE "block"
       /\ NoteFailure(k)
  /\ UNCHANGED <<source, framesRemaining, heard, denoised, refused, before,
                 repeated>>

(* Mutant: no test for the end of the file.                                *)
FillRetries ==
  /\ pc = "fill"
  /\ \E k \in Reads(ReadSize) :
       /\ filePos' = filePos + k
       /\ front' = [start |-> filePos, count |-> k]
       /\ pc' = Refill(front')
       /\ NoteFailure(k)
  /\ UNCHANGED <<source, framesRemaining, heard, denoised, refused, before,
                 repeated>>

(* The pending buffer is filled, or the rest of the output stays silent.   *)
Fill ==
  /\ pc = "fill"
  /\ \E k \in Reads(ReadSize) :
       /\ filePos' = filePos + k
       /\ front' = [start |-> filePos, count |-> k]
       /\ pc' = IF k = 0 THEN "idle" ELSE "block"
       /\ NoteFailure(k)
  /\ UNCHANGED <<source, framesRemaining, heard, denoised, refused, before,
                 repeated>>

(* What a block of the pending buffer takes, and what of it fits the       *)
(* output.  The block is taken off the buffer whole.                       *)
Taken == AtMost(front.count, framePer10ms)

Copied == AtMost(Taken, framesRemaining)

(* Mutant: the rest of the buffer is not moved to its front.               *)
AfterUnmoved == [start |-> front.start, count |-> front.count - Taken]

(* Mutant: the buffer is removed with what is left in it.                  *)
AfterRemoved == [start |-> front.start + front.count, count |-> 0]

AfterBlock == [start |-> front.start + Taken, count |-> front.count - Taken]

(* Mutant: a block that is not full is not processed.                      *)
ProcessedFull == IF Taken < framePer10ms THEN 0 ELSE Block10ms

(* processBuffer10ms: the APM takes as many frames as its rate says, of a  *)
(* block padded with zeros.                                                *)
Processed == AtMost(Taken, Block10ms)

(* ProcessStream of a block, or of those of a buffer.  Where it fails, the *)
(* error is logged and the block is output as it was.  (All of a buffer's  *)
(* blocks or none: the properties ask for what was given to it.)           *)
ProcessStream(frames) ==
  \/ denoised' = denoised \cup frames /\ UNCHANGED refused
  \/ refused' = refused \cup frames /\ UNCHANGED denoised

Block ==
  /\ pc = "block"
  /\ heard' = heard \cup Span(front.start, Copied)
  /\ ProcessStream(Span(front.start, Processed))
  /\ repeated' = (repeated \/ \E f \in heard : f >= front.start)
  /\ front' = AfterBlock
  /\ framesRemaining' = framesRemaining - Copied
  /\ pc' = IF framesRemaining' = 0 THEN "idle" ELSE Refill(front')
  /\ UNCHANGED <<source, filePos, before, failed>>

(* playFile3: reads what was asked for, runs whole blocks of it through    *)
(* the APM (processBuffer:), and outputs all of it.                        *)
Direct ==
  /\ pc = "direct"
  /\ \E k \in Reads(framesRemaining) :
       /\ filePos' = filePos + k
       /\ heard' = heard \cup Span(filePos, k)
       /\ ProcessStream(Span(filePos, k - (k % Block10ms)))
       /\ repeated' = (repeated \/ \E f \in heard : f >= filePos)
       /\ framesRemaining' = framesRemaining - k
       /\ NoteFailure(k)
  /\ pc' = "idle"
  /\ UNCHANGED <<source, front, before>>

(* playFile: and audioProcessBuffer, in the background: read, and queue    *)
(* whole blocks of what was read on the player node.  A rest is let go.    *)
Read ==
  /\ pc = "read"
  /\ \E k \in Reads(ReadSize) :
       /\ filePos' = filePos + k
       /\ front' = [start |-> filePos, count |-> k]
       /\ pc' = IF k = 0 THEN "ended" ELSE "cut"
       /\ NoteFailure(k)
  /\ before' = filePos
  /\ UNCHANGED <<source, framesRemaining, heard, denoised, refused, repeated>>

Cut ==
  /\ pc = "cut"
  /\ IF front.count < Block10ms
       THEN /\ pc' = "read"
            /\ front' = [start |-> front.start + front.count, count |-> 0]
            /\ UNCHANGED <<heard, denoised, refused, repeated>>
       ELSE /\ pc' = "cut"
            /\ heard' = heard \cup Span(front.start, Block10ms)
            /\ ProcessStream(Span(front.start, Block10ms))
            /\ repeated' = (repeated \/ \E f \in heard : f >= front.start)
            /\ front' = [start |-> front.start + Block10ms,
                         count |-> front.count - Block10ms]
  /\ UNCHANGED <<source, filePos, framesRemaining, before, failed>>

Step == Drain \/ Fill \/ Block \/ Direct \/ Read \/ Cut

Next == Step \/ \E n \in Requests : renderBlock(n)

Spec == Init /\ [][Next]_vars

(* The engine's thread runs on while it is in the callback, the background *)
(* thread to the end of the loop.                                          *)
FairSpec == Spec /\ WF_vars(Step)

-----------------------------------------------------------------------------
(* No frame of the file is output twice or after one that follows it,      *)
(* whatever the engine asks for and the file returns.                      *)
InOrder == ~repeated

(* A callback of playFile0: may lose frames, since a block that does not   *)
(* fit the output is taken off the buffer whole; but never a whole block.  *)
(* playFile: loses less than a block of what it reads at a time, and       *)
(* playFile3: nothing.                                                     *)
Lost == {f \in before..(Position - 1) : f \notin heard}

LostInCallback ==
  /\ method = "playFile0" => Cardinality(Lost) < framePer10ms
  /\ method = "playFile" => Cardinality(Lost) < Block10ms
  /\ method = "playFile3" => Lost = {}

(* A callback of playFile0: that leaves part of its output silent has      *)
(* found the end of the file, or a read of its own failed: after a failed  *)
(* read the next callback reads on.                                        *)
SilentAtEnd ==
  method = "playFile0" /\ pc = "idle" /\ framesRemaining > 0
    => failed \/ filePos = Length

(* What is heard without having been given to the APM.  Where 10 ms are a  *)
(* frame longer for playFile0: than for the APM, the last frame of each    *)
(* full block; so there is none in the 10 ms after one.  playFile: lets    *)
(* none through, and a callback of playFile3: less than a block.           *)
Raw == heard \ (denoised \cup refused)

RawFrames ==
  /\ method = "playFile0"
       => \A f \in Raw : /\ framePer10ms = Block10ms + 1
                         /\ \A g \in Raw : g > f => g >= f + framePer10ms
  /\ method = "playFile" => Raw = {}
  /\ method = "playFile3"
       => Cardinality({f \in Raw : f >= before}) < Block10ms

(* A callback returns to the engine, and the loop of playFile: ends.       *)
CallbackReturns == pc # "idle" ~> pc \in {"idle", "ended"}

=============================================================================
