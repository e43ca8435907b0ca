-------------------------- MODULE FrameProcessing --------------------------
(***************************************************************************)
(* The processing methods of AudioProcessingWrapper                        *)
(* (WebRTCAudioProcessing/Classes/AudioProcessingWrapper.mm): where the    *)
(* samples of a call come from, what of them goes through the APM, and     *)
(* what the caller gets back, when several threads call at once.           *)
(*                                                                         *)
(* The APM takes 10 ms at a time, whatever the caller's data holds: it is  *)
(* given a rate and pointers, never a length.  Its calls exclude each      *)
(* other.  processAudioFrame: works in _processedBuffer, which all calls   *)
(* on a wrapper share and nothing locks; the other methods work in memory  *)
(* of their own or of the caller.                                          *)
(*                                                                         *)
(* A sample is told apart by the call it belongs to, its index in the      *)
(* data of that call, and the channel of the APM it went through.          *)
(***************************************************************************)
EXTENDS Integers, Sequences

CONSTANTS
  Threads,     \* the threads that process audio
  Wrappers,    \* bound: the wrappers there can be
  SampleRate,  \* of every call: sampleRate
  Channels,    \* of every call: channels
  Sizes,       \* what a call can hand over: samples, or frames of a buffer
  MaxCalls     \* bound: calls of the processing methods in a behaviour

(* The int methods refuse a rate or a channel count that is not positive;   *)
(* below 100 Hz a block would have no frames and processBuffer: no end.     *)
ASSUME SampleRateAssumption == SampleRate \in Nat /\ SampleRate >= 100
ASSUME WrappersAssumption == Wrappers # {}
ASSUME ChannelsAssumption == Channels \in Nat \ {0}
ASSUME SizesAssumption == Sizes \subseteq Nat
ASSUME MaxCallsAssumption == MaxCalls \in Nat

VARIABLES
  buffer,      \* buffer[w]: the samples in _processedBuffer of wrapper w
  pc,          \* where each thread is in a processing method
  call,        \* the call each thread is in
  out,         \* what the call returns; <<>> for nil
  passes,      \* how often the APM was given each frame of the caller's buffer
  offset,      \* offset of processBuffer:
  overlapped,  \* threads whose processAudioFrame: another one overlapped
  calls,       \* calls made so far (bounded by MaxCalls)
  crashed      \* the program is gone

frameVars == <<buffer, pc, call, out, passes, offset, overlapped, calls>>

Methods == {"frame", "float", "buffer", "buffer10ms"}
Places == {"idle", "process", "copy", "blocks", "returned"}

-----------------------------------------------------------------------------
(* GetFrameSize and StreamConfig: the frames, and the samples, of 10 ms.    *)
GetFrameSize(rate) == rate \div 100
NumFrames == GetFrameSize(SampleRate)
NumSamples == Channels * NumFrames

(* The same division again, in processBuffer:.                              *)
samplesPer10ms == SampleRate \div 100

Sample(n, k, c) == [call |-> n, index |-> k, channel |-> c]
Samples == [call : 0..MaxCalls, index : Nat, channel : Nat]

(* The zeros a growing NSMutableData is filled with, memory that malloc     *)
(* returned, and data that did not go through the APM.                      *)
Unprocessed == Sample(0, 0, 0)

(* The data of call n, and what the APM makes of its first 10 ms.           *)
Data(n, size) == [k \in 1..size |-> Sample(n, k - 1, Channels)]
Own(n, k) == Sample(n, k - 1, (k - 1) % Channels)

(* NSMutableData's setLength: keeps what there is and fills up with zeros.  *)
Resized(data, size) ==
  [k \in 1..size |-> IF k <= Len(data) THEN data[k] ELSE Unprocessed]

(* ProcessStream on interleaved data, into data.                            *)
Written(data, n) ==
  [k \in 1..Len(data) |-> IF k <= NumSamples THEN Own(n, k) ELSE data[k]]

Deinterleave(data, frames) ==
  [c \in 0..(Channels - 1) |->
    [i \in 0..(frames - 1) |-> data[i * Channels + c + 1]]]

(* ProcessStream on channels; what lies beyond 10 ms stays uninitialised.   *)
Processed(planes, frames) ==
  [c \in 0..(Channels - 1) |->
    [i \in 0..(frames - 1) |->
      IF i < NumFrames THEN [planes[c][i] EXCEPT !.channel = c]
                       ELSE Unprocessed]]

Interleave(planes, frames) ==
  [k \in 1..(frames * Channels) |->
    planes[(k - 1) % Channels][(k - 1) \div Channels]]

-----------------------------------------------------------------------------
NoCall == [number |-> 0, method |-> "frame",
           wrapper |-> CHOOSE w \in Wrappers : TRUE, size |-> 0]

FrameInit ==
  /\ buffer = [w \in Wrappers |-> <<>>]
  /\ pc = [t \in Threads |-> "idle"]
  /\ call = [t \in Threads |-> NoCall]
  /\ out = [t \in Threads |-> <<>>]
  /\ passes = [t \in Threads |-> <<>>]
  /\ offset = [t \in Threads |-> 0]
  /\ overlapped = {}
  /\ calls = 0
  /\ crashed = FALSE

Goto(t, l) == pc' = [pc EXCEPT ![t] = l]

At(t, l) == pc[t] = l

Enter(t, m, w, size) ==
  /\ At(t, "idle")
  /\ calls < MaxCalls
  /\ calls' = calls + 1
  /\ call' = [call EXCEPT ![t] = [number |-> calls + 1, method |-> m,
                                  wrapper |-> w, size |-> size]]

(* The APM reads, or writes, memory beyond what it was given: it may stay   *)
(* unnoticed, or end the program.                                           *)
MayCrash(astray) == crashed' \in (IF astray THEN BOOLEAN ELSE {crashed})

(* nil for no data.                                                         *)
refuseEmpty(t, m, w) ==
  /\ Enter(t, m, w, 0)
  /\ Goto(t, "returned")
  /\ UNCHANGED <<buffer, out, passes, offset, overlapped, crashed>>

(* The threads that have the bytes of w's buffer in hand.                   *)
Inside(w, t) ==
  {u \in Threads \ {t} : pc[u] \in {"process", "copy"} /\ call[u].wrapper = w}

(* Mutant of processAudioFrame: the shared buffer grows and never shrinks.  *)
growOnly(t, w, size) ==
  /\ size > 0
  /\ Enter(t, "frame", w, size)
  /\ buffer' = [buffer EXCEPT
       ![w] = IF size > Len(@) THEN Resized(@, size) ELSE @]
  /\ overlapped' =
       overlapped \cup (IF Inside(w, t) # {} THEN Inside(w, t) \cup {t} ELSE {})
  /\ Goto(t, "process")
  /\ UNCHANGED <<out, passes, offset, crashed>>

(* processAudioFrame: up to the call of the APM: give the shared buffer the *)
(* length of the data and take its bytes.                                   *)
processAudioFrame(t, w, size) ==
  /\ size > 0
  /\ Enter(t, "frame", w, size)
  /\ buffer' = [buffer EXCEPT ![w] = Resized(@, size)]
  /\ overlapped' =
       overlapped \cup (IF Inside(w, t) # {} THEN Inside(w, t) \cup {t} ELSE {})
  /\ Goto(t, "process")
  /\ UNCHANGED <<out, passes, offset, crashed>>

(* ... the call of the APM.  If another call has set the length since, the  *)
(* bytes taken may be the buffer's no more.                                 *)
ProcessStream(t) ==
  /\ At(t, "process")
  /\ LET w == call[t].wrapper
         moved == t \in overlapped
         new == [buffer EXCEPT ![w] = Written(@, call[t].number)]
     IN  /\ buffer' \in (IF moved THEN {new, buffer} ELSE {new})
         /\ MayCrash(moved \/ call[t].size < NumSamples)
  /\ Goto(t, "copy")
  /\ UNCHANGED <<call, out, passes, offset, overlapped, calls>>

(* ... which may fail: nil.                                                 *)
ProcessStreamFails(t) ==
  /\ At(t, "process")
  /\ Goto(t, "returned")
  /\ UNCHANGED <<buffer, call, out, passes, offset, overlapped, calls, crashed>>

(* ... [_processedBuffer copy].                                             *)
CopyOut(t) ==
  /\ At(t, "copy")
  /\ out' = [out EXCEPT ![t] = buffer[call[t].wrapper]]
  /\ Goto(t, "returned")
  /\ UNCHANGED <<buffer, call, passes, offset, overlapped, calls, crashed>>

(* processAudioFrameFloat: works in memory it allocates, so that it is one  *)
(* step.  Samples that make no whole frame are left out.  It takes the data *)
(* for interleaved, whatever they are: the header calls the method          *)
(* non-interleaved, and AudioPlayerFlauto gives it one channel after the    *)
(* other and takes back the same.  A sample then goes through the channel   *)
(* of its place in the data, which need not be its own.                     *)
processAudioFrameFloat(t, w, size) ==
  /\ size > 0
  /\ Enter(t, "float", w, size)
  /\ LET frames == size \div Channels
         planes == Deinterleave(Data(calls + 1, size), frames)
     IN  /\ out' \in {out, [out EXCEPT ![t] =
                              Interleave(Processed(planes, frames), frames)]}
         /\ MayCrash(frames < NumFrames)
  /\ Goto(t, "returned")
  /\ UNCHANGED <<buffer, passes, offset, overlapped>>

(* processBuffer10ms: and processFloatAudio: give the APM the caller's      *)
(* memory, whatever its length.                                             *)
processBuffer10ms(t, w, size) ==
  /\ Enter(t, "buffer10ms", w, size)
  /\ passes' = [passes EXCEPT
       ![t] = [k \in 1..size |-> IF k <= NumFrames THEN 1 ELSE 0]]
  /\ MayCrash(size < NumFrames)
  /\ Goto(t, "returned")
  /\ UNCHANGED <<buffer, out, offset, overlapped>>

(* processBuffer: a block of 10 ms after the other, as long as there are    *)
(* whole ones; a failure is logged and the loop goes on.                    *)
processBuffer(t, w, size) ==
  /\ Enter(t, "buffer", w, size)
  /\ passes' = [passes EXCEPT ![t] = [k \in 1..size |-> 0]]
  /\ offset' = [offset EXCEPT ![t] = 0]
  /\ Goto(t, "blocks")
  /\ UNCHANGED <<buffer, out, overlapped, crashed>>

GivenBlock(t) ==
  passes' = [passes EXCEPT ![t] =
    [k \in DOMAIN @ |->
      IF k > offset[t] /\ k <= offset[t] + NumFrames THEN @[k] + 1 ELSE @[k]]]

(* Mutant of ProcessBlock: a last block that is full is left out.           *)
ProcessBlockStrict(t) ==
  /\ At(t, "blocks")
  /\ IF offset[t] + samplesPer10ms < call[t].size
       THEN /\ GivenBlock(t)
            /\ offset' = [offset EXCEPT ![t] = @ + samplesPer10ms]
            /\ UNCHANGED pc
       ELSE Goto(t, "returned") /\ UNCHANGED <<passes, offset>>
  /\ UNCHANGED <<buffer, call, out, overlapped, calls, crashed>>

(* Mutant of ProcessBlock: the offset does not advance.                     *)
ProcessBlockAgain(t) ==
  /\ At(t, "blocks")
  /\ IF offset[t] + samplesPer10ms <= call[t].size
       THEN UNCHANGED <<passes, offset, pc>>
       ELSE Goto(t, "returned") /\ UNCHANGED <<passes, offset>>
  /\ UNCHANGED <<buffer, call, out, overlapped, calls, crashed>>

ProcessBlock(t) ==
  /\ At(t, "blocks")
  /\ IF offset[t] + samplesPer10ms <= call[t].size
       THEN /\ GivenBlock(t)
            /\ offset' = [offset EXCEPT ![t] = @ + samplesPer10ms]
            /\ UNCHANGED pc
       ELSE Goto(t, "returned") /\ UNCHANGED <<passes, offset>>
  /\ UNCHANGED <<buffer, call, out, overlapped, calls, crashed>>

(* The caller takes what it gets.                                           *)
Return(t) ==
  /\ At(t, "returned")
  /\ Goto(t, "idle")
  /\ call' = [call EXCEPT ![t] = NoCall]
  /\ out' = [out EXCEPT ![t] = <<>>]
  /\ passes' = [passes EXCEPT ![t] = <<>>]
  /\ offset' = [offset EXCEPT ![t] = 0]
  /\ overlapped' = overlapped \ {t}
  /\ UNCHANGED <<buffer, calls, crashed>>

-----------------------------------------------------------------------------
FrameTypeOK ==
  /\ buffer \in [Wrappers -> Seq(Samples)]
  /\ pc \in [Threads -> Places]
  /\ call \in [Threads -> [number : 0..MaxCalls, method : Methods,
                           wrapper : Wrappers, size : Sizes \cup {0}]]
  /\ out \in [Threads -> Seq(Samples)]
  /\ passes \in [Threads -> Seq(Nat)]
  /\ offset \in [Threads -> Nat]
  /\ overlapped \subseteq Threads
  /\ calls \in 0..MaxCalls
  /\ crashed \in BOOLEAN

(* A processing method begins on wrapper w.                                 *)
Process(t, w) ==
  \/ \E m \in {"frame", "float"} : refuseEmpty(t, m, w)
  \/ \E size \in Sizes :
       \/ processAudioFrame(t, w, size)
       \/ processAudioFrameFloat(t, w, size)
       \/ processBuffer10ms(t, w, size)
       \/ processBuffer(t, w, size)

(* A method that has begun runs on.                                         *)
Advance(t) ==
  \/ ProcessStream(t) \/ ProcessStreamFails(t) \/ CopyOut(t)
  \/ ProcessBlock(t)
  \/ Return(t)

(* What may stand at place k of what call n returns.  processAudioFrame: is *)
(* declared, and used, for interleaved data: sample k through its own       *)
(* channel.  Whether the channel that a sample of processAudioFrameFloat:   *)
(* goes through is its own depends on the caller, so none is asked for.     *)
Expected(method, n, k) ==
  IF method = "frame" THEN {Own(n, k)}
                      ELSE {Sample(n, k - 1, c) : c \in 0..(Channels - 1)}

(* A call that no other call on the wrapper overlapped returns the samples  *)
(* of its own data, each at its place and through the APM, as far as the    *)
(* APM was given them: the first 10 ms.  The shared buffer brings nothing   *)
(* of other calls into them, and what is deinterleaved gets back to where   *)
(* it was.                                                                  *)
ReturnsOwnFrame ==
  \A t \in Threads :
    At(t, "returned") /\ out[t] # <<>> /\ t \notin overlapped =>
      /\ \A k \in DOMAIN out[t] :
           k <= NumSamples => out[t][k] \in Expected(call[t].method, call[t].number, k)
      /\ Len(out[t]) = IF call[t].method = "float"
                         THEN call[t].size - (call[t].size % Channels)
                         ELSE call[t].size

(* processBuffer: gives the APM every frame that belongs to a whole block   *)
(* of 10 ms exactly once, and no other.                                     *)
EachBlockOnce ==
  \A t \in Threads :
    At(t, "returned") /\ call[t].method = "buffer" =>
      \A k \in DOMAIN passes[t] :
        passes[t][k] =
          IF k <= call[t].size - (call[t].size % NumFrames) THEN 1 ELSE 0

=============================================================================
