------------------------- MODULE NoiseReductionNode -------------------------
(***************************************************************************)
(* NoiseReductionNode (Example/WebRTCAudioProcessing/NoiseReductionNode.m) *)
(* as AudioNoiseReductionPlayer uses it: the switch, which callers set and *)
(* a block on the main queue makes good; the engine's thread, which calls  *)
(* renderNotification before and after it renders a slice; the pool of     *)
(* buffers; the fallback for a processing that is too slow; and the        *)
(* statistics, which the player reads and resets.                          *)
(*                                                                         *)
(* Times are counted in the duration of a frame.                           *)
(***************************************************************************)
EXTENDS Integers, Sequences, SequencesExt

CONSTANTS
  Callers,      \* the threads that call the node
  Main,         \* the main thread, one of them
  Slices,       \* how many frames the engine may ask for at a time
  Times,        \* how long the processing of a slice may take
  PoolMax,      \* 8: the buffers the pool keeps
  StatsPeriod,  \* 500: slices after which the statistics are reset
  MaxCalls      \* bound: calls of the setter and of the reset

(* The engine renders slices of at least one frame.                         *)
ASSUME MainAssumption == Main \in Callers
ASSUME SlicesAssumption == Slices \subseteq Nat \ {0}
ASSUME TimesAssumption == Times \subseteq Nat
ASSUME PoolMaxAssumption == PoolMax \in Nat \ {0}
ASSUME StatsPeriodAssumption == StatsPeriod \in Nat \ {0}
ASSUME MaxCallsAssumption == MaxCalls \in Nat

VARIABLES
  enabled,         \* _enabled
  shouldBypass,    \* _shouldBypass
  needsFallback,   \* _needsFallback
  setting,         \* what each caller is setting, before it has sent its block
  mainQueue,       \* the blocks of setEnabled: on the main queue: their values
  crossed,         \* two callers are, or were last, in setEnabled: at once
  phase,           \* where the engine's thread is
  slice,           \* inNumberFrames of the slice being rendered, else 0
  inputSize,       \* frames _inputBuffer has room for; 0 while not initialised
  pool,            \* the capacities of the buffers in _bufferPool
  held,            \* the capacity of the buffer in use; 0 for none
  allocated,       \* capacities that were allocated so far
  last,            \* _lastProcessingTime
  max,             \* _maxProcessingTime
  maxRead,         \* what the engine's thread has read of it, while recording
  count,           \* _processingCount, modulo StatsPeriod
  peak,            \* the longest time measured since the last reset
  lostReset,       \* the last reset fell between reading max and writing it
  calls,           \* calls made so far (bounded by MaxCalls)
  crashed          \* the program is gone

switch == <<enabled, shouldBypass, needsFallback, setting, mainQueue, crossed>>
buffers == <<slice, inputSize, pool, held, allocated>>
stored == <<inputSize, pool, held, allocated>>
statistics == <<last, max, maxRead, count, peak, lostReset>>
vars == <<switch, phase, buffers, statistics, calls, crashed>>

Phases == {"idle", "rendered", "process", "return", "time", "record", "check"}

(* No call is under way in a caller.                                        *)
NotSetting == "none"

(* The player's setupAudioEngine has called the setter once.                *)
Init ==
  /\ enabled = TRUE
  /\ shouldBypass = FALSE
  /\ needsFallback = FALSE
  /\ setting = [c \in Callers |-> NotSetting]
  /\ mainQueue = <<TRUE>>
  /\ crossed = FALSE
  /\ phase = "idle"
  /\ slice = 0
  /\ inputSize = 0
  /\ pool = <<>>
  /\ held = 0
  /\ allocated = {}
  /\ last = 0 /\ max = 0 /\ maxRead = 0 /\ count = 0
  /\ peak = 0 /\ lostReset = FALSE
  /\ calls = 0
  /\ crashed = FALSE

Longer(a, b) == IF a < b THEN b ELSE a

Idle(c) == setting[c] = NotSetting
SettersIdle == \A c \in Callers : Idle(c)

Call(c) ==
  /\ Idle(c)
  /\ calls < MaxCalls
  /\ calls' = calls + 1

-----------------------------------------------------------------------------
(* setEnabled: _enabled ...                                                 *)
setEnabled(c, v) ==
  /\ Call(c)
  /\ enabled' = v
  /\ setting' = [setting EXCEPT ![c] = IF v THEN "on" ELSE "off"]
  /\ crossed' = ~SettersIdle
  /\ UNCHANGED <<shouldBypass, needsFallback, mainQueue, phase, buffers,
                 statistics, crashed>>

(* ... and the block for the main queue.                                    *)
Dispatch(c) ==
  /\ ~Idle(c)
  /\ mainQueue' = Append(mainQueue, setting[c] = "on")
  /\ setting' = [setting EXCEPT ![c] = NotSetting]
  /\ UNCHANGED <<enabled, shouldBypass, needsFallback, crossed, phase, buffers,
                 statistics, calls, crashed>>

(* Mutants of mainBlock: turning off does not bypass; turning on leaves a   *)
(* bypass in place.                                                         *)
mainBlockOnOnly ==
  /\ mainQueue # <<>> /\ Idle(Main)
  /\ mainQueue' = Tail(mainQueue)
  /\ shouldBypass' = (shouldBypass /\ ~Head(mainQueue))
  /\ needsFallback' = (needsFallback /\ ~Head(mainQueue))
  /\ UNCHANGED <<enabled, setting, crossed, phase, buffers, statistics, calls,
                 crashed>>

mainBlockOffOnly ==
  /\ mainQueue # <<>> /\ Idle(Main)
  /\ mainQueue' = Tail(mainQueue)
  /\ shouldBypass' = (shouldBypass \/ ~Head(mainQueue))
  /\ needsFallback' = (needsFallback /\ ~Head(mainQueue))
  /\ UNCHANGED <<enabled, setting, crossed, phase, buffers, statistics, calls,
                 crashed>>

(* The block of a setEnabled:, when the main thread is free for it.  One    *)
(* step stands for its two writes: a fallback that the engine's thread      *)
(* falls into between them is not shown.  The node outlives its blocks: a   *)
(* block that finds it gone ends the program (strongSelf-> of nil).         *)
mainBlock ==
  /\ mainQueue # <<>> /\ Idle(Main)
  /\ mainQueue' = Tail(mainQueue)
  /\ shouldBypass' = ~Head(mainQueue)
  /\ needsFallback' = (needsFallback /\ ~Head(mainQueue))
  /\ UNCHANGED <<enabled, setting, crossed, phase, buffers, statistics, calls,
                 crashed>>

(* updateProcessingStats, from resetPerformanceStats of the player.         *)
resetPerformanceStats(c) ==
  /\ Call(c)
  /\ max' = 0
  /\ peak' = 0
  /\ lostReset' = (phase = "record")
  /\ UNCHANGED <<switch, phase, buffers, last, maxRead, count, crashed>>

-----------------------------------------------------------------------------
Active == enabled /\ ~shouldBypass

(* renderNotification before a slice is rendered: _inputBuffer gets its     *)
(* size from the first one.  Copying a longer one writes beyond it, which   *)
(* may stay unnoticed, or end the program.                                  *)
PreRender(n) ==
  /\ phase = "idle"
  /\ slice' = n
  /\ IF Active
       THEN /\ inputSize' = IF inputSize = 0 THEN n ELSE inputSize
            /\ crashed' \in IF n > inputSize' THEN BOOLEAN ELSE {crashed}
       ELSE UNCHANGED <<inputSize, crashed>>
  /\ phase' = "rendered"
  /\ UNCHANGED <<switch, pool, held, allocated, statistics, calls>>

(* ... and after.                                                           *)
PostRender ==
  /\ phase = "rendered"
  /\ IF Active
       THEN phase' = "process" /\ UNCHANGED slice
       ELSE phase' = "idle" /\ slice' = 0
  /\ UNCHANGED <<switch, stored, statistics, calls, crashed>>

(* The buffers of the pool that are large enough.                           *)
Fitting == {i \in 1..Len(pool) : pool[i] >= slice}

(* processAudioBuffers: does nothing in the fallback ...                    *)
SkipProcessing ==
  /\ phase = "process"
  /\ needsFallback
  /\ phase' = "time"
  /\ UNCHANGED <<switch, buffers, statistics, calls, crashed>>

Take(i) ==
  /\ held' = pool[i]
  /\ pool' = RemoveAt(pool, i)
  /\ UNCHANGED allocated

Allocate ==
  /\ held' = slice
  /\ allocated' = allocated \cup {slice}
  /\ UNCHANGED pool

(* Mutant of GetBuffer: takes only a buffer that is larger than the slice.  *)
GetLargerBuffer ==
  /\ phase = "process"
  /\ ~needsFallback
  /\ LET Larger == {i \in Fitting : pool[i] > slice}
     IN  \/ \E i \in Larger : (\A j \in Larger : i <= j) /\ Take(i)
         \/ Larger = {} /\ Allocate
  /\ phase' = "return"
  /\ UNCHANGED <<switch, slice, inputSize, statistics, calls, crashed>>

(* ... or takes the first such buffer, or allocates one, ...                *)
GetBuffer ==
  /\ phase = "process"
  /\ ~needsFallback
  /\ \/ \E i \in Fitting : (\A j \in Fitting : i <= j) /\ Take(i)
     \/ Fitting = {} /\ Allocate
  /\ phase' = "return"
  /\ UNCHANGED <<switch, slice, inputSize, statistics, calls, crashed>>

(* ... processes the slice and puts the buffer back, if there is room, and  *)
(* once in a while resets the statistics.                                   *)
ReturnBuffer ==
  /\ phase = "return"
  /\ pool' = IF Len(pool) < PoolMax THEN Append(pool, held) ELSE pool
  /\ held' = 0
  /\ IF count = 0
       THEN max' = 0 /\ peak' = 0 /\ lostReset' = FALSE
       ELSE UNCHANGED <<max, peak, lostReset>>
  /\ phase' = "time"
  /\ UNCHANGED <<switch, slice, inputSize, allocated, last, maxRead, count,
                 calls, crashed>>

(* The time that took is written down, ...                                  *)
TakeTime(t) ==
  /\ phase = "time"
  /\ last' = t
  /\ maxRead' = max
  /\ peak' = Longer(peak, t)
  /\ phase' = "record"
  /\ UNCHANGED <<switch, buffers, max, count, lostReset, calls, crashed>>

(* Mutant of RecordMax: the last time instead of the longest.               *)
RecordLast ==
  /\ phase = "record"
  /\ max' = last
  /\ maxRead' = 0
  /\ count' = (count + 1) % StatsPeriod
  /\ phase' = "check"
  /\ UNCHANGED <<switch, buffers, last, peak, lostReset, calls, crashed>>

RecordMax ==
  /\ phase = "record"
  /\ max' = Longer(maxRead, last)
  /\ maxRead' = 0
  /\ count' = (count + 1) % StatsPeriod
  /\ phase' = "check"
  /\ UNCHANGED <<switch, buffers, last, peak, lostReset, calls, crashed>>

(* ... and more than 0.7 of the slice's duration is too slow.               *)
CheckSpeed ==
  /\ phase = "check"
  /\ needsFallback' = (needsFallback \/ 10 * last > 7 * slice)
  /\ phase' = "idle"
  /\ slice' = 0
  /\ UNCHANGED <<enabled, shouldBypass, setting, mainQueue, crossed, stored,
                 statistics, calls, crashed>>

Render ==
  \/ \E n \in Slices : PreRender(n)
  \/ PostRender
  \/ SkipProcessing \/ GetBuffer \/ ReturnBuffer
  \/ \E t \in Times : TakeTime(t)
  \/ RecordMax \/ CheckSpeed

Next ==
  /\ ~crashed
  /\ \/ \E c \in Callers :
          \/ \E v \in BOOLEAN : setEnabled(c, v)
          \/ Dispatch(c)
          \/ resetPerformanceStats(c)
     \/ mainBlock
     \/ Render

Spec == Init /\ [][Next]_vars

(* The engine renders on, the main queue is served and a call that has      *)
(* begun ends.  Nobody has to call.                                         *)
FairSpec ==
  /\ Spec
  /\ WF_vars(~crashed /\ Render)
  /\ WF_vars(~crashed /\ mainBlock)
  /\ \A c \in Callers : WF_vars(~crashed /\ Dispatch(c))

-----------------------------------------------------------------------------
TypeOK ==
  /\ enabled \in BOOLEAN /\ shouldBypass \in BOOLEAN /\ needsFallback \in BOOLEAN
  /\ setting \in [Callers -> {NotSetting, "on", "off"}]
  /\ mainQueue \in Seq(BOOLEAN)
  /\ crossed \in BOOLEAN
  /\ phase \in Phases
  /\ slice \in Slices \cup {0}
  /\ inputSize \in Slices \cup {0}
  /\ pool \in Seq(Slices) /\ Len(pool) <= PoolMax
  /\ held \in Slices \cup {0}
  /\ allocated \subseteq Slices
  /\ last \in Nat /\ max \in Nat /\ maxRead \in Nat /\ peak \in Nat
  /\ count \in 0..(StatsPeriod - 1)
  /\ lostReset \in BOOLEAN
  /\ calls \in 0..MaxCalls
  /\ crashed \in BOOLEAN

(* setEnabled: writes _enabled at once and shouldBypass by a block, whose   *)
(* value is the one it was sent with.  When all blocks have run the two     *)
(* agree, unless the last calls overlapped: then they may disagree until    *)
(* the next call, which this property leaves out.                           *)
SwitchSettles ==
  SettersIdle /\ mainQueue = <<>> /\ ~crossed => shouldBypass = ~enabled

(* The pool serves every slice size it has once allocated a buffer for, and *)
(* keeps no two of one size, so that the engine's thread stops allocating,  *)
(* unless the pool is full.                                                 *)
AllocatesOnce ==
  held = 0 =>
    /\ \A i, j \in 1..Len(pool) : i # j => pool[i] # pool[j]
    /\ Len(pool) < PoolMax =>
         \A n \in allocated : \E i \in 1..Len(pool) : pool[i] >= n

(* But for the moment it is being written, maxProcessingTime is the longest *)
(* time since the last reset, whether the player or the period reset it,    *)
(* unless that reset fell between the read and the write.                   *)
MaxIsPeak == phase # "record" /\ ~lostReset => max = peak

(* A node that stays switched on, by calls that did not overlap, and out of *)
(* the fallback processes slices for ever.                                  *)
EnabledProcesses ==
  <>[](enabled /\ SettersIdle /\ ~crossed /\ ~needsFallback /\ ~crashed)
    => []<>(held # 0)

=============================================================================
