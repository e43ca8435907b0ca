---------------------- MODULE NoiseReductionNodeProofs ----------------------
(***************************************************************************)
(* Theorems about NoiseReductionNode, for any callers, slice sizes, times, *)
(* limit of the pool and period of the statistics.  The three invariants   *)
(* speak of disjoint parts of the state and are proved one by one, each    *)
(* from the type and an invariant of its own.                              *)
(***************************************************************************)
EXTENDS NoiseReductionNode, SequenceTheorems, TLAPS

(* The type, and that a slice is under way outside "idle".                 *)
TypeInv ==
  /\ TypeOK
  /\ phase # "idle" => slice \in Slices
  /\ phase = "return" => held \in Slices
  /\ phase # "return" => held = 0

(* What the last block of the main queue will make of shouldBypass.        *)
Settled == IF mainQueue = <<>> THEN ~shouldBypass ELSE mainQueue[Len(mainQueue)]

(* While calls of the setter do not overlap, one at most is under way, with *)
(* the value _enabled has; and when none is, the last block has it.        *)
SwitchInv ==
  ~crossed =>
    /\ \A c, d \in Callers : ~Idle(c) /\ ~Idle(d) => c = d
    /\ \A c \in Callers : ~Idle(c) => enabled = (setting[c] = "on")
    /\ SettersIdle => Settled = enabled

(* No two buffers of one capacity, the one in use included; and every size *)
(* once allocated is served, unless the pool is full, or will be when the  *)
(* buffer in use is back.                                                  *)
Serves(n) == held >= n \/ \E i \in 1..Len(pool) : pool[i] >= n

PoolInv ==
  /\ \A i, j \in 1..Len(pool) : i # j => pool[i] # pool[j]
  /\ \A i \in 1..Len(pool) : pool[i] # held
  /\ held = 0 /\ Len(pool) < PoolMax => \A n \in allocated : Serves(n)
  /\ held # 0 /\ Len(pool) + 1 < PoolMax => \A n \in allocated : Serves(n)

(* What will be written to max is right too.                               *)
PeakInv ==
  /\ MaxIsPeak
  /\ phase = "record" /\ ~lostReset => Longer(maxRead, last) = peak

-----------------------------------------------------------------------------
(* Taking an element out of a sequence leaves the others, in their order.  *)
LEMMA RemoveAtProperties ==
  ASSUME NEW S, NEW s \in Seq(S), NEW i \in 1..Len(s)
  PROVE  /\ RemoveAt(s, i) \in Seq(S)
         /\ Len(RemoveAt(s, i)) = Len(s) - 1
         /\ \A j \in 1..(Len(s) - 1) :
              RemoveAt(s, i)[j] = IF j < i THEN s[j] ELSE s[j + 1]
<1>. DEFINE a == SubSeq(s, 1, i - 1)
            b == SubSeq(s, i + 1, Len(s))
<1>1. Len(s) \in Nat /\ \A k \in 1..Len(s) : s[k] \in S
  OBVIOUS
<1>2. a \in Seq(S) /\ Len(a) = i - 1 /\ \A j \in 1..(i - 1) : a[j] = s[j]
  BY <1>1, SubSeqProperties
<1>3. b \in Seq(S) /\ Len(b) = Len(s) - i
      /\ \A j \in 1..(Len(s) - i) : b[j] = s[i + j]
  <2>1. \A k \in (i + 1)..Len(s) : s[k] \in S
    BY <1>1
  <2>. QED
    BY <1>1, <2>1, SubSeqProperties
<1>4. RemoveAt(s, i) = a \o b
  BY DEF RemoveAt
<1>. HIDE DEF a, b
<1>5. /\ a \o b \in Seq(S)
      /\ Len(a \o b) = Len(s) - 1
      /\ \A j \in 1..(Len(s) - 1) :
           (a \o b)[j] = IF j <= i - 1 THEN a[j] ELSE b[j - (i - 1)]
  <2>1. a \in Seq(S) /\ b \in Seq(S)
    BY <1>2, <1>3
  <2>2. /\ a \o b \in Seq(S)
        /\ Len(a \o b) = Len(a) + Len(b)
        /\ \A j \in 1..(Len(a) + Len(b)) :
             (a \o b)[j] = IF j <= Len(a) THEN a[j] ELSE b[j - Len(a)]
    BY <2>1, ConcatProperties
  <2>3. Len(a) = i - 1 /\ Len(a) + Len(b) = Len(s) - 1
    BY <1>1, <1>2, <1>3
  <2>. QED
    BY <2>2, <2>3
<1>6. ASSUME NEW j \in 1..(Len(s) - 1)
      PROVE  (a \o b)[j] = IF j < i THEN s[j] ELSE s[j + 1]
  <2>1. CASE j < i
    BY <1>1, <1>2, <1>5, <2>1
  <2>2. CASE ~(j < i)
    <3>1. j - (i - 1) \in 1..(Len(s) - i) /\ i + (j - (i - 1)) = j + 1
      BY <1>1, <2>2
    <3>. QED
      BY <1>1, <1>3, <1>5, <2>2, <3>1
  <2>. QED
    BY <2>1, <2>2
<1>. QED
  BY <1>4, <1>5, <1>6

-----------------------------------------------------------------------------
LEMMA TypeInit == Init => TypeInv
<1>. SUFFICES ASSUME Init PROVE TypeInv
  OBVIOUS
<1>1. mainQueue \in Seq(BOOLEAN)
  <2>1. TRUE \in BOOLEAN
    OBVIOUS
  <2>. QED
    BY <2>1 DEF Init
<1>2. pool \in Seq(Slices) /\ Len(pool) <= PoolMax
  BY PoolMaxAssumption DEF Init
<1>3. enabled \in BOOLEAN /\ shouldBypass \in BOOLEAN /\ needsFallback \in BOOLEAN
      /\ crossed \in BOOLEAN /\ lostReset \in BOOLEAN /\ crashed \in BOOLEAN
  BY Zenon DEF Init
<1>4. setting \in [Callers -> {NotSetting, "on", "off"}]
  BY DEF Init
<1>. QED
  BY <1>1, <1>2, <1>3, <1>4, StatsPeriodAssumption, MaxCallsAssumption
  DEF Init, TypeInv, TypeOK, Phases

LEMMA TypeStep == TypeInv /\ [Next]_vars => TypeInv'
<1>. SUFFICES ASSUME TypeInv, [Next]_vars
              PROVE  TypeInv'
  OBVIOUS
<1>. USE SlicesAssumption, TimesAssumption, PoolMaxAssumption,
         StatsPeriodAssumption, MaxCallsAssumption
<1>1. ASSUME NEW c \in Callers, NEW v \in BOOLEAN, setEnabled(c, v)
      PROVE  TypeInv'
  <2>1. setting' \in [Callers -> {NotSetting, "on", "off"}]
    BY <1>1 DEF setEnabled, TypeInv, TypeOK
  <2>2. enabled' \in BOOLEAN /\ crossed' \in BOOLEAN
    BY <1>1, Zenon DEF setEnabled, SettersIdle
  <2>3. calls' \in 0..MaxCalls
    BY <1>1 DEF setEnabled, Call, TypeInv, TypeOK
  <2>. QED
    BY <1>1, <2>1, <2>2, <2>3 DEF setEnabled, TypeInv, TypeOK, buffers, statistics
<1>2. ASSUME NEW c \in Callers, Dispatch(c)
      PROVE  TypeInv'
  <2>1. setting' \in [Callers -> {NotSetting, "on", "off"}]
    BY <1>2 DEF Dispatch, TypeInv, TypeOK
  <2>2. (setting[c] = "on") \in BOOLEAN
    OBVIOUS
  <2>3. mainQueue' \in Seq(BOOLEAN)
    BY <1>2, <2>2, AppendProperties DEF Dispatch, TypeInv, TypeOK
  <2>. QED
    BY <1>2, <2>1, <2>3 DEF Dispatch, TypeInv, TypeOK, buffers, statistics
<1>3. ASSUME NEW c \in Callers, resetPerformanceStats(c)
      PROVE  TypeInv'
  <2>1. lostReset' \in BOOLEAN
    BY <1>3, Zenon DEF resetPerformanceStats
  <2>2. calls' \in 0..MaxCalls
    BY <1>3 DEF resetPerformanceStats, Call, TypeInv, TypeOK
  <2>. QED
    BY <1>3, <2>1, <2>2
    DEF resetPerformanceStats, TypeInv, TypeOK, buffers, switch
<1>4. CASE mainBlock
  <2>1. mainQueue' \in Seq(BOOLEAN) /\ Head(mainQueue) \in BOOLEAN
    BY <1>4, HeadTailProperties DEF mainBlock, TypeInv, TypeOK
  <2>2. shouldBypass' \in BOOLEAN /\ needsFallback' \in BOOLEAN
    BY <1>4, Zenon DEF mainBlock
  <2>. QED
    BY <1>4, <2>1, <2>2 DEF mainBlock, TypeInv, TypeOK, buffers, statistics
<1>5. ASSUME NEW n \in Slices, PreRender(n)
      PROVE  TypeInv'
  <2>1. inputSize' \in Slices \cup {0}
    BY <1>5 DEF PreRender, TypeInv, TypeOK
  <2>2. crashed' \in BOOLEAN
    <3>1. crashed \in BOOLEAN
      BY DEF TypeInv, TypeOK
    <3>. QED
      BY <1>5, <3>1, Zenon DEF PreRender
  <2>. QED
    BY <1>5, <2>1, <2>2 DEF PreRender, TypeInv, TypeOK, Phases, switch, statistics
<1>6. CASE PostRender
  BY <1>6 DEF PostRender, TypeInv, TypeOK, Phases, switch, stored, statistics
<1>7. CASE SkipProcessing
  BY <1>7 DEF SkipProcessing, TypeInv, TypeOK, Phases, switch, buffers, statistics
<1>8. CASE GetBuffer
  <2>1. pool \in Seq(Slices) /\ Len(pool) \in Nat /\ slice \in Slices
    BY <1>8 DEF GetBuffer, TypeInv, TypeOK
  <2>2. ASSUME NEW i \in Fitting, Take(i)
        PROVE  /\ held' \in Slices
               /\ pool' \in Seq(Slices) /\ Len(pool') <= PoolMax
               /\ allocated' \subseteq Slices
    <3>1. i \in 1..Len(pool) /\ held' = pool[i] /\ pool' = RemoveAt(pool, i)
      BY <2>2 DEF Take, Fitting
    <3>2. pool' \in Seq(Slices) /\ Len(pool') = Len(pool) - 1
      BY <2>1, <3>1, RemoveAtProperties
    <3>. QED
      BY <2>1, <2>2, <3>1, <3>2 DEF Take, TypeInv, TypeOK
  <2>3. ASSUME Allocate
        PROVE  /\ held' \in Slices
               /\ pool' \in Seq(Slices) /\ Len(pool') <= PoolMax
               /\ allocated' \subseteq Slices
    BY <2>1, <2>3 DEF Allocate, TypeInv, TypeOK
  <2>4. /\ held' \in Slices
        /\ pool' \in Seq(Slices) /\ Len(pool') <= PoolMax
        /\ allocated' \subseteq Slices
    BY <1>8, <2>2, <2>3 DEF GetBuffer
  <2>. QED
    BY <1>8, <2>4 DEF GetBuffer, TypeInv, TypeOK, Phases, switch, statistics
<1>9. CASE ReturnBuffer
  <2>1. pool \in Seq(Slices) /\ Len(pool) \in Nat /\ held \in Slices
    BY <1>9 DEF ReturnBuffer, TypeInv, TypeOK
  <2>2. pool' \in Seq(Slices) /\ Len(pool') <= PoolMax
    <3>1. CASE Len(pool) < PoolMax
      BY <1>9, <2>1, <3>1, AppendProperties DEF ReturnBuffer
    <3>2. CASE ~(Len(pool) < PoolMax)
      BY <1>9, <2>1, <3>2 DEF ReturnBuffer, TypeInv, TypeOK
    <3>. QED
      BY <3>1, <3>2
  <2>3. max' \in Nat /\ peak' \in Nat
    BY <1>9 DEF ReturnBuffer, TypeInv, TypeOK
  <2>4. lostReset' \in BOOLEAN
    <3>1. lostReset \in BOOLEAN
      BY DEF TypeInv, TypeOK
    <3>. QED
      BY <1>9, <3>1, Zenon DEF ReturnBuffer
  <2>. QED
    BY <1>9, <2>2, <2>3, <2>4 DEF ReturnBuffer, TypeInv, TypeOK, Phases, switch
<1>10. ASSUME NEW t \in Times, TakeTime(t)
       PROVE  TypeInv'
  BY <1>10 DEF TakeTime, Longer, TypeInv, TypeOK, Phases, switch, buffers
<1>11. CASE RecordMax
  <2>1. count' \in 0..(StatsPeriod - 1)
    BY <1>11 DEF RecordMax, TypeInv, TypeOK
  <2>. QED
    BY <1>11, <2>1 DEF RecordMax, Longer, TypeInv, TypeOK, Phases, switch, buffers
<1>12. CASE CheckSpeed
  <2>1. needsFallback' \in BOOLEAN
    BY <1>12, Zenon DEF CheckSpeed
  <2>. QED
    BY <1>12, <2>1 DEF CheckSpeed, TypeInv, TypeOK, Phases, stored, statistics
<1>13. CASE UNCHANGED vars
  BY <1>13 DEF TypeInv, TypeOK, vars, switch, buffers, statistics
<1>. QED
  BY <1>1, <1>2, <1>3, <1>4, <1>5, <1>6, <1>7, <1>8, <1>9, <1>10, <1>11, <1>12,
     <1>13 DEF Next, Render

(* Every reachable state of the node has its type; in particular the pool  *)
(* never holds more than PoolMax buffers.                                  *)
THEOREM TypeCorrect == Spec => []TypeOK
<1>1. TypeInv => TypeOK
  BY DEF TypeInv
<1>. QED
  BY <1>1, TypeInit, TypeStep, PTL DEF Spec

-----------------------------------------------------------------------------
(* What the switch needs of the type.                                      *)
LEMMA SwitchType ==
  ASSUME TypeInv
  PROVE  /\ enabled \in BOOLEAN /\ shouldBypass \in BOOLEAN /\ crossed \in BOOLEAN
         /\ setting \in [Callers -> {NotSetting, "on", "off"}]
         /\ mainQueue \in Seq(BOOLEAN)
BY DEF TypeInv, TypeOK

LEMMA SwitchInit == Init => SwitchInv
<1>. SUFFICES ASSUME Init PROVE SwitchInv
  OBVIOUS
<1>1. \A c \in Callers : Idle(c)
  BY DEF Init, Idle
<1>2. Settled = TRUE /\ enabled = TRUE
  BY DEF Init, Settled
<1>. QED
  BY <1>1, <1>2 DEF SwitchInv

LEMMA SwitchStep == TypeInv /\ SwitchInv /\ [Next]_vars => SwitchInv'
<1>. SUFFICES ASSUME TypeInv, SwitchInv, [Next]_vars
              PROVE  SwitchInv'
  OBVIOUS
<1>. USE SwitchType
<1>1. ASSUME NEW c \in Callers, NEW v \in BOOLEAN, setEnabled(c, v), ~crossed'
      PROVE  SwitchInv'
  <2>1. \A d \in Callers : Idle(d)
    BY <1>1, Zenon DEF setEnabled, SettersIdle
  <2>2. setting' = [setting EXCEPT ![c] = IF v THEN "on" ELSE "off"] /\ enabled' = v
    BY <1>1 DEF setEnabled
  <2>3. \A d \in Callers : ~Idle(d)' => d = c
    BY <2>1, <2>2 DEF Idle
  <2>4. (setting'[c] = "on") = v /\ ~Idle(c)'
    BY <2>2 DEF Idle, NotSetting
  <2>5. \A d \in Callers : ~Idle(d)' => enabled' = (setting'[d] = "on")
    BY <2>2, <2>3, <2>4
  <2>. QED
    BY <2>3, <2>4, <2>5 DEF SwitchInv, SettersIdle
<1>2. ASSUME NEW c \in Callers, Dispatch(c), ~crossed'
      PROVE  SwitchInv'
  <2>1. ~crossed /\ enabled' = enabled /\ ~Idle(c)
        /\ setting' = [setting EXCEPT ![c] = NotSetting]
        /\ mainQueue' = Append(mainQueue, setting[c] = "on")
    BY <1>2 DEF Dispatch
  <2>2. \A d \in Callers : Idle(d)'
    BY <2>1 DEF Idle, SwitchInv
  <2>3. enabled = (setting[c] = "on")
    BY <2>1 DEF SwitchInv
  <2>4. mainQueue' # <<>> /\ mainQueue'[Len(mainQueue')] = (setting[c] = "on")
    <3>1. (setting[c] = "on") \in BOOLEAN
      OBVIOUS
    <3>. QED
      BY <2>1, <3>1, AppendProperties
  <2>5. Settled' = enabled'
    BY <2>1, <2>3, <2>4 DEF Settled
  <2>. QED
    BY <2>2, <2>5 DEF SwitchInv
<1>3. CASE mainBlock
  <2>1. /\ mainQueue # <<>>
        /\ mainQueue' = Tail(mainQueue) /\ shouldBypass' = ~Head(mainQueue)
        /\ enabled' = enabled /\ setting' = setting /\ crossed' = crossed
    BY <1>3 DEF mainBlock
  <2>2. Settled' = Settled
    <3>0. mainQueue \in Seq(BOOLEAN) /\ mainQueue # <<>>
      BY <2>1, SwitchType
    <3>1. /\ Len(mainQueue) \in Nat \ {0}
          /\ Head(mainQueue) = mainQueue[1]
          /\ Len(Tail(mainQueue)) = Len(mainQueue) - 1
          /\ \A i \in 1..(Len(mainQueue) - 1) : Tail(mainQueue)[i] = mainQueue[i + 1]
      BY <3>0, HeadTailProperties
    <3>2. CASE Len(mainQueue) = 1
      <4>1. mainQueue' = <<>> /\ Head(mainQueue) = mainQueue[Len(mainQueue)]
        <5>1. Tail(mainQueue) \in Seq(BOOLEAN) /\ Len(Tail(mainQueue)) = 0
          BY <3>0, <3>1, <3>2, HeadTailProperties
        <5>2. Tail(mainQueue) = <<>>
          BY <5>1, EmptySeq
        <5>. QED
          BY <2>1, <3>1, <3>2, <5>2
      <4>2. Head(mainQueue) \in BOOLEAN
        BY <3>0, HeadTailProperties
      <4>. QED
        BY <2>1, <4>1, <4>2 DEF Settled
    <3>3. CASE Len(mainQueue) # 1
      <4>1. mainQueue' # <<>> /\ mainQueue'[Len(mainQueue')] = mainQueue[Len(mainQueue)]
        <5>1. Len(mainQueue) - 1 \in 1..(Len(mainQueue) - 1)
          BY <3>1, <3>3
        <5>2. Tail(mainQueue)[Len(mainQueue) - 1] = mainQueue[Len(mainQueue)]
          BY <3>1, <5>1
        <5>3. Tail(mainQueue) # <<>>
          BY <3>1, <5>1
        <5>. QED
          BY <2>1, <3>1, <5>2, <5>3
      <4>. QED
        BY <2>1, <4>1 DEF Settled
    <3>. QED
      BY <3>2, <3>3
  <2>. QED
    BY <2>1, <2>2 DEF SwitchInv, SettersIdle, Idle
<1>4. ASSUME /\ enabled' = enabled /\ shouldBypass' = shouldBypass
             /\ setting' = setting /\ mainQueue' = mainQueue /\ crossed' = crossed
      PROVE  SwitchInv'
  BY <1>4 DEF SwitchInv, SettersIdle, Idle, Settled
<1>5. CASE Render
  <2>1. /\ enabled' = enabled /\ shouldBypass' = shouldBypass
        /\ setting' = setting /\ mainQueue' = mainQueue /\ crossed' = crossed
    BY <1>5 DEF Render, PreRender, PostRender, SkipProcessing, GetBuffer,
         ReturnBuffer, TakeTime, RecordMax, CheckSpeed, switch
  <2>. QED
    BY <1>4, <2>1
<1>6. ASSUME NEW c \in Callers, resetPerformanceStats(c)
      PROVE  SwitchInv'
  BY <1>4, <1>6 DEF resetPerformanceStats, switch
<1>7. CASE UNCHANGED vars
  BY <1>4, <1>7 DEF vars, switch
<1>8. CASE crossed'
  BY <1>8 DEF SwitchInv
<1>. QED
  BY <1>1, <1>2, <1>3, <1>5, <1>6, <1>7, <1>8 DEF Next

(* When nothing is under way and the main queue is empty, shouldBypass is  *)
(* the opposite of _enabled, unless the last calls of the setter crossed.  *)
THEOREM SwitchIsSettled == Spec => []SwitchSettles
<1>1. TypeInv /\ SwitchInv => SwitchSettles
  <2>. SUFFICES ASSUME TypeInv, SwitchInv, SettersIdle, mainQueue = <<>>, ~crossed
                PROVE  shouldBypass = ~enabled
    BY DEF SwitchSettles
  <2>1. Settled = ~shouldBypass
    BY DEF Settled
  <2>2. Settled = enabled
    BY DEF SwitchInv
  <2>. QED
    BY <2>1, <2>2, SwitchType
<1>. QED
  BY <1>1, TypeInit, TypeStep, SwitchInit, SwitchStep, PTL DEF Spec

-----------------------------------------------------------------------------
LEMMA PoolInit == Init => PoolInv
BY DEF Init, PoolInv, Serves

LEMMA PoolStep == TypeInv /\ PoolInv /\ [Next]_vars => PoolInv'
<1>. SUFFICES ASSUME TypeInv, PoolInv, [Next]_vars
              PROVE  PoolInv'
  OBVIOUS
<1>0. /\ pool \in Seq(Slices) /\ Len(pool) \in Nat /\ PoolMax \in Nat
      /\ \A i \in 1..Len(pool) : pool[i] \in Slices
      /\ Slices \subseteq Nat \ {0} /\ allocated \subseteq Slices
  BY SlicesAssumption, PoolMaxAssumption DEF TypeInv, TypeOK
<1>1. ASSUME phase = "process", slice \in Slices, held = 0,
             NEW i \in Fitting, Take(i)
      PROVE  PoolInv'
  <2>1. i \in 1..Len(pool) /\ held' = pool[i] /\ allocated' = allocated
    BY <1>1 DEF Take, Fitting
  <2>2. /\ Len(pool') = Len(pool) - 1
        /\ \A j \in 1..(Len(pool) - 1) :
             pool'[j] = IF j < i THEN pool[j] ELSE pool[j + 1]
    BY <1>0, <1>1, <2>1, RemoveAtProperties DEF Take
  <2>3. \A j, k \in 1..Len(pool') : j # k => pool'[j] # pool'[k]
    BY <1>0, <2>1, <2>2 DEF PoolInv
  <2>4. \A j \in 1..Len(pool') : pool'[j] # held'
    BY <1>0, <2>1, <2>2 DEF PoolInv
  <2>5. ASSUME Len(pool') + 1 < PoolMax, NEW n \in allocated
        PROVE  Serves(n)'
    <3>1. n \in Nat /\ Serves(n)
      BY <1>0, <1>1, <2>2, <2>5 DEF PoolInv
    <3>2. PICK j \in 1..Len(pool) : pool[j] >= n
      BY <1>0, <1>1, <3>1 DEF Serves
    <3>3. CASE j = i
      BY <2>1, <3>2, <3>3 DEF Serves
    <3>4. CASE j < i
      <4>1. j \in 1..Len(pool') /\ pool'[j] = pool[j]
        BY <1>0, <2>1, <2>2, <3>4
      <4>. QED
        BY <3>2, <4>1 DEF Serves
    <3>5. CASE j > i
      <4>1. j - 1 \in 1..Len(pool') /\ pool'[j - 1] = pool[j]
        <5>1. j - 1 \in 1..(Len(pool) - 1) /\ ~(j - 1 < i) /\ (j - 1) + 1 = j
          BY <1>0, <2>1, <3>5
        <5>. QED
          BY <2>2, <5>1
      <4>. QED
        BY <3>2, <4>1 DEF Serves
    <3>. QED
      BY <1>0, <2>1, <3>3, <3>4, <3>5
  <2>6. held' # 0
    BY <1>0, <2>1
  <2>. QED
    BY <2>1, <2>3, <2>4, <2>5, <2>6 DEF PoolInv
<1>2. ASSUME phase = "process", slice \in Slices, held = 0, Fitting = {}, Allocate
      PROVE  PoolInv'
  <2>1. held' = slice /\ allocated' = allocated \cup {slice} /\ pool' = pool
    BY <1>2 DEF Allocate
  <2>2. \A j \in 1..Len(pool) : pool[j] < slice
    <3>. SUFFICES ASSUME NEW j \in 1..Len(pool), ~(pool[j] < slice)
                  PROVE  FALSE
      OBVIOUS
    <3>0. pool[j] \in Nat /\ slice \in Nat
      BY <1>0, <1>2
    <3>1. pool[j] >= slice
      BY <3>0
    <3>. QED
      BY <1>2, <3>1 DEF Fitting
  <2>3. ASSUME Len(pool) + 1 < PoolMax, NEW n \in allocated'
        PROVE  Serves(n)'
    <3>1. CASE n = slice
      BY <1>0, <1>2, <2>1, <3>1 DEF Serves
    <3>2. CASE n # slice
      <4>1. n \in Nat /\ Serves(n)
        BY <1>0, <1>2, <2>1, <2>3, <3>2 DEF PoolInv
      <4>2. \E j \in 1..Len(pool) : pool[j] >= n
        <5>1. ~(held >= n)
          BY <1>0, <1>2, <2>1, <2>3, <3>2
        <5>. QED
          BY <4>1, <5>1 DEF Serves
      <4>. QED
        BY <2>1, <4>2 DEF Serves
    <3>. QED
      BY <3>1, <3>2
  <2>. QED
    BY <1>0, <1>2, <2>1, <2>2, <2>3 DEF PoolInv
<1>3. CASE GetBuffer
  <2>1. phase = "process" /\ slice \in Slices /\ held = 0
    BY <1>3 DEF GetBuffer, TypeInv
  <2>. QED
    BY <1>1, <1>2, <1>3, <2>1 DEF GetBuffer
<1>4. CASE ReturnBuffer
  <2>1. held \in Slices /\ held' = 0 /\ allocated' = allocated
    BY <1>4 DEF ReturnBuffer, TypeInv
  <2>2. CASE Len(pool) < PoolMax
    <3>1. /\ Len(pool') = Len(pool) + 1
          /\ \A j \in 1..Len(pool) : pool'[j] = pool[j]
          /\ pool'[Len(pool) + 1] = held
      BY <1>0, <1>4, <2>1, <2>2, AppendProperties DEF ReturnBuffer
    <3>2. \A j \in 1..Len(pool') : pool'[j] \in Slices
      BY <1>0, <2>1, <3>1
    <3>3. \A j, k \in 1..Len(pool') : j # k => pool'[j] # pool'[k]
      BY <1>0, <3>1 DEF PoolInv
    <3>4. ASSUME Len(pool') < PoolMax, NEW n \in allocated
          PROVE  \E j \in 1..Len(pool') : pool'[j] >= n
      <4>1. n \in Nat /\ Serves(n)
        BY <1>0, <2>1, <3>1, <3>4 DEF PoolInv
      <4>2. CASE held >= n
        BY <1>0, <3>1, <4>2
      <4>3. CASE \E j \in 1..Len(pool) : pool[j] >= n
        BY <1>0, <3>1, <4>3
      <4>. QED
        BY <4>1, <4>2, <4>3 DEF Serves
    <3>. QED
      BY <1>0, <2>1, <3>2, <3>3, <3>4 DEF PoolInv, Serves
  <2>3. CASE ~(Len(pool) < PoolMax)
    <3>1. pool' = pool
      BY <1>4, <2>3 DEF ReturnBuffer
    <3>. QED
      BY <1>0, <2>1, <2>3, <3>1 DEF PoolInv
  <2>. QED
    BY <2>2, <2>3
<1>5. ASSUME pool' = pool, held' = held, allocated' = allocated
      PROVE  PoolInv'
  BY <1>5 DEF PoolInv, Serves
<1>6. ASSUME NEW c \in Callers, NEW v \in BOOLEAN,
             setEnabled(c, v) \/ Dispatch(c) \/ resetPerformanceStats(c)
      PROVE  PoolInv'
  BY <1>5, <1>6 DEF setEnabled, Dispatch, resetPerformanceStats, buffers
<1>7. CASE mainBlock
  BY <1>5, <1>7 DEF mainBlock, buffers
<1>8. ASSUME NEW n \in Slices, PreRender(n)
      PROVE  PoolInv'
  BY <1>5, <1>8 DEF PreRender
<1>9. CASE PostRender \/ CheckSpeed
  BY <1>5, <1>9 DEF PostRender, CheckSpeed, stored
<1>10. ASSUME NEW t \in Times, SkipProcessing \/ TakeTime(t) \/ RecordMax
       PROVE  PoolInv'
  BY <1>5, <1>10 DEF SkipProcessing, TakeTime, RecordMax, buffers
<1>11. CASE SkipProcessing \/ RecordMax
  BY <1>5, <1>11 DEF SkipProcessing, RecordMax, buffers
<1>12. CASE UNCHANGED vars
  BY <1>5, <1>12 DEF vars, buffers
<1>. QED
  BY <1>3, <1>4, <1>6, <1>7, <1>8, <1>9, <1>10, <1>11, <1>12 DEF Next, Render

(* The pool has no two buffers of one capacity and serves every slice size *)
(* it was ever allocated for, unless it is full.                           *)
THEOREM PoolServes == Spec => []AllocatesOnce
<1>1. TypeInv /\ PoolInv => AllocatesOnce
  <2>. SUFFICES ASSUME TypeInv, PoolInv, held = 0
                PROVE  AllocatesOnce
    BY DEF AllocatesOnce
  <2>1. /\ Slices \subseteq Nat \ {0} /\ allocated \subseteq Slices
    BY SlicesAssumption DEF TypeInv, TypeOK
  <2>. QED
    BY <2>1 DEF PoolInv, Serves, AllocatesOnce
<1>. QED
  BY <1>1, TypeInit, TypeStep, PoolInit, PoolStep, PTL DEF Spec

-----------------------------------------------------------------------------
LEMMA PeakStep == TypeInv /\ PeakInv /\ [Next]_vars => PeakInv'
<1>. SUFFICES ASSUME TypeInv, PeakInv, [Next]_vars
              PROVE  PeakInv'
  OBVIOUS
<1>0. /\ max \in Nat /\ peak \in Nat /\ last \in Nat /\ maxRead \in Nat
      /\ Times \subseteq Nat
  BY TimesAssumption DEF TypeInv, TypeOK
<1>. USE DEF PeakInv, MaxIsPeak
<1>1. ASSUME /\ max' = max /\ peak' = peak /\ last' = last /\ maxRead' = maxRead
             /\ lostReset' = lostReset
             /\ phase' = phase \/ (phase # "record" /\ phase' # "record")
      PROVE  PeakInv'
  BY <1>1 DEF Longer
<1>2. ASSUME NEW c \in Callers, resetPerformanceStats(c)
      PROVE  PeakInv'
  <2>1. lostReset' = (phase = "record") /\ phase' = phase /\ max' = 0 /\ peak' = 0
    BY <1>2 DEF resetPerformanceStats
  <2>. QED
    BY <2>1
<1>3. CASE ReturnBuffer
  BY <1>3 DEF ReturnBuffer
<1>4. ASSUME NEW t \in Times, TakeTime(t)
      PROVE  PeakInv'
  BY <1>4 DEF TakeTime
<1>5. CASE RecordMax
  BY <1>5 DEF RecordMax
<1>6. ASSUME NEW c \in Callers, NEW v \in BOOLEAN, setEnabled(c, v) \/ Dispatch(c)
      PROVE  PeakInv'
  BY <1>1, <1>6 DEF setEnabled, Dispatch, statistics
<1>7. CASE mainBlock
  BY <1>1, <1>7 DEF mainBlock, statistics
<1>8. ASSUME NEW n \in Slices, PreRender(n)
      PROVE  PeakInv'
  BY <1>1, <1>8 DEF PreRender, statistics
<1>9. CASE PostRender \/ SkipProcessing \/ GetBuffer \/ CheckSpeed
  BY <1>1, <1>9 DEF PostRender, SkipProcessing, GetBuffer, CheckSpeed, statistics
<1>10. ASSUME NEW c \in Callers, Dispatch(c)
       PROVE  PeakInv'
  BY <1>1, <1>10 DEF Dispatch, statistics
<1>11. CASE UNCHANGED vars
  BY <1>1, <1>11 DEF vars, statistics
<1>. QED
  BY <1>2, <1>3, <1>4, <1>5, <1>6, <1>7, <1>8, <1>9, <1>10, <1>11 DEF Next, Render

(* maxProcessingTime is the longest time since the last reset, unless that *)
(* reset fell into the write of it.                                        *)
THEOREM MaxIsTrue == Spec => []MaxIsPeak
<1>1. Init => PeakInv
  BY DEF Init, PeakInv, MaxIsPeak
<1>2. PeakInv => MaxIsPeak
  BY DEF PeakInv
<1>. QED
  BY <1>1, <1>2, TypeInit, TypeStep, PeakStep, PTL DEF Spec

=============================================================================
