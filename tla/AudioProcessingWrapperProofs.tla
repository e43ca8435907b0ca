-------------------- MODULE AudioProcessingWrapperProofs --------------------
(***************************************************************************)
(* Theorems about AudioProcessingWrapper, for every set of threads, every  *)
(* choice of fields and every bound on the number of calls.  The three     *)
(* safety properties are inductive together with TypeOK; the action        *)
(* property and the refinement are drawn from the same invariants.         *)
(***************************************************************************)
EXTENDS AudioProcessingWrapper, FiniteSets, FiniteSetTheorems, TLAPS

(* Every field starts with a value its setter could also have given it.    *)
LEMMA DefaultInValues ==
  ASSUME NEW f \in Fields
  PROVE  DefaultTable[f] \in Values
<1>1. f \in {"ns_enabled", "ns_level", "agc1_mode", "agc1_target",
             "agc1_gain", "hpf_enabled", "aec_enabled", "ts_enabled"}
  BY FieldsAssumption DEF DefaultTable
<1>2. DefaultTable[f] \in Settable[f]
  BY <1>1 DEF DefaultTable, Settable
<1>. QED
  BY <1>2 DEF Values

LEMMA SettableInValues ==
  ASSUME NEW f \in Fields, NEW v \in Settable[f]
  PROVE  v \in Values
BY DEF Values

(* The state is well typed: the struct and the APM's copy always hold      *)
(* values some setter or the reset gave them.                              *)
THEOREM TypeCorrect == Spec => []TypeOK
<1>1. Init => TypeOK
  <2>. SUFFICES ASSUME Init PROVE TypeOK
    OBVIOUS
  <2>1. Default \in [Fields -> Values]
    BY DefaultInValues DEF Default
  <2>2. 0 \in 0..MaxCalls
    BY MaxCallsAssumption
  <2>3. stale \in BOOLEAN
    BY DEF Init
  <2>4. pc \in [Threads -> Locations] /\ todo \in [Threads -> SUBSET Fields]
    BY DEF Init, Locations
  <2>. QED
    BY <2>1, <2>2, <2>3, <2>4 DEF Init, TypeOK
<1>2. TypeOK /\ [Next]_vars => TypeOK'
  <2>. SUFFICES ASSUME TypeOK, [Next]_vars PROVE TypeOK'
    OBVIOUS
  <2>. USE DEF TypeOK, Locations, Goto
  <2>1. ASSUME NEW t \in Threads, NEW f \in Fields, NEW v \in Settable[f],
               SetField(t, f, v)
        PROVE  TypeOK'
    <3>1. calls' \in 0..MaxCalls
      BY <2>1, MaxCallsAssumption DEF SetField, Enter
    <3>. QED
      BY <2>1, <3>1, SettableInValues DEF SetField
  <2>2. ASSUME NEW t \in Threads, SetUnknown(t) PROVE TypeOK'
    BY <2>2, MaxCallsAssumption DEF SetUnknown, Enter
  <2>3. ASSUME NEW t \in Threads, Reset(t) PROVE TypeOK'
    BY <2>3, MaxCallsAssumption DEF Reset, Enter
  <2>4. ASSUME NEW t \in Threads, NEW f \in Fields, AssignField(t, f)
        PROVE  TypeOK'
    BY <2>4, DefaultInValues DEF AssignField
  <2>5. ASSUME NEW t \in Threads, NEW f \in Fields, CopyField(t, f)
        PROVE  TypeOK'
    BY <2>5 DEF CopyField
  <2>6. ASSUME NEW t \in Threads, EndReset(t) PROVE TypeOK'
    BY <2>6 DEF EndReset
  <2>7. ASSUME NEW t \in Threads, ApplyConfig(t) PROVE TypeOK'
    BY <2>7 DEF ApplyConfig
  <2>8. ASSUME NEW t \in Threads, EndApply(t) PROVE TypeOK'
    BY <2>8 DEF EndApply
  <2>9. ASSUME NEW t \in Threads, Initialize(t) PROVE TypeOK'
    BY <2>9 DEF Initialize
  <2>10. CASE ProcessStream
    BY <2>10 DEF ProcessStream
  <2>11. CASE UNCHANGED vars
    BY <2>11 DEF vars
  <2>. QED
    BY <2>1, <2>2, <2>3, <2>4, <2>5, <2>6, <2>7, <2>8, <2>9, <2>10, <2>11
       DEF Next, Advance
<1>. QED
  BY <1>1, <1>2, PTL DEF Spec

-----------------------------------------------------------------------------
(* No update is lost, whatever the interleaving of setters, resets and     *)
(* struct copies: a field the APM is behind on has a thread that will still *)
(* copy it (applyCurrentConfiguration follows every write of the struct).  *)
THEOREM UpdatesSurvive == Spec => []NoLostUpdate
<1>1. Init => NoLostUpdate
  BY DEF Init, NoLostUpdate
<1>2. TypeOK /\ NoLostUpdate /\ [Next]_vars => NoLostUpdate'
  <2>. SUFFICES ASSUME TypeOK, NoLostUpdate, [Next]_vars,
                       NEW g \in Fields,
                       applied'[g] # currentConfig'[g]
                PROVE  \E u \in Threads : WillCopy(u, g)'
    BY DEF NoLostUpdate
  <2>. USE DEF TypeOK, Locations, Goto, WillCopy
  <2>0. ASSUME UNCHANGED <<currentConfig, applied>>
        PROVE  \E u \in Threads : WillCopy(u, g)
    BY <2>0 DEF NoLostUpdate
  <2>1. ASSUME NEW t \in Threads, NEW f \in Fields, NEW v \in Settable[f],
               SetField(t, f, v)
        PROVE  WillCopy(t, g)'
    BY <2>1 DEF SetField
  <2>2. ASSUME NEW t \in Threads, SetUnknown(t) PROVE WillCopy(t, g)'
    BY <2>2 DEF SetUnknown
  <2>3. ASSUME NEW t \in Threads, Reset(t) PROVE WillCopy(t, g)'
    BY <2>3 DEF Reset
  <2>4. ASSUME NEW t \in Threads, NEW f \in Fields, AssignField(t, f)
        PROVE  WillCopy(t, g)'
    BY <2>4 DEF AssignField
  <2>5. ASSUME NEW t \in Threads, NEW f \in Fields, CopyField(t, f)
        PROVE  \E u \in Threads : WillCopy(u, g)'
    <3>1. g # f
      BY <2>5 DEF CopyField
    <3>2. applied[g] # currentConfig[g]
      BY <2>5, <3>1 DEF CopyField
    <3>3. PICK u \in Threads : WillCopy(u, g)
      BY <3>2 DEF NoLostUpdate
    <3>4. WillCopy(u, g)'
      BY <2>5, <3>1, <3>3 DEF CopyField
    <3>. QED
      BY <3>4
  <2>6. ASSUME NEW t \in Threads, EndReset(t) PROVE WillCopy(t, g)'
    BY <2>6 DEF EndReset
  <2>7. ASSUME NEW t \in Threads, ApplyConfig(t) PROVE WillCopy(t, g)'
    BY <2>7 DEF ApplyConfig
  <2>8. ASSUME NEW t \in Threads, EndApply(t) \/ Initialize(t)
        PROVE  \E u \in Threads : WillCopy(u, g)'
    <3>1. PICK u \in Threads : WillCopy(u, g)
      BY <2>0, <2>8 DEF EndApply, Initialize
    <3>2. u # t
      BY <2>8, <3>1 DEF EndApply, Initialize
    <3>3. WillCopy(u, g)'
      BY <2>8, <3>1, <3>2 DEF EndApply, Initialize
    <3>. QED
      BY <3>3
  <2>9. CASE ProcessStream \/ UNCHANGED vars
    BY <2>0, <2>9 DEF ProcessStream, vars
  <2>. QED
    BY <2>1, <2>2, <2>3, <2>4, <2>5, <2>6, <2>7, <2>8, <2>9 DEF Next, Advance
<1>. QED
  BY <1>1, <1>2, TypeCorrect, PTL DEF Spec

(* ApplyConfig is never left without an Initialize to come: each call of   *)
(* applyCurrentConfiguration makes the second call after the first.        *)
THEOREM InitializeFollows == Spec => []InitializePending
<1>1. Init => InitializePending
  BY DEF Init, InitializePending
<1>2. TypeOK /\ InitializePending /\ [Next]_vars => InitializePending'
  <2>. SUFFICES ASSUME TypeOK, InitializePending, [Next]_vars, stale'
                PROVE  \E u \in Threads : pc'[u] = "init"
    BY DEF InitializePending
  <2>. USE DEF TypeOK, Locations, Goto
  <2>1. ASSUME NEW t \in Threads, EndApply(t) PROVE pc'[t] = "init"
    BY <2>1 DEF EndApply
  <2>2. ASSUME NEW t \in Threads, Initialize(t) PROVE FALSE
    BY <2>2 DEF Initialize
  <2>3. ASSUME NEW t \in Threads, pc[t] # "init", UNCHANGED stale,
               \/ UNCHANGED pc
               \/ \E l \in Locations : pc' = [pc EXCEPT ![t] = l]
        PROVE  \E u \in Threads : pc'[u] = "init"
    <3>1. PICK u \in Threads : pc[u] = "init"
      BY <2>3 DEF InitializePending
    <3>. QED
      BY <2>3, <3>1
  <2>4. ASSUME NEW t \in Threads,
               \/ \E f \in Fields : \E v \in Settable[f] : SetField(t, f, v)
               \/ SetUnknown(t) \/ Reset(t)
        PROVE  \E u \in Threads : pc'[u] = "init"
    BY <2>3, <2>4 DEF SetField, SetUnknown, Reset, Enter
  <2>5. ASSUME NEW t \in Threads,
               \/ \E f \in Fields : AssignField(t, f) \/ CopyField(t, f)
               \/ EndReset(t) \/ ApplyConfig(t)
        PROVE  \E u \in Threads : pc'[u] = "init"
    BY <2>3, <2>5 DEF AssignField, CopyField, EndReset, ApplyConfig
  <2>6. CASE ProcessStream \/ UNCHANGED vars
    BY <2>6 DEF ProcessStream, vars, InitializePending
  <2>. QED
    BY <2>1, <2>2, <2>4, <2>5, <2>6 DEF Next, Advance
<1>. QED
  BY <1>1, <1>2, TypeCorrect, PTL DEF Spec

-----------------------------------------------------------------------------
(* A ProcessStream that runs while no configuration call is in flight uses *)
(* the whole of _currentConfig.                                            *)
THEOREM FramesAreCurrent == Spec => FramesFollowSettings
<1>1. TypeOK /\ NoLostUpdate /\ [Next]_vars
        => [ProcessStream /\ Quiet => frames' = currentConfig]_vars
  <2>. SUFFICES ASSUME TypeOK, NoLostUpdate, ProcessStream, Quiet
                PROVE  frames' = currentConfig
    OBVIOUS
  <2>1. \A f \in Fields : applied[f] = currentConfig[f]
    BY DEF NoLostUpdate, WillCopy, Quiet
  <2>2. applied = currentConfig
    BY <2>1 DEF TypeOK
  <2>. QED
    BY <2>2 DEF ProcessStream
<1>. QED
  BY <1>1, TypeCorrect, UpdatesSurvive, PTL DEF Spec, FramesFollowSettings

-----------------------------------------------------------------------------
(* Whoever holds the APM is copying the struct into it, and so waits for   *)
(* nobody: threads that wait for the APM wait for one that will give it    *)
(* back.                                                                   *)
HeldWhileCopying == \A t \in Threads : apmOwner = t <=> pc[t] = "copy"

THEOREM HolderCopies == Spec => []HeldWhileCopying
<1>1. Init => HeldWhileCopying
  BY NoThreadAssumption DEF Init, HeldWhileCopying
<1>2. TypeOK /\ HeldWhileCopying /\ [Next]_vars => HeldWhileCopying'
  <2>. SUFFICES ASSUME TypeOK, HeldWhileCopying, [Next]_vars, NEW u \in Threads
                PROVE  apmOwner' = u <=> pc'[u] = "copy"
    BY DEF HeldWhileCopying
  <2>. USE DEF TypeOK, HeldWhileCopying, Goto
  <2>1. ASSUME NEW t \in Threads,
               \/ \E f \in Fields : \E v \in Settable[f] : SetField(t, f, v)
               \/ SetUnknown(t) \/ Reset(t) \/ EndReset(t) \/ Initialize(t)
        PROVE  apmOwner' = u <=> pc'[u] = "copy"
    BY <2>1 DEF SetField, SetUnknown, Reset, EndReset, Initialize, Enter
  <2>2. ASSUME NEW t \in Threads, ApplyConfig(t)
        PROVE  apmOwner' = u <=> pc'[u] = "copy"
    BY <2>2, NoThreadAssumption DEF ApplyConfig
  <2>3. ASSUME NEW t \in Threads, EndApply(t)
        PROVE  apmOwner' = u <=> pc'[u] = "copy"
    BY <2>3, NoThreadAssumption DEF EndApply
  <2>4. ASSUME NEW t \in Threads, NEW f \in Fields,
               AssignField(t, f) \/ CopyField(t, f)
        PROVE  apmOwner' = u <=> pc'[u] = "copy"
    BY <2>4 DEF AssignField, CopyField
  <2>5. CASE ProcessStream \/ UNCHANGED vars
    BY <2>5 DEF ProcessStream, vars
  <2>. QED
    BY <2>1, <2>2, <2>3, <2>4, <2>5 DEF Next, Advance
<1>. QED
  BY <1>1, <1>2, TypeCorrect, PTL DEF Spec

(* When no configuration call is in flight the APM has the whole of        *)
(* _currentConfig, was initialised with it, and is free: EventuallyApplied *)
(* asks no more of the state than that the calls return.                   *)
AppliedWhenQuiet ==
  Quiet => applied = currentConfig /\ ~stale /\ apmOwner = NoThread

THEOREM QuietIsApplied == Spec => []AppliedWhenQuiet
<1>1. TypeOK /\ NoLostUpdate /\ InitializePending /\ HeldWhileCopying
        => AppliedWhenQuiet
  <2>. SUFFICES ASSUME TypeOK, NoLostUpdate, InitializePending, HeldWhileCopying,
                       Quiet
                PROVE  applied = currentConfig /\ ~stale /\ apmOwner = NoThread
    BY DEF AppliedWhenQuiet
  <2>1. applied = currentConfig
    <3>1. \A f \in Fields : applied[f] = currentConfig[f]
      BY DEF NoLostUpdate, WillCopy, Quiet
    <3>. QED
      BY <3>1 DEF TypeOK
  <2>2. ~stale
    BY DEF InitializePending, Quiet
  <2>3. apmOwner = NoThread
    BY DEF HeldWhileCopying, TypeOK, Quiet
  <2>. QED
    BY <2>1, <2>2, <2>3
<1>. QED
  BY <1>1, TypeCorrect, UpdatesSurvive, InitializeFollows, HolderCopies, PTL

(* The wrapper implements the register.  Every step is the register's or   *)
(* leaves it alone, and the one that needs the invariants is Initialize,   *)
(* with which a call returns: when it is the last call under way, no field *)
(* of the APM may be behind.  That a time without calls always comes is    *)
(* the part the fairness of FairSpec gives (EventuallyApplied, checked by  *)
(* TLC); here it is the hypothesis.                                        *)
THEOREM WrapperIsRegister == Spec /\ []<>Quiet => ImplementsRegister
<1>. DEFINE Inside == {t \in Threads : pc[t] # "idle"}
<1>1. Init => Register!Init
  <2>. SUFFICES ASSUME Init PROVE Register!Init
    OBVIOUS
  <2>1. Default = [f \in Fields |-> Default[f]]
    BY DEF Default
  <2>2. Inside = {}
    BY DEF Init
  <2>. QED
    BY <2>1, <2>2 DEF Init, Register!Init
<1>2. TypeOK /\ AppliedWhenQuiet' /\ [Next]_vars
        => [Register!Next]_Register!vars
  <2>. SUFFICES ASSUME TypeOK, AppliedWhenQuiet', [Next]_vars
                PROVE  [Register!Next]_Register!vars
    OBVIOUS
  <2>. USE DEF Register!vars, Goto
  <2>0. pc \in [Threads -> Locations]
    BY DEF TypeOK
  <2>1. ASSUME NEW t \in Threads, pc[t] = "idle",
               \E l \in Locations \ {"idle"} : pc' = [pc EXCEPT ![t] = l],
               UNCHANGED <<applied, stale, frames>>,
               \/ UNCHANGED currentConfig
               \/ \E f \in Fields : \E v \in Settable[f] :
                    currentConfig' = [currentConfig EXCEPT ![f] = v]
        PROVE  Register!Next
    <3>1. t \notin Inside /\ Inside' = Inside \cup {t}
      BY <2>0, <2>1
    <3>2. Register!Call(t)
      BY <2>1, <3>1 DEF Register!Call
    <3>. QED
      BY <3>2 DEF Register!Next
  <2>2. ASSUME NEW t \in Threads, NEW f \in Fields, NEW v \in Settable[f],
               SetField(t, f, v)
        PROVE  Register!Next
    BY <2>1, <2>2 DEF SetField, Enter, Locations
  <2>3. ASSUME NEW t \in Threads, SetUnknown(t) \/ Reset(t)
        PROVE  Register!Next
    BY <2>1, <2>3 DEF SetUnknown, Reset, Enter, Locations
  <2>4. ASSUME NEW t \in Threads, NEW f \in Fields, AssignField(t, f)
        PROVE  Register!Next
    <3>1. Inside # {} /\ Inside' = Inside
      BY <2>4 DEF AssignField
    <3>2. DefaultTable[f] = Default[f]
      BY DEF Default
    <3>3. Register!Restore(f)
      BY <2>4, <3>1, <3>2 DEF AssignField, Register!Restore
    <3>. QED
      BY <3>3 DEF Register!Next
  <2>5. ASSUME NEW t \in Threads, NEW f \in Fields, CopyField(t, f)
        PROVE  Register!Next
    <3>1. Inside # {} /\ Inside' = Inside
      BY <2>5 DEF CopyField
    <3>2. Register!Follow(f)
      BY <2>5, <3>1 DEF CopyField, Register!Follow
    <3>. QED
      BY <3>2 DEF Register!Next
  <2>6. ASSUME NEW t \in Threads, EndReset(t) \/ ApplyConfig(t)
        PROVE  UNCHANGED Register!vars
    <3>1. Inside' = Inside
      BY <2>0, <2>6 DEF EndReset, ApplyConfig
    <3>. QED
      BY <2>6, <3>1 DEF EndReset, ApplyConfig
  <2>7. ASSUME NEW t \in Threads, EndApply(t)
        PROVE  Register!Next
    <3>1. Inside # {} /\ Inside' = Inside
      BY <2>0, <2>7 DEF EndApply
    <3>2. Register!Handed
      BY <2>7, <3>1 DEF EndApply, Register!Handed
    <3>. QED
      BY <3>2 DEF Register!Next
  <2>8. ASSUME NEW t \in Threads, Initialize(t)
        PROVE  Register!Next
    <3>1. t \in Inside /\ Inside' = Inside \ {t}
      BY <2>0, <2>8 DEF Initialize
    <3>2. Inside = {t} => applied = currentConfig
      <4>. SUFFICES ASSUME Inside = {t} PROVE applied = currentConfig
        OBVIOUS
      <4>1. Quiet'
        BY <3>1 DEF Quiet
      <4>. QED
        BY <2>8, <4>1 DEF AppliedWhenQuiet, Initialize
    <3>3. Register!Return(t)
      BY <2>8, <3>1, <3>2 DEF Initialize, Register!Return
    <3>. QED
      BY <3>3 DEF Register!Next
  <2>9. ASSUME ProcessStream PROVE Register!Next
    <3>1. Register!Frame
      BY <2>9 DEF ProcessStream, Register!Frame
    <3>. QED
      BY <3>1 DEF Register!Next
  <2>10. CASE UNCHANGED vars
    BY <2>10 DEF vars
  <2>. QED
    BY <2>2, <2>3, <2>4, <2>5, <2>6, <2>7, <2>8, <2>9, <2>10 DEF Next, Advance
<1>3. Quiet <=> Inside = {}
  BY DEF Quiet
<1>. QED
  BY <1>1, <1>2, <1>3, TypeCorrect, QuietIsApplied, PTL
     DEF Spec, ImplementsRegister, Register!LiveSpec, Register!Spec

(* How many steps a configuration call of thread t has left.               *)
CallLeft(t) ==
  CASE pc[t] = "reset" -> Cardinality(todo[t]) + Cardinality(Fields) + 4
    [] pc[t] = "apply" -> Cardinality(Fields) + 3
    [] pc[t] = "copy" -> Cardinality(todo[t]) + 2
    [] pc[t] = "init" -> 1
    [] pc[t] = "idle" -> 0

LEMMA FieldsFinite == IsFiniteSet(Fields)
<1>1. DOMAIN DefaultTable
        = {"ns_enabled", "ns_level", "agc1_mode", "agc1_target",
           "agc1_gain", "hpf_enabled", "aec_enabled", "ts_enabled"}
  BY DEF DefaultTable
<1>2. IsFiniteSet({"ns_enabled", "ns_level", "agc1_mode", "agc1_target",
                   "agc1_gain", "hpf_enabled", "aec_enabled", "ts_enabled"})
  <2>. DEFINE S1 == {} \cup {"ns_enabled"}
              S2 == S1 \cup {"ns_level"}
              S3 == S2 \cup {"agc1_mode"}
              S4 == S3 \cup {"agc1_target"}
              S5 == S4 \cup {"agc1_gain"}
              S6 == S5 \cup {"hpf_enabled"}
              S7 == S6 \cup {"aec_enabled"}
              S8 == S7 \cup {"ts_enabled"}
  <2>1. IsFiniteSet(S2)
    BY FS_EmptySet, FS_AddElement
  <2>2. IsFiniteSet(S2) => IsFiniteSet(S4)
    <3>. HIDE DEF S2
    <3>. QED
      BY FS_AddElement
  <2>3. IsFiniteSet(S4) => IsFiniteSet(S6)
    <3>. HIDE DEF S4
    <3>. QED
      BY FS_AddElement
  <2>4. IsFiniteSet(S6) => IsFiniteSet(S8)
    <3>. HIDE DEF S6
    <3>. QED
      BY FS_AddElement
  <2>5. S8 = {"ns_enabled", "ns_level", "agc1_mode", "agc1_target",
              "agc1_gain", "hpf_enabled", "aec_enabled", "ts_enabled"}
    OBVIOUS
  <2>. HIDE DEF S2, S4, S6, S8
  <2>. QED
    BY <2>1, <2>2, <2>3, <2>4, <2>5
<1>. QED
  BY <1>1, <1>2, FieldsAssumption, FS_Subset

LEMMA TodoCounted ==
  ASSUME TypeOK, NEW t \in Threads
  PROVE  /\ Cardinality(Fields) \in Nat
         /\ IsFiniteSet(todo[t]) /\ Cardinality(todo[t]) \in Nat
         /\ CallLeft(t) \in Nat
<1>1. Cardinality(Fields) \in Nat
  BY FieldsFinite, FS_CardinalityType
<1>2. todo[t] \in SUBSET Fields /\ pc[t] \in Locations
  BY DEF TypeOK
<1>3. IsFiniteSet(todo[t]) /\ Cardinality(todo[t]) \in Nat
  BY <1>2, FieldsFinite, FS_Subset, FS_CardinalityType
<1>4. CallLeft(t) \in Nat
  BY <1>1, <1>2, <1>3 DEF CallLeft, Locations
<1>. QED
  BY <1>1, <1>3, <1>4

LEMMA AdvanceShrinks ==
  ASSUME TypeOK, NEW t \in Threads, Advance(t)
  PROVE  /\ CallLeft(t)' < CallLeft(t)
         /\ \A u \in Threads \ {t} : CallLeft(u)' = CallLeft(u)
<1>0. /\ pc \in [Threads -> Locations] /\ todo \in [Threads -> SUBSET Fields]
      /\ Cardinality(Fields) \in Nat
      /\ IsFiniteSet(todo[t]) /\ Cardinality(todo[t]) \in Nat
  BY TodoCounted DEF TypeOK
<1>1. ASSUME NEW f \in Fields, AssignField(t, f) \/ CopyField(t, f)
      PROVE  CallLeft(t)' < CallLeft(t)
  <2>1. f \in todo[t] /\ todo'[t] = todo[t] \ {f} /\ pc' = pc
        /\ pc[t] \in {"reset", "copy"}
    BY <1>0, <1>1 DEF AssignField, CopyField
  <2>2. Cardinality(todo[t] \ {f}) = Cardinality(todo[t]) - 1
    BY <1>0, <2>1, FS_RemoveElement, Zenon
  <2>. QED
    BY <1>0, <2>1, <2>2 DEF CallLeft
<1>2. ASSUME EndReset(t) PROVE CallLeft(t)' < CallLeft(t)
  <2>1. pc[t] = "reset" /\ pc'[t] = "apply"
    BY <1>0, <1>2 DEF EndReset, Goto
  <2>. QED
    BY <1>0, <2>1 DEF CallLeft
<1>3. ASSUME ApplyConfig(t) PROVE CallLeft(t)' < CallLeft(t)
  <2>1. pc[t] = "apply" /\ pc'[t] = "copy" /\ todo'[t] = Fields
    BY <1>0, <1>3 DEF ApplyConfig, Goto
  <2>. QED
    BY <1>0, <2>1 DEF CallLeft
<1>4. ASSUME EndApply(t) \/ Initialize(t) PROVE CallLeft(t)' < CallLeft(t)
  <2>1. \/ pc[t] = "copy" /\ pc'[t] = "init"
        \/ pc[t] = "init" /\ pc'[t] = "idle"
    BY <1>0, <1>4 DEF EndApply, Initialize, Goto
  <2>. QED
    BY <1>0, <2>1 DEF CallLeft
<1>5. ASSUME NEW u \in Threads \ {t} PROVE CallLeft(u)' = CallLeft(u)
  <2>1. pc'[u] = pc[u] /\ todo'[u] = todo[u]
    BY <1>0
    DEF Advance, AssignField, CopyField, EndReset, ApplyConfig, EndApply, Initialize,
        Goto
  <2>. QED
    BY <2>1 DEF CallLeft
<1>. QED
  BY <1>1, <1>2, <1>3, <1>4, <1>5 DEF Advance

(* Every step of a configuration call brings it nearer to its return, and  *)
(* none of another thread's takes it further away, for any choice of       *)
(* fields and any number of threads.                                       *)
CallsRunDown ==
  [][\A t \in Threads :
       Advance(t) => /\ CallLeft(t) \in Nat
                     /\ CallLeft(t)' < CallLeft(t)
                     /\ \A u \in Threads \ {t} : CallLeft(u)' = CallLeft(u)]_vars

THEOREM ConfigCallsRunDown == Spec => CallsRunDown
<1>1. TypeOK
        => [\A t \in Threads :
              Advance(t) => /\ CallLeft(t) \in Nat
                            /\ CallLeft(t)' < CallLeft(t)
                            /\ \A u \in Threads \ {t} : CallLeft(u)' = CallLeft(u)]_vars
  BY TodoCounted, AdvanceShrinks
<1>. QED
  BY <1>1, TypeCorrect, PTL DEF Spec, CallsRunDown

=============================================================================
