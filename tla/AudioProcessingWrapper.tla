----------------------- MODULE AudioProcessingWrapper -----------------------
(***************************************************************************)
(* The configuration side of AudioProcessingWrapper                        *)
(* (WebRTCAudioProcessing/Classes/AudioProcessingWrapper.mm).              *)
(*                                                                         *)
(* The wrapper has no lock of its own.  A setter writes one field of       *)
(* _currentConfig and then runs applyCurrentConfiguration, which hands the *)
(* whole struct by reference to ApplyConfig and calls Initialize.  Several *)
(* threads may do so at once while audio threads call ProcessStream.  The  *)
(* APM is a prebuilt library: its calls exclude each other (the thread     *)
(* safety its header promises), and ApplyConfig copies the struct field by *)
(* field while other threads may still be writing it.  A field is a word,  *)
(* so a racing read yields the value before or after the write.            *)
(*                                                                         *)
(* The object under check is one whose init has returned: init runs        *)
(* resetToDefaultConfiguration before any other thread can see the object. *)
(***************************************************************************)
EXTENDS Naturals

CONSTANTS
  Threads,    \* the threads that call setters
  Fields,     \* the fields in play, a subset of DOMAIN DefaultTable
  MaxCalls,   \* bound: configuration calls in a behaviour
  NoThread    \* owner of the APM when no call is in it

(* The values resetToDefaultConfiguration gives to the fields that have a  *)
(* setter.                                                                 *)
DefaultTable ==
  [ns_enabled  |-> "on",
   ns_level    |-> "kVeryHigh",
   agc1_mode   |-> "kAdaptiveDigital",
   agc1_target |-> "0",
   agc1_gain   |-> "12",
   hpf_enabled |-> "on",
   aec_enabled |-> "off",
   ts_enabled  |-> "on"]

(* The values the setters pass on.  The two integer fields are passed      *)
(* through unchecked; two values each are enough to tell a lost write.     *)
Settable ==
  [ns_enabled  |-> {"on", "off"},
   ns_level    |-> {"kLow", "kModerate", "kHigh", "kVeryHigh"},
   agc1_mode   |-> {"kAdaptiveAnalog", "kAdaptiveDigital", "kFixedDigital"},
   agc1_target |-> {"0", "3"},
   agc1_gain   |-> {"9", "12"},
   hpf_enabled |-> {"on", "off"},
   aec_enabled |-> {"on", "off"},
   ts_enabled  |-> {"on", "off"}]

Default == [f \in Fields |-> DefaultTable[f]]

Values == UNION {Settable[f] : f \in Fields}

ASSUME FieldsAssumption == Fields \subseteq DOMAIN DefaultTable
ASSUME NoThreadAssumption == NoThread \notin Threads
ASSUME MaxCallsAssumption == MaxCalls \in Nat

VARIABLES
  currentConfig,  \* _currentConfig
  applied,        \* the APM's copy of the configuration
  stale,          \* ApplyConfig has run and no Initialize since
  apmOwner,       \* the thread inside an APM call that takes several steps
  pc,             \* where each thread is in the wrapper
  todo,           \* todo[t]: fields the struct copy t is doing has still to copy
  frames,         \* ProcessStream has run under this configuration
  calls           \* configuration calls made so far (bounded by MaxCalls)

vars == <<currentConfig, applied, stale, apmOwner, pc, todo, frames, calls>>

Locations == {"idle", "reset", "apply", "copy", "init"}

TypeOK ==
  /\ currentConfig \in [Fields -> Values]
  /\ applied \in [Fields -> Values]
  /\ stale \in BOOLEAN
  /\ apmOwner \in Threads \cup {NoThread}
  /\ pc \in [Threads -> Locations]
  /\ todo \in [Threads -> SUBSET Fields]
  /\ frames \in [Fields -> Values]
  /\ calls \in 0..MaxCalls

Goto(t, l) == pc' = [pc EXCEPT ![t] = l]

(* The state in which init leaves a new wrapper.                           *)
Init ==
  /\ currentConfig = Default
  /\ applied = Default
  /\ stale = FALSE
  /\ apmOwner = NoThread
  /\ pc = [t \in Threads |-> "idle"]
  /\ todo = [t \in Threads |-> {}]
  /\ frames = Default
  /\ calls = 0

-----------------------------------------------------------------------------
(* A call into the wrapper.                                                *)
Enter(t) ==
  /\ pc[t] = "idle"
  /\ calls < MaxCalls
  /\ calls' = calls + 1

(* Mutant of SetField: the setter returns without applying the struct.     *)
SetFieldUnapplied(t, f, v) ==
  /\ Enter(t)
  /\ currentConfig' = [currentConfig EXCEPT ![f] = v]
  /\ UNCHANGED <<applied, stale, apmOwner, pc, todo, frames>>

(* setNoiseSuppressionLevel: and its siblings: write the field, then apply. *)
SetField(t, f, v) ==
  /\ Enter(t)
  /\ currentConfig' = [currentConfig EXCEPT ![f] = v]
  /\ Goto(t, "apply")
  /\ UNCHANGED <<applied, stale, apmOwner, todo, frames>>

(* An enumeration value outside the switch of setNoiseSuppressionLevel: or *)
(* setGainControllerMode: writes nothing and is applied all the same.      *)
SetUnknown(t) ==
  /\ Enter(t)
  /\ Goto(t, "apply")
  /\ UNCHANGED <<currentConfig, applied, stale, apmOwner, todo, frames>>

(* resetToDefaultConfiguration fills a local struct and assigns it to      *)
(* _currentConfig, field by field.                                         *)
Reset(t) ==
  /\ Enter(t)
  /\ todo' = [todo EXCEPT ![t] = Fields]
  /\ Goto(t, "reset")
  /\ UNCHANGED <<currentConfig, applied, stale, apmOwner, frames>>

(* Mutant of AssignField: the defaults go to the APM, not _currentConfig.  *)
AssignToAPM(t, f) ==
  /\ pc[t] = "reset"
  /\ f \in todo[t]
  /\ applied' = [applied EXCEPT ![f] = DefaultTable[f]]
  /\ todo' = [todo EXCEPT ![t] = @ \ {f}]
  /\ UNCHANGED <<currentConfig, stale, apmOwner, pc, frames, calls>>

AssignField(t, f) ==
  /\ pc[t] = "reset"
  /\ f \in todo[t]
  /\ currentConfig' = [currentConfig EXCEPT ![f] = DefaultTable[f]]
  /\ todo' = [todo EXCEPT ![t] = @ \ {f}]
  /\ UNCHANGED <<applied, stale, apmOwner, pc, frames, calls>>

(* Mutant of EndReset: the reset struct is not handed to the APM.           *)
EndResetUnapplied(t) ==
  /\ pc[t] = "reset"
  /\ todo[t] = {}
  /\ Goto(t, "idle")
  /\ UNCHANGED <<currentConfig, applied, stale, apmOwner, todo, frames, calls>>

EndReset(t) ==
  /\ pc[t] = "reset"
  /\ todo[t] = {}
  /\ Goto(t, "apply")
  /\ UNCHANGED <<currentConfig, applied, stale, apmOwner, todo, frames, calls>>

-----------------------------------------------------------------------------
(* applyCurrentConfiguration: ApplyConfig, then Initialize.  _apm exists   *)
(* already, so the lazy creation is not taken.                             *)
ApplyConfig(t) ==
  /\ pc[t] = "apply"
  /\ apmOwner = NoThread
  /\ apmOwner' = t
  /\ todo' = [todo EXCEPT ![t] = Fields]
  /\ Goto(t, "copy")
  /\ UNCHANGED <<currentConfig, applied, stale, frames, calls>>

CopyField(t, f) ==
  /\ pc[t] = "copy"
  /\ f \in todo[t]
  /\ applied' = [applied EXCEPT ![f] = currentConfig[f]]
  /\ todo' = [todo EXCEPT ![t] = @ \ {f}]
  /\ UNCHANGED <<currentConfig, stale, apmOwner, pc, frames, calls>>

(* Mutant of EndApply: the call never gives the APM back.                  *)
EndApplyKeepsAPM(t) ==
  /\ pc[t] = "copy"
  /\ todo[t] = {}
  /\ stale' = TRUE
  /\ Goto(t, "init")
  /\ UNCHANGED <<currentConfig, applied, apmOwner, todo, frames, calls>>

EndApply(t) ==
  /\ pc[t] = "copy"
  /\ todo[t] = {}
  /\ apmOwner' = NoThread
  /\ stale' = TRUE
  /\ Goto(t, "init")
  /\ UNCHANGED <<currentConfig, applied, todo, frames, calls>>

Initialize(t) ==
  /\ pc[t] = "init"
  /\ apmOwner = NoThread
  /\ stale' = FALSE
  /\ Goto(t, "idle")
  /\ UNCHANGED <<currentConfig, applied, apmOwner, todo, frames, calls>>

(* An audio thread's ProcessStream, from any of the process methods.       *)
ProcessStream ==
  /\ apmOwner = NoThread
  /\ frames' = applied
  /\ UNCHANGED <<currentConfig, applied, stale, apmOwner, pc, todo, calls>>

-----------------------------------------------------------------------------
Advance(t) ==
  \/ \E f \in Fields : AssignField(t, f) \/ CopyField(t, f)
  \/ EndReset(t)
  \/ ApplyConfig(t)
  \/ EndApply(t)
  \/ Initialize(t)

Next ==
  \/ \E t \in Threads :
       \/ \E f \in Fields : \E v \in Settable[f] : SetField(t, f, v)
       \/ SetUnknown(t)
       \/ Reset(t)
       \/ Advance(t)
  \/ ProcessStream

Spec == Init /\ [][Next]_vars

(* A thread inside the wrapper keeps running.  ApplyConfig competes for the *)
(* APM, which every holder gives back; strong fairness is the fairness of   *)
(* the APM's lock.  Nothing obliges a caller to call.                       *)
Fairness == \A t \in Threads : SF_vars(Advance(t))

FairSpec == Spec /\ Fairness

-----------------------------------------------------------------------------
Quiet == \A t \in Threads : pc[t] = "idle"

(* Thread t will still copy field f into the APM.                          *)
WillCopy(t, f) ==
  \/ pc[t] \in {"reset", "apply"}
  \/ pc[t] = "copy" /\ f \in todo[t]

(* No update is lost.  When the APM disagrees with _currentConfig on a     *)
(* field, some thread in the wrapper has that field still to copy: racing  *)
(* setters, resets and struct copies never leave the APM behind for good,  *)
(* although nothing in the wrapper locks _currentConfig.                   *)
NoLostUpdate ==
  \A f \in Fields :
    applied[f] # currentConfig[f] => \E t \in Threads : WillCopy(t, f)

(* A configuration that was applied and not initialised is always about to *)
(* be initialised: the order of the two calls in applyCurrentConfiguration *)
(* survives the interleaving of several of them.                           *)
InitializePending == stale => \E t \in Threads : pc[t] = "init"

(* Once the setters are done, frames are processed under the configuration *)
(* they asked for: a ProcessStream that starts when no configuration call  *)
(* is in flight uses exactly _currentConfig.                               *)
FramesFollowSettings ==
  [][ProcessStream /\ Quiet => frames' = currentConfig]_vars

(* Every configuration call returns and the APM then agrees with the       *)
(* wrapper.                                                                *)
EventuallyApplied == <>[](Quiet /\ applied = currentConfig /\ ~stale)

(* The wrapper implements the register of ConfigRegister: whatever the     *)
(* interleaving of setters, resets and struct copies, the last call to     *)
(* return leaves the APM with the whole of _currentConfig, initialised,    *)
(* nothing moves between calls, and a time without calls always comes.     *)
Register ==
  INSTANCE ConfigRegister WITH
    want <- currentConfig, have <- applied, used <- frames,
    callers <- {t \in Threads : pc[t] # "idle"}

ImplementsRegister == Register!LiveSpec

=============================================================================
