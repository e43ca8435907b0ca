--------------------------- MODULE ConfigRegister ---------------------------
(***************************************************************************)
(* What AudioProcessingWrapper promises about its configuration, with the  *)
(* struct copies, the places of the threads and the locks left out.        *)
(* Callers come and go and write the fields of a wanted configuration; the *)
(* audio processing module (APM) follows it one field at a time while a    *)
(* call is under way.  The promise is in Return: the last call to leave    *)
(* may do so only when the APM has the whole of the wanted configuration.  *)
(* Between calls nothing moves, so whatever frame is processed then is     *)
(* processed under the configuration asked for.  LiveSpec adds that there  *)
(* always comes a time without calls.                                      *)
(***************************************************************************)
CONSTANTS
  Threads,    \* the threads that call
  Fields,     \* the configuration fields the setters can change
  Settable,   \* Settable[f]: the values a caller may give to field f
  Default     \* Default[f]: the value resetToDefaultConfiguration gives it

VARIABLES
  want,       \* the configuration the callers asked for
  have,       \* the configuration the APM holds
  used,       \* the configuration the last processed frame met
  stale,      \* the APM was given a configuration and not initialised since
  callers     \* the threads with a call under way

vars == <<want, have, used, stale, callers>>

Init ==
  /\ want = [f \in Fields |-> Default[f]]
  /\ have = want
  /\ used = want
  /\ stale = FALSE
  /\ callers = {}

(* A call begins; a setter writes its field in the same step.              *)
Call(t) ==
  /\ t \notin callers
  /\ callers' = callers \cup {t}
  /\ \/ UNCHANGED want
     \/ \E f \in Fields : \E v \in Settable[f] : want' = [want EXCEPT ![f] = v]
  /\ UNCHANGED <<have, used, stale>>

(* A call under way writes a default.                                      *)
Restore(f) ==
  /\ callers # {}
  /\ want' = [want EXCEPT ![f] = Default[f]]
  /\ UNCHANGED <<have, used, stale, callers>>

Follow(f) ==
  /\ callers # {}
  /\ have' = [have EXCEPT ![f] = want[f]]
  /\ UNCHANGED <<want, used, stale, callers>>

Handed ==
  /\ callers # {}
  /\ stale' = TRUE
  /\ UNCHANGED <<want, have, used, callers>>

Return(t) ==
  /\ t \in callers
  /\ callers = {t} => have = want
  /\ callers' = callers \ {t}
  /\ stale' = FALSE
  /\ UNCHANGED <<want, have, used>>

Frame ==
  /\ used' = have
  /\ UNCHANGED <<want, have, stale, callers>>

Next ==
  \/ \E t \in Threads : Call(t) \/ Return(t)
  \/ \E f \in Fields : Restore(f) \/ Follow(f)
  \/ Handed
  \/ Frame

Spec == Init /\ [][Next]_vars

LiveSpec == Spec /\ []<>(callers = {})

=============================================================================
