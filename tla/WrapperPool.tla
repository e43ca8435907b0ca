---------------------------- MODULE WrapperPool ----------------------------
(***************************************************************************)
(* AudioProcessingWrapperPool                                              *)
(* (WebRTCAudioProcessing/Classes/AudioProcessingWrapperPool.mm): wrappers *)
(* by id, created when first asked for, given up by dispose; and threads   *)
(* that process audio through the wrappers they got.                       *)
(*                                                                         *)
(* Nothing locks the dictionary.  Looking up, retaining what was found,    *)
(* creating and inserting are steps of their own; an insertion takes time, *)
(* and an access that falls into one may end the program.  Objects are     *)
(* reference counted: the dictionary retains what it holds, a caller what  *)
(* it got, and what nobody retains is deallocated.                         *)
(***************************************************************************)
EXTENDS FrameProcessing, FiniteSets

CONSTANTS
  Ids,        \* the processor ids
  NoWrapper   \* nil

ASSUME NoWrapperAssumption == NoWrapper \notin Wrappers
ASSUME IdsAssumption == Ids # {} /\ IsFiniteSet(Ids)
ASSUME ThreadsAssumption == IsFiniteSet(Threads)

VARIABLES
  instances,  \* _instances
  created,    \* wrappers that were allocated
  retains,    \* how often each wrapper is retained
  place,      \* where each thread is in wrapperForId:
  wanted,     \* the id each thread asks for; AnyId while it holds nothing
  held,       \* the wrapper each thread has in hand
  split       \* ids whose wrapper was disposed of or replaced

poolVars == <<instances, created, retains, place, wanted, held, split>>
vars == <<frameVars, crashed, poolVars>>

PoolPlaces == {"out", "retain", "create", "insert", "inserting", "holding"}

AnyId == CHOOSE id \in Ids : TRUE

Init ==
  /\ FrameInit
  /\ instances = [id \in Ids |-> NoWrapper]
  /\ created = {}
  /\ retains = [w \in Wrappers |-> 0]
  /\ place = [t \in Threads |-> "out"]
  /\ wanted = [t \in Threads |-> AnyId]
  /\ held = [t \in Threads |-> NoWrapper]
  /\ split = {}

Move(t, l) == place' = [place EXCEPT ![t] = l]

(* Thread t uses the dictionary; that of another may be being changed.      *)
UsesDictionary(t) == MayCrash(\E u \in Threads \ {t} : place[u] = "inserting")

(* Bound: the wrappers that can still be created.                           *)
SomeLeft ==
  Cardinality(Wrappers \ created) > Cardinality({t \in Threads : place[t] = "create"})

(* wrapperForId: the look-up.                                               *)
wrapperForId(t, id) ==
  /\ place[t] = "out"
  /\ instances[id] = NoWrapper => SomeLeft
  /\ wanted' = [wanted EXCEPT ![t] = id]
  /\ held' = [held EXCEPT ![t] = instances[id]]
  /\ Move(t, IF instances[id] = NoWrapper THEN "create" ELSE "retain")
  /\ UsesDictionary(t)
  /\ UNCHANGED <<frameVars, instances, created, retains, split>>

(* ... the caller retains what the look-up found.  Nothing kept it since:   *)
(* if it was deallocated in between, the program ends.                      *)
RetainFound(t) ==
  /\ place[t] = "retain"
  /\ IF retains[held[t]] = 0
       THEN crashed' = TRUE /\ UNCHANGED retains
       ELSE retains' = [retains EXCEPT ![held[t]] = @ + 1] /\ UNCHANGED crashed
  /\ Move(t, "holding")
  /\ UNCHANGED <<frameVars, instances, created, wanted, held, split>>

(* ... or [[AudioProcessingWrapper alloc] init], retained by the caller.    *)
(* Which unused object it is makes no difference.                           *)
CreateWrapper(t) ==
  /\ place[t] = "create"
  /\ Wrappers \ created # {}
  /\ LET w == CHOOSE w \in Wrappers : w \notin created
     IN  /\ created' = created \cup {w}
         /\ retains' = [retains EXCEPT ![w] = 1]
         /\ held' = [held EXCEPT ![t] = w]
  /\ Move(t, "insert")
  /\ UNCHANGED <<frameVars, crashed, instances, wanted, split>>

BeginInsert(t) ==
  /\ place[t] = "insert"
  /\ UsesDictionary(t)
  /\ Move(t, "inserting")
  /\ UNCHANGED <<frameVars, instances, created, retains, wanted, held, split>>

(* The retain counts when an id gets wrapper w, or NoWrapper, in the        *)
(* dictionary.                                                              *)
Exchanged(id, w) ==
  [v \in Wrappers |->
    (retains[v] + (IF v = w THEN 1 ELSE 0))
      - (IF v = instances[id] THEN 1 ELSE 0)]

NoteReplaced(id) ==
  split' = IF instances[id] = NoWrapper THEN split ELSE split \cup {id}

(* Mutant of EndInsert: the wrapper is filed under every id.                *)
InsertForAll(t) ==
  /\ place[t] = "inserting"
  /\ instances' = [id \in Ids |-> held[t]]
  /\ retains' = Exchanged(wanted[t], held[t])
  /\ NoteReplaced(wanted[t])
  /\ Move(t, "holding")
  /\ UNCHANGED <<frameVars, crashed, created, wanted, held>>

(* ... _instances[processorId] = wrapper, which releases what was there.    *)
EndInsert(t) ==
  /\ place[t] = "inserting"
  /\ instances' = [instances EXCEPT ![wanted[t]] = held[t]]
  /\ retains' = Exchanged(wanted[t], held[t])
  /\ NoteReplaced(wanted[t])
  /\ Move(t, "holding")
  /\ UNCHANGED <<frameVars, crashed, created, wanted, held>>

(* Mutant of disposeWrapperForId: all ids go, as with removeAllObjects.     *)
DisposeAll(t, id) ==
  /\ place[t] = "out"
  /\ instances' = [i \in Ids |-> NoWrapper]
  /\ retains' = [w \in Wrappers |->
                   retains[w] - Cardinality({i \in Ids : instances[i] = w})]
  /\ NoteReplaced(id)
  /\ UsesDictionary(t)
  /\ UNCHANGED <<frameVars, created, place, wanted, held>>

disposeWrapperForId(t, id) ==
  /\ place[t] = "out"
  /\ instances' = [instances EXCEPT ![id] = NoWrapper]
  /\ retains' = Exchanged(id, NoWrapper)
  /\ NoteReplaced(id)
  /\ UsesDictionary(t)
  /\ UNCHANGED <<frameVars, created, place, wanted, held>>

(* The caller has done with its wrapper.                                    *)
Release(t) ==
  /\ place[t] = "holding"
  /\ At(t, "idle")
  /\ retains' = [retains EXCEPT ![held[t]] = @ - 1]
  /\ held' = [held EXCEPT ![t] = NoWrapper]
  /\ wanted' = [wanted EXCEPT ![t] = AnyId]
  /\ Move(t, "out")
  /\ UNCHANGED <<frameVars, crashed, instances, created, split>>

(* ... or processes audio with it.                                          *)
UseWrapper(t) ==
  /\ place[t] = "holding"
  /\ Process(t, held[t])
  /\ UNCHANGED poolVars

GetWrapper(t) ==
  RetainFound(t) \/ CreateWrapper(t) \/ BeginInsert(t) \/ EndInsert(t)

Step(t) ==
  \/ GetWrapper(t)
  \/ Advance(t) /\ UNCHANGED poolVars

Next ==
  /\ ~crashed
  /\ \E t \in Threads :
       \/ \E id \in Ids : wrapperForId(t, id) \/ disposeWrapperForId(t, id)
       \/ UseWrapper(t)
       \/ Release(t)
       \/ Step(t)

Spec == Init /\ [][Next]_vars

(* A call that has begun runs on.  Nobody has to call.                      *)
FairSpec == Spec /\ \A t \in Threads : WF_vars(~crashed /\ Step(t))

-----------------------------------------------------------------------------
Holding(t) == place[t] \in {"insert", "inserting", "holding"}

TypeOK ==
  /\ FrameTypeOK
  /\ instances \in [Ids -> Wrappers \cup {NoWrapper}]
  /\ created \subseteq Wrappers
  /\ retains \in [Wrappers -> Nat]
  /\ place \in [Threads -> PoolPlaces]
  /\ wanted \in [Threads -> Ids]
  /\ held \in [Threads -> Wrappers \cup {NoWrapper}]
  /\ split \subseteq Ids

(* Who retains a wrapper: the dictionary, once for every id, and the        *)
(* callers that have it in hand.                                            *)
Filed(w) == {id \in Ids : instances[id] = w}
InHand(w) == {t \in Threads : Holding(t) /\ held[t] = w}

(* What a look-up found is gone before its caller retains it only if the   *)
(* very id it asked for was disposed of, or got another wrapper because two *)
(* threads created one each: neither a caller that lets its wrapper go nor  *)
(* what happens to other ids can do that.                                   *)
GoneOnlyWhenSplit ==
  ~crashed => \A t \in Threads :
    place[t] = "retain" /\ retains[held[t]] = 0 => wanted[t] \in split

(* Callers of different ids never meet in one wrapper, and callers of the   *)
(* same id do, unless the id's wrapper was disposed of or two threads that  *)
(* both found none created one each.                                        *)
WrapperPerId ==
  ~crashed => \A t, u \in Threads :
    Holding(t) /\ Holding(u) /\ t # u =>
      /\ held[t] = held[u] => wanted[t] = wanted[u]
      /\ wanted[t] = wanted[u] /\ place[t] = "holding" /\ place[u] = "holding"
           => held[t] = held[u] \/ wanted[t] \in split

(* A call of the pool or of a wrapper returns, or the program is gone.      *)
CallsReturn ==
  \A t \in Threads : ~(place[t] \in {"out", "holding"} /\ At(t, "idle"))
    ~> (place[t] \in {"out", "holding"} /\ At(t, "idle")) \/ crashed

=============================================================================
