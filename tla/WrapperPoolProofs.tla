------------------------- MODULE WrapperPoolProofs -------------------------
(***************************************************************************)
(* Theorems about WrapperPool, for any number of threads, ids, wrappers    *)
(* and calls.  The first part is about the pool, which the steps inside    *)
(* the processing methods leave alone; the second about the processing     *)
(* methods, which the steps of the pool leave alone.                       *)
(***************************************************************************)
EXTENDS WrapperPool, FiniteSetTheorems, SequenceTheorems, TLAPS

(* Thread t has a wrapper, retained or not.                                *)
Has(t) == place[t] \in {"retain", "insert", "inserting", "holding"}

(* What of the type the pool's steps need, and that a wrapper that is in   *)
(* the dictionary or in a thread's hand was created.                       *)
PoolTypeInv ==
  /\ instances \in [Ids -> created \cup {NoWrapper}]
  /\ created \subseteq Wrappers
  /\ retains \in [Wrappers -> Int]
  /\ place \in [Threads -> PoolPlaces]
  /\ wanted \in [Threads -> Ids]
  /\ held \in [Threads -> created \cup {NoWrapper}]
  /\ split \subseteq Ids
  /\ \A t \in Threads : Has(t) => held[t] # NoWrapper

RetainInv ==
  \A w \in Wrappers :
    retains[w] = Cardinality(Filed(w)) + Cardinality(InHand(w))

(* A wrapper belongs to one id, wherever it is; and a thread that found or *)
(* inserted its wrapper has the one of the dictionary, unless its id is    *)
(* split.                                                                  *)
IdInv ==
  /\ \A i, j \in Ids : instances[i] = instances[j] /\ i # j => instances[i] = NoWrapper
  /\ \A t \in Threads, i \in Ids : Has(t) /\ held[t] = instances[i] => wanted[t] = i
  /\ \A t, u \in Threads :
       Has(t) /\ Has(u) /\ held[t] = held[u] => wanted[t] = wanted[u]
  /\ \A t \in Threads :
       place[t] \in {"retain", "holding"} =>
         held[t] = instances[wanted[t]] \/ wanted[t] \in split

PoolInv == PoolTypeInv /\ (~crashed => RetainInv /\ IdInv)

-----------------------------------------------------------------------------
LEMMA OwnersFinite ==
  ASSUME NEW w
  PROVE  /\ IsFiniteSet(Filed(w)) /\ Cardinality(Filed(w)) \in Nat
         /\ IsFiniteSet(InHand(w)) /\ Cardinality(InHand(w)) \in Nat
<1>1. Filed(w) \subseteq Ids /\ InHand(w) \subseteq Threads
  BY DEF Filed, InHand
<1>. QED
  BY <1>1, IdsAssumption, ThreadsAssumption, FS_Subset, FS_CardinalityType

LEMMA FrameLeavesPool ==
  ASSUME NEW t \in Threads, PoolInv, ~crashed, UNCHANGED poolVars
  PROVE  PoolInv'
BY DEF PoolInv, PoolTypeInv, RetainInv, IdInv, poolVars, Has, Holding, Filed, InHand

LEMMA PoolInit == Init => PoolInv
<1>. SUFFICES ASSUME Init PROVE PoolInv
  OBVIOUS
<1>1. PoolTypeInv
  <2>1. AnyId \in Ids
    BY IdsAssumption DEF AnyId
  <2>. QED
    BY <2>1 DEF Init, PoolTypeInv, PoolPlaces, Has
<1>2. RetainInv
  <2>1. ASSUME NEW w \in Wrappers
        PROVE  Filed(w) = {} /\ InHand(w) = {}
    BY NoWrapperAssumption DEF Init, Filed, InHand, Holding
  <2>. QED
    BY <2>1, FS_EmptySet DEF Init, RetainInv
<1>3. IdInv
  BY DEF Init, IdInv, Has
<1>. QED
  BY <1>1, <1>2, <1>3 DEF PoolInv

(* What it does to the counts that id gets w, or nothing, in the           *)
(* dictionary.                                                             *)
LEMMA ExchangeCounts ==
  ASSUME PoolTypeInv, RetainInv,
         NEW id \in Ids, NEW w \in Wrappers \cup {NoWrapper},
         instances' = [instances EXCEPT ![id] = w],
         retains' = Exchanged(id, w),
         \A v \in Wrappers : InHand(v)' = InHand(v)
  PROVE  RetainInv'
<1>. SUFFICES ASSUME NEW v \in Wrappers
              PROVE  retains'[v] = Cardinality(Filed(v)') + Cardinality(InHand(v)')
  BY DEF RetainInv
<1>1. /\ retains[v] = Cardinality(Filed(v)) + Cardinality(InHand(v))
      /\ retains'[v] = (retains[v] + (IF v = w THEN 1 ELSE 0))
                         - (IF v = instances[id] THEN 1 ELSE 0)
  BY DEF RetainInv, Exchanged
<1>2. IsFiniteSet(Filed(v)) /\ Cardinality(Filed(v)) \in Nat
      /\ Cardinality(InHand(v)) \in Nat
  BY OwnersFinite
<1>3. \A i \in Ids : instances'[i] = IF i = id THEN w ELSE instances[i]
  BY DEF PoolTypeInv
<1>4. CASE v = w /\ v # instances[id]
  <2>1. Filed(v)' = Filed(v) \cup {id} /\ id \notin Filed(v)
    BY <1>3, <1>4 DEF Filed
  <2>2. Cardinality(Filed(v)') = Cardinality(Filed(v)) + 1
    BY <1>2, <2>1, FS_AddElement
  <2>. QED
    BY <1>1, <1>2, <1>4, <2>2
<1>5. CASE v # w /\ v = instances[id]
  <2>1. Filed(v)' = Filed(v) \ {id} /\ id \in Filed(v)
    BY <1>3, <1>5 DEF Filed
  <2>2. Cardinality(Filed(v)') = Cardinality(Filed(v)) - 1
    BY <1>2, <2>1, FS_RemoveElement
  <2>. QED
    BY <1>1, <1>2, <1>5, <2>2
<1>6. CASE (v = w) = (v = instances[id])
  <2>1. Filed(v)' = Filed(v)
    BY <1>3, <1>6 DEF Filed
  <2>2. retains'[v] = retains[v]
    BY <1>1, <1>2, <1>6
  <2>. QED
    BY <1>1, <2>1, <2>2
<1>. QED
  BY <1>4, <1>5, <1>6

(* What it does to the counts that a thread takes wrapper v in hand.       *)
LEMMA TakeCounts ==
  ASSUME PoolTypeInv, NEW t \in Threads, NEW v \in Wrappers,
         ~Holding(t), Holding(t)', held'[t] = v,
         \A u \in Threads \ {t} : Holding(u)' = Holding(u) /\ held'[u] = held[u]
  PROVE  \A w \in Wrappers :
           Cardinality(InHand(w)') =
             Cardinality(InHand(w)) + (IF w = v THEN 1 ELSE 0)
<1>. SUFFICES ASSUME NEW w \in Wrappers
              PROVE  Cardinality(InHand(w)') =
                       Cardinality(InHand(w)) + (IF w = v THEN 1 ELSE 0)
  OBVIOUS
<1>1. IsFiniteSet(InHand(w)) /\ Cardinality(InHand(w)) \in Nat
  BY OwnersFinite
<1>2. CASE w = v
  <2>1. InHand(w)' = InHand(w) \cup {t} /\ t \notin InHand(w)
    BY <1>2 DEF InHand
  <2>. QED
    BY <1>1, <1>2, <2>1, FS_AddElement
<1>3. CASE w # v
  <2>1. InHand(w)' = InHand(w)
    BY <1>3 DEF InHand
  <2>. QED
    BY <1>1, <1>3, <2>1
<1>. QED
  BY <1>2, <1>3

-----------------------------------------------------------------------------
LEMMA LookUpStep ==
  ASSUME PoolInv, ~crashed, NEW t \in Threads, NEW id \in Ids, wrapperForId(t, id)
  PROVE  PoolInv'
<1>1. PoolTypeInv /\ RetainInv /\ IdInv
  BY DEF PoolInv
<1>2. /\ place[t] = "out" /\ wanted' = [wanted EXCEPT ![t] = id]
      /\ held' = [held EXCEPT ![t] = instances[id]]
      /\ place' = [place EXCEPT ![t] = IF instances[id] = NoWrapper
                                         THEN "create" ELSE "retain"]
      /\ UNCHANGED <<instances, created, retains, split>>
  BY DEF wrapperForId, Move
<1>3. PoolTypeInv'
  <2>1. /\ held' \in [Threads -> created \cup {NoWrapper}]
        /\ wanted' \in [Threads -> Ids] /\ place' \in [Threads -> PoolPlaces]
    BY <1>1, <1>2 DEF PoolTypeInv, PoolPlaces
  <2>2. \A u \in Threads : Has(u)' => held'[u] # NoWrapper
    BY <1>1, <1>2 DEF PoolTypeInv, Has
  <2>. QED
    BY <1>1, <1>2, <2>1, <2>2 DEF PoolTypeInv
<1>4. RetainInv'
  <2>1. ASSUME NEW w \in Wrappers
        PROVE  Filed(w)' = Filed(w) /\ InHand(w)' = InHand(w)
    BY <1>1, <1>2 DEF PoolTypeInv, Filed, InHand, Holding
  <2>. QED
    BY <1>1, <1>2, <2>1 DEF RetainInv
<1>5. IdInv'
  <2>1. \A u \in Threads : u # t =>
          place'[u] = place[u] /\ held'[u] = held[u] /\ wanted'[u] = wanted[u]
    BY <1>1, <1>2 DEF PoolTypeInv
  <2>2. /\ held'[t] = instances[id] /\ wanted'[t] = id
        /\ Has(t)' => instances[id] # NoWrapper
    BY <1>1, <1>2 DEF PoolTypeInv, Has
  <2>3. \A u \in Threads : u # t => Has(u)' = Has(u)
    BY <2>1 DEF Has
  <2>4. \A u \in Threads, i \in Ids :
          Has(u)' /\ held'[u] = instances'[i] => wanted'[u] = i
    BY <1>1, <1>2, <2>1, <2>2, <2>3 DEF IdInv
  <2>5. \A u, w \in Threads :
          Has(u)' /\ Has(w)' /\ held'[u] = held'[w] => wanted'[u] = wanted'[w]
    BY <1>1, <1>2, <2>1, <2>2, <2>3 DEF IdInv
  <2>6. \A u \in Threads : place'[u] \in {"retain", "holding"} =>
          held'[u] = instances'[wanted'[u]] \/ wanted'[u] \in split'
    BY <1>1, <1>2, <2>1, <2>2 DEF IdInv
  <2>. QED
    BY <1>1, <1>2, <2>4, <2>5, <2>6 DEF IdInv
<1>. QED
  BY <1>3, <1>4, <1>5 DEF PoolInv

LEMMA RetainStep ==
  ASSUME PoolInv, ~crashed, NEW t \in Threads, RetainFound(t), ~crashed'
  PROVE  PoolInv'
<1>1. PoolTypeInv /\ RetainInv /\ IdInv
  BY DEF PoolInv
<1>2. /\ place[t] = "retain" /\ place' = [place EXCEPT ![t] = "holding"]
      /\ retains' = [retains EXCEPT ![held[t]] = @ + 1]
      /\ UNCHANGED <<instances, created, wanted, held, split>>
  BY DEF RetainFound, Move
<1>3. held[t] \in Wrappers
  BY <1>1, <1>2 DEF PoolTypeInv, Has
<1>4. PoolTypeInv'
  <2>1. /\ retains' \in [Wrappers -> Int] /\ place' \in [Threads -> PoolPlaces]
    BY <1>1, <1>2, <1>3 DEF PoolTypeInv, PoolPlaces
  <2>. QED
    BY <1>1, <1>2, <2>1 DEF PoolTypeInv, Has
<1>5. RetainInv'
  <2>1. /\ ~Holding(t) /\ Holding(t)' /\ held'[t] = held[t]
        /\ \A u \in Threads \ {t} : Holding(u)' = Holding(u) /\ held'[u] = held[u]
    BY <1>1, <1>2 DEF PoolTypeInv, Holding
  <2>2. \A w \in Wrappers : Cardinality(InHand(w)') =
          Cardinality(InHand(w)) + (IF w = held[t] THEN 1 ELSE 0)
    BY <1>1, <1>3, <2>1, TakeCounts
  <2>3. \A w \in Wrappers : Filed(w)' = Filed(w)
    BY <1>2 DEF Filed
  <2>. SUFFICES ASSUME NEW w \in Wrappers
                PROVE  retains'[w] = Cardinality(Filed(w)') + Cardinality(InHand(w)')
    BY DEF RetainInv
  <2>4. retains'[w] = retains[w] + (IF w = held[t] THEN 1 ELSE 0)
    BY <1>1, <1>2 DEF PoolTypeInv
  <2>5. Cardinality(Filed(w)) \in Nat /\ Cardinality(InHand(w)) \in Nat
    BY OwnersFinite
  <2>. QED
    BY <1>1, <2>2, <2>3, <2>4, <2>5 DEF RetainInv
<1>6. IdInv'
  <2>1. \A u \in Threads : Has(u)' => Has(u)
    BY <1>1, <1>2 DEF PoolTypeInv, Has
  <2>2. \A u \in Threads : place'[u] \in {"retain", "holding"}
          => place[u] \in {"retain", "holding"}
    BY <1>1, <1>2 DEF PoolTypeInv
  <2>. QED
    BY <1>1, <1>2, <2>1, <2>2 DEF IdInv
<1>. QED
  BY <1>4, <1>5, <1>6 DEF PoolInv

LEMMA CreateStep ==
  ASSUME PoolInv, ~crashed, NEW t \in Threads, CreateWrapper(t)
  PROVE  PoolInv'
<1>1. PoolTypeInv /\ RetainInv /\ IdInv
  BY DEF PoolInv
<1>. DEFINE new == CHOOSE w \in Wrappers : w \notin created
<1>2. new \in Wrappers /\ new \notin created
  BY DEF CreateWrapper
<1>3. /\ place[t] = "create" /\ place' = [place EXCEPT ![t] = "insert"]
      /\ created' = created \cup {new}
      /\ retains' = [retains EXCEPT ![new] = 1]
      /\ held' = [held EXCEPT ![t] = new]
      /\ UNCHANGED <<instances, wanted, split>>
  BY DEF CreateWrapper, Move
<1>. HIDE DEF new
<1>4. new # NoWrapper
  BY <1>2, NoWrapperAssumption
<1>5. (\A i \in Ids : instances[i] # new) /\ (\A u \in Threads : held[u] # new)
  BY <1>1, <1>2, <1>4 DEF PoolTypeInv
<1>6. PoolTypeInv'
  <2>1. /\ held' \in [Threads -> created' \cup {NoWrapper}]
        /\ instances' \in [Ids -> created' \cup {NoWrapper}]
        /\ created' \subseteq Wrappers
        /\ retains' \in [Wrappers -> Int]
        /\ place' \in [Threads -> PoolPlaces]
    BY <1>1, <1>2, <1>3 DEF PoolTypeInv, PoolPlaces
  <2>2. \A u \in Threads : Has(u)' => held'[u] # NoWrapper
    BY <1>1, <1>3, <1>4 DEF PoolTypeInv, Has
  <2>. QED
    BY <1>1, <1>3, <2>1, <2>2 DEF PoolTypeInv
<1>7. RetainInv'
  <2>1. /\ ~Holding(t) /\ Holding(t)' /\ held'[t] = new
        /\ \A u \in Threads \ {t} : Holding(u)' = Holding(u) /\ held'[u] = held[u]
    BY <1>1, <1>3 DEF PoolTypeInv, Holding
  <2>2. \A w \in Wrappers : Cardinality(InHand(w)') =
          Cardinality(InHand(w)) + (IF w = new THEN 1 ELSE 0)
    BY <1>1, <1>2, <2>1, TakeCounts
  <2>3. \A w \in Wrappers : Filed(w)' = Filed(w)
    BY <1>3 DEF Filed
  <2>4. Filed(new) = {} /\ InHand(new) = {}
    BY <1>5 DEF Filed, InHand
  <2>. SUFFICES ASSUME NEW w \in Wrappers
                PROVE  retains'[w] = Cardinality(Filed(w)') + Cardinality(InHand(w)')
    BY DEF RetainInv
  <2>5. Cardinality(Filed(w)) \in Nat /\ Cardinality(InHand(w)) \in Nat
    BY OwnersFinite
  <2>6. CASE w = new
    <3>1. retains'[w] = 1
      BY <1>1, <1>3, <2>6 DEF PoolTypeInv
    <3>2. Cardinality(Filed(w)) = 0 /\ Cardinality(InHand(w)) = 0
      BY <2>4, <2>6, FS_EmptySet
    <3>. QED
      BY <2>2, <2>3, <2>6, <3>1, <3>2
  <2>7. CASE w # new
    <3>1. retains'[w] = retains[w]
      BY <1>1, <1>3, <2>7 DEF PoolTypeInv
    <3>. QED
      BY <1>1, <2>2, <2>3, <2>5, <2>7, <3>1 DEF RetainInv
  <2>. QED
    BY <2>6, <2>7
<1>8. IdInv'
  <2>1. \A u \in Threads : u # t =>
          place'[u] = place[u] /\ held'[u] = held[u] /\ Has(u)' = Has(u)
    BY <1>1, <1>3 DEF PoolTypeInv, Has
  <2>2. held'[t] = new /\ place'[t] = "insert"
    BY <1>1, <1>3 DEF PoolTypeInv
  <2>3. \A u \in Threads, i \in Ids :
          Has(u)' /\ held'[u] = instances'[i] => wanted'[u] = i
    BY <1>1, <1>3, <1>5, <2>1, <2>2 DEF IdInv
  <2>4. \A u, w \in Threads :
          Has(u)' /\ Has(w)' /\ held'[u] = held'[w] => wanted'[u] = wanted'[w]
    BY <1>1, <1>3, <1>5, <2>1, <2>2 DEF IdInv
  <2>5. \A u \in Threads : place'[u] \in {"retain", "holding"} =>
          held'[u] = instances'[wanted'[u]] \/ wanted'[u] \in split'
    BY <1>1, <1>3, <2>1, <2>2 DEF IdInv
  <2>. QED
    BY <1>1, <1>3, <2>3, <2>4, <2>5 DEF IdInv
<1>. QED
  BY <1>6, <1>7, <1>8 DEF PoolInv

LEMMA BeginInsertStep ==
  ASSUME PoolInv, ~crashed, NEW t \in Threads, BeginInsert(t)
  PROVE  PoolInv'
<1>1. PoolTypeInv /\ RetainInv /\ IdInv
  BY DEF PoolInv
<1>2. /\ place[t] = "insert" /\ place' = [place EXCEPT ![t] = "inserting"]
      /\ UNCHANGED <<instances, created, retains, wanted, held, split>>
  BY DEF BeginInsert, Move
<1>3. place' \in [Threads -> PoolPlaces]
  BY <1>1, <1>2 DEF PoolTypeInv, PoolPlaces
<1>4. \A u \in Threads : Has(u)' = Has(u) /\ Holding(u)' = Holding(u)
  BY <1>1, <1>2 DEF PoolTypeInv, Has, Holding
<1>5. \A u \in Threads :
        place'[u] \in {"retain", "holding"} => place[u] \in {"retain", "holding"}
  BY <1>1, <1>2 DEF PoolTypeInv
<1>6. PoolTypeInv'
  BY <1>1, <1>2, <1>3, <1>4 DEF PoolTypeInv
<1>7. RetainInv'
  <2>1. ASSUME NEW w \in Wrappers
        PROVE  Filed(w)' = Filed(w) /\ InHand(w)' = InHand(w)
    BY <1>2, <1>4 DEF Filed, InHand
  <2>. QED
    BY <1>1, <1>2, <2>1 DEF RetainInv
<1>8. IdInv'
  BY <1>1, <1>2, <1>4, <1>5 DEF IdInv
<1>. QED
  BY <1>6, <1>7, <1>8 DEF PoolInv

LEMMA EndInsertStep ==
  ASSUME PoolInv, ~crashed, NEW t \in Threads, EndInsert(t)
  PROVE  PoolInv'
<1>1. PoolTypeInv /\ RetainInv /\ IdInv
  BY DEF PoolInv
<1>2. /\ place[t] = "inserting" /\ place' = [place EXCEPT ![t] = "holding"]
      /\ instances' = [instances EXCEPT ![wanted[t]] = held[t]]
      /\ retains' = Exchanged(wanted[t], held[t])
      /\ split' = IF instances[wanted[t]] = NoWrapper
                    THEN split ELSE split \cup {wanted[t]}
      /\ UNCHANGED <<created, wanted, held>>
  BY DEF EndInsert, Move, NoteReplaced
<1>3. wanted[t] \in Ids /\ held[t] \in Wrappers /\ held[t] \in created /\ Has(t)
  BY <1>1, <1>2 DEF PoolTypeInv, Has
<1>4. \A u \in Threads : Has(u)' = Has(u) /\ Holding(u)' = Holding(u)
  BY <1>1, <1>2 DEF PoolTypeInv, Has, Holding
<1>5. \A i \in Ids : instances'[i] = IF i = wanted[t] THEN held[t] ELSE instances[i]
  BY <1>1, <1>2 DEF PoolTypeInv
<1>6. PoolTypeInv'
  <2>1. /\ instances' \in [Ids -> created \cup {NoWrapper}]
        /\ place' \in [Threads -> PoolPlaces] /\ split' \subseteq Ids
    BY <1>1, <1>2, <1>3 DEF PoolTypeInv, PoolPlaces
  <2>2. retains' \in [Wrappers -> Int]
    BY <1>1, <1>2 DEF PoolTypeInv, Exchanged
  <2>. QED
    BY <1>1, <1>2, <1>4, <2>1, <2>2 DEF PoolTypeInv
<1>7. RetainInv'
  <2>1. \A w \in Wrappers : InHand(w)' = InHand(w)
    BY <1>2, <1>4 DEF InHand
  <2>. QED
    BY <1>1, <1>2, <1>3, <2>1, ExchangeCounts
<1>8. IdInv'
  <2>1. \A i, j \in Ids :
          instances'[i] = instances'[j] /\ i # j => instances'[i] = NoWrapper
    BY <1>1, <1>3, <1>5 DEF IdInv
  <2>2. \A u \in Threads, i \in Ids :
          Has(u)' /\ held'[u] = instances'[i] => wanted'[u] = i
    BY <1>1, <1>2, <1>3, <1>4, <1>5 DEF IdInv
  <2>3. \A u, w \in Threads :
          Has(u)' /\ Has(w)' /\ held'[u] = held'[w] => wanted'[u] = wanted'[w]
    BY <1>1, <1>2, <1>4 DEF IdInv
  <2>4. ASSUME NEW u \in Threads, place'[u] \in {"retain", "holding"}
        PROVE  held'[u] = instances'[wanted'[u]] \/ wanted'[u] \in split'
    <3>1. CASE u = t
      BY <1>2, <1>3, <1>5, <3>1
    <3>2. CASE u # t
      <4>1. place[u] \in {"retain", "holding"} /\ wanted[u] \in Ids
        BY <1>1, <1>2, <2>4, <3>2 DEF PoolTypeInv
      <4>2. held[u] = instances[wanted[u]] \/ wanted[u] \in split
        BY <1>1, <4>1 DEF IdInv
      <4>3. held[u] # NoWrapper
        BY <1>1, <4>1 DEF PoolTypeInv, Has
      <4>. QED
        BY <1>2, <1>5, <4>1, <4>2, <4>3
    <3>. QED
      BY <3>1, <3>2
  <2>. QED
    BY <2>1, <2>2, <2>3, <2>4 DEF IdInv
<1>. QED
  BY <1>6, <1>7, <1>8 DEF PoolInv

LEMMA DisposeStep ==
  ASSUME PoolInv, ~crashed, NEW t \in Threads, NEW id \in Ids,
         disposeWrapperForId(t, id)
  PROVE  PoolInv'
<1>1. PoolTypeInv /\ RetainInv /\ IdInv
  BY DEF PoolInv
<1>2. /\ instances' = [instances EXCEPT ![id] = NoWrapper]
      /\ retains' = Exchanged(id, NoWrapper)
      /\ split' = IF instances[id] = NoWrapper THEN split ELSE split \cup {id}
      /\ UNCHANGED <<created, place, wanted, held>>
  BY DEF disposeWrapperForId, NoteReplaced
<1>3. \A i \in Ids : instances'[i] = IF i = id THEN NoWrapper ELSE instances[i]
  BY <1>1, <1>2 DEF PoolTypeInv
<1>4. PoolTypeInv'
  <2>1. instances' \in [Ids -> created \cup {NoWrapper}] /\ split' \subseteq Ids
    BY <1>1, <1>2 DEF PoolTypeInv
  <2>2. retains' \in [Wrappers -> Int]
    BY <1>1, <1>2 DEF PoolTypeInv, Exchanged
  <2>. QED
    BY <1>1, <1>2, <2>1, <2>2 DEF PoolTypeInv, Has
<1>5. RetainInv'
  <2>1. \A w \in Wrappers : InHand(w)' = InHand(w)
    BY <1>2 DEF InHand, Holding
  <2>. QED
    BY <1>1, <1>2, <2>1, ExchangeCounts
<1>6. IdInv'
  <2>1. \A i, j \in Ids :
          instances'[i] = instances'[j] /\ i # j => instances'[i] = NoWrapper
    BY <1>1, <1>3 DEF IdInv
  <2>2. \A u \in Threads, i \in Ids :
          Has(u)' /\ held'[u] = instances'[i] => wanted'[u] = i
    BY <1>1, <1>2, <1>3 DEF IdInv, PoolTypeInv, Has
  <2>3. \A u, w \in Threads :
          Has(u)' /\ Has(w)' /\ held'[u] = held'[w] => wanted'[u] = wanted'[w]
    BY <1>1, <1>2 DEF IdInv, Has
  <2>4. ASSUME NEW u \in Threads, place'[u] \in {"retain", "holding"}
        PROVE  held'[u] = instances'[wanted'[u]] \/ wanted'[u] \in split'
    <3>1. place[u] \in {"retain", "holding"} /\ wanted[u] \in Ids
      BY <1>1, <1>2, <2>4 DEF PoolTypeInv
    <3>2. held[u] = instances[wanted[u]] \/ wanted[u] \in split
      BY <1>1, <3>1 DEF IdInv
    <3>3. held[u] # NoWrapper
      BY <1>1, <3>1 DEF PoolTypeInv, Has
    <3>. QED
      BY <1>2, <1>3, <3>1, <3>2, <3>3
  <2>. QED
    BY <2>1, <2>2, <2>3, <2>4 DEF IdInv
<1>. QED
  BY <1>4, <1>5, <1>6 DEF PoolInv

LEMMA ReleaseStep ==
  ASSUME PoolInv, ~crashed, NEW t \in Threads, Release(t)
  PROVE  PoolInv'
<1>1. PoolTypeInv /\ RetainInv /\ IdInv
  BY DEF PoolInv
<1>2. /\ place[t] = "holding" /\ place' = [place EXCEPT ![t] = "out"]
      /\ retains' = [retains EXCEPT ![held[t]] = @ - 1]
      /\ held' = [held EXCEPT ![t] = NoWrapper]
      /\ wanted' = [wanted EXCEPT ![t] = AnyId]
      /\ UNCHANGED <<instances, created, split>>
  BY DEF Release, Move
<1>3. held[t] \in Wrappers /\ AnyId \in Ids
  BY <1>1, <1>2, IdsAssumption DEF PoolTypeInv, Has, AnyId
<1>4. \A u \in Threads : u # t =>
        /\ place'[u] = place[u] /\ held'[u] = held[u] /\ wanted'[u] = wanted[u]
        /\ Has(u)' = Has(u) /\ Holding(u)' = Holding(u)
  BY <1>1, <1>2 DEF PoolTypeInv, Has, Holding
<1>5. ~Has(t)' /\ ~Holding(t)' /\ Holding(t) /\ place'[t] = "out"
  BY <1>1, <1>2 DEF PoolTypeInv, Has, Holding
<1>6. PoolTypeInv'
  <2>1. /\ held' \in [Threads -> created \cup {NoWrapper}]
        /\ wanted' \in [Threads -> Ids] /\ place' \in [Threads -> PoolPlaces]
        /\ retains' \in [Wrappers -> Int]
    BY <1>1, <1>2, <1>3 DEF PoolTypeInv, PoolPlaces
  <2>. QED
    BY <1>1, <1>2, <1>4, <1>5, <2>1 DEF PoolTypeInv
<1>7. RetainInv'
  <2>. SUFFICES ASSUME NEW w \in Wrappers
                PROVE  retains'[w] = Cardinality(Filed(w)') + Cardinality(InHand(w)')
    BY DEF RetainInv
  <2>1. Filed(w)' = Filed(w)
    BY <1>2 DEF Filed
  <2>2. /\ IsFiniteSet(InHand(w)) /\ Cardinality(InHand(w)) \in Nat
        /\ Cardinality(Filed(w)) \in Nat
    BY OwnersFinite
  <2>3. CASE w = held[t]
    <3>1. InHand(w)' = InHand(w) \ {t} /\ t \in InHand(w)
      BY <1>4, <1>5, <2>3 DEF InHand
    <3>2. Cardinality(InHand(w)') = Cardinality(InHand(w)) - 1
      BY <2>2, <3>1, FS_RemoveElement
    <3>3. retains'[w] = retains[w] - 1
      BY <1>1, <1>2, <2>3 DEF PoolTypeInv
    <3>. QED
      BY <1>1, <2>1, <2>2, <3>2, <3>3 DEF RetainInv
  <2>4. CASE w # held[t]
    <3>1. InHand(w)' = InHand(w)
      BY <1>4, <1>5, <2>4 DEF InHand
    <3>2. retains'[w] = retains[w]
      BY <1>1, <1>2, <2>4 DEF PoolTypeInv
    <3>. QED
      BY <1>1, <2>1, <3>1, <3>2 DEF RetainInv
  <2>. QED
    BY <2>3, <2>4
<1>8. IdInv'
  <2>1. \A u \in Threads : Has(u)' => u # t /\ Has(u)
    BY <1>4, <1>5
  <2>2. \A u \in Threads : place'[u] \in {"retain", "holding"} => u # t
    BY <1>5
  <2>. QED
    BY <1>1, <1>2, <1>4, <2>1, <2>2 DEF IdInv
<1>. QED
  BY <1>6, <1>7, <1>8 DEF PoolInv

LEMMA PoolStep == PoolInv /\ [Next]_vars => PoolInv'
<1>. SUFFICES ASSUME PoolInv, [Next]_vars PROVE PoolInv'
  OBVIOUS
<1>1. CASE UNCHANGED vars
  BY <1>1 DEF vars, poolVars, PoolInv, PoolTypeInv, RetainInv, IdInv, Has, Holding,
       Filed, InHand
<1>2. CASE Next
  <2>1. ~crashed
    BY <1>2 DEF Next
  <2>2. PICK t \in Threads :
          \/ \E id \in Ids : wrapperForId(t, id) \/ disposeWrapperForId(t, id)
          \/ UseWrapper(t)
          \/ Release(t)
          \/ Step(t)
    BY <1>2 DEF Next
  <2>3. CASE \E id \in Ids : wrapperForId(t, id) \/ disposeWrapperForId(t, id)
    BY <2>1, <2>3, LookUpStep, DisposeStep
  <2>4. CASE UseWrapper(t) \/ (Advance(t) /\ UNCHANGED poolVars)
    BY <2>1, <2>4, FrameLeavesPool DEF UseWrapper
  <2>5. CASE Release(t)
    BY <2>1, <2>5, ReleaseStep
  <2>6. CASE RetainFound(t)
    <3>1. CASE crashed'
      <4>1. /\ place[t] = "retain" /\ place' = [place EXCEPT ![t] = "holding"]
            /\ UNCHANGED <<instances, created, wanted, held, split>>
            /\ PoolTypeInv
        BY <2>6 DEF RetainFound, Move, PoolInv
      <4>2. retains' \in [Wrappers -> Int] /\ place' \in [Threads -> PoolPlaces]
        <5>1. held[t] \in Wrappers
          BY <4>1 DEF PoolTypeInv, Has
        <5>. QED
          BY <2>6, <4>1, <5>1 DEF RetainFound, PoolTypeInv, PoolPlaces
      <4>. QED
        BY <3>1, <4>1, <4>2 DEF PoolInv, PoolTypeInv, Has
    <3>2. CASE ~crashed'
      BY <2>1, <2>6, <3>2, RetainStep
    <3>. QED
      BY <3>1, <3>2
  <2>7. CASE CreateWrapper(t)
    BY <2>1, <2>7, CreateStep
  <2>8. CASE BeginInsert(t)
    BY <2>1, <2>8, BeginInsertStep
  <2>9. CASE EndInsert(t)
    BY <2>1, <2>9, EndInsertStep
  <2>. QED
    BY <2>2, <2>3, <2>4, <2>5, <2>6, <2>7, <2>8, <2>9 DEF Step, GetWrapper
<1>. QED
  BY <1>1, <1>2

-----------------------------------------------------------------------------
(* A caller finds what it looked up gone, and ends the program, only if    *)
(* the id it asked for was disposed of or got another wrapper: as long as  *)
(* it was not, the id still maps to what was found and so retains it.      *)
THEOREM FoundIsThere == Spec => []GoneOnlyWhenSplit
<1>1. PoolInv => GoneOnlyWhenSplit
  <2>. SUFFICES ASSUME PoolTypeInv, RetainInv, IdInv, NEW t \in Threads,
                       place[t] = "retain", wanted[t] \notin split
                PROVE  retains[held[t]] # 0
    BY DEF PoolInv, GoneOnlyWhenSplit
  <2>1. held[t] \in Wrappers /\ wanted[t] \in Ids
    BY DEF PoolTypeInv, Has
  <2>2. instances[wanted[t]] = held[t]
    BY DEF IdInv
  <2>3. Filed(held[t]) # {}
    BY <2>1, <2>2 DEF Filed
  <2>4. Cardinality(Filed(held[t])) # 0
    BY <2>3, OwnersFinite, FS_EmptySet
  <2>5. /\ Cardinality(Filed(held[t])) \in Nat /\ Cardinality(InHand(held[t])) \in Nat
        /\ retains[held[t]] = Cardinality(Filed(held[t])) + Cardinality(InHand(held[t]))
    BY <2>1, OwnersFinite DEF RetainInv
  <2>. QED
    BY <2>4, <2>5
<1>. QED
  BY <1>1, PoolInit, PoolStep, PTL DEF Spec

(* Callers of two ids never share a wrapper; callers of one id do, unless  *)
(* its wrapper was disposed of or replaced.                                *)
THEOREM OneWrapperPerId == Spec => []WrapperPerId
<1>1. PoolInv => WrapperPerId
  BY DEF PoolInv, PoolTypeInv, IdInv, WrapperPerId, Has, Holding
<1>. QED
  BY <1>1, PoolInit, PoolStep, PTL DEF Spec

-----------------------------------------------------------------------------
(* The processing methods.                                                  *)
LEMMA TenMilliseconds ==
  /\ NumFrames \in Nat \ {0} /\ samplesPer10ms = NumFrames
  /\ NumSamples \in Nat /\ NumSamples = NumFrames * Channels
<1>1. NumFrames \in Nat \ {0}
  BY SampleRateAssumption DEF NumFrames, GetFrameSize
<1>2. Channels * NumFrames \in Nat /\ Channels * NumFrames = NumFrames * Channels
  BY <1>1, ChannelsAssumption
<1>. QED
  BY <1>1, <1>2 DEF NumSamples, samplesPer10ms, NumFrames, GetFrameSize

LEMMA Division ==
  ASSUME NEW n \in Nat, NEW d \in Nat \ {0}
  PROVE  /\ n \div d \in Nat /\ n % d \in 0..(d - 1)
         /\ n = (n \div d) * d + (n % d)
OBVIOUS

(* A row of d ends before the rows from the next on begin.                 *)
LEMMA Rows ==
  ASSUME NEW a \in Nat, NEW b \in Nat, NEW d \in Nat, a < b
  PROVE  a * d \in Nat /\ b * d \in Nat /\ a * d + d <= b * d
<1>1. (a + 1) * d <= b * d
  OBVIOUS
<1>. QED
  BY <1>1

LEMMA FunctionIsSeq ==
  ASSUME NEW S, NEW n \in Nat, NEW f \in [1..n -> S]
  PROVE  f \in Seq(S) /\ Len(f) = n /\ DOMAIN f = 1..n
BY IsASeq, LenProperties

LEMMA SeqIsFunction ==
  ASSUME NEW S, NEW s \in Seq(S)
  PROVE  /\ Len(s) \in Nat /\ DOMAIN s = 1..Len(s)
         /\ \A k \in 1..Len(s) : s[k] \in S
BY LenProperties, ElementOfSeq

LEMMA OwnIsSample ==
  ASSUME NEW n \in 0..MaxCalls, NEW k \in Nat \ {0}
  PROVE  Own(n, k) \in Samples
<1>1. k - 1 \in Nat /\ Channels \in Nat \ {0}
  BY ChannelsAssumption
<1>2. (k - 1) % Channels \in Nat
  BY <1>1, Division
<1>. QED
  BY <1>1, <1>2 DEF Own, Sample, Samples

LEMMA ResizedIsSeq ==
  ASSUME NEW data \in Seq(Samples), NEW size \in Nat
  PROVE  Resized(data, size) \in Seq(Samples) /\ Len(Resized(data, size)) = size
<1>1. Unprocessed \in Samples
  BY MaxCallsAssumption DEF Unprocessed, Sample, Samples
<1>2. Resized(data, size) \in [1..size -> Samples]
  BY <1>1, SeqIsFunction DEF Resized
<1>. QED
  BY <1>2, FunctionIsSeq

LEMMA WrittenIsSeq ==
  ASSUME NEW data \in Seq(Samples), NEW n \in 0..MaxCalls
  PROVE  Written(data, n) \in Seq(Samples) /\ Len(Written(data, n)) = Len(data)
<1>1. Len(data) \in Nat /\ \A k \in 1..Len(data) : data[k] \in Samples
  BY SeqIsFunction
<1>2. \A k \in 1..Len(data) : Own(n, k) \in Samples
  BY <1>1, OwnIsSample
<1>3. Written(data, n) \in [1..Len(data) -> Samples]
  BY <1>1, <1>2 DEF Written
<1>. QED
  BY <1>1, <1>3, FunctionIsSeq

(* What processAudioFrameFloat: returns for a call of size samples.        *)
Float(n, size) ==
  LET frames == size \div Channels
  IN  Interleave(Processed(Deinterleave(Data(n, size), frames), frames), frames)

(* Interleaving undoes deinterleaving: each sample of the first 10 ms is   *)
(* back at its place, and has been through its own channel.                *)
LEMMA FloatReturnsOwn ==
  ASSUME NEW n \in 0..MaxCalls, NEW size \in Nat
  PROVE  /\ Float(n, size) \in Seq(Samples)
         /\ Len(Float(n, size)) = size - (size % Channels)
         /\ \A k \in DOMAIN Float(n, size) :
              k <= NumSamples => Float(n, size)[k] = Own(n, k)
<1> DEFINE frames == size \div Channels
           planes == Deinterleave(Data(n, size), frames)
           length == frames * Channels
<1>1. Channels \in Nat \ {0} /\ frames \in Nat /\ length \in Nat
      /\ size % Channels \in Nat /\ size = length + (size % Channels)
  <2>1. Channels \in Nat \ {0}
    BY ChannelsAssumption
  <2>2. frames \in Nat /\ size = length + (size % Channels) /\ size % Channels \in Nat
    BY <2>1, Division
  <2>. QED
    BY <2>1, <2>2
<1>2. ASSUME NEW k \in 1..length
      PROVE  /\ (k - 1) \div Channels \in 0..(frames - 1)
             /\ (k - 1) % Channels \in 0..(Channels - 1)
             /\ ((k - 1) \div Channels) * Channels + ((k - 1) % Channels) + 1 = k
             /\ k <= NumSamples => (k - 1) \div Channels < NumFrames
  <2> DEFINE i == (k - 1) \div Channels
  <2>1. /\ i \in Nat /\ (k - 1) % Channels \in 0..(Channels - 1)
        /\ k - 1 = i * Channels + ((k - 1) % Channels)
    <3>1. k - 1 \in Nat
      BY <1>1
    <3>. HIDE DEF length
    <3>. QED
      BY <1>1, <3>1, Division
  <2>2. i < frames
    <3>. SUFFICES ASSUME frames <= i PROVE FALSE
      BY <1>1, <2>1
    <3>1. frames * Channels <= i * Channels
      BY <1>1, <2>1
    <3>. QED
      BY <1>1, <2>1, <3>1
  <2>3. k <= NumSamples => i < NumFrames
    <3>. SUFFICES ASSUME NumFrames <= i PROVE k > NumSamples
      BY <2>1, TenMilliseconds
    <3>1. NumFrames * Channels <= i * Channels
      BY <1>1, <2>1, TenMilliseconds
    <3>. QED
      BY <1>1, <2>1, <3>1, TenMilliseconds
  <2>. QED
    BY <1>1, <2>1, <2>2, <2>3
<1>3. Float(n, size) =
        [k \in 1..length |->
          Processed(planes, frames)[(k - 1) % Channels][(k - 1) \div Channels]]
  BY DEF Float, Interleave
<1>4. ASSUME NEW k \in 1..length
      PROVE  Float(n, size)[k] =
               IF (k - 1) \div Channels < NumFrames THEN Own(n, k) ELSE Unprocessed
  <2> DEFINE i == (k - 1) \div Channels
             c == (k - 1) % Channels
  <2>1. Float(n, size)[k] = Processed(planes, frames)[c][i]
    BY <1>3
  <2>2. Processed(planes, frames)[c][i] =
          IF i < NumFrames THEN [planes[c][i] EXCEPT !.channel = c]
                           ELSE Unprocessed
    BY <1>2 DEF Processed
  <2>3. planes[c][i] = Data(n, size)[k]
    BY <1>2 DEF Deinterleave
  <2>4. Data(n, size)[k] = Sample(n, k - 1, Channels)
    BY <1>1 DEF Data
  <2>5. [Sample(n, k - 1, Channels) EXCEPT !.channel = c] = Own(n, k)
    BY DEF Sample, Own
  <2>. QED
    BY <2>1, <2>2, <2>3, <2>4, <2>5
<1>5. Float(n, size) \in [1..length -> Samples]
  <2>1. Unprocessed \in Samples
    BY MaxCallsAssumption DEF Unprocessed, Sample, Samples
  <2>2. ASSUME NEW k \in 1..length PROVE Float(n, size)[k] \in Samples
    <3>1. Own(n, k) \in Samples
      BY <1>1, OwnIsSample
    <3>. QED
      BY <1>4, <2>1, <3>1
  <2>. QED
    BY <1>3, <2>2
<1>6. Float(n, size) \in Seq(Samples) /\ Len(Float(n, size)) = length
      /\ DOMAIN Float(n, size) = 1..length
  BY <1>1, <1>5, FunctionIsSeq
<1>7. length = size - (size % Channels)
  BY <1>1
<1>. QED
  BY <1>2, <1>4, <1>6, <1>7

-----------------------------------------------------------------------------
(* A step of thread t in a processing method of wrapper w.                 *)
FrameStep(t, w) == Process(t, w) \/ Advance(t)

LEMMA FrameTypeInit == FrameInit => FrameTypeOK
<1>. SUFFICES ASSUME FrameInit PROVE FrameTypeOK
  OBVIOUS
<1>1. NoCall \in [number : 0..MaxCalls, method : Methods, wrapper : Wrappers,
                  size : Sizes \cup {0}]
  BY WrappersAssumption, MaxCallsAssumption DEF NoCall, Methods
<1>2. <<>> \in Seq(Samples) /\ <<>> \in Seq(Nat)
  BY EmptySeq
<1>3. buffer \in [Wrappers -> Seq(Samples)] /\ out \in [Threads -> Seq(Samples)]
      /\ passes \in [Threads -> Seq(Nat)] /\ offset \in [Threads -> Nat]
  BY <1>2 DEF FrameInit
<1>4. call \in [Threads -> [number : 0..MaxCalls, method : Methods,
                          wrapper : Wrappers, size : Sizes \cup {0}]]
  BY <1>1 DEF FrameInit
<1>5. /\ pc \in [Threads -> Places] /\ overlapped \subseteq Threads
      /\ calls \in 0..MaxCalls
  BY MaxCallsAssumption DEF FrameInit, Places
<1>6. crashed \in BOOLEAN
  BY DEF FrameInit
<1>. QED
  BY <1>3, <1>4, <1>5, <1>6 DEF FrameTypeOK

LEMMA SizeIsNat == \A size \in Sizes \cup {0} : size \in Nat
BY SizesAssumption

LEMMA EnterType ==
  ASSUME FrameTypeOK, NEW t \in Threads, NEW w \in Wrappers, NEW m \in Methods,
         NEW size \in Sizes \cup {0}, Enter(t, m, w, size)
  PROVE  /\ calls' \in 0..MaxCalls /\ calls + 1 \in 0..MaxCalls
         /\ call' \in [Threads -> [number : 0..MaxCalls, method : Methods,
                                   wrapper : Wrappers, size : Sizes \cup {0}]]
         /\ call'[t] = [number |-> calls + 1, method |-> m, wrapper |-> w,
                        size |-> size]
         /\ pc[t] = "idle"
         /\ \A u \in Threads \ {t} : call'[u] = call[u]
<1>1. calls + 1 \in 0..MaxCalls
  BY MaxCallsAssumption DEF FrameTypeOK, Enter
<1>. QED
  BY <1>1 DEF FrameTypeOK, Enter, At

LEMMA CrashType ==
  ASSUME FrameTypeOK, NEW astray, MayCrash(astray)
  PROVE  crashed' \in BOOLEAN
<1>1. CASE astray
  BY <1>1 DEF MayCrash
<1>2. CASE ~astray
  BY <1>2 DEF MayCrash, FrameTypeOK
<1>. QED
  BY <1>1, <1>2

LEMMA GotoType ==
  ASSUME FrameTypeOK, NEW t \in Threads, NEW l \in Places, Goto(t, l)
  PROVE  /\ pc' \in [Threads -> Places] /\ pc'[t] = l
         /\ \A u \in Threads \ {t} : pc'[u] = pc[u]
BY DEF FrameTypeOK, Goto

LEMMA FrameTypeStep ==
  ASSUME FrameTypeOK, NEW t \in Threads, NEW w \in Wrappers, FrameStep(t, w)
  PROVE  FrameTypeOK'
<1>0. "frame" \in Methods /\ "float" \in Methods /\ "buffer" \in Methods
      /\ "buffer10ms" \in Methods
      /\ "idle" \in Places /\ "process" \in Places /\ "copy" \in Places
      /\ "blocks" \in Places /\ "returned" \in Places
  BY DEF Methods, Places
<1>1. ASSUME NEW m \in {"frame", "float"}, refuseEmpty(t, m, w)
      PROVE  FrameTypeOK'
  BY <1>0, <1>1, EnterType, GotoType DEF refuseEmpty, FrameTypeOK
<1>2. ASSUME NEW size \in Sizes, processAudioFrame(t, w, size)
      PROVE  FrameTypeOK'
  <2>1. buffer' \in [Wrappers -> Seq(Samples)]
    BY <1>2, SizesAssumption, ResizedIsSeq DEF processAudioFrame, FrameTypeOK
  <2>2. overlapped' \subseteq Threads
    BY <1>2 DEF processAudioFrame, FrameTypeOK, Inside
  <2>. QED
    BY <1>0, <1>2, <2>1, <2>2, EnterType, GotoType DEF processAudioFrame, FrameTypeOK
<1>3. ASSUME NEW size \in Sizes, processAudioFrameFloat(t, w, size)
      PROVE  FrameTypeOK'
  <2>1. Enter(t, "float", w, size) /\ Goto(t, "returned")
        /\ out' \in {out, [out EXCEPT ![t] = Float(calls + 1, size)]}
        /\ MayCrash(size \div Channels < NumFrames)
        /\ UNCHANGED <<buffer, passes, offset, overlapped>>
    BY <1>3 DEF processAudioFrameFloat, Float
  <2>2. calls + 1 \in 0..MaxCalls /\ size \in Nat
    BY <1>0, <2>1, EnterType, SizesAssumption
  <2>3. out' \in [Threads -> Seq(Samples)]
    <3>1. Float(calls + 1, size) \in Seq(Samples)
      BY <2>2, FloatReturnsOwn
    <3>. QED
      BY <2>1, <3>1 DEF FrameTypeOK
  <2>4. crashed' \in BOOLEAN
    BY <2>1, CrashType
  <2>. QED
    BY <1>0, <2>1, <2>3, <2>4, EnterType, GotoType DEF FrameTypeOK
<1>4. ASSUME NEW size \in Sizes, processBuffer10ms(t, w, size)
      PROVE  FrameTypeOK'
  <2>1. [k \in 1..size |-> IF k <= NumFrames THEN 1 ELSE 0] \in Seq(Nat)
    BY SizesAssumption, FunctionIsSeq
  <2>2. passes' \in [Threads -> Seq(Nat)]
    BY <1>4, <2>1 DEF processBuffer10ms, FrameTypeOK
  <2>3. crashed' \in BOOLEAN
    BY <1>4, CrashType DEF processBuffer10ms
  <2>. QED
    BY <1>0, <1>4, <2>2, <2>3, EnterType, GotoType DEF processBuffer10ms, FrameTypeOK
<1>5. ASSUME NEW size \in Sizes, processBuffer(t, w, size)
      PROVE  FrameTypeOK'
  <2>1. [k \in 1..size |-> 0] \in Seq(Nat)
    BY SizesAssumption, FunctionIsSeq
  <2>2. passes' \in [Threads -> Seq(Nat)] /\ offset' \in [Threads -> Nat]
    BY <1>5, <2>1 DEF processBuffer, FrameTypeOK
  <2>. QED
    BY <1>0, <1>5, <2>2, EnterType, GotoType DEF processBuffer, FrameTypeOK
<1>6. CASE ProcessStream(t)
  <2>1. call[t].wrapper \in Wrappers /\ call[t].number \in 0..MaxCalls
    BY DEF FrameTypeOK
  <2>2. Written(buffer[call[t].wrapper], call[t].number) \in Seq(Samples)
    BY <2>1, WrittenIsSeq DEF FrameTypeOK
  <2>3. buffer' \in [Wrappers -> Seq(Samples)]
    BY <1>6, <2>1, <2>2 DEF ProcessStream, FrameTypeOK
  <2>4. crashed' \in BOOLEAN
    BY <1>6, CrashType DEF ProcessStream
  <2>. QED
    BY <1>0, <1>6, <2>3, <2>4, GotoType DEF ProcessStream, FrameTypeOK
<1>7. CASE ProcessStreamFails(t)
  BY <1>0, <1>7, GotoType DEF ProcessStreamFails, FrameTypeOK
<1>8. CASE CopyOut(t)
  <2>1. out' \in [Threads -> Seq(Samples)]
    BY <1>8 DEF CopyOut, FrameTypeOK
  <2>. QED
    BY <1>0, <1>8, <2>1, GotoType DEF CopyOut, FrameTypeOK
<1>9. CASE ProcessBlock(t)
  <2>1. CASE offset[t] + samplesPer10ms <= call[t].size
    <3>1. passes' \in [Threads -> Seq(Nat)]
      <4>1. passes[t] \in Seq(Nat)
        BY DEF FrameTypeOK
      <4>2. Len(passes[t]) \in Nat /\ DOMAIN passes[t] = 1..Len(passes[t])
            /\ \A k \in 1..Len(passes[t]) : passes[t][k] \in Nat
        BY <4>1, SeqIsFunction
      <4>3. [k \in DOMAIN passes[t] |->
              IF k > offset[t] /\ k <= offset[t] + NumFrames
                THEN passes[t][k] + 1 ELSE passes[t][k]]
              \in [1..Len(passes[t]) -> Nat]
        BY <4>2
      <4>4. [k \in DOMAIN passes[t] |->
              IF k > offset[t] /\ k <= offset[t] + NumFrames
                THEN passes[t][k] + 1 ELSE passes[t][k]] \in Seq(Nat)
        BY <4>2, <4>3, FunctionIsSeq
      <4>. QED
        BY <1>9, <2>1, <4>4 DEF ProcessBlock, GivenBlock, FrameTypeOK
    <3>2. offset' \in [Threads -> Nat]
      <4>1. offset[t] + samplesPer10ms \in Nat
        BY TenMilliseconds DEF FrameTypeOK
      <4>2. offset' = [offset EXCEPT ![t] = offset[t] + samplesPer10ms]
        BY <1>9, <2>1 DEF ProcessBlock
      <4>. QED
        BY <4>1, <4>2 DEF FrameTypeOK
    <3>. QED
      BY <1>9, <2>1, <3>1, <3>2 DEF ProcessBlock, FrameTypeOK
  <2>2. CASE ~(offset[t] + samplesPer10ms <= call[t].size)
    BY <1>0, <1>9, <2>2, GotoType DEF ProcessBlock, FrameTypeOK
  <2>. QED
    BY <2>1, <2>2
<1>10. CASE Return(t)
  <2>1. NoCall \in [number : 0..MaxCalls, method : Methods, wrapper : Wrappers,
                    size : Sizes \cup {0}]
    BY WrappersAssumption, MaxCallsAssumption DEF NoCall, Methods
  <2>2. <<>> \in Seq(Samples) /\ <<>> \in Seq(Nat)
    BY EmptySeq
  <2>3. /\ call' \in [Threads -> [number : 0..MaxCalls, method : Methods,
                                  wrapper : Wrappers, size : Sizes \cup {0}]]
        /\ out' \in [Threads -> Seq(Samples)] /\ passes' \in [Threads -> Seq(Nat)]
        /\ offset' \in [Threads -> Nat] /\ overlapped' \subseteq Threads
    BY <1>10, <2>1, <2>2 DEF Return, FrameTypeOK
  <2>. QED
    BY <1>0, <1>10, <2>3, GotoType DEF Return, FrameTypeOK
<1>. QED
  BY <1>1, <1>2, <1>3, <1>4, <1>5, <1>6, <1>7, <1>8, <1>9, <1>10
  DEF FrameStep, Process, Advance


(* A step of one thread leaves the others' calls alone.                    *)
LEMMA OthersUnchanged ==
  ASSUME FrameTypeOK, NEW t \in Threads, NEW w \in Wrappers, FrameStep(t, w),
         NEW u \in Threads \ {t}
  PROVE  /\ pc'[u] = pc[u] /\ call'[u] = call[u] /\ out'[u] = out[u]
         /\ passes'[u] = passes[u] /\ offset'[u] = offset[u]
         /\ u \in overlapped => u \in overlapped'
<1>0. /\ pc \in [Threads -> Places] /\ DOMAIN call = Threads
      /\ DOMAIN out = Threads /\ DOMAIN passes = Threads /\ DOMAIN offset = Threads
  BY DEF FrameTypeOK
<1>1. ASSUME NEW m \in {"frame", "float"}, refuseEmpty(t, m, w)
      PROVE  /\ pc'[u] = pc[u] /\ call'[u] = call[u] /\ out'[u] = out[u]
             /\ passes'[u] = passes[u] /\ offset'[u] = offset[u]
             /\ u \in overlapped => u \in overlapped'
  BY <1>0, <1>1 DEF refuseEmpty, Enter, Goto
<1>2. ASSUME NEW size \in Sizes,
             \/ processAudioFrame(t, w, size) \/ processAudioFrameFloat(t, w, size)
             \/ processBuffer10ms(t, w, size) \/ processBuffer(t, w, size)
      PROVE  /\ pc'[u] = pc[u] /\ call'[u] = call[u] /\ out'[u] = out[u]
             /\ passes'[u] = passes[u] /\ offset'[u] = offset[u]
             /\ u \in overlapped => u \in overlapped'
  BY <1>0, <1>2 DEF processAudioFrame, processAudioFrameFloat, processBuffer10ms,
                    processBuffer, Enter, Goto
<1>3. CASE ProcessStream(t) \/ ProcessStreamFails(t) \/ CopyOut(t) \/ Return(t)
  BY <1>0, <1>3 DEF ProcessStream, ProcessStreamFails, CopyOut, Return, Goto
<1>4. CASE ProcessBlock(t)
  BY <1>0, <1>4 DEF ProcessBlock, GivenBlock, Goto
<1>. QED
  BY <1>1, <1>2, <1>3, <1>4 DEF FrameStep, Process, Advance

-----------------------------------------------------------------------------
Working(t) == pc[t] \in {"process", "copy"}

(* The APM got the first n frames of the call's buffer once, and no other. *)
GivenUpTo(t, n) ==
  /\ DOMAIN passes[t] = 1..call[t].size
  /\ \A k \in 1..call[t].size : passes[t][k] = IF k <= n THEN 1 ELSE 0

BlocksOf(t) ==
  /\ Working(t) => call[t].method = "frame"
  /\ At(t, "blocks") =>
       /\ call[t].method = "buffer"
       /\ GivenUpTo(t, offset[t])
       /\ offset[t] <= call[t].size
       /\ \E q \in Nat : offset[t] = q * NumFrames
  /\ At(t, "returned") /\ call[t].method = "buffer" =>
       GivenUpTo(t, call[t].size - (call[t].size % NumFrames))

BlocksInv == \A t \in Threads : BlocksOf(t)

(* Where a loop over whole blocks stops.                                   *)
LEMMA WholeBlocks ==
  ASSUME NEW d \in Nat \ {0}, NEW q \in Nat, NEW size \in Nat,
         q * d <= size, size < q * d + d
  PROVE  q * d = size - (size % d)
<1>1. /\ size \div d \in Nat /\ size % d \in 0..(d - 1)
      /\ size = (size \div d) * d + (size % d)
  BY Division
<1>2. ~(q < size \div d)
  <2>. SUFFICES ASSUME q < size \div d PROVE FALSE
    OBVIOUS
  <2>1. q * d + d <= (size \div d) * d /\ (size \div d) * d \in Nat /\ q * d \in Nat
    BY <1>1, Rows
  <2>. QED
    BY <1>1, <2>1
<1>3. ~(size \div d < q)
  <2>. SUFFICES ASSUME size \div d < q PROVE FALSE
    OBVIOUS
  <2>1. (size \div d) * d + d <= q * d /\ (size \div d) * d \in Nat /\ q * d \in Nat
    BY <1>1, Rows
  <2>. QED
    BY <1>1, <2>1
<1>4. q = size \div d
  BY <1>1, <1>2, <1>3
<1>. QED
  BY <1>1, <1>4

LEMMA BlocksStep ==
  ASSUME FrameTypeOK, BlocksInv, NEW t \in Threads, NEW w \in Wrappers,
         FrameStep(t, w)
  PROVE  BlocksInv'
<1>0. "frame" \in Methods /\ "float" \in Methods /\ "buffer" \in Methods
      /\ "buffer10ms" \in Methods
      /\ "idle" \in Places /\ "process" \in Places /\ "blocks" \in Places
      /\ "returned" \in Places
  BY DEF Methods, Places
<1>1. ASSUME NEW u \in Threads \ {t} PROVE BlocksOf(u)'
  <2>1. BlocksOf(u)
    BY DEF BlocksInv
  <2>. QED
    BY <2>1, OthersUnchanged DEF BlocksOf, GivenUpTo, Working, At
<1>2. BlocksOf(t)
  BY DEF BlocksInv
<1>3. ASSUME NEW m \in {"frame", "float"}, refuseEmpty(t, m, w)
      PROVE  BlocksOf(t)'
  <2>1. /\ Enter(t, m, w, 0) /\ m \in Methods /\ Goto(t, "returned")
    BY <1>3 DEF refuseEmpty, Methods
  <2>2. call'[t].method = m
    <3>1. call'[t] = [number |-> calls + 1, method |-> m, wrapper |-> w, size |-> 0]
      BY <2>1, EnterType
    <3>. QED
      BY <3>1
  <2>3. pc'[t] = "returned"
    BY <1>0, <2>1, GotoType
  <2>. QED
    BY <2>2, <2>3 DEF BlocksOf, GivenUpTo, Working, At
<1>4. ASSUME NEW size \in Sizes, processAudioFrame(t, w, size)
      PROVE  BlocksOf(t)'
  <2>1. call'[t] = [number |-> calls + 1, method |-> "frame", wrapper |-> w,
                    size |-> size]
    BY <1>0, <1>4, EnterType DEF processAudioFrame
  <2>2. pc'[t] = "process"
    BY <1>0, <1>4, GotoType DEF processAudioFrame
  <2>. QED
    BY <2>1, <2>2 DEF BlocksOf, GivenUpTo, Working, At
<1>5. ASSUME NEW size \in Sizes,
             processAudioFrameFloat(t, w, size) \/ processBuffer10ms(t, w, size)
      PROVE  BlocksOf(t)'
  <2>1. PICK m \in {"float", "buffer10ms"} :
          call'[t] = [number |-> calls + 1, method |-> m, wrapper |-> w,
                      size |-> size]
    BY <1>0, <1>5, EnterType DEF processAudioFrameFloat, processBuffer10ms
  <2>2. pc'[t] = "returned"
    BY <1>0, <1>5, GotoType DEF processAudioFrameFloat, processBuffer10ms
  <2>. QED
    BY <2>1, <2>2 DEF BlocksOf, GivenUpTo, Working, At
<1>6. ASSUME NEW size \in Sizes, processBuffer(t, w, size)
      PROVE  BlocksOf(t)'
  <2>0. call'[t] = [number |-> calls + 1, method |-> "buffer", wrapper |-> w,
                    size |-> size]
    BY <1>0, <1>6, EnterType DEF processBuffer
  <2>1. /\ call'[t].method = "buffer" /\ call'[t].size = size
        /\ pc'[t] = "blocks" /\ size \in Nat
    BY <1>0, <1>6, <2>0, GotoType, SizesAssumption DEF processBuffer
  <2>2. passes'[t] = [k \in 1..size |-> 0] /\ offset'[t] = 0
    BY <1>6 DEF processBuffer, FrameTypeOK
  <2>3. GivenUpTo(t, offset[t])'
    BY <2>1, <2>2 DEF GivenUpTo
  <2>4. 0 = 0 * NumFrames
    BY TenMilliseconds
  <2>. QED
    BY <2>1, <2>2, <2>3, <2>4 DEF BlocksOf, GivenUpTo, Working, At
<1>7. ASSUME ProcessStream(t) \/ ProcessStreamFails(t) \/ CopyOut(t) PROVE BlocksOf(t)'
  <2>1. /\ Working(t) /\ call'[t] = call[t]
        /\ pc'[t] \in {"copy", "returned"}
    BY <1>7, GotoType
    DEF ProcessStream, ProcessStreamFails, CopyOut, Working, At, Places
  <2>. QED
    BY <1>2, <2>1 DEF BlocksOf, GivenUpTo, Working, At
<1>8. ASSUME ProcessBlock(t) PROVE BlocksOf(t)'
  <2>1. /\ At(t, "blocks") /\ call' = call /\ offset[t] \in Nat
        /\ call[t].size \in Nat
    <3>1. call[t].size \in Sizes \cup {0} /\ offset[t] \in Nat
      BY DEF FrameTypeOK
    <3>2. At(t, "blocks") /\ call' = call
      BY <1>8 DEF ProcessBlock
    <3>3. call[t].size \in Nat
      BY <3>1, SizeIsNat
    <3>. QED
      BY <3>1, <3>2, <3>3
  <2>2. PICK q \in Nat : offset[t] = q * NumFrames
    BY <1>2, <2>1 DEF BlocksOf
  <2>3. CASE offset[t] + samplesPer10ms <= call[t].size
    <3>1. /\ GivenBlock(t) /\ pc' = pc
          /\ offset'[t] = offset[t] + NumFrames
      BY <1>8, <2>3, TenMilliseconds DEF ProcessBlock, FrameTypeOK
    <3>2. DOMAIN passes[t] = 1..call[t].size
          /\ \A k \in 1..call[t].size : passes[t][k] = IF k <= offset[t] THEN 1 ELSE 0
      BY <1>2, <2>1 DEF BlocksOf, GivenUpTo
    <3>3. passes'[t] =
            [k \in 1..call[t].size |->
              IF k > offset[t] /\ k <= offset[t] + NumFrames
                THEN passes[t][k] + 1 ELSE passes[t][k]]
      BY <3>1, <3>2 DEF GivenBlock, FrameTypeOK
    <3>4. GivenUpTo(t, offset[t])'
      <4>1. ASSUME NEW k \in 1..call[t].size
            PROVE  passes'[t][k] = IF k <= offset[t] + NumFrames THEN 1 ELSE 0
        BY <2>1, <3>2, <3>3, TenMilliseconds
      <4>. QED
        BY <2>1, <3>1, <3>3, <4>1 DEF GivenUpTo
    <3>5. offset'[t] <= call[t].size
      BY <2>3, <3>1, TenMilliseconds
    <3>6. offset'[t] = (q + 1) * NumFrames /\ q + 1 \in Nat
      BY <2>2, <3>1, TenMilliseconds
    <3>. QED
      BY <1>2, <2>1, <3>1, <3>4, <3>5, <3>6 DEF BlocksOf, GivenUpTo, Working, At
  <2>4. CASE ~(offset[t] + samplesPer10ms <= call[t].size)
    <3>1. pc'[t] = "returned" /\ passes' = passes
      BY <1>8, <2>4, GotoType DEF ProcessBlock, Places
    <3>2. offset[t] = call[t].size - (call[t].size % NumFrames)
      <4>1. offset[t] <= call[t].size /\ call[t].size < offset[t] + NumFrames
        BY <1>2, <2>1, <2>4, TenMilliseconds DEF BlocksOf
      <4>. QED
        BY <2>1, <2>2, <4>1, WholeBlocks, TenMilliseconds
    <3>3. GivenUpTo(t, offset[t])
      BY <1>2, <2>1 DEF BlocksOf
    <3>4. GivenUpTo(t, call[t].size - (call[t].size % NumFrames))'
      BY <2>1, <3>1, <3>2, <3>3 DEF GivenUpTo
    <3>. QED
      BY <3>1, <3>4 DEF BlocksOf, GivenUpTo, Working, At
  <2>. QED
    BY <2>3, <2>4
<1>9. ASSUME Return(t) PROVE BlocksOf(t)'
  <2>1. pc'[t] = "idle"
    BY <1>9, GotoType DEF Return, Places
  <2>. QED
    BY <2>1 DEF BlocksOf, GivenUpTo, Working, At
<1>10. BlocksOf(t)'
  BY <1>3, <1>4, <1>5, <1>6, <1>7, <1>8, <1>9 DEF FrameStep, Process, Advance
<1>. QED
  BY <1>1, <1>10 DEF BlocksInv


-----------------------------------------------------------------------------
(* The samples of data that the APM was given are those of call m.         *)
OwnUpTo(data, m) == \A k \in DOMAIN data : k <= NumSamples => data[k] = Own(m, k)

(* What thread t relies on in the buffer it shares, unless it was          *)
(* overlapped; and what it has to return.                                  *)
FrameOf(t) ==
  /\ Working(t) => call[t].method = "frame"
  /\ Working(t) /\ t \notin overlapped =>
       Len(buffer[call[t].wrapper]) = call[t].size
  /\ At(t, "copy") /\ t \notin overlapped =>
       OwnUpTo(buffer[call[t].wrapper], call[t].number)
  /\ ~At(t, "returned") => out[t] = <<>>
  /\ At(t, "returned") /\ out[t] # <<>> /\ t \notin overlapped =>
       /\ OwnUpTo(out[t], call[t].number)
       /\ Len(out[t]) = IF call[t].method = "float"
                          THEN call[t].size - (call[t].size % Channels)
                          ELSE call[t].size

(* Two threads that work in one buffer both know themselves overlapped.    *)
ApartInv ==
  \A t, u \in Threads :
    t # u /\ Working(t) /\ Working(u) /\ call[t].wrapper = call[u].wrapper =>
      t \in overlapped

SharedInv == ApartInv /\ \A t \in Threads : FrameOf(t)

LEMMA ApartStep ==
  ASSUME FrameTypeOK, ApartInv, NEW t \in Threads, NEW w \in Wrappers,
         FrameStep(t, w)
  PROVE  ApartInv'
<1>. SUFFICES ASSUME NEW a \in Threads, NEW b \in Threads, a # b,
                     Working(a)', Working(b)', call'[a].wrapper = call'[b].wrapper
              PROVE  a \in overlapped'
  BY DEF ApartInv
<1>0. /\ "process" \in Places /\ "copy" \in Places /\ "returned" \in Places
      /\ "idle" \in Places /\ "blocks" \in Places /\ "frame" \in Methods
  BY DEF Places, Methods
<1>1. CASE \E size \in Sizes : processAudioFrame(t, w, size)
  <2>1. PICK size \in Sizes : processAudioFrame(t, w, size)
    BY <1>1
  <2>2. call'[t] = [number |-> calls + 1, method |-> "frame", wrapper |-> w,
                    size |-> size]
    BY <1>0, <2>1, EnterType DEF processAudioFrame
  <2>3. overlapped' =
          overlapped \cup (IF Inside(w, t) # {} THEN Inside(w, t) \cup {t} ELSE {})
    BY <2>1 DEF processAudioFrame
  <2>4. ASSUME NEW u \in Threads \ {t}, Working(u)', call'[u].wrapper = w
        PROVE  u \in overlapped' /\ t \in overlapped'
    <3>1. Working(u) /\ call[u].wrapper = w
      BY <2>4, OthersUnchanged DEF Working
    <3>2. u \in Inside(w, t)
      BY <3>1 DEF Inside, Working
    <3>. QED
      BY <2>3, <3>2
  <2>5. call'[t].wrapper = w
    BY <2>2
  <2>6. CASE a = t
    BY <2>4, <2>5, <2>6
  <2>7. CASE b = t
    BY <2>4, <2>5, <2>7
  <2>8. CASE a # t /\ b # t
    <3>1. Working(a) /\ Working(b) /\ call[a].wrapper = call[b].wrapper
      BY <2>8, OthersUnchanged DEF Working
    <3>2. a \in overlapped
      BY <3>1 DEF ApartInv
    <3>. QED
      BY <2>3, <3>2
  <2>. QED
    BY <2>6, <2>7, <2>8
<1>2. CASE \A size \in Sizes : ~processAudioFrame(t, w, size)
  <2>1. /\ Working(t)' => Working(t) /\ call'[t] = call[t]
        /\ t \in overlapped /\ Working(t)' => t \in overlapped'
    <3>1. CASE ProcessStream(t)
      BY <3>1, <1>0, GotoType DEF ProcessStream, Working, At
    <3>2. CASE ProcessStreamFails(t) \/ CopyOut(t) \/ Return(t)
      <4>1. pc'[t] \in {"returned", "idle"}
        BY <3>2, <1>0, GotoType DEF ProcessStreamFails, CopyOut, Return
      <4>. QED
        BY <4>1 DEF Working
    <3>3. CASE ProcessBlock(t)
      <4>1. pc'[t] \in {"returned", "blocks"}
        BY <3>3, <1>0, GotoType DEF ProcessBlock, At
      <4>. QED
        BY <4>1 DEF Working
    <3>4. CASE Process(t, w)
      <4>1. pc'[t] \in {"returned", "blocks"}
        BY <1>2, <3>4, <1>0, GotoType
        DEF Process, refuseEmpty, processAudioFrameFloat, processBuffer10ms,
            processBuffer
      <4>. QED
        BY <4>1 DEF Working
    <3>. QED
      BY <3>1, <3>2, <3>3, <3>4 DEF FrameStep, Advance
  <2>2. ASSUME NEW u \in Threads, Working(u)'
        PROVE  /\ Working(u) /\ call'[u] = call[u]
               /\ u \in overlapped => u \in overlapped'
    BY <2>1, <2>2, OthersUnchanged DEF Working
  <2>3. Working(a) /\ Working(b) /\ call[a].wrapper = call[b].wrapper
        /\ (a \in overlapped => a \in overlapped')
    BY <2>2
  <2>. QED
    BY <2>3 DEF ApartInv
<1>. QED
  BY <1>1, <1>2


(* A step of one thread leaves the buffer of another alone, or overlaps it.*)
LEMMA OthersBuffer ==
  ASSUME FrameTypeOK, ApartInv, NEW t \in Threads, NEW w \in Wrappers,
         FrameStep(t, w), NEW u \in Threads \ {t}, Working(u), u \notin overlapped'
  PROVE  buffer'[call[u].wrapper] = buffer[call[u].wrapper]
<1>0. call[u].wrapper \in Wrappers /\ u \notin overlapped
      /\ DOMAIN buffer = Wrappers
  BY OthersUnchanged DEF FrameTypeOK
<1>1. ASSUME NEW size \in Sizes, processAudioFrame(t, w, size)
      PROVE  buffer'[call[u].wrapper] = buffer[call[u].wrapper]
  <2>1. call[u].wrapper # w
    <3>. SUFFICES ASSUME call[u].wrapper = w PROVE FALSE
      OBVIOUS
    <3>1. u \in Inside(w, t)
      BY DEF Inside, Working
    <3>. QED
      BY <1>1, <3>1 DEF processAudioFrame
  <2>. QED
    BY <1>0, <1>1, <2>1 DEF processAudioFrame
<1>2. CASE ProcessStream(t)
  <2>1. Working(t)
    BY <1>2 DEF ProcessStream, Working, At
  <2>2. call[u].wrapper # call[t].wrapper
    BY <1>0, <2>1 DEF ApartInv
  <2>. QED
    BY <1>0, <1>2, <2>2 DEF ProcessStream
<1>3. CASE UNCHANGED buffer
  BY <1>3
<1>. QED
  BY <1>1, <1>2, <1>3
  DEF FrameStep, Process, Advance, refuseEmpty, processAudioFrameFloat,
      processBuffer10ms, processBuffer, ProcessStreamFails, CopyOut, ProcessBlock,
      Return

LEMMA FrameOfOthers ==
  ASSUME FrameTypeOK, SharedInv, NEW t \in Threads, NEW w \in Wrappers,
         FrameStep(t, w), NEW u \in Threads \ {t}
  PROVE  FrameOf(u)'
<1>1. FrameOf(u) /\ ApartInv
  BY DEF SharedInv
<1>2. /\ pc'[u] = pc[u] /\ call'[u] = call[u] /\ out'[u] = out[u]
      /\ u \in overlapped => u \in overlapped'
  BY OthersUnchanged
<1>3. Working(u) /\ u \notin overlapped' =>
        buffer'[call[u].wrapper] = buffer[call[u].wrapper]
  BY <1>1, OthersBuffer
<1>. QED
  BY <1>1, <1>2, <1>3 DEF FrameOf, OwnUpTo, Working, At

LEMMA FrameOfEntered ==
  ASSUME FrameTypeOK, SharedInv, NEW t \in Threads, NEW w \in Wrappers,
         Process(t, w)
  PROVE  FrameOf(t)'
<1>0. /\ "process" \in Places /\ "returned" \in Places /\ "blocks" \in Places
      /\ "frame" \in Methods /\ "float" \in Methods /\ "buffer" \in Methods
      /\ "buffer10ms" \in Methods
  BY DEF Places, Methods
<1>1. pc[t] = "idle" => out[t] = <<>>
  BY DEF SharedInv, FrameOf, At
<1>2. ASSUME NEW m \in {"frame", "float"}, refuseEmpty(t, m, w)
      PROVE  FrameOf(t)'
  <2>1. pc'[t] = "returned"
    BY <1>0, <1>2, GotoType DEF refuseEmpty
  <2>2. out'[t] = <<>>
    BY <1>1, <1>2 DEF refuseEmpty, Enter, At
  <2>. QED
    BY <2>1, <2>2 DEF FrameOf, Working, At
<1>3. ASSUME NEW size \in Sizes, processAudioFrame(t, w, size)
      PROVE  FrameOf(t)'
  <2>1. call'[t] = [number |-> calls + 1, method |-> "frame", wrapper |-> w,
                    size |-> size]
    BY <1>0, <1>3, EnterType DEF processAudioFrame
  <2>2. pc'[t] = "process"
    BY <1>0, <1>3, GotoType DEF processAudioFrame
  <2>3. out'[t] = <<>>
    BY <1>1, <1>3 DEF processAudioFrame, Enter, At
  <2>4. buffer'[w] = Resized(buffer[w], size)
    BY <1>3 DEF processAudioFrame, FrameTypeOK
  <2>5. Len(buffer'[w]) = size
    <3>1. size \in Nat /\ buffer[w] \in Seq(Samples)
      BY SizesAssumption DEF FrameTypeOK
    <3>. QED
      BY <2>4, <3>1, ResizedIsSeq
  <2>. QED
    BY <2>1, <2>2, <2>3, <2>5 DEF FrameOf, Working, At
<1>4. ASSUME NEW size \in Sizes, processAudioFrameFloat(t, w, size)
      PROVE  FrameOf(t)'
  <2>1. call'[t] = [number |-> calls + 1, method |-> "float", wrapper |-> w,
                    size |-> size]
    BY <1>0, <1>4, EnterType DEF processAudioFrameFloat
  <2>2. pc'[t] = "returned"
    BY <1>0, <1>4, GotoType DEF processAudioFrameFloat
  <2>3. calls + 1 \in 0..MaxCalls /\ size \in Nat
    <3>1. Enter(t, "float", w, size)
      BY <1>4 DEF processAudioFrameFloat
    <3>. QED
      BY <1>0, <3>1, EnterType, SizesAssumption
  <2>4. out[t] = <<>>
    BY <1>1, <1>4 DEF processAudioFrameFloat, Enter, At
  <2>5. out' \in {out, [out EXCEPT ![t] = Float(calls + 1, size)]}
    BY <1>4 DEF processAudioFrameFloat, Float
  <2>6. CASE out' = out
    BY <2>2, <2>4, <2>6 DEF FrameOf, Working, At
  <2>7. CASE out' = [out EXCEPT ![t] = Float(calls + 1, size)]
    <3>1. out'[t] = Float(calls + 1, size)
      BY <2>7 DEF FrameTypeOK
    <3>2. /\ Len(Float(calls + 1, size)) = size - (size % Channels)
          /\ \A k \in DOMAIN Float(calls + 1, size) :
               k <= NumSamples => Float(calls + 1, size)[k] = Own(calls + 1, k)
      BY <2>3, FloatReturnsOwn
    <3>3. call'[t].number = calls + 1 /\ call'[t].method = "float"
          /\ call'[t].size = size
      BY <2>1
    <3>4. \A k \in DOMAIN out'[t] :
            k <= NumSamples => out'[t][k] = Own(call'[t].number, k)
      BY <3>1, <3>2, <3>3
    <3>5. Len(out'[t]) = call'[t].size - (call'[t].size % Channels)
      BY <3>1, <3>2, <3>3
    <3>. QED
      BY <2>2, <3>3, <3>4, <3>5 DEF FrameOf, OwnUpTo, Working, At
  <2>. QED
    BY <2>5, <2>6, <2>7
<1>5. ASSUME NEW size \in Sizes,
             processBuffer10ms(t, w, size) \/ processBuffer(t, w, size)
      PROVE  FrameOf(t)'
  <2>1. pc'[t] \in {"returned", "blocks"}
    BY <1>0, <1>5, GotoType DEF processBuffer10ms, processBuffer
  <2>2. out'[t] = <<>>
    BY <1>1, <1>5 DEF processBuffer10ms, processBuffer, Enter, At
  <2>. QED
    BY <2>1, <2>2 DEF FrameOf, Working, At
<1>. QED
  BY <1>2, <1>3, <1>4, <1>5 DEF Process

LEMMA FrameOfAdvanced ==
  ASSUME FrameTypeOK, SharedInv, NEW t \in Threads, Advance(t)
  PROVE  FrameOf(t)'
<1>0. /\ "copy" \in Places /\ "returned" \in Places /\ "idle" \in Places
      /\ "blocks" \in Places
  BY DEF Places
<1>1. FrameOf(t)
  BY DEF SharedInv
<1>2. ASSUME ProcessStream(t) PROVE FrameOf(t)'
  <2> DEFINE w == call[t].wrapper
             n == call[t].number
  <2>1. /\ pc[t] = "process" /\ pc'[t] = "copy" /\ call' = call /\ out' = out
        /\ overlapped' = overlapped
    BY <1>0, <1>2, GotoType DEF ProcessStream, At
  <2>2. call[t].method = "frame" /\ out[t] = <<>>
    BY <1>1, <2>1 DEF FrameOf, Working, At
  <2>3. w \in Wrappers /\ n \in 0..MaxCalls /\ buffer[w] \in Seq(Samples)
    BY DEF FrameTypeOK
  <2>4. ASSUME t \notin overlapped
        PROVE  /\ Len(buffer'[w]) = call[t].size
               /\ OwnUpTo(buffer'[w], n)
    <3>1. buffer'[w] = Written(buffer[w], n)
      BY <1>2, <2>3, <2>4 DEF ProcessStream, FrameTypeOK
    <3>2. Len(buffer[w]) = call[t].size
      BY <1>1, <2>1, <2>4 DEF FrameOf, Working
    <3>3. Len(Written(buffer[w], n)) = Len(buffer[w])
      BY <2>3, WrittenIsSeq
    <3>4. OwnUpTo(Written(buffer[w], n), n)
      BY DEF OwnUpTo, Written
    <3>. QED
      BY <3>1, <3>2, <3>3, <3>4
  <2>. QED
    BY <2>1, <2>2, <2>4 DEF FrameOf, OwnUpTo, Working, At
<1>3. ASSUME ProcessStreamFails(t) PROVE FrameOf(t)'
  <2>1. pc[t] = "process" /\ pc'[t] = "returned" /\ out' = out
    BY <1>0, <1>3, GotoType DEF ProcessStreamFails, At
  <2>2. out'[t] = <<>>
    BY <1>1, <2>1 DEF FrameOf, At
  <2>. QED
    BY <2>1, <2>2 DEF FrameOf, Working, At
<1>4. ASSUME CopyOut(t) PROVE FrameOf(t)'
  <2>1. /\ pc[t] = "copy" /\ pc'[t] = "returned" /\ call' = call
        /\ overlapped' = overlapped /\ out'[t] = buffer[call[t].wrapper]
    BY <1>0, <1>4, GotoType DEF CopyOut, At, FrameTypeOK
  <2>2. call[t].method = "frame"
    BY <1>1, <2>1 DEF FrameOf, Working
  <2>3. t \notin overlapped =>
          /\ Len(buffer[call[t].wrapper]) = call[t].size
          /\ OwnUpTo(buffer[call[t].wrapper], call[t].number)
    BY <1>1, <2>1 DEF FrameOf, Working, At
  <2>. QED
    BY <2>1, <2>2, <2>3 DEF FrameOf, OwnUpTo, Working, At
<1>5. ASSUME ProcessBlock(t) PROVE FrameOf(t)'
  <2>1. pc[t] = "blocks" /\ pc'[t] \in {"blocks", "returned"} /\ out' = out
    BY <1>0, <1>5, GotoType DEF ProcessBlock, At
  <2>2. out'[t] = <<>>
    BY <1>1, <2>1 DEF FrameOf, At
  <2>. QED
    BY <2>1, <2>2 DEF FrameOf, Working, At
<1>6. ASSUME Return(t) PROVE FrameOf(t)'
  <2>1. pc'[t] = "idle"
    BY <1>0, <1>6, GotoType DEF Return
  <2>2. out'[t] = <<>>
    BY <1>6 DEF Return, FrameTypeOK
  <2>. QED
    BY <2>1, <2>2 DEF FrameOf, Working, At
<1>. QED
  BY <1>2, <1>3, <1>4, <1>5, <1>6 DEF Advance

LEMMA SharedStep ==
  ASSUME FrameTypeOK, SharedInv, NEW t \in Threads, NEW w \in Wrappers,
         FrameStep(t, w)
  PROVE  SharedInv'
<1>1. ApartInv'
  BY ApartStep DEF SharedInv
<1>2. ASSUME NEW u \in Threads PROVE FrameOf(u)'
  BY FrameOfOthers, FrameOfEntered, FrameOfAdvanced DEF FrameStep
<1>. QED
  BY <1>1, <1>2 DEF SharedInv

-----------------------------------------------------------------------------
(* Every step is one of a processing method of some wrapper, or leaves the *)
(* calls of the processing methods alone.                                  *)
LEMMA FrameSteps ==
  ASSUME PoolInv, TypeOK, [Next]_vars
  PROVE  \/ \E t \in Threads, w \in Wrappers : FrameStep(t, w)
         \/ UNCHANGED frameVars /\ crashed' \in BOOLEAN
<1>0. crashed \in BOOLEAN /\ PoolTypeInv /\ \E w \in Wrappers : TRUE
  BY WrappersAssumption DEF TypeOK, FrameTypeOK, PoolInv
<1>1. CASE UNCHANGED vars
  BY <1>0, <1>1 DEF vars
<1>2. ASSUME NEW t \in Threads, Advance(t)
      PROVE  \E w \in Wrappers : FrameStep(t, w)
  BY <1>0, <1>2 DEF FrameStep
<1>3. ASSUME NEW t \in Threads, UseWrapper(t)
      PROVE  \E w \in Wrappers : FrameStep(t, w)
  <2>1. held[t] \in Wrappers /\ Process(t, held[t])
    BY <1>0, <1>3 DEF UseWrapper, PoolTypeInv, Has
  <2>. QED
    BY <2>1 DEF FrameStep
<1>4. ASSUME NEW t \in Threads,
             \/ \E id \in Ids : wrapperForId(t, id) \/ disposeWrapperForId(t, id)
             \/ Release(t) \/ GetWrapper(t)
      PROVE  UNCHANGED frameVars /\ crashed' \in BOOLEAN
  <2>1. ASSUME UsesDictionary(t) PROVE crashed' \in BOOLEAN
    <3>1. PICK astray \in BOOLEAN : MayCrash(astray)
      BY <2>1 DEF UsesDictionary
    <3>. QED
      BY <3>1, CrashType DEF TypeOK
  <2>2. UNCHANGED frameVars
    BY <1>4 DEF wrapperForId, disposeWrapperForId, Release, GetWrapper, RetainFound,
                CreateWrapper, BeginInsert, EndInsert
  <2>3. \/ UsesDictionary(t) \/ crashed' = TRUE \/ crashed' = crashed
    BY <1>4 DEF wrapperForId, disposeWrapperForId, Release, GetWrapper, RetainFound,
                CreateWrapper, BeginInsert, EndInsert
  <2>. QED
    BY <1>0, <2>1, <2>2, <2>3
<1>. QED
  BY <1>1, <1>2, <1>3, <1>4 DEF Next, Step

(* A count never falls below nothing, not even in the step that ends the   *)
(* program.                                                                *)
LEMMA CountsStep ==
  ASSUME PoolInv, [Next]_vars, retains \in [Wrappers -> Nat]
  PROVE  retains' \in [Wrappers -> Nat]
<1>1. PoolInv' /\ PoolTypeInv
  BY PoolStep DEF PoolInv
<1>2. ASSUME RetainInv' PROVE retains' \in [Wrappers -> Nat]
  <2>1. ASSUME NEW w \in Wrappers PROVE retains'[w] \in Nat
    <3>1. Cardinality(Filed(w)') \in Nat /\ Cardinality(InHand(w)') \in Nat
      <4>1. /\ IsFiniteSet(Filed(w)') /\ IsFiniteSet(InHand(w)')
        <5>1. Filed(w)' \subseteq Ids /\ InHand(w)' \subseteq Threads
          BY DEF Filed, InHand
        <5>. QED
          BY <5>1, IdsAssumption, ThreadsAssumption, FS_Subset
      <4>. QED
        BY <4>1, FS_CardinalityType
    <3>2. retains'[w] = Cardinality(Filed(w)') + Cardinality(InHand(w)')
      BY <1>2 DEF RetainInv
    <3>. QED
      BY <3>1, <3>2
  <2>2. retains' \in [Wrappers -> Int]
    BY <1>1 DEF PoolInv, PoolTypeInv
  <2>. QED
    BY <2>1, <2>2
<1>3. CASE ~crashed'
  BY <1>1, <1>2, <1>3 DEF PoolInv
<1>4. CASE crashed' /\ Next
  <2>0. RetainInv
    BY <1>4 DEF PoolInv, Next
  <2>1. ASSUME NEW t \in Threads, NEW id \in Ids, disposeWrapperForId(t, id)
        PROVE  retains' \in [Wrappers -> Nat]
    <3>1. \A w \in Wrappers : InHand(w)' = InHand(w)
      BY <2>1 DEF disposeWrapperForId, InHand, Holding
    <3>2. /\ instances' = [instances EXCEPT ![id] = NoWrapper]
          /\ retains' = Exchanged(id, NoWrapper)
      BY <2>1 DEF disposeWrapperForId
    <3>3. RetainInv'
      BY <1>1, <2>0, <3>1, <3>2, ExchangeCounts
    <3>. QED
      BY <1>2, <3>3
  <2>2. ASSUME NEW t \in Threads,
               Release(t) \/ CreateWrapper(t) \/ EndInsert(t)
        PROVE  FALSE
    <3>1. crashed' = crashed
      BY <2>2 DEF Release, CreateWrapper, EndInsert
    <3>. QED
      BY <1>4, <3>1 DEF Next
  <2>3. ASSUME NEW t \in Threads, RetainFound(t)
        PROVE  retains' \in [Wrappers -> Nat]
    <3>1. CASE retains' = retains
      BY <3>1
    <3>2. CASE retains' = [retains EXCEPT ![held[t]] = retains[held[t]] + 1]
      <4>1. held[t] \in Wrappers
        BY <1>1, <2>3 DEF RetainFound, PoolTypeInv, Has
      <4>. QED
        BY <3>2, <4>1
    <3>. QED
      BY <2>3, <3>1, <3>2 DEF RetainFound
  <2>4. CASE UNCHANGED retains
    BY <2>4
  <2>. QED
    BY <1>4, <2>1, <2>2, <2>3, <2>4
    DEF Next, wrapperForId, UseWrapper, Step, GetWrapper, BeginInsert, poolVars
<1>5. CASE UNCHANGED vars
  BY <1>5 DEF vars, poolVars
<1>. QED
  BY <1>3, <1>4, <1>5

FramesInv == TypeOK /\ BlocksInv /\ SharedInv

LEMMA FramesInit == Init => FramesInv
<1>. SUFFICES ASSUME Init PROVE FramesInv
  OBVIOUS
<1>1. FrameTypeOK /\ FrameInit
  BY FrameTypeInit DEF Init
<1>2. TypeOK
  <2>1. AnyId \in Ids
    BY IdsAssumption DEF AnyId
  <2>. QED
    BY <1>1, <2>1 DEF Init, TypeOK, PoolPlaces
<1>3. \A t \in Threads : pc[t] = "idle" /\ out[t] = <<>>
  BY <1>1 DEF FrameInit
<1>4. BlocksInv
  BY <1>3 DEF BlocksInv, BlocksOf, Working, At
<1>5. SharedInv
  BY <1>3 DEF SharedInv, ApartInv, FrameOf, Working, At
<1>. QED
  BY <1>2, <1>4, <1>5 DEF FramesInv

LEMMA FramesStep == PoolInv /\ FramesInv /\ [Next]_vars => FramesInv'
<1>. SUFFICES ASSUME PoolInv, FramesInv, [Next]_vars PROVE FramesInv'
  OBVIOUS
<1>1. TypeOK /\ FrameTypeOK /\ BlocksInv /\ SharedInv
  BY DEF FramesInv, TypeOK
<1>2. FrameTypeOK' /\ BlocksInv' /\ SharedInv'
  <2>1. CASE \E t \in Threads, w \in Wrappers : FrameStep(t, w)
    BY <1>1, <2>1, FrameTypeStep, BlocksStep, SharedStep
  <2>2. CASE UNCHANGED frameVars /\ crashed' \in BOOLEAN
    BY <1>1, <2>2
    DEF frameVars, FrameTypeOK, BlocksInv, BlocksOf, GivenUpTo, SharedInv, ApartInv,
        FrameOf, OwnUpTo, Working, At
  <2>. QED
    BY <1>1, <2>1, <2>2, FrameSteps
<1>3. TypeOK'
  <2>1. PoolTypeInv'
    BY PoolStep DEF PoolInv
  <2>2. retains' \in [Wrappers -> Nat]
    BY <1>1, CountsStep DEF TypeOK
  <2>. QED
    BY <1>2, <2>1, <2>2 DEF TypeOK, PoolTypeInv
<1>. QED
  BY <1>2, <1>3 DEF FramesInv

(* Every reachable state of the pool and of the calls through it has its   *)
(* type.                                                                   *)
THEOREM TypeCorrect == Spec => []TypeOK
<1>1. FramesInv => TypeOK
  BY DEF FramesInv
<1>. QED
  BY <1>1, PoolInit, PoolStep, FramesInit, FramesStep, PTL DEF Spec

(* The sample of an interleaved place is one that may stand there.         *)
LEMMA OwnIsExpected ==
  ASSUME NEW n, NEW m, NEW k \in Nat \ {0}
  PROVE  Own(n, k) \in Expected(m, n, k)
<1>1. Channels \in Nat \ {0} /\ k - 1 \in Nat
  BY ChannelsAssumption
<1>2. (k - 1) % Channels \in 0..(Channels - 1)
  BY <1>1, Division
<1>. QED
  BY <1>2 DEF Own, Expected

(* A call that no other one overlapped returns its own samples, each at    *)
(* its place and through the APM, whatever the shared buffer held.         *)
THEOREM OwnFrameReturned == Spec => []ReturnsOwnFrame
<1>1. FramesInv => ReturnsOwnFrame
  <2>. SUFFICES ASSUME FramesInv, NEW t \in Threads, At(t, "returned"),
                       out[t] # <<>>, t \notin overlapped
                PROVE  /\ \A k \in DOMAIN out[t] : k <= NumSamples =>
                            out[t][k] \in Expected(call[t].method, call[t].number, k)
                       /\ Len(out[t]) = IF call[t].method = "float"
                                          THEN call[t].size - (call[t].size % Channels)
                                          ELSE call[t].size
    BY DEF ReturnsOwnFrame
  <2>1. FrameOf(t) /\ out[t] \in Seq(Samples)
    BY DEF FramesInv, SharedInv, TypeOK, FrameTypeOK
  <2>2. \A k \in DOMAIN out[t] : k \in Nat \ {0}
    <3>1. Len(out[t]) \in Nat /\ DOMAIN out[t] = 1..Len(out[t])
      BY <2>1, SeqIsFunction
    <3>. QED
      BY <3>1
  <2>3. \A k \in DOMAIN out[t] :
          k <= NumSamples => out[t][k] = Own(call[t].number, k)
    BY <2>1 DEF FrameOf, OwnUpTo
  <2>4. \A k \in DOMAIN out[t] :
          Own(call[t].number, k) \in Expected(call[t].method, call[t].number, k)
    BY <2>2, OwnIsExpected
  <2>. QED
    BY <2>1, <2>3, <2>4 DEF FrameOf
<1>. QED
  BY <1>1, PoolInit, PoolStep, FramesInit, FramesStep, PTL DEF Spec

(* processBuffer: gives the APM every whole block once, for any rate and   *)
(* any length.                                                             *)
THEOREM BlocksProcessedOnce == Spec => []EachBlockOnce
<1>1. FramesInv => EachBlockOnce
  <2>. SUFFICES ASSUME FramesInv, NEW t \in Threads,
                       At(t, "returned"), call[t].method = "buffer",
                       NEW k \in DOMAIN passes[t]
                PROVE  passes[t][k] =
                         IF k <= call[t].size - (call[t].size % NumFrames) THEN 1 ELSE 0
    BY DEF EachBlockOnce
  <2>. QED
    BY DEF FramesInv, BlocksInv, BlocksOf, GivenUpTo
<1>. QED
  BY <1>1, PoolInit, PoolStep, FramesInit, FramesStep, PTL DEF Spec

-----------------------------------------------------------------------------
(* How many steps a call of thread t has left at most: in wrapperForId:,   *)
(* and in a processing method, whose loop looks at what is left of the     *)
(* buffer.                                                                 *)
PoolRank(t) ==
  CASE place[t] = "create" -> 3
    [] place[t] = "insert" -> 2
    [] place[t] \in {"retain", "inserting"} -> 1
    [] place[t] \in {"out", "holding"} -> 0

FrameRank(t) ==
  CASE pc[t] = "process" -> 3
    [] pc[t] = "copy" -> 2
    [] pc[t] = "blocks" -> 2 + (call[t].size - offset[t])
    [] pc[t] = "returned" -> 1
    [] pc[t] = "idle" -> 0

CallLeft(t) == PoolRank(t) + FrameRank(t)

LEMMA CallLeftType ==
  ASSUME TypeOK, BlocksInv, NEW t \in Threads
  PROVE  PoolRank(t) \in Nat /\ FrameRank(t) \in Nat /\ CallLeft(t) \in Nat
<1>1. PoolRank(t) \in Nat
  <2>1. place[t] \in PoolPlaces
    BY DEF TypeOK
  <2>. QED
    BY <2>1 DEF PoolRank, PoolPlaces
<1>2. FrameRank(t) \in Nat
  <2>1. pc[t] \in Places /\ offset[t] \in Nat /\ call[t].size \in Nat
    BY SizeIsNat DEF TypeOK, FrameTypeOK
  <2>2. pc[t] = "blocks" => call[t].size - offset[t] \in Nat
    BY <2>1 DEF BlocksInv, BlocksOf, At
  <2>. QED
    BY <2>1, <2>2 DEF FrameRank, Places
<1>. QED
  BY <1>1, <1>2 DEF CallLeft

LEMMA OwnStepShrinks ==
  ASSUME TypeOK, BlocksInv, NEW t \in Threads, Step(t)
  PROVE  CallLeft(t)' < CallLeft(t)
<1>0. /\ PoolRank(t) \in Nat /\ FrameRank(t) \in Nat
      /\ place \in [Threads -> PoolPlaces] /\ pc \in [Threads -> Places]
      /\ offset[t] \in Nat /\ call[t].size \in Nat /\ DOMAIN offset = Threads
  BY CallLeftType, SizeIsNat DEF TypeOK, FrameTypeOK
<1>1. CASE GetWrapper(t)
  <2>1. UNCHANGED frameVars
    BY <1>1 DEF GetWrapper, RetainFound, CreateWrapper, BeginInsert, EndInsert
  <2>2. FrameRank(t)' = FrameRank(t)
    BY <2>1 DEF frameVars, FrameRank
  <2>3. PoolRank(t)' = PoolRank(t) - 1
    BY <1>0, <1>1
    DEF GetWrapper, RetainFound, CreateWrapper, BeginInsert, EndInsert, Move, PoolRank
  <2>. QED
    BY <1>0, <2>2, <2>3 DEF CallLeft
<1>2. CASE Advance(t) /\ UNCHANGED poolVars
  <2>1. PoolRank(t)' = PoolRank(t)
    BY <1>2 DEF poolVars, PoolRank
  <2>2. CASE ProcessStream(t) \/ ProcessStreamFails(t) \/ CopyOut(t) \/ Return(t)
    <3>1. FrameRank(t)' < FrameRank(t) /\ FrameRank(t)' \in Nat
      BY <1>0, <2>2
      DEF ProcessStream, ProcessStreamFails, CopyOut, Return, At, Goto, FrameRank
    <3>. QED
      BY <1>0, <2>1, <3>1 DEF CallLeft
  <2>3. CASE ProcessBlock(t)
    <3>1. samplesPer10ms \in Nat \ {0}
      BY TenMilliseconds
    <3>2. pc[t] = "blocks" /\ call' = call
      BY <2>3 DEF ProcessBlock, At
    <3>3. FrameRank(t) = 2 + (call[t].size - offset[t])
          /\ call[t].size - offset[t] \in Nat
      BY <1>0, <3>2 DEF FrameRank, BlocksInv, BlocksOf, At
    <3>4. CASE offset[t] + samplesPer10ms <= call[t].size
      <4>1. pc' = pc /\ offset'[t] = offset[t] + samplesPer10ms
        BY <1>0, <2>3, <3>4 DEF ProcessBlock
      <4>2. FrameRank(t)' = 2 + (call[t].size - (offset[t] + samplesPer10ms))
        BY <3>2, <4>1 DEF FrameRank
      <4>. QED
        BY <1>0, <2>1, <3>1, <3>3, <4>2 DEF CallLeft
    <3>5. CASE ~(offset[t] + samplesPer10ms <= call[t].size)
      <4>1. pc'[t] = "returned"
        BY <1>0, <2>3, <3>5 DEF ProcessBlock, Goto
      <4>2. FrameRank(t)' = 1
        BY <4>1 DEF FrameRank
      <4>. QED
        BY <1>0, <2>1, <3>3, <4>2 DEF CallLeft
    <3>. QED
      BY <3>4, <3>5
  <2>. QED
    BY <1>2, <2>2, <2>3 DEF Advance
<1>. QED
  BY <1>1, <1>2 DEF Step

(* What one thread does leaves the calls of the others alone.              *)
PoolAct(t) ==
  \/ \E id \in Ids : wrapperForId(t, id) \/ disposeWrapperForId(t, id)
  \/ GetWrapper(t) \/ Release(t)

FrameAct(t) == UseWrapper(t) \/ (Advance(t) /\ UNCHANGED poolVars)

LEMMA PoolActs ==
  ASSUME TypeOK, NEW t \in Threads, PoolAct(t)
  PROVE  /\ UNCHANGED frameVars
         /\ \A u \in Threads \ {t} : place'[u] = place[u]
<1>1. place \in [Threads -> PoolPlaces]
  BY DEF TypeOK
<1>. QED
  BY <1>1
  DEF PoolAct, wrapperForId, disposeWrapperForId, GetWrapper, RetainFound,
      CreateWrapper, BeginInsert, EndInsert, Release, Move

LEMMA FrameActs ==
  ASSUME PoolInv, TypeOK, NEW t \in Threads, FrameAct(t)
  PROVE  /\ place' = place
         /\ place[t] = "holding" \/ ~At(t, "idle")
         /\ \A u \in Threads \ {t} :
              pc'[u] = pc[u] /\ call'[u] = call[u] /\ offset'[u] = offset[u]
<1>1. place' = place
  BY DEF FrameAct, UseWrapper, poolVars
<1>2. place[t] = "holding" \/ ~At(t, "idle")
  BY DEF FrameAct, UseWrapper, Advance, ProcessStream, ProcessStreamFails, CopyOut,
         ProcessBlock, Return, At
<1>3. FrameTypeOK
  BY DEF TypeOK
<1>4. \E w \in Wrappers : FrameStep(t, w)
  <2>1. CASE UseWrapper(t)
    <3>1. held[t] \in Wrappers /\ Process(t, held[t])
      BY <2>1 DEF UseWrapper, PoolInv, PoolTypeInv, Has
    <3>. QED
      BY <3>1 DEF FrameStep
  <2>2. CASE Advance(t)
    BY <2>2, WrappersAssumption DEF FrameStep
  <2>. QED
    BY <2>1, <2>2 DEF FrameAct
<1>. QED
  BY <1>1, <1>2, <1>3, <1>4, OthersUnchanged

LEMMA ActsOfThreads ==
  ASSUME [Next]_vars
  PROVE  \/ \E t \in Threads : PoolAct(t) \/ FrameAct(t)
         \/ UNCHANGED vars
BY DEF Next, Step, PoolAct, FrameAct

(* A thread processes only with a wrapper in hand: it is in one call at a  *)
(* time.                                                                   *)
OneCallInv == \A t \in Threads : place[t] # "holding" => At(t, "idle")

LEMMA OneCallStep ==
  PoolInv /\ TypeOK /\ OneCallInv /\ [Next]_vars => OneCallInv'
<1>. SUFFICES ASSUME PoolInv, TypeOK, OneCallInv, [Next]_vars, NEW u \in Threads,
                     place'[u] # "holding"
              PROVE  pc'[u] = "idle"
  BY DEF OneCallInv, At
<1>0. /\ place \in [Threads -> PoolPlaces]
      /\ place[u] # "holding" => pc[u] = "idle"
  BY DEF TypeOK, OneCallInv, At
<1>1. ASSUME NEW t \in Threads, PoolAct(t) PROVE pc'[u] = "idle"
  <2>1. pc' = pc /\ (u # t => place'[u] = place[u])
    BY <1>1, PoolActs DEF frameVars
  <2>2. place[t] = "holding" => place'[t] = "holding" \/ pc[t] = "idle"
    BY <1>0, <1>1
    DEF PoolAct, wrapperForId, disposeWrapperForId, GetWrapper, RetainFound,
        CreateWrapper, BeginInsert, EndInsert, Release, At
  <2>. QED
    BY <1>0, <2>1, <2>2
<1>2. ASSUME NEW t \in Threads, FrameAct(t) PROVE pc'[u] = "idle"
  <2>1. place'[u] = place[u] /\ (place[t] = "holding" \/ pc[t] # "idle")
    BY <1>2, FrameActs DEF At
  <2>2. place[t] = "holding"
    BY <2>1 DEF OneCallInv, At
  <2>3. u # t
    BY <2>1, <2>2
  <2>. QED
    BY <1>0, <1>2, <2>1, <2>3, FrameActs
<1>3. CASE UNCHANGED vars
  BY <1>0, <1>3 DEF vars, poolVars, frameVars
<1>. QED
  BY <1>1, <1>2, <1>3, ActsOfThreads

InCall(t) == ~(place[t] \in {"out", "holding"} /\ At(t, "idle"))

LEMMA CallLeftStep ==
  ASSUME PoolInv, TypeOK, BlocksInv, OneCallInv, [Next]_vars, NEW u \in Threads,
         InCall(u), ~Step(u)
  PROVE  CallLeft(u)' = CallLeft(u)
<1>2. ASSUME NEW t \in Threads, t # u, PoolAct(t) \/ FrameAct(t)
      PROVE  CallLeft(u)' = CallLeft(u)
  <2>1. /\ place'[u] = place[u] /\ pc'[u] = pc[u]
        /\ call'[u] = call[u] /\ offset'[u] = offset[u]
    BY <1>2, PoolActs, FrameActs DEF frameVars
  <2>. QED
    BY <2>1 DEF CallLeft, PoolRank, FrameRank
<1>3. ~(PoolAct(u) \/ FrameAct(u))
  <2>1. place[u] = "out" => pc[u] = "idle"
    BY DEF OneCallInv, At
  <2>. QED
    BY <2>1
    DEF InCall, PoolAct, FrameAct, Step, wrapperForId, disposeWrapperForId, Release,
        UseWrapper, Process, refuseEmpty, processAudioFrame, processAudioFrameFloat,
        processBuffer10ms, processBuffer, Enter, At
<1>4. CASE UNCHANGED vars
  BY <1>4 DEF vars, poolVars, frameVars, CallLeft, PoolRank, FrameRank
<1>. QED
  BY <1>2, <1>3, <1>4, ActsOfThreads

(* Every step of a call, of the pool or of a wrapper, brings it nearer to  *)
(* its return, and nothing the other threads do changes how far that is: a *)
(* thread that runs on does return.  This is the bound behind CallsReturn. *)
CallsRunDown ==
  [][\A t \in Threads :
       InCall(t) => /\ CallLeft(t) \in Nat
                    /\ Step(t) => CallLeft(t)' < CallLeft(t)
                    /\ ~Step(t) => CallLeft(t)' = CallLeft(t)]_vars

THEOREM EachCallRunsDown == Spec => CallsRunDown
<1>1. Init => OneCallInv
  BY DEF Init, FrameInit, OneCallInv, At
<1>2. FramesInv => TypeOK
  BY DEF FramesInv
<1>3. PoolInv /\ FramesInv /\ OneCallInv /\ [Next]_vars => OneCallInv'
  BY <1>2, OneCallStep
<1>4. PoolInv /\ FramesInv /\ OneCallInv /\ [Next]_vars
        => [\A t \in Threads :
              InCall(t) => /\ CallLeft(t) \in Nat
                           /\ Step(t) => CallLeft(t)' < CallLeft(t)
                           /\ ~Step(t) => CallLeft(t)' = CallLeft(t)]_vars
  BY <1>2, CallLeftType, CallLeftStep, OwnStepShrinks DEF FramesInv
<1>. QED
  BY <1>1, <1>3, <1>4, PoolInit, PoolStep, FramesInit, FramesStep, PTL
  DEF Spec, CallsRunDown

=============================================================================
