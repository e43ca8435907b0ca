------------------------- MODULE AudioPlayerProofs --------------------------
(***************************************************************************)
(* Theorems about AudioPlayer, for every set of files and every length of  *)
(* theirs: the type invariant; that each playback ends once, by counting   *)
(* ends along their way; that what is heard is shown; and that the time    *)
(* shown never runs ahead, for which the node's clock must not either.     *)
(***************************************************************************)
EXTENDS AudioPlayer, FiniteSetTheorems, SequenceTheorems, TLAPS

-----------------------------------------------------------------------------
(* What the operations of AVPlayerNode keep.                               *)
LEMMA NodeFields ==
  ASSUME NEW files, NEW n \in Nodes(files)
  PROVE  /\ n.playing \in BOOLEAN /\ n.time \in 0..MaxTime
         /\ n.queue \in Seq(Stretches(files))
         /\ Len(n.queue) \in Nat
         /\ n.queue = <<>> <=> Len(n.queue) = 0
<1>1. n.queue \in Seq(Stretches(files))
  BY DEF Nodes
<1>2. Len(n.queue) \in Nat /\ (n.queue = <<>> <=> Len(n.queue) = 0)
  BY <1>1, EmptySeq, LenProperties
<1>. QED
  BY <1>1, <1>2 DEF Nodes

LEMMA StretchType ==
  ASSUME NEW files, NEW f \in files, NEW first \in Nat, NEW c \in Nat \ {0}
  PROVE  /\ Stretch(f, first, c) \in Stretches(files)
         /\ Stretch(f, first, c).start = first
         /\ Stretch(f, first, c).count = c
         /\ Stretch(f, first, c).file = f
BY DEF Stretch, Stretches

LEMMA StoppedNodeType ==
  ASSUME NEW files
  PROVE  StoppedNode \in Nodes(files)
<1>1. <<>> \in Seq(Stretches(files))
  BY EmptySeq
<1>. QED
  BY <1>1, MaxTimeAssumption DEF StoppedNode, Nodes

LEMMA ScheduleType ==
  ASSUME NEW files, NEW n \in Nodes(files), NEW s \in Stretches(files)
  PROVE  /\ Schedule(n, s) \in Nodes(files)
         /\ Schedule(n, s).playing = n.playing
         /\ Schedule(n, s).time = n.time
         /\ Schedule(n, s).queue = Append(n.queue, s)
         /\ Schedule(n, s).queue # <<>>
         /\ Len(Schedule(n, s).queue) = Len(n.queue) + 1
         /\ n.queue = <<>> => Head(Schedule(n, s).queue) = s
BY AppendProperties DEF Schedule, Nodes

LEMMA PlayPauseType ==
  ASSUME NEW files, NEW n \in Nodes(files)
  PROVE  /\ Play(n) \in Nodes(files) /\ Pause(n) \in Nodes(files)
         /\ Play(n).playing /\ ~Pause(n).playing
         /\ Play(n).time = n.time /\ Pause(n).time = n.time
         /\ Play(n).queue = n.queue /\ Pause(n).queue = n.queue
BY DEF Play, Pause, Nodes

(* Rendering either takes the head off the queue or starts it one period   *)
(* later, its end unchanged.                                               *)
LEMMA RenderedType ==
  ASSUME NEW files, NEW n \in Nodes(files)
  PROVE  /\ Rendered(n) \in Nodes(files)
         /\ Rendered(n).playing = n.playing
         /\ n.time < MaxTime => Rendered(n).time = n.time + 1
         /\ n.queue = <<>> => Rendered(n).queue = <<>>
         /\ Consumes(n) => Len(Rendered(n).queue) = Len(n.queue) - 1
         /\ Consumes(n) /\ Len(n.queue) <= 1 => Rendered(n).queue = <<>>
         /\ n.queue # <<>> /\ ~Consumes(n)
              => /\ Rendered(n).queue # <<>>
                 /\ Len(Rendered(n).queue) = Len(n.queue)
                 /\ Head(Rendered(n).queue).start = Head(n.queue).start + 1
                 /\ Head(Rendered(n).queue).start + Head(Rendered(n).queue).count
                      = Head(n.queue).start + Head(n.queue).count
<1>. DEFINE S == Stretches(files)
            h == Head(n.queue)
<1>1. n.queue \in Seq(S) /\ n.playing \in BOOLEAN /\ Clock(n) \in 0..MaxTime
      /\ (n.time < MaxTime => Clock(n) = n.time + 1)
  BY MaxTimeAssumption DEF Nodes, Clock
<1>2. n.queue # <<>> => h \in S /\ Tail(n.queue) \in Seq(S)
                        /\ Len(Tail(n.queue)) = Len(n.queue) - 1
  BY <1>1, HeadTailProperties
<1>3. n.queue # <<>> /\ ~Consumes(n)
        => Advanced(h) \in S /\ Advanced(h).start = h.start + 1
           /\ Advanced(h).start + Advanced(h).count = h.start + h.count
  BY <1>2 DEF Advanced, Stretch, Stretches, Consumes
<1>. HIDE DEF S
<1>4. CASE n.queue = <<>> \/ Consumes(n)
  BY <1>1, <1>2, <1>4, EmptySeq DEF Rendered, RenderedQueue, Nodes, S, Consumes
<1>5. CASE n.queue # <<>> /\ ~Consumes(n)
  <2>1. Rendered(n).queue = <<Advanced(h)>> \o Tail(n.queue)
    BY <1>5 DEF Rendered, RenderedQueue
  <2>2. Rendered(n).queue \in Seq(S)
        /\ Len(Rendered(n).queue) = Len(n.queue)
        /\ Head(Rendered(n).queue) = Advanced(h)
    BY <1>1, <1>2, <1>3, <1>5, <2>1
  <2>. QED
    BY <1>1, <1>3, <1>5, <2>2, EmptySeq DEF Rendered, Nodes, S
<1>. QED
  BY <1>4, <1>5

-----------------------------------------------------------------------------
(* How often a value occurs in a queue.                                    *)
Places(q, x) == {i \in 1..Len(q) : q[i] = x}

LEMMA PlacesFinite ==
  ASSUME NEW S, NEW q \in Seq(S), NEW x
  PROVE  IsFiniteSet(Places(q, x)) /\ Cardinality(Places(q, x)) \in Nat
<1>1. Len(q) \in Nat
  BY LenProperties
<1>2. IsFiniteSet(1..Len(q))
  BY <1>1, FS_Interval
<1>3. Places(q, x) \in SUBSET (1..Len(q))
  BY DEF Places
<1>. QED
  BY <1>2, <1>3, FS_Subset, FS_CardinalityType

LEMMA PlacesAppend ==
  ASSUME NEW S, NEW q \in Seq(S), NEW e \in S, NEW x
  PROVE  Cardinality(Places(Append(q, e), x)) =
           Cardinality(Places(q, x)) + (IF e = x THEN 1 ELSE 0)
<1>. DEFINE n == Len(q)
            a == Append(q, e)
<1>1. n \in Nat
  BY LenProperties
<1>2. Len(a) = n + 1 /\ a[n + 1] = e /\ \A i \in 1..n : a[i] = q[i]
  BY AppendProperties
<1>3. IsFiniteSet(Places(q, x)) /\ Cardinality(Places(q, x)) \in Nat
  BY PlacesFinite
<1>4. n + 1 \notin Places(q, x)
  BY <1>1 DEF Places
<1>5. CASE e = x
  <2>1. Places(a, x) = Places(q, x) \cup {n + 1}
    <3>. HIDE DEF a
    <3>. QED
      BY <1>1, <1>2, <1>5 DEF Places
  <2>2. Cardinality(Places(q, x) \cup {n + 1}) = Cardinality(Places(q, x)) + 1
    BY <1>3, <1>4, FS_AddElement
  <2>. QED
    BY <1>5, <2>1, <2>2
<1>6. CASE e # x
  <2>1. Places(a, x) = Places(q, x)
    <3>. HIDE DEF a
    <3>. QED
      BY <1>1, <1>2, <1>6 DEF Places
  <2>. QED
    BY <1>3, <1>6, <2>1
<1>. QED
  BY <1>5, <1>6

LEMMA PlacesTail ==
  ASSUME NEW S, NEW q \in Seq(S), q # <<>>, NEW x
  PROVE  Cardinality(Places(Tail(q), x)) =
           Cardinality(Places(q, x)) - (IF Head(q) = x THEN 1 ELSE 0)
<1>. DEFINE t == Tail(q)
            P == Places(t, x)
            Q == Places(q, x) \ {1}
            shift == [i \in P |-> i + 1]
<1>1. /\ t \in Seq(S) /\ Len(t) = Len(q) - 1
      /\ \A i \in 1..Len(t) : t[i] = q[i + 1]
  BY HeadTailProperties
<1>2. Len(q) \in Nat \ {0} /\ Head(q) = q[1]
  BY EmptySeq, LenProperties
<1>. HIDE DEF t
<1>3. \A i \in P : i \in Nat /\ i + 1 \in Q
  BY <1>1, <1>2 DEF Places
<1>4. \A j \in Q : j - 1 \in P /\ (j - 1) + 1 = j
  <2>. SUFFICES ASSUME NEW j \in Q
                PROVE  j - 1 \in P /\ (j - 1) + 1 = j
    OBVIOUS
  <2>1. j \in 2..Len(q) /\ q[j] = x
    BY <1>2 DEF Places
  <2>2. j - 1 \in 1..Len(t) /\ (j - 1) + 1 = j
    BY <1>1, <1>2, <2>1
  <2>3. t[j - 1] = q[(j - 1) + 1]
    BY <1>1, <2>2
  <2>. QED
    BY <2>1, <2>2, <2>3 DEF Places
<1>5. shift \in Bijection(P, Q)
  <2>1. shift \in [P -> Q]
    BY <1>3
  <2>2. \A a, b \in P : shift[a] = shift[b] => a = b
    BY <1>3
  <2>3. \A j \in Q : \E i \in P : shift[i] = j
    <3>. SUFFICES ASSUME NEW j \in Q
                  PROVE  \E i \in P : shift[i] = j
      OBVIOUS
    <3>1. j - 1 \in P /\ (j - 1) + 1 = j
      BY <1>4
    <3>2. shift[j - 1] = j
      BY <3>1
    <3>. QED
      BY <3>1, <3>2
  <2>. HIDE DEF shift, P, Q
  <2>4. IsInjective(shift)
    BY <2>1, <2>2 DEF IsInjective
  <2>. QED
    BY <2>1, <2>3, <2>4 DEF Bijection, Injection, Surjection
<1>6. IsFiniteSet(P) /\ Cardinality(P) = Cardinality(Q)
  <2>1. IsFiniteSet(P)
    BY <1>1, PlacesFinite
  <2>2. ExistsBijection(P, Q)
    BY <1>5 DEF ExistsBijection
  <2>. HIDE DEF P, Q
  <2>. QED
    BY <2>1, <2>2, FS_Bijection
<1>7. IsFiniteSet(Places(q, x)) /\ Cardinality(Places(q, x)) \in Nat
  BY PlacesFinite
<1>8. Cardinality(Q) = IF 1 \in Places(q, x) THEN Cardinality(Places(q, x)) - 1
                       ELSE Cardinality(Places(q, x))
  BY <1>7, FS_RemoveElement
<1>9. 1 \in Places(q, x) <=> Head(q) = x
  BY <1>2 DEF Places
<1>. QED
  BY <1>6, <1>7, <1>8, <1>9 DEF t

-----------------------------------------------------------------------------
(* Type correctness.                                                       *)

Blocks == {Finish} \cup {Start(f) : f \in Files}

LEMMA BlocksDiffer ==
  \A f \in Files : Start(f) # Finish /\ Start(f).file = f
BY DEF Start, Finish

LEMMA PlayNodeEffect ==
  ASSUME NEW n \in Nodes(Files), NEW clash \in BOOLEAN,
         running \in BOOLEAN, PlayNode(n, clash)
  PROVE  /\ running' \in BOOLEAN /\ raised' \in BOOLEAN
         /\ isPlaying' \in BOOLEAN /\ timer' \in BOOLEAN
         /\ node' \in Nodes(Files)
         /\ node'.queue = n.queue /\ node'.time = n.time
         /\ ~raised' => isPlaying' /\ timer'
<1>1. running' \in BOOLEAN
  BY Zenon DEF PlayNode
<1>2. raised' \in BOOLEAN
  BY <1>1, Zenon DEF PlayNode
<1>3. isPlaying' \in BOOLEAN /\ timer' \in BOOLEAN
      /\ (~raised' => isPlaying' /\ timer')
  BY <1>2, Zenon DEF PlayNode
<1>4. node' = n \/ node' = Play(n)
  BY Zenon DEF PlayNode
<1>5. node' \in Nodes(Files) /\ node'.queue = n.queue /\ node'.time = n.time
  <2>1. CASE node' = n
    BY <2>1
  <2>2. CASE node' = Play(n)
    BY <2>2, PlayPauseType, Zenon
  <2>. QED
    BY <1>4, <2>1, <2>2
<1>. QED
  BY <1>1, <1>2, <1>3, <1>5

(* A file that was read replaces what was queued; one that was not read    *)
(* only becomes nil.                                                       *)
LEMMA PlayLocalEffect ==
  ASSUME TypeOK, NEW f \in Files, playLocalAudio(f)
  PROVE  /\ audioFile' \in Files \cup {NoFile}
         /\ isPlaying' \in BOOLEAN /\ timer' \in BOOLEAN
         /\ currentTime' \in 0..MaxTime
         /\ isTapInstalled' \in BOOLEAN /\ tap' \in BOOLEAN
         /\ running' \in BOOLEAN /\ raised' \in BOOLEAN
         /\ node' \in Nodes(Files) /\ Len(node'.queue) <= 1
         /\ due' \in Nat /\ started' \in Nat /\ replayed' \in BOOLEAN
         /\ \/ UNCHANGED <<isPlaying, timer, currentTime, node, due, raised,
                            started, replayed>>
            \/ /\ ~raised' => isPlaying' /\ timer'
               /\ currentTime' = 0 /\ node'.time = 0
               /\ Len(node'.queue) = 1
               /\ Head(node'.queue).start = 0
               /\ due' = due + Len(node.queue)
               /\ started' = started + 1
<1>1. CASE ReadFails
  BY <1>1 DEF TypeOK, ReadFails, engine
<1>2. CASE ~ReadFails
  <2>. DEFINE s == Stretch(f, 0, Length[f])
              n == Schedule(StoppedNode, s)
  <2>1. /\ audioFile' = f /\ currentTime' = 0 /\ due' = due + CutShort
        /\ started' = started + 1 /\ replayed' = FALSE
        /\ RenewTap /\ PlayNode(n, SecondTap)
    BY <1>2, Zenon DEF playLocalAudio
  <2>2. s \in Stretches(Files) /\ s.start = 0
    BY FilesAssumption, StretchType
  <2>3. StoppedNode \in Nodes(Files) /\ StoppedNode.queue = <<>>
        /\ StoppedNode.time = 0 /\ Len(StoppedNode.queue) = 0
    BY StoppedNodeType DEF StoppedNode
  <2>. HIDE DEF s
  <2>4. /\ n \in Nodes(Files) /\ n.time = StoppedNode.time
        /\ Len(n.queue) = Len(StoppedNode.queue) + 1 /\ Head(n.queue) = s
    BY <2>2, <2>3, ScheduleType, Zenon
  <2>. HIDE DEF n
  <2>5. isTapInstalled' \in BOOLEAN /\ tap' \in BOOLEAN
    BY <2>1, Zenon DEF RenewTap
  <2>6. SecondTap \in BOOLEAN /\ running \in BOOLEAN
    <3>1. tap \in BOOLEAN /\ isTapInstalled \in BOOLEAN /\ running \in BOOLEAN
      BY DEF TypeOK
    <3>. QED
      BY <2>5, <3>1, Zenon DEF SecondTap
  <2>7. /\ running' \in BOOLEAN /\ raised' \in BOOLEAN
        /\ isPlaying' \in BOOLEAN /\ timer' \in BOOLEAN
        /\ node' \in Nodes(Files)
        /\ node'.queue = n.queue /\ node'.time = n.time
        /\ (~raised' => isPlaying' /\ timer')
    BY <2>1, <2>4, <2>6, PlayNodeEffect, Zenon
  <2>8. Len(node.queue) \in Nat /\ due \in Nat /\ started \in Nat
    BY NodeFields DEF TypeOK
  <2>9. due' \in Nat /\ started' \in Nat /\ due' = due + Len(node.queue)
    BY <2>1, <2>8 DEF CutShort
  <2>10. currentTime' \in 0..MaxTime
    BY <2>1, MaxTimeAssumption
  <2>11. Len(node'.queue) = 1 /\ node'.time = 0 /\ Head(node'.queue).start = 0
    BY <2>2, <2>3, <2>4, <2>7
  <2>12. replayed' \in BOOLEAN
    BY <2>1
  <2>13. audioFile' \in Files \cup {NoFile} /\ Len(node'.queue) <= 1
    BY <2>1, <2>11
  <2>14. currentTime' = 0 /\ started' = started + 1
    BY <2>1
  <2>. QED
    BY <2>5, <2>7, <2>9, <2>10, <2>11, <2>12, <2>13, <2>14
<1>. QED
  BY <1>1, <1>2

LEMMA InitTyped == Init => TypeOK
<1>. SUFFICES ASSUME Init PROVE TypeOK
  OBVIOUS
<1>1. StoppedNode \in Nodes(Files) /\ Len(StoppedNode.queue) = 0
  BY StoppedNodeType DEF StoppedNode
<1>2. <<>> \in Seq(Blocks)
  BY EmptySeq
<1>3. currentTime \in 0..MaxTime /\ acts \in 0..MaxActs
  BY MaxTimeAssumption, ActsAssumption DEF Init
<1>4. node \in Nodes(Files) /\ Len(node.queue) <= 1
  BY <1>1 DEF Init
<1>5. mainQueue \in Seq(Blocks)
  BY <1>2 DEF Init
<1>. QED
  BY <1>3, <1>4, <1>5 DEF Init, TypeOK, Blocks

LEMMA StepTyped == TypeOK /\ [Next]_vars => TypeOK'
<1>. SUFFICES ASSUME TypeOK, [Next]_vars PROVE TypeOK'
  OBVIOUS
<1>1. /\ node \in Nodes(Files) /\ Len(node.queue) <= 1
      /\ Len(node.queue) \in Nat
      /\ mainQueue \in Seq(Blocks) /\ running \in BOOLEAN
      /\ isPlaying \in BOOLEAN /\ timer \in BOOLEAN
  BY NodeFields DEF TypeOK, Blocks
<1>0. UserCall => acts' \in 0..MaxActs
  BY ActsAssumption DEF UserCall, TypeOK
<1>2. ASSUME NEW f \in Files, playLocal(f) PROVE TypeOK'
  BY <1>0, <1>2, PlayLocalEffect DEF playLocal, TypeOK
<1>3. ASSUME NEW f \in Files, playRemoteAudio(f) PROVE TypeOK'
  BY <1>0, <1>3 DEF playRemoteAudio, TypeOK, player, engine, history
<1>4. ASSUME NEW f \in Files, Downloaded(f) PROVE TypeOK'
  <2>1. Start(f) \in Blocks
    BY DEF Blocks
  <2>2. Append(mainQueue, Start(f)) \in Seq(Blocks)
    BY <1>1, <2>1, AppendProperties
  <2>3. mainQueue' \in Seq(Blocks)
    BY <1>1, <1>4, <2>2 DEF Downloaded
  <2>. QED
    BY <1>4, <2>3 DEF Downloaded, TypeOK, Blocks, player, engine, history
<1>5. CASE play
  <2>1. CASE isPlaying
    BY <1>0, <1>5, <2>1 DEF play, TypeOK, pending
  <2>2. CASE ~isPlaying
    <3>1. PlayNode(node, FALSE)
      BY <1>5, <2>2 DEF play
    <3>2. /\ running' \in BOOLEAN /\ raised' \in BOOLEAN
          /\ isPlaying' \in BOOLEAN /\ timer' \in BOOLEAN
          /\ node' \in Nodes(Files) /\ node'.queue = node.queue
      BY <1>1, <3>1, PlayNodeEffect, Zenon
    <3>3. replayed' \in BOOLEAN
      <4>1. replayed' = (EndsToCome = 0)
        BY <1>5, <2>2 DEF play
      <4>. QED
        BY <4>1, Zenon
    <3>. QED
      BY <1>0, <1>1, <1>5, <3>2, <3>3 DEF play, TypeOK, pending
  <2>. QED
    BY <1>1, <2>1, <2>2
<1>6. CASE pause
  <2>1. node' \in Nodes(Files) /\ node'.queue = node.queue
    BY <1>1, <1>6, PlayPauseType DEF pause
  <2>2. isPlaying' \in BOOLEAN /\ timer' \in BOOLEAN
    BY <1>1, <1>6 DEF pause
  <2>. QED
    BY <1>0, <1>1, <1>6, <2>1, <2>2 DEF pause, TypeOK, pending, history
<1>7. CASE stop
  <2>1. node' \in Nodes(Files) /\ Len(node'.queue) = 0
    BY <1>7, StoppedNodeType DEF stop, StoppedNode
  <2>2. due' \in Nat /\ currentTime' \in 0..MaxTime
    BY <1>1, <1>7, MaxTimeAssumption DEF stop, CutShort, TypeOK
  <2>3. Len(node'.queue) <= 1
    BY <2>1
  <2>. QED
    BY <1>0, <1>7, <2>1, <2>2, <2>3 DEF stop, TypeOK, history
<1>8. CASE updateProgress
  <2>1. currentTime' \in 0..MaxTime
    BY <1>1, <1>8, NodeFields DEF updateProgress
  <2>. QED
    BY <1>8, <2>1 DEF updateProgress, TypeOK, engine, pending, history
<1>9. CASE completionHandler
  <2>1. Finish \in Blocks
    BY DEF Blocks
  <2>2. mainQueue' \in Seq(Blocks)
    BY <1>1, <1>9, <2>1, AppendProperties DEF completionHandler
  <2>. QED
    BY <1>9, <2>2 DEF completionHandler, TypeOK, Blocks, player, engine, history
<1>10. CASE mainBlock
  <2>1. Head(mainQueue) \in Blocks /\ mainQueue' \in Seq(Blocks)
    BY <1>1, <1>10, HeadTailProperties DEF mainBlock
  <2>2. CASE finishBlock
    <3>1. crossed \in BOOLEAN /\ crossed' = (crossed \/ node.queue # <<>>)
      BY <2>2 DEF finishBlock, TypeOK
    <3>2. crossed' \in BOOLEAN
      BY <3>1, Zenon
    <3>3. /\ isPlaying' = FALSE /\ timer' = FALSE /\ notified' = notified + 1
          /\ UNCHANGED <<audioFile, currentTime, isTapInstalled, engine, due,
                          raised, started, replayed>>
      BY <2>2, Zenon DEF finishBlock
    <3>5. isPlaying' \in BOOLEAN /\ timer' \in BOOLEAN
      BY <3>3, Zenon
    <3>7. notified' \in Nat
      BY <3>3 DEF TypeOK
    <3>6. UNCHANGED <<audioFile, currentTime, isTapInstalled, tap, running, node,
                      due, raised, started, replayed>>
      BY <3>3 DEF engine
    <3>4. UNCHANGED <<downloads, acts>>
      BY <1>10, Zenon DEF mainBlock
    <3>. QED
      BY <1>1, <2>1, <3>2, <3>4, <3>5, <3>6, <3>7 DEF TypeOK, Blocks
  <2>3. CASE startBlock
    <3>1. \E f \in Files : Head(mainQueue) = Start(f)
      BY <2>1, <2>3 DEF startBlock, Blocks, Finish
    <3>2. Head(mainQueue).file \in Files
      BY <3>1, BlocksDiffer
    <3>3. playLocalAudio(Head(mainQueue).file)
      BY <2>3 DEF startBlock
    <3>. QED
      BY <1>10, <2>1, <2>3, <3>2, <3>3, PlayLocalEffect
         DEF mainBlock, startBlock, TypeOK, Blocks
  <2>. QED
    BY <1>10, <2>2, <2>3 DEF mainBlock
<1>11. CASE Render
  <2>1. node' \in Nodes(Files) /\ Len(node'.queue) <= 1
    <3>1. /\ Rendered(node) \in Nodes(Files)
          /\ node.queue = <<>> => Rendered(node).queue = <<>>
          /\ Consumes(node) => Len(Rendered(node).queue) = Len(node.queue) - 1
          /\ node.queue # <<>> /\ ~Consumes(node)
               => Len(Rendered(node).queue) = Len(node.queue)
      BY <1>1, RenderedType, Zenon
    <3>2. node' = Rendered(node)
      BY <1>11 DEF Render
    <3>. QED
      BY <1>1, <3>1, <3>2, EmptySeq
  <2>2. due' \in Nat
    BY <1>11 DEF Render, TypeOK
  <2>. QED
    BY <1>11, <2>1, <2>2 DEF Render, TypeOK, player, history
<1>12. CASE UNCHANGED vars
  BY <1>12 DEF vars, TypeOK, player, engine, pending, history
<1>. QED
  BY <1>2, <1>3, <1>4, <1>5, <1>6, <1>7, <1>8, <1>9, <1>10, <1>11, <1>12 DEF Next

(* Every reachable state of the player has its type; in particular the     *)
(* node never has more than one file queued.                               *)
THEOREM TypeCorrect == Spec => []TypeOK
<1>. QED
  BY InitTyped, StepTyped, PTL DEF Spec

-----------------------------------------------------------------------------
(* What the steps do to the node, the clocks and the ends under way.       *)

LEMMA PlayEffect ==
  ASSUME TypeOK, play
  PROVE  /\ node'.queue = node.queue /\ node'.time = node.time
         /\ UNCHANGED <<currentTime, due, mainQueue, started, notified, crossed>>
         /\ \/ UNCHANGED <<isPlaying, timer, node, raised>>
            \/ ~raised' => isPlaying' /\ timer'
<1>1. UNCHANGED <<currentTime, due, mainQueue, started, notified, crossed>>
  BY DEF play, pending
<1>2. CASE isPlaying
  BY <1>1, <1>2 DEF play
<1>3. CASE ~isPlaying
  <2>1. PlayNode(node, FALSE) /\ node \in Nodes(Files) /\ running \in BOOLEAN
    BY <1>3 DEF play, TypeOK
  <2>2. /\ node'.queue = node.queue /\ node'.time = node.time
        /\ (~raised' => isPlaying' /\ timer')
    BY <2>1, PlayNodeEffect, Zenon
  <2>. QED
    BY <1>1, <2>2
<1>. QED
  BY <1>2, <1>3

LEMMA RenderEffect ==
  ASSUME TypeOK, Render
  PROVE  /\ UNCHANGED <<isPlaying, timer, currentTime, mainQueue, raised, started,
                        notified, crossed>>
         /\ ~raised /\ node'.playing = node.playing
         /\ Len(node.queue) + due = Len(node'.queue) + due'
         /\ node'.queue # <<>> =>
              /\ node.queue # <<>>
              /\ Head(node'.queue).start = Head(node.queue).start + 1
              /\ node'.time <= node.time + 1
<1>1. /\ node \in Nodes(Files) /\ Len(node.queue) <= 1
      /\ Len(node.queue) \in Nat /\ due \in Nat
      /\ node.time \in 0..MaxTime
  BY NodeFields DEF TypeOK
<1>2. /\ node' = Rendered(node) /\ ~raised
      /\ due' = IF Consumes(node) THEN due + 1 ELSE due
      /\ UNCHANGED <<isPlaying, timer, currentTime, mainQueue, raised, started,
                     notified, crossed>>
  BY DEF Render, player, history
<1>3. /\ Rendered(node) \in Nodes(Files)
      /\ Rendered(node).playing = node.playing
      /\ node.time < MaxTime => Rendered(node).time = node.time + 1
      /\ node.queue = <<>> => Rendered(node).queue = <<>>
      /\ Consumes(node) => Len(Rendered(node).queue) = Len(node.queue) - 1
      /\ Consumes(node) /\ Len(node.queue) <= 1 => Rendered(node).queue = <<>>
      /\ node.queue # <<>> /\ ~Consumes(node)
           => /\ Rendered(node).queue # <<>>
              /\ Len(Rendered(node).queue) = Len(node.queue)
              /\ Head(Rendered(node).queue).start = Head(node.queue).start + 1
  BY <1>1, RenderedType, Zenon
<1>4. Rendered(node).time <= node.time + 1
  BY <1>1, <1>3, NodeFields, MaxTimeAssumption
<1>5. Len(node.queue) + due = Len(node'.queue) + due'
  <2>1. CASE Consumes(node)
    <3>1. Len(node'.queue) = Len(Rendered(node).queue) /\ due' = due + 1
      BY <1>2, <2>1
    <3>2. Len(Rendered(node).queue) = Len(node.queue) - 1
      BY <1>3, <2>1, Zenon
    <3>. DEFINE k == Len(node.queue)
                j == Len(node'.queue)
    <3>3. k \in Nat /\ due \in Nat /\ j = k - 1 /\ due' = due + 1
      BY <1>1, <3>1, <3>2
    <3>. HIDE DEF k, j
    <3>4. k + due = j + due'
      BY <3>3
    <3>. QED
      BY <3>4 DEF k, j
  <2>2. CASE ~Consumes(node)
    <3>1. node'.queue = Rendered(node).queue /\ due' = due
      BY <1>2, <2>2
    <3>2. Len(Rendered(node).queue) = Len(node.queue)
      BY <1>3, <2>2, Zenon
    <3>. QED
      BY <3>1, <3>2
  <2>. QED
    BY <2>1, <2>2
<1>. QED
  BY <1>1, <1>2, <1>3, <1>4, <1>5

(* A block of the main queue either is the end of a playback or starts a   *)
(* file.                                                                   *)
LEMMA MainBlockCases ==
  ASSUME TypeOK, mainBlock
  PROVE  \/ finishBlock /\ Head(mainQueue) = Finish
         \/ /\ startBlock /\ Head(mainQueue) # Finish
            /\ Head(mainQueue).file \in Files
            /\ playLocalAudio(Head(mainQueue).file)
<1>1. mainQueue \in Seq(Blocks) /\ mainQueue # <<>>
  BY DEF TypeOK, Blocks, mainBlock
<1>2. Head(mainQueue) \in Blocks
  BY <1>1, HeadTailProperties
<1>3. CASE finishBlock
  BY <1>3 DEF finishBlock
<1>4. CASE startBlock
  <2>1. \E f \in Files : Head(mainQueue) = Start(f)
    BY <1>2, <1>4 DEF startBlock, Blocks, Finish
  <2>. QED
    BY <1>4, <2>1, BlocksDiffer DEF startBlock
<1>. QED
  BY <1>3, <1>4 DEF mainBlock

-----------------------------------------------------------------------------
(* What is heard is shown as playing, with its timer, unless a late end    *)
(* crossed the next file: for all files and any number of calls.           *)
THEOREM HeardShown == Spec => []HeardIsShown
<1>1. Init => HeardIsShown
  BY DEF Init, HeardIsShown, StoppedNode
<1>2. TypeOK /\ HeardIsShown /\ [Next]_vars => HeardIsShown'
  <2>. SUFFICES ASSUME TypeOK, HeardIsShown, [Next]_vars PROVE HeardIsShown'
    OBVIOUS
  <2>0. ASSUME NEW f \in Files, playLocalAudio(f), UNCHANGED crossed
        PROVE  HeardIsShown'
    <3>1. \/ UNCHANGED <<isPlaying, timer, node, raised>>
          \/ ~raised' => isPlaying' /\ timer'
      BY <2>0, PlayLocalEffect, Zenon
    <3>. QED
      BY <2>0, <3>1 DEF HeardIsShown
  <2>1. ASSUME NEW f \in Files, playLocal(f) PROVE HeardIsShown'
    BY <2>0, <2>1 DEF playLocal
  <2>2. ASSUME NEW f \in Files, playRemoteAudio(f) PROVE HeardIsShown'
    BY <2>2 DEF playRemoteAudio, HeardIsShown, player, engine, history
  <2>3. ASSUME NEW f \in Files, Downloaded(f) PROVE HeardIsShown'
    BY <2>3 DEF Downloaded, HeardIsShown, player, engine, history
  <2>4. CASE play
    BY <2>4, PlayEffect DEF HeardIsShown
  <2>5. CASE pause
    <3>1. CASE isPlaying
      BY <2>5, <3>1 DEF pause, HeardIsShown, Pause
    <3>2. CASE ~isPlaying
      BY <2>5, <3>2 DEF pause, HeardIsShown, history
    <3>. QED
      BY <3>1, <3>2
  <2>6. CASE stop
    BY <2>6 DEF stop, HeardIsShown, StoppedNode
  <2>7. CASE updateProgress
    BY <2>7 DEF updateProgress, HeardIsShown, engine, history
  <2>8. CASE completionHandler
    BY <2>8 DEF completionHandler, HeardIsShown, player, engine, history
  <2>9. CASE mainBlock
    <3>1. CASE finishBlock
      <4>1. crossed' = (crossed \/ node.queue # <<>>) /\ node' = node
        BY <3>1 DEF finishBlock, engine
      <4>2. node'.queue # <<>> => crossed'
        BY <4>1, Zenon
      <4>. QED
        BY <4>2 DEF HeardIsShown
    <3>2. CASE startBlock /\ Head(mainQueue).file \in Files
               /\ playLocalAudio(Head(mainQueue).file)
      BY <2>0, <3>2 DEF startBlock
    <3>. QED
      BY <2>9, <3>1, <3>2, MainBlockCases
  <2>10. CASE Render
    BY <2>10, RenderEffect DEF HeardIsShown
  <2>11. CASE UNCHANGED vars
    BY <2>11 DEF vars, HeardIsShown, player, engine, history
  <2>. QED
    BY <2>1, <2>2, <2>3, <2>4, <2>5, <2>6, <2>7, <2>8, <2>9, <2>10, <2>11 DEF Next
<1>. QED
  BY <1>1, <1>2, TypeCorrect, PTL DEF Spec

-----------------------------------------------------------------------------
(* The time shown: the node's clock never runs ahead either.               *)

ClockBehind == node.queue # <<>> => node.time <= Head(node.queue).start

LEMMA StartType ==
  ASSUME TypeOK, node.queue # <<>>
  PROVE  Head(node.queue).start \in Nat /\ node.time \in Nat /\ currentTime \in Nat
<1>1. node.queue \in Seq(Stretches(Files)) /\ node.time \in 0..MaxTime
      /\ currentTime \in 0..MaxTime
  BY NodeFields DEF TypeOK
<1>2. Head(node.queue) \in Stretches(Files)
  BY <1>1, HeadTailProperties
<1>. QED
  BY <1>1, <1>2, MaxTimeAssumption DEF Stretches

(* The time shown never runs ahead of what was heard of the file.          *)
THEOREM TimeBehindSound == Spec => []NeverAheadOfSound
<1>. DEFINE IInv == ClockBehind /\ NeverAheadOfSound
            Kept == UNCHANGED <<node, currentTime>>
<1>1. Init => IInv
  BY DEF Init, ClockBehind, NeverAheadOfSound, StoppedNode
<1>2. TypeOK /\ IInv /\ [Next]_vars => IInv'
  <2>. SUFFICES ASSUME TypeOK, IInv, [Next]_vars PROVE IInv'
    OBVIOUS
  <2>1. Kept => IInv'
    BY DEF ClockBehind, NeverAheadOfSound
  <2>2. ASSUME NEW f \in Files, playLocalAudio(f) PROVE IInv'
    <3>1. \/ Kept
          \/ /\ currentTime' = 0 /\ node'.time = 0
             /\ Head(node'.queue).start = 0
      BY <2>2, PlayLocalEffect, Zenon
    <3>2. CASE /\ currentTime' = 0 /\ node'.time = 0
               /\ Head(node'.queue).start = 0
      BY <3>2 DEF ClockBehind, NeverAheadOfSound
    <3>. QED
      BY <2>1, <3>1, <3>2
  <2>3. ASSUME NEW f \in Files, playLocal(f) PROVE IInv'
    BY <2>2, <2>3 DEF playLocal
  <2>4. ASSUME NEW f \in Files, playRemoteAudio(f) \/ Downloaded(f) PROVE Kept
    BY <2>4 DEF playRemoteAudio, Downloaded, player, engine
  <2>5. CASE play
    BY <2>5, PlayEffect DEF ClockBehind, NeverAheadOfSound
  <2>6. CASE pause
    <3>1. /\ node'.queue = node.queue /\ node'.time = node.time
          /\ currentTime' = currentTime
      BY <2>6, PlayPauseType DEF pause, TypeOK
    <3>. QED
      BY <3>1 DEF ClockBehind, NeverAheadOfSound
  <2>7. CASE stop
    BY <2>7 DEF stop, StoppedNode, ClockBehind, NeverAheadOfSound
  <2>8. CASE updateProgress
    BY <2>8 DEF updateProgress, engine, ClockBehind, NeverAheadOfSound
  <2>9. CASE completionHandler
    BY <2>1, <2>9 DEF completionHandler, player, engine
  <2>10. CASE mainBlock
    <3>1. CASE finishBlock
      BY <2>1, <3>1 DEF finishBlock, engine
    <3>2. CASE Head(mainQueue).file \in Files
               /\ playLocalAudio(Head(mainQueue).file)
      BY <2>2, <3>2
    <3>. QED
      BY <2>10, <3>1, <3>2, MainBlockCases
  <2>11. CASE Render
    <3>. SUFFICES ASSUME node'.queue # <<>>
                  PROVE  /\ node'.time <= Head(node'.queue).start
                         /\ currentTime' <= Head(node'.queue).start
      BY DEF ClockBehind, NeverAheadOfSound
    <3>1. /\ node.queue # <<>> /\ currentTime' = currentTime
          /\ Head(node'.queue).start = Head(node.queue).start + 1
          /\ node'.time <= node.time + 1
      BY <2>11, RenderEffect, Zenon
    <3>2. /\ Head(node.queue).start \in Nat /\ node.time \in Nat
          /\ currentTime \in Nat
          /\ node.time <= Head(node.queue).start
          /\ currentTime <= Head(node.queue).start
      BY <3>1, StartType DEF ClockBehind, NeverAheadOfSound
    <3>3. node' \in Nodes(Files)
      BY StepTyped DEF TypeOK
    <3>4. node'.time \in Nat
      BY <3>3, NodeFields, MaxTimeAssumption
    <3>. QED
      BY <3>1, <3>2, <3>4
  <2>12. CASE UNCHANGED vars
    BY <2>1, <2>12 DEF vars, player, engine
  <2>. HIDE DEF IInv, Kept
  <2>. QED
    BY <2>1, <2>3, <2>4, <2>5, <2>6, <2>7, <2>8, <2>9, <2>10, <2>11, <2>12 DEF Next
<1>. QED
  BY <1>1, <1>2, TypeCorrect, PTL DEF Spec

-----------------------------------------------------------------------------
(* Each end is counted once on its way from the node to the observers.     *)

(* A player that says it plays has an end on its way, unless play was      *)
(* called where there was none.                                            *)
EndAhead == isPlaying /\ ~raised => replayed \/ EndsToCome > 0

LEMMA EndsKept == Spec => [](EachEndsOnce /\ EndAhead)
<1>. DEFINE F(q) == Cardinality(Places(q, Finish))
            L == Len(node.queue)
            IInv == /\ raised \/ started = notified + L + due + F(mainQueue)
                    /\ isPlaying /\ ~raised
                         => replayed \/ L + due + F(mainQueue) > 0
<1>1. TypeOK /\ IInv => EachEndsOnce /\ EndAhead
  <2>. SUFFICES ASSUME TypeOK, IInv PROVE EachEndsOnce /\ EndAhead
    OBVIOUS
  <2>1. L \in Nat /\ F(mainQueue) \in Nat
        /\ due \in Nat /\ notified \in Nat
    BY NodeFields, PlacesFinite DEF TypeOK
  <2>2. EndsToCome = L + due + F(mainQueue)
    BY DEF EndsToCome, FinishesQueued, Places
  <2>. HIDE DEF L, F
  <2>3. notified + L + due + F(mainQueue) = notified + (L + due + F(mainQueue))
    BY <2>1
  <2>. QED
    BY <2>2, <2>3 DEF EachEndsOnce, EndAhead
<1>2. Init => IInv
  <2>1. Places(<<>>, Finish) = {}
    <3>1. Len(<<>>) = 0
      BY EmptySeq
    <3>. QED
      BY <3>1 DEF Places
  <2>2. F(<<>>) = 0
    BY <2>1, FS_EmptySet
  <2>3. Len(StoppedNode.queue) = 0
    BY EmptySeq DEF StoppedNode
  <2>. HIDE DEF F
  <2>. QED
    BY <2>2, <2>3 DEF Init
<1>3. TypeOK /\ IInv /\ [Next]_vars => IInv'
  <2>. DEFINE k == Len(node.queue)
              j == Len(node'.queue)
              m == F(mainQueue)
              n == F(mainQueue')
              Goal == /\ raised' \/ started' = notified' + j + due' + n
                      /\ isPlaying' /\ ~raised'
                           => replayed' \/ j + due' + n > 0
  <2>. SUFFICES ASSUME TypeOK, IInv, [Next]_vars PROVE Goal
    OBVIOUS
  <2>1. /\ raised \/ started = notified + k + due + m
        /\ isPlaying /\ ~raised => replayed \/ k + due + m > 0
    OBVIOUS
  <2>2. /\ k \in Nat /\ j \in Nat /\ due \in Nat /\ due' \in Nat
        /\ started \in Nat /\ notified \in Nat
        /\ mainQueue \in Seq(Blocks) /\ m \in Nat
    <3>1. TypeOK'
      BY StepTyped
    <3>. QED
      BY <3>1, NodeFields, PlacesFinite DEF TypeOK, Blocks
  <2>3. \A e \in Blocks : F(Append(mainQueue, e)) =
                           m + (IF e = Finish THEN 1 ELSE 0)
    BY <2>2, PlacesAppend
  <2>4. mainQueue # <<>> => F(Tail(mainQueue)) =
                m - (IF Head(mainQueue) = Finish THEN 1 ELSE 0)
    BY <2>2, PlacesTail
  <2>5. /\ node' = node => j = k
        /\ node'.queue = node.queue => j = k
        /\ mainQueue' = mainQueue => n = m
        /\ \A q : mainQueue' = q => n = F(q)
    OBVIOUS
  <2>. HIDE DEF F
  <2>6. ASSUME NEW f \in Files, playLocalAudio(f)
        PROVE  \/ j = k /\ UNCHANGED <<due, started, isPlaying, replayed>>
               \/ j = 1 /\ due' = due + k /\ started' = started + 1
    BY <2>6, PlayLocalEffect, Zenon
  <2>7. ASSUME play \/ pause PROVE j = k
    BY <2>5, <2>7, PlayEffect, PlayPauseType DEF pause, TypeOK
  <2>8. CASE stop
    <3>1. Len(StoppedNode.queue) = 0
      BY EmptySeq DEF StoppedNode
    <3>2. j = 0 /\ due' = due + k /\ ~raised /\ ~isPlaying'
          /\ UNCHANGED <<mainQueue, started, notified>>
      BY <2>8, <3>1 DEF stop, CutShort, UserCall, history
    <3>. HIDE DEF j, k, m, n
    <3>. QED
      BY <2>1, <2>2, <2>5, <3>2
  <2>9. CASE Render
    <3>1. /\ ~raised /\ UNCHANGED <<mainQueue, started, notified>>
          /\ k + due = j + due'
      BY <2>9, RenderEffect, Zenon
    <3>2. n = m /\ UNCHANGED <<isPlaying, raised, replayed>>
      BY <2>5, <2>9, <3>1 DEF Render, player, history
    <3>. HIDE DEF j, k, m, n
    <3>3. started = notified + (k + due) + m
      BY <2>1, <2>2, <3>1
    <3>4. started = notified + (j + due') + n
      BY <3>1, <3>2, <3>3
    <3>5. started' = notified' + j + due' + n
      BY <2>2, <3>1, <3>2, <3>4
    <3>6. k + due + m = j + due' + n
      BY <3>1, <3>2
    <3>. QED
      BY <2>1, <3>2, <3>5, <3>6
  <2>10. ASSUME NEW f \in Files, Downloaded(f) PROVE n = m
    <3>1. Start(f) \in Blocks /\ Start(f) # Finish
      BY BlocksDiffer DEF Blocks
    <3>2. F(Append(mainQueue, Start(f))) = m
      BY <2>2, <2>3, <3>1
    <3>3. mainQueue' = mainQueue \/ mainQueue' = Append(mainQueue, Start(f))
      BY <2>10 DEF Downloaded
    <3>. QED
      BY <2>5, <3>2, <3>3
  <2>11. ASSUME completionHandler PROVE n = m + 1
    BY <2>3, <2>5, <2>11 DEF completionHandler, Blocks
  <2>12. ASSUME mainBlock
         PROVE  n = m - (IF Head(mainQueue) = Finish THEN 1 ELSE 0)
    BY <2>4, <2>5, <2>12 DEF mainBlock
  <2>. HIDE DEF j, k, m, n
  <2>13. ASSUME NEW f \in Files, playLocalAudio(f), UNCHANGED notified, ~raised,
                n = m
         PROVE  Goal
    <3>1. CASE j = k /\ UNCHANGED <<due, started, isPlaying, replayed>>
      BY <2>1, <2>2, <2>13, <3>1
    <3>2. CASE j = 1 /\ due' = due + k /\ started' = started + 1
      <4>1. started' = notified' + j + due' + n
        BY <2>1, <2>2, <2>13, <3>2
      <4>2. j + due' + n > 0
        BY <2>2, <2>13, <3>2
      <4>. QED
        BY <4>1, <4>2
    <3>. QED
      BY <2>6, <2>13, <3>1, <3>2
  <2>14. ASSUME UNCHANGED <<due, started, notified>>, j = k, n = m, ~raised,
                isPlaying' => isPlaying /\ UNCHANGED replayed
         PROVE  Goal
    BY <2>1, <2>2, <2>14
  <2>15. ASSUME NEW f \in Files, playLocal(f) PROVE Goal
    BY <2>5, <2>13, <2>15 DEF playLocal, UserCall
  <2>16. ASSUME NEW f \in Files, playRemoteAudio(f) PROVE Goal
    BY <2>5, <2>14, <2>16 DEF playRemoteAudio, UserCall, player, engine, history
  <2>17. ASSUME NEW f \in Files, Downloaded(f) PROVE Goal
    BY <2>5, <2>10, <2>14, <2>17 DEF Downloaded, player, engine, history
  <2>18. CASE play
    <3>1. /\ ~raised /\ j = k /\ n = m
          /\ UNCHANGED <<due, started, notified>>
      BY <2>5, <2>7, <2>18, PlayEffect DEF play, UserCall, pending
    <3>2. CASE isPlaying
      BY <2>14, <2>18, <3>1, <3>2 DEF play
    <3>3. CASE ~isPlaying
      <4>1. replayed' <=> EndsToCome = 0
        BY <2>18, <3>3 DEF play
      <4>2. EndsToCome = k + due + m
        BY DEF EndsToCome, FinishesQueued, Places, k, m, F
      <4>3. k + due + m = j + due' + n
        BY <3>1
      <4>4. ~replayed' => j + due' + n > 0
        BY <2>2, <4>1, <4>2, <4>3
      <4>5. started' = notified' + j + due' + n
        BY <2>1, <2>2, <3>1
      <4>. QED
        BY <4>4, <4>5
    <3>. QED
      BY <3>2, <3>3
  <2>19. CASE pause
    BY <2>5, <2>7, <2>14, <2>19 DEF pause, UserCall, pending, history
  <2>20. CASE updateProgress
    BY <2>5, <2>14, <2>20 DEF updateProgress, engine, pending, history, player
  <2>21. CASE completionHandler
    <3>1. /\ ~raised /\ due' = due - 1 /\ j = k
          /\ UNCHANGED <<started, notified, isPlaying, raised, replayed>>
      BY <2>5, <2>21 DEF completionHandler, player, engine, history
    <3>. QED
      BY <2>1, <2>2, <2>11, <2>21, <3>1
  <2>22. CASE mainBlock
    <3>1. CASE finishBlock /\ Head(mainQueue) = Finish
      <4>1. /\ ~raised /\ notified' = notified + 1 /\ ~isPlaying'
            /\ UNCHANGED <<node, due, started>>
        BY <2>22, <3>1, Zenon DEF mainBlock, finishBlock, engine
      <4>2. n = m - 1
        BY <2>12, <2>22, <3>1
      <4>. QED
        BY <2>1, <2>2, <2>5, <4>1, <4>2
    <3>2. CASE /\ startBlock /\ Head(mainQueue) # Finish
               /\ Head(mainQueue).file \in Files
               /\ playLocalAudio(Head(mainQueue).file)
      <4>1. n = m
        BY <2>2, <2>12, <2>22, <3>2
      <4>. QED
        BY <2>13, <2>22, <3>2, <4>1 DEF startBlock, mainBlock
    <3>. QED
      BY <2>22, <3>1, <3>2, MainBlockCases
  <2>23. CASE UNCHANGED vars
    BY <2>1, <2>2, <2>5, <2>23 DEF vars, player, engine, pending, history
  <2>. HIDE DEF Goal
  <2>. QED
    BY <2>8, <2>9, <2>15, <2>16, <2>17, <2>18, <2>19, <2>20, <2>21, <2>22, <2>23
       DEF Next
<1>. HIDE DEF IInv
<1>. QED
  BY <1>1, <1>2, <1>3, TypeCorrect, PTL DEF Spec

(* Every playback that was scheduled posts its end exactly once, whatever  *)
(* is stopped, replaced or paused.                                         *)
THEOREM EndsOnce == Spec => []EachEndsOnce
<1>. QED
  BY EndsKept, PTL

-----------------------------------------------------------------------------
(* A player that says it plays has a node that does and an engine that     *)
(* renders it.                                                             *)
Running == isPlaying /\ ~raised => running /\ node.playing

LEMMA PlayNodeRuns ==
  ASSUME NEW n \in Nodes(Files), NEW clash \in BOOLEAN, PlayNode(n, clash),
         ~raised'
  PROVE  running' /\ node'.playing
<1>1. running' /\ node' = Play(n)
  BY Zenon DEF PlayNode
<1>. QED
  BY <1>1 DEF Play

LEMMA RunningKept == Spec => []Running
<1>1. Init => Running
  BY DEF Init, Running
<1>2. TypeOK /\ Running /\ [Next]_vars => Running'
  <2>. SUFFICES ASSUME TypeOK, Running, [Next]_vars
                PROVE  Running'
    OBVIOUS
  <2>0. ASSUME UNCHANGED <<isPlaying, running, raised>>,
               node'.playing = node.playing
        PROVE  Running'
    BY <2>0 DEF Running
  <2>1. ASSUME NEW f \in Files, playLocalAudio(f) PROVE Running'
    <3>1. CASE ReadFails
      BY <2>0, <3>1 DEF ReadFails, engine
    <3>2. CASE ~ReadFails
      <4>. DEFINE s == Stretch(f, 0, Length[f])
                  n == Schedule(StoppedNode, s)
      <4>1. RenewTap /\ PlayNode(n, SecondTap)
        BY <2>1, <3>2, Zenon DEF playLocalAudio
      <4>2. s \in Stretches(Files)
        BY FilesAssumption, StretchType
      <4>3. StoppedNode \in Nodes(Files)
        BY StoppedNodeType
      <4>. HIDE DEF s
      <4>4. n \in Nodes(Files)
        BY <4>2, <4>3, ScheduleType, Zenon
      <4>. HIDE DEF n
      <4>5. SecondTap \in BOOLEAN
        <5>1. tap \in BOOLEAN /\ isTapInstalled \in BOOLEAN
              /\ isTapInstalled' \in BOOLEAN
          BY <4>1 DEF TypeOK, RenewTap
        <5>. QED
          BY <5>1, Zenon DEF SecondTap
      <4>6. ~raised' => running' /\ node'.playing
        BY <4>1, <4>4, <4>5, PlayNodeRuns
      <4>. QED
        BY <4>6 DEF Running
    <3>. QED
      BY <3>1, <3>2
  <2>2. ASSUME NEW f \in Files, playLocal(f) PROVE Running'
    BY <2>1, <2>2 DEF playLocal
  <2>3. ASSUME NEW f \in Files, playRemoteAudio(f) \/ Downloaded(f)
        PROVE  Running'
    BY <2>0, <2>3 DEF playRemoteAudio, Downloaded, player, engine
  <2>4. CASE play
    <3>1. CASE isPlaying
      BY <2>0, <2>4, <3>1 DEF play
    <3>2. CASE ~isPlaying
      <4>1. PlayNode(node, FALSE) /\ node \in Nodes(Files)
        BY <2>4, <3>2 DEF play, TypeOK
      <4>2. ~raised' => running' /\ node'.playing
        BY <4>1, PlayNodeRuns
      <4>. QED
        BY <4>2 DEF Running
    <3>. QED
      BY <3>1, <3>2
  <2>5. CASE pause
    BY <2>5 DEF pause, Running
  <2>6. CASE stop
    BY <2>6 DEF stop, Running
  <2>7. CASE updateProgress \/ completionHandler
    BY <2>0, <2>7 DEF updateProgress, completionHandler, player, engine
  <2>8. CASE mainBlock
    <3>1. CASE finishBlock
      BY <3>1 DEF finishBlock, Running
    <3>2. CASE Head(mainQueue).file \in Files
               /\ playLocalAudio(Head(mainQueue).file)
      BY <2>1, <3>2
    <3>. QED
      BY <2>8, <3>1, <3>2, MainBlockCases
  <2>9. CASE Render
    BY <2>0, <2>9, RenderEffect DEF Render, player
  <2>10. CASE UNCHANGED vars
    BY <2>0, <2>10 DEF vars, player, engine
  <2>. QED
    BY <2>2, <2>3, <2>4, <2>5, <2>6, <2>7, <2>8, <2>9, <2>10 DEF Next
<1>. QED
  BY <1>1, <1>2, TypeCorrect, PTL DEF Spec

(* A player that says it plays has a node and an engine that do, and an    *)
(* end that will clear the flag is queued or on its way, unless play was   *)
(* called where there was none: the safety behind PlaybackEnds.            *)
ShownIsRunning ==
  isPlaying /\ ~raised =>
    /\ running /\ node.playing
    /\ replayed \/ EndsToCome > 0

THEOREM ShownRuns == Spec => []ShownIsRunning
<1>1. Running /\ EndAhead => ShownIsRunning
  BY DEF Running, EndAhead, ShownIsRunning
<1>. QED
  BY <1>1, RunningKept, EndsKept, PTL

=============================================================================
