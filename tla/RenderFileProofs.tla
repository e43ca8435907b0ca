--------------------------- MODULE RenderFileProofs ---------------------------
(***************************************************************************)
(* Theorems about RenderFile, for files, buffers and blocks of every       *)
(* length and every sequence of requests and reads: the order of what is   *)
(* heard, the silence at the end, and the frames a callback may lose.      *)
(***************************************************************************)
EXTENDS RenderFile, FiniteSetTheorems, TLAPS

(* Where a method's control can be, and what its buffer then holds.        *)
ControlInv ==
  /\ pc = "drain" => method = "playFile00"
  /\ pc = "direct" => method = "playFile3"
  /\ pc \in {"fill", "block"} => method \in {"playFile0", "playFile00"}
  /\ pc \in {"read", "cut", "ended"} <=> method = "playFile"
  /\ pc \in {"fill", "direct"} => front.count = 0
  /\ method = "playFile3" => front.count = 0
  /\ method \in {"playFile0", "playFile"} => front.start + front.count = filePos

(* What was heard lies before what comes next.                             *)
OrderInv ==
  /\ ~repeated
  /\ \A f \in heard : f < Position

LEMMA AtMostBounds ==
  ASSUME NEW n \in Nat, NEW limit \in Nat
  PROVE  /\ AtMost(n, limit) \in Nat
         /\ AtMost(n, limit) <= n /\ AtMost(n, limit) <= limit
         /\ n > 0 /\ limit > 0 => AtMost(n, limit) > 0
BY DEF AtMost

(* What a read returns fits the file and what was asked for.               *)
LEMMA ReadsBounds ==
  ASSUME TypeOK, NEW n \in Nat, NEW k \in Reads(n)
  PROVE  /\ k \in Nat /\ k <= n
         /\ filePos + k \in 0..Length
BY SizesAssumption DEF TypeOK, Reads, AtMost

(* A block takes at least one frame and at most the buffer; what is copied *)
(* of it is at least one frame and fits the output.                        *)
LEMMA BlockBounds ==
  ASSUME TypeOK, pc = "block"
  PROVE  /\ Taken \in Nat /\ Taken > 0
         /\ Taken <= front.count /\ Taken <= framePer10ms
         /\ Copied \in Nat /\ Copied > 0
         /\ Copied <= Taken /\ Copied <= framesRemaining
         /\ Processed \in Nat /\ Processed <= Taken
         /\ Copied < Taken => Copied = framesRemaining
<1>1. /\ front.count \in Nat \ {0} /\ framePer10ms \in Nat \ {0}
      /\ framesRemaining \in Nat \ {0} /\ Block10ms \in Nat
  BY SizesAssumption DEF TypeOK
<1>2. /\ Taken \in Nat /\ Taken > 0
      /\ Taken <= front.count /\ Taken <= framePer10ms
  BY <1>1 DEF Taken, AtMost
<1>3. /\ Copied \in Nat /\ Copied > 0
      /\ Copied <= Taken /\ Copied <= framesRemaining
      /\ Copied < Taken => Copied = framesRemaining
  BY <1>1, <1>2 DEF Copied, AtMost
<1>4. Processed \in Nat /\ Processed <= Taken
  BY <1>1, <1>2 DEF Processed, AtMost
<1>. QED
  BY <1>2, <1>3, <1>4

LEMMA SpanInFile ==
  ASSUME NEW first \in Nat, NEW n \in Nat, first + n <= Length
  PROVE  Span(first, n) \subseteq 0..(Length - 1)
BY SizesAssumption DEF Span

Given == denoised \cup refused

LEMMA ProcessStreamGives ==
  ASSUME TypeOK, NEW frames \in SUBSET (0..(Length - 1)), ProcessStream(frames)
  PROVE  /\ Given' = Given \cup frames
         /\ denoised' \subseteq 0..(Length - 1)
         /\ refused' \subseteq 0..(Length - 1)
BY DEF TypeOK, ProcessStream, Given

LEMMA InitType == Init => TypeOK /\ ControlInv
<1>. SUFFICES ASSUME Init PROVE TypeOK /\ ControlInv
  OBVIOUS
<1>1. front \in [start : 0..Length, count : 0..ReadSize]
  BY SizesAssumption DEF Init, NoBuffer
<1>2. framePer10ms \in Roundings \cup {Block10ms}
  BY DEF Init
<1>3. repeated \in BOOLEAN /\ failed \in BOOLEAN
  BY DEF Init
<1>4. front.start = 0 /\ front.count = 0
  BY DEF Init, NoBuffer
<1>. QED
  BY <1>1, <1>2, <1>3, <1>4, SizesAssumption, MethodsAssumption
     DEF Init, TypeOK, ControlInv

LEMMA NextType == TypeOK /\ ControlInv /\ [Next]_vars => TypeOK' /\ ControlInv'
<1>. SUFFICES ASSUME TypeOK, ControlInv, [Next]_vars
              PROVE  TypeOK' /\ ControlInv'
  OBVIOUS
<1>1. ASSUME NEW n \in Requests, renderBlock(n)
      PROVE  TypeOK' /\ ControlInv'
  <2>1. n \in Nat \ {0}
    BY SizesAssumption
  <2>2. method \in {"playFile0", "playFile00", "playFile3"}
    BY <1>1, MethodsAssumption DEF renderBlock, TypeOK, ControlInv
  <2>3. Position \in 0..Length
    BY SizesAssumption DEF TypeOK, Position
  <2>4. \/ method = "playFile0" /\ pc' = Refill(front)
        \/ method = "playFile00" /\ pc' = "drain"
        \/ method = "playFile3" /\ pc' = "direct"
    BY <1>1, <2>2 DEF renderBlock
  <2>5. failed' \in BOOLEAN /\ repeated' \in BOOLEAN
    BY <1>1 DEF renderBlock, TypeOK
  <2>6. /\ framesRemaining' = n /\ before' = Position
        /\ UNCHANGED <<source, filePos, front, heard, denoised, refused>>
    BY <1>1 DEF renderBlock
  <2>. QED
    BY <2>1, <2>2, <2>3, <2>4, <2>5, <2>6
       DEF TypeOK, ControlInv, Refill, source
<1>2. ASSUME Drain PROVE TypeOK' /\ ControlInv'
  <2>1. PICK k \in Reads(ReadSize) :
          /\ filePos' = filePos + k
          /\ pc' = IF k = 0 THEN Refill(front) ELSE "drain"
          /\ NoteFailure(k)
    BY <1>2 DEF Drain
  <2>2. k \in Nat /\ filePos + k \in 0..Length
    BY <2>1, ReadsBounds, SizesAssumption
  <2>3. failed' \in BOOLEAN
    BY <2>1 DEF NoteFailure, TypeOK
  <2>4. method = "playFile00" /\ framesRemaining' = framesRemaining
    BY <1>2 DEF Drain, ControlInv
  <2>. QED
    BY <1>2, <2>1, <2>2, <2>3, <2>4
       DEF Drain, TypeOK, ControlInv, Refill, source
<1>3. ASSUME Fill PROVE TypeOK' /\ ControlInv'
  <2>1. PICK k \in Reads(ReadSize) :
          /\ filePos' = filePos + k
          /\ front' = [start |-> filePos, count |-> k]
          /\ pc' = IF k = 0 THEN "idle" ELSE "block"
          /\ NoteFailure(k)
    BY <1>3 DEF Fill
  <2>2. k \in 0..ReadSize /\ filePos + k \in 0..Length
    BY <2>1, ReadsBounds, SizesAssumption
  <2>3. failed' \in BOOLEAN
    BY <2>1 DEF NoteFailure, TypeOK
  <2>. QED
    BY <1>3, <2>1, <2>2, <2>3, SizesAssumption
       DEF Fill, TypeOK, ControlInv, source
<1>4. ASSUME Block PROVE TypeOK' /\ ControlInv'
  <2>1. pc = "block" /\ front.count > 0
    BY <1>4 DEF Block, TypeOK
  <2>2. /\ Taken \in Nat /\ Taken <= front.count
        /\ Copied \in Nat /\ Copied <= Taken /\ Copied <= framesRemaining
        /\ Processed \in Nat /\ Processed <= Taken
    BY <2>1, BlockBounds
  <2>3. /\ front.start + Copied <= Length
        /\ front.start + Processed <= Length
        /\ front.start \in Nat
    BY <2>2, SizesAssumption DEF TypeOK
  <2>4. /\ heard' \subseteq 0..(Length - 1)
        /\ denoised' \subseteq 0..(Length - 1)
        /\ refused' \subseteq 0..(Length - 1)
    <3>1. /\ Span(front.start, Copied) \subseteq 0..(Length - 1)
          /\ Span(front.start, Processed) \in SUBSET (0..(Length - 1))
      BY <2>2, <2>3, SpanInFile
    <3>2. ProcessStream(Span(front.start, Processed))
          /\ heard' = heard \cup Span(front.start, Copied)
      BY <1>4 DEF Block
    <3>. QED
      BY <3>1, <3>2, ProcessStreamGives DEF TypeOK
  <2>5. /\ front' \in [start : 0..Length, count : 0..ReadSize]
        /\ front'.start + front'.count = front.start + front.count
    BY <1>4, <2>2, SizesAssumption DEF Block, AfterBlock, TypeOK
  <2>6. /\ framesRemaining' \in Nat
        /\ pc' = IF framesRemaining' = 0 THEN "idle" ELSE Refill(front')
    BY <1>4, <2>2 DEF Block, TypeOK
  <2>7. repeated' \in BOOLEAN
    BY <1>4 DEF Block, TypeOK
  <2>8. method \in {"playFile0", "playFile00"}
    BY <2>1 DEF ControlInv
  <2>. QED
    BY <1>4, <2>4, <2>5, <2>6, <2>7, <2>8
       DEF Block, TypeOK, ControlInv, source, Refill
<1>5. ASSUME Direct PROVE TypeOK' /\ ControlInv'
  <2>1. PICK k \in Reads(framesRemaining) :
          /\ filePos' = filePos + k
          /\ heard' = heard \cup Span(filePos, k)
          /\ ProcessStream(Span(filePos, k - (k % Block10ms)))
          /\ repeated' = (repeated \/ \E f \in heard : f >= filePos)
          /\ framesRemaining' = framesRemaining - k
          /\ NoteFailure(k)
    BY <1>5 DEF Direct
  <2>2. framesRemaining \in Nat
    BY DEF TypeOK
  <2>3. k \in Nat /\ k <= framesRemaining /\ filePos + k \in 0..Length
    BY <2>1, <2>2, ReadsBounds
  <2>4. k % Block10ms \in Nat /\ k % Block10ms <= k
    BY <2>3, SizesAssumption
  <2>5. /\ heard' \subseteq 0..(Length - 1)
        /\ denoised' \subseteq 0..(Length - 1)
        /\ refused' \subseteq 0..(Length - 1)
    <3>1. /\ filePos \in Nat /\ k - (k % Block10ms) \in Nat
          /\ filePos + k <= Length /\ filePos + (k - (k % Block10ms)) <= Length
      BY <2>3, <2>4, SizesAssumption DEF TypeOK
    <3>2. /\ Span(filePos, k) \subseteq 0..(Length - 1)
          /\ Span(filePos, k - (k % Block10ms)) \in SUBSET (0..(Length - 1))
      BY <2>3, <3>1, SpanInFile
    <3>. QED
      BY <2>1, <3>2, ProcessStreamGives DEF TypeOK
  <2>6. repeated' \in BOOLEAN /\ failed' \in BOOLEAN
    BY <2>1 DEF NoteFailure, TypeOK
  <2>7. method = "playFile3" /\ pc' = "idle" /\ front' = front
    BY <1>5 DEF Direct, ControlInv
  <2>. QED
    BY <1>5, <2>1, <2>3, <2>5, <2>6, <2>7
       DEF Direct, TypeOK, ControlInv, source
<1>6. ASSUME Read PROVE TypeOK' /\ ControlInv'
  <2>1. PICK k \in Reads(ReadSize) :
          /\ filePos' = filePos + k
          /\ front' = [start |-> filePos, count |-> k]
          /\ pc' = IF k = 0 THEN "ended" ELSE "cut"
          /\ NoteFailure(k)
    BY <1>6 DEF Read
  <2>2. k \in 0..ReadSize /\ filePos + k \in 0..Length
    BY <2>1, ReadsBounds, SizesAssumption
  <2>3. failed' \in BOOLEAN
    BY <2>1 DEF NoteFailure, TypeOK
  <2>4. method = "playFile"
    BY <1>6 DEF Read, ControlInv
  <2>. QED
    BY <1>6, <2>1, <2>2, <2>3, <2>4, SizesAssumption
       DEF Read, TypeOK, ControlInv, source
<1>7. ASSUME Cut PROVE TypeOK' /\ ControlInv'
  <2>1. method = "playFile" /\ pc = "cut"
    BY <1>7 DEF Cut, ControlInv
  <2>2. CASE front.count < Block10ms
    <3>1. /\ front' = [start |-> front.start + front.count, count |-> 0]
          /\ pc' = "read" /\ heard' = heard /\ denoised' = denoised
          /\ refused' = refused /\ repeated' = repeated
      BY <1>7, <2>2 DEF Cut
    <3>2. /\ front' \in [start : 0..Length, count : 0..ReadSize]
          /\ front'.start + front'.count = filePos
      BY <2>1, <3>1, SizesAssumption DEF TypeOK, ControlInv
    <3>. QED
      BY <1>7, <2>1, <3>1, <3>2 DEF Cut, TypeOK, ControlInv, source
  <2>3. CASE ~(front.count < Block10ms)
    <3>1. /\ front.start \in Nat /\ Block10ms \in Nat \ {0}
          /\ front.start + Block10ms <= Length
      BY <2>3, SizesAssumption DEF TypeOK
    <3>2. Span(front.start, Block10ms) \in SUBSET (0..(Length - 1))
      BY <3>1, SpanInFile
    <3>3. /\ heard' = heard \cup Span(front.start, Block10ms)
          /\ denoised' \subseteq 0..(Length - 1)
          /\ refused' \subseteq 0..(Length - 1)
          /\ repeated' \in BOOLEAN
      BY <1>7, <2>3, <3>2, ProcessStreamGives DEF Cut, TypeOK
    <3>4. /\ front' \in [start : 0..Length, count : 0..ReadSize]
          /\ front'.start + front'.count = front.start + front.count
      BY <1>7, <2>3, SizesAssumption DEF Cut, TypeOK
    <3>. QED
      BY <1>7, <2>1, <2>3, <3>2, <3>3, <3>4
         DEF Cut, TypeOK, ControlInv, source
  <2>. QED
    BY <2>2, <2>3
<1>8. ASSUME UNCHANGED vars PROVE TypeOK' /\ ControlInv'
  BY <1>8 DEF vars, source, block, history, TypeOK, ControlInv
<1>. QED
  BY <1>1, <1>2, <1>3, <1>4, <1>5, <1>6, <1>7, <1>8 DEF Next, Step

(* The state is well typed: in particular a position never leaves the      *)
(* file, and a callback never outputs more than it was asked for.          *)
THEOREM TypeCorrect == Spec => []TypeOK
<1>. QED
  BY InitType, NextType, PTL DEF Spec

LEMMA ControlCorrect == Spec => [](TypeOK /\ ControlInv)
<1>. QED
  BY InitType, NextType, PTL DEF Spec

LEMMA NextOrder ==
  TypeOK /\ ControlInv /\ OrderInv /\ [Next]_vars => OrderInv'
<1>. SUFFICES ASSUME TypeOK, ControlInv, OrderInv, [Next]_vars
              PROVE  OrderInv'
  OBVIOUS
<1>. USE DEF OrderInv, Position
<1>0. /\ front.start \in Nat /\ front.count \in Nat /\ filePos \in Nat
      /\ front.start + front.count <= filePos
      /\ heard \subseteq Nat
  BY SizesAssumption DEF TypeOK
<1>1. ASSUME NEW n \in Requests, renderBlock(n) PROVE OrderInv'
  BY <1>1 DEF renderBlock
<1>2. ASSUME Drain PROVE OrderInv'
  <2>1. filePos' >= filePos /\ filePos' \in Nat
    BY <1>2, <1>0, ReadsBounds, SizesAssumption DEF Drain
  <2>. QED
    BY <1>0, <1>2, <2>1 DEF Drain
<1>3. ASSUME Fill \/ Read PROVE OrderInv'
  <2>1. /\ front'.start = filePos /\ front'.count \in Nat
        /\ filePos' >= filePos /\ filePos' \in Nat
    BY <1>3, <1>0, ReadsBounds, SizesAssumption DEF Fill, Read
  <2>2. heard' = heard /\ repeated' = repeated
    BY <1>3 DEF Fill, Read
  <2>3. \A f \in heard : f < filePos
    BY <1>0
  <2>. QED
    BY <1>0, <2>1, <2>2, <2>3
<1>4. ASSUME Block PROVE OrderInv'
  <2>1. pc = "block" /\ front.count > 0
    BY <1>4 DEF Block, TypeOK
  <2>2. /\ Taken \in Nat /\ Taken <= front.count
        /\ Copied \in Nat /\ Copied <= Taken
    BY <2>1, BlockBounds
  <2>3. \A f \in heard : f < front.start
    BY <2>1
  <2>4. ~repeated'
    <3>1. ~ \E f \in heard : f >= front.start
      BY <1>0, <2>3
    <3>2. repeated' = (repeated \/ \E f \in heard : f >= front.start)
      BY <1>4 DEF Block
    <3>. QED
      BY <3>1, <3>2, Zenon
  <2>5. \A f \in heard' : f < front.start + Taken
    BY <1>0, <1>4, <2>2, <2>3 DEF Block, Span
  <2>6. /\ front'.start = front.start + Taken
        /\ front'.start + front'.count <= filePos'
        /\ front'.count \in Nat
    BY <1>0, <1>4, <2>2 DEF Block, AfterBlock
  <2>7. heard' \subseteq Nat
    BY NextType, SizesAssumption DEF TypeOK
  <2>8. front.start + Taken <= Position'
    BY <1>0, <2>2, <2>6
  <2>9. Position' \in Nat
    BY NextType, SizesAssumption DEF TypeOK
  <2>10. \A f \in heard' : f < Position'
    BY <1>0, <2>2, <2>5, <2>7, <2>8, <2>9
  <2>. QED
    BY <2>4, <2>10
<1>5. ASSUME Direct PROVE OrderInv'
  <2>1. PICK k \in Reads(framesRemaining) :
          /\ filePos' = filePos + k
          /\ heard' = heard \cup Span(filePos, k)
          /\ repeated' = (repeated \/ \E f \in heard : f >= filePos)
    BY <1>5 DEF Direct
  <2>2. k \in Nat
    BY <2>1, ReadsBounds DEF TypeOK
  <2>3. front.count = 0 /\ front' = front
    BY <1>5 DEF Direct, ControlInv
  <2>4. ~repeated'
    <3>1. ~ \E f \in heard : f >= filePos
      BY <1>0, <2>3
    <3>. QED
      BY <2>1, <3>1, Zenon
  <2>5. \A f \in heard' : f < filePos + k
    BY <1>0, <2>1, <2>2, <2>3 DEF Span
  <2>. QED
    BY <2>1, <2>3, <2>4, <2>5
<1>6. ASSUME Cut PROVE OrderInv'
  <2>1. front.start + front.count = filePos /\ filePos' = filePos
    BY <1>6 DEF Cut, ControlInv
  <2>2. CASE front.count < Block10ms
    <3>1. front'.count = 0 /\ heard' = heard /\ repeated' = repeated
      BY <1>6, <2>2 DEF Cut
    <3>. QED
      BY <1>0, <2>1, <3>1
  <2>3. CASE ~(front.count < Block10ms)
    <3>1. /\ heard' = heard \cup Span(front.start, Block10ms)
          /\ repeated' = (repeated \/ \E f \in heard : f >= front.start)
          /\ front'.start = front.start + Block10ms
          /\ front'.count = front.count - Block10ms
      BY <1>6, <2>3 DEF Cut
    <3>2. front.count > 0 /\ Block10ms \in Nat \ {0}
      BY <1>0, <2>3, SizesAssumption
    <3>3. ~repeated'
      <4>1. ~ \E f \in heard : f >= front.start
        BY <1>0, <3>2
      <4>. QED
        BY <3>1, <4>1, Zenon
    <3>4. \A f \in heard' : f < front.start + Block10ms
      BY <1>0, <3>1, <3>2 DEF Span
    <3>5. Position' = front.start + Block10ms
      BY <1>0, <2>1, <2>3, <3>1, <3>2
    <3>. QED
      BY <3>3, <3>4, <3>5
  <2>. QED
    BY <2>2, <2>3
<1>7. ASSUME UNCHANGED vars PROVE OrderInv'
  BY <1>7 DEF vars, source, block, history
<1>. QED
  BY <1>1, <1>2, <1>3, <1>4, <1>5, <1>6, <1>7 DEF Next, Step

(* Whatever is asked for and read, no frame is output twice or late.       *)
THEOREM HeardInOrder == Spec => []InOrder
<1>1. Init => OrderInv
  BY DEF Init, OrderInv
<1>2. OrderInv => InOrder
  BY DEF OrderInv, InOrder
<1>. QED
  BY <1>1, <1>2, ControlCorrect, NextOrder, PTL DEF Spec

(* playFile0: is silent only when the file is at its end, or a read of the *)
(* same callback failed.                                                   *)
THEOREM SilenceIsTheEnd == Spec => []SilentAtEnd
<1>1. Init => SilentAtEnd
  BY DEF Init, SilentAtEnd
<1>2. TypeOK /\ ControlInv /\ SilentAtEnd /\ [Next]_vars => SilentAtEnd'
  <2>. SUFFICES ASSUME TypeOK, ControlInv, SilentAtEnd, [Next]_vars
                PROVE  SilentAtEnd'
    OBVIOUS
  <2>. USE DEF SilentAtEnd
  <2>1. ASSUME NEW n \in Requests, renderBlock(n) PROVE SilentAtEnd'
    BY <2>1 DEF renderBlock, Refill, source
  <2>2. ASSUME Drain PROVE SilentAtEnd'
    BY <2>2 DEF Drain, ControlInv, source
  <2>3. ASSUME Fill PROVE SilentAtEnd'
    <3>1. PICK k \in Reads(ReadSize) :
            /\ filePos' = filePos + k
            /\ pc' = IF k = 0 THEN "idle" ELSE "block"
            /\ NoteFailure(k)
      BY <2>3 DEF Fill
    <3>2. CASE pc' = "idle" /\ filePos < Length
      <4>1. k = 0
        BY <3>1, <3>2
      <4>. QED
        BY <3>1, <3>2, <4>1, Zenon DEF NoteFailure
    <3>3. CASE pc' = "idle" /\ ~(filePos < Length)
      BY <3>1, <3>3, SizesAssumption DEF TypeOK
    <3>. QED
      BY <3>2, <3>3
  <2>4. ASSUME Block PROVE SilentAtEnd'
    BY <2>4 DEF Block, Refill
  <2>5. ASSUME Direct \/ Read \/ Cut PROVE SilentAtEnd'
    BY <2>5 DEF Direct, Read, Cut, ControlInv, source
  <2>6. ASSUME UNCHANGED vars PROVE SilentAtEnd'
    BY <2>6 DEF vars, source, block, history
  <2>. QED
    BY <2>1, <2>2, <2>3, <2>4, <2>5, <2>6 DEF Next, Step
<1>. QED
  BY <1>1, <1>2, ControlCorrect, PTL DEF Spec

-----------------------------------------------------------------------------
(* What may be lost is at the end of what is gone by: the rest of the last *)
(* block, shorter than what the method takes at a time, and nothing while  *)
(* the callback or the loop still works on its buffer.                     *)
Allowance ==
  IF method = "playFile0" THEN framePer10ms
  ELSE IF method = "playFile" THEN Block10ms ELSE 1

Working == {"fill", "block", "direct", "cut"}

LossInv ==
  method # "playFile00" =>
    \E d \in 0..(Allowance - 1) :
      /\ pc \in Working => d = 0
      /\ \A f \in Lost : f + d >= Position

LEMMA AllowancePositive ==
  ASSUME TypeOK
  PROVE  Allowance \in Nat \ {0}
BY SizesAssumption DEF TypeOK, Allowance

LEMMA NothingLost ==
  ASSUME TypeOK', Lost' = {}
  PROVE  LossInv'
<1>1. Allowance' \in Nat \ {0}
  BY SizesAssumption DEF TypeOK, Allowance
<1>2. \A n \in Nat \ {0} : 0 \in 0..(n - 1)
  OBVIOUS
<1>3. 0 \in 0..(Allowance' - 1)
  BY <1>1, <1>2, Zenon
<1>. QED
  BY <1>3 DEF LossInv

LEMMA NextLoss ==
  TypeOK /\ ControlInv /\ LossInv /\ [Next]_vars => LossInv'
<1>. SUFFICES ASSUME TypeOK, ControlInv, LossInv, [Next]_vars
              PROVE  LossInv'
  OBVIOUS
<1>0. /\ TypeOK' /\ ControlInv'
      /\ front.start \in Nat /\ front.count \in Nat /\ filePos \in Nat
      /\ before \in Nat /\ heard \subseteq Nat
      /\ Block10ms \in Nat \ {0} /\ framePer10ms \in Nat \ {0}
  BY NextType, SizesAssumption DEF TypeOK
<1>1. ASSUME NEW n \in Requests, renderBlock(n) PROVE LossInv'
  <2>1. before' = Position' /\ Position' \in Nat
    BY <1>0, <1>1 DEF renderBlock, Position
  <2>2. Lost' = {}
    BY <2>1 DEF Lost
  <2>. QED
    BY <1>0, <2>2, NothingLost
<1>2. ASSUME Drain PROVE LossInv'
  BY <1>2 DEF Drain, ControlInv, LossInv, source
<1>3. ASSUME Fill, method = "playFile0" PROVE LossInv'
  <2>1. /\ front.count = 0 /\ Position = filePos
        /\ pc = "fill"
    BY <1>3 DEF Fill, ControlInv, Position
  <2>2. front'.start = filePos /\ front'.count \in Nat
    BY <1>0, <1>3, ReadsBounds, SizesAssumption DEF Fill
  <2>3. Position' = filePos
    <3>1. front'.start + front'.count = filePos'
      BY <1>0, <1>3 DEF ControlInv, Fill, source
    <3>. QED
      BY <1>0, <2>2, <3>1 DEF Position
  <2>4. \A f \in Lost : f + 0 >= Position
    BY <2>1, <1>3 DEF LossInv, Working
  <2>5. Lost = {}
    BY <1>0, <2>1, <2>4 DEF Lost
  <2>6. Lost' = Lost
    BY <1>3, <2>1, <2>3 DEF Fill, Lost
  <2>. QED
    BY <1>0, <2>5, <2>6, NothingLost
<1>4. ASSUME Block, method = "playFile0" PROVE LossInv'
  <2>1. pc = "block" /\ front.count > 0 /\ Position = front.start
    BY <1>4 DEF Block, TypeOK, Position
  <2>2. /\ Taken \in Nat /\ Taken > 0 /\ Taken <= front.count
        /\ Taken <= framePer10ms
        /\ Copied \in Nat /\ Copied > 0 /\ Copied <= Taken
        /\ Copied < Taken => Copied = framesRemaining
    BY <2>1, BlockBounds
  <2>3. Position' = front.start + Taken
    <3>1. /\ front'.start = front.start + Taken
          /\ front'.count = front.count - Taken
          /\ filePos' = filePos /\ front.start + front.count = filePos
      BY <1>4 DEF Block, AfterBlock, ControlInv
    <3>. QED
      BY <1>0, <2>2, <3>1 DEF Position
  <2>4. \A f \in Lost : f + 0 >= Position
    BY <2>1, <1>4 DEF LossInv, Working
  <2>5. /\ heard' = heard \cup Span(front.start, Copied)
        /\ before' = before /\ framePer10ms' = framePer10ms
        /\ method' = method
        /\ framesRemaining' = framesRemaining - Copied
        /\ pc' = IF framesRemaining' = 0 THEN "idle" ELSE Refill(front')
    BY <1>4 DEF Block, source
  <2>6. \A f \in Lost' : f >= front.start + Copied
    BY <1>0, <2>1, <2>2, <2>3, <2>4, <2>5 DEF Lost, Span
  <2>7. \A f \in Lost' : f \in Int
    BY <1>0, <2>2, <2>3, <2>5 DEF Lost
  <2>8. Taken - Copied \in 0..(Allowance' - 1)
    BY <1>0, <1>4, <2>2, <2>5 DEF Allowance
  <2>9. \A f \in Lost' : f + (Taken - Copied) >= Position'
    BY <1>0, <2>2, <2>3, <2>6, <2>7
  <2>10. pc' \in Working => Taken - Copied = 0
    BY <2>2, <2>5 DEF Working, TypeOK
  <2>. QED
    BY <2>8, <2>9, <2>10 DEF LossInv
<1>5. ASSUME Direct PROVE LossInv'
  <2>1. PICK k \in Reads(framesRemaining) :
          /\ filePos' = filePos + k
          /\ heard' = heard \cup Span(filePos, k)
    BY <1>5 DEF Direct
  <2>2. k \in Nat
    BY <2>1, ReadsBounds DEF TypeOK
  <2>3. /\ front.count = 0 /\ front' = front /\ before' = before
        /\ pc = "direct" /\ method = "playFile3"
    BY <1>5 DEF Direct, ControlInv
  <2>4. \A f \in Lost : f + 0 >= Position
    BY <2>3 DEF LossInv, Working
  <2>5. Lost' = {}
    BY <1>0, <2>1, <2>2, <2>3, <2>4 DEF Lost, Position, Span
  <2>. QED
    BY <1>0, <2>5, NothingLost
<1>6. ASSUME Read PROVE LossInv'
  <2>1. before' = filePos /\ front'.start = filePos /\ front'.count \in Nat
    BY <1>0, <1>6, ReadsBounds, SizesAssumption DEF Read
  <2>2. front'.start + front'.count = filePos'
    BY <1>0, <1>6 DEF Read, ControlInv, source
  <2>3. Position' = filePos
    BY <1>0, <2>1, <2>2 DEF Position
  <2>4. Lost' = {}
    BY <1>0, <2>1, <2>3 DEF Lost
  <2>. QED
    BY <1>0, <2>4, NothingLost
<1>7. ASSUME Cut PROVE LossInv'
  <2>1. /\ method = "playFile" /\ method' = method
        /\ front.start + front.count = filePos /\ filePos' = filePos
        /\ Position = front.start /\ before' = before /\ pc = "cut"
    BY <1>0, <1>7 DEF Cut, ControlInv, Position, source
  <2>2. \A f \in Lost : f + 0 >= Position
    BY <2>1 DEF LossInv, Working
  <2>3. CASE front.count < Block10ms
    <3>1. /\ front'.count = 0 /\ heard' = heard /\ pc' = "read"
      BY <1>7, <2>3 DEF Cut
    <3>2. Position' = filePos
      BY <2>1, <3>1 DEF Position
    <3>3. \A f \in Lost' : f \in Int /\ f >= front.start
      BY <1>0, <2>1, <2>2, <3>1, <3>2 DEF Lost
    <3>4. front.count \in 0..(Allowance' - 1)
      BY <1>0, <2>1, <2>3 DEF Allowance
    <3>5. \A f \in Lost' : f + front.count >= Position'
      BY <1>0, <2>1, <3>2, <3>3
    <3>. QED
      BY <3>1, <3>4, <3>5 DEF LossInv, Working
  <2>4. CASE ~(front.count < Block10ms)
    <3>1. /\ heard' = heard \cup Span(front.start, Block10ms)
          /\ front'.start = front.start + Block10ms
          /\ front'.count = front.count - Block10ms
      BY <1>7, <2>4 DEF Cut
    <3>2. Position' = front.start + Block10ms
      BY <1>0, <2>1, <2>4, <3>1 DEF Position
    <3>3. Lost' = {}
      BY <1>0, <2>1, <2>2, <3>1, <3>2 DEF Lost, Span
    <3>. QED
      BY <1>0, <3>3, NothingLost
  <2>. QED
    BY <2>3, <2>4
<1>8. ASSUME Fill \/ Block, method # "playFile0" PROVE LossInv'
  BY <1>8, MethodsAssumption
     DEF Fill, Block, ControlInv, LossInv, source
<1>9. ASSUME UNCHANGED vars PROVE LossInv'
  <2>1. /\ Allowance' = Allowance /\ Lost' = Lost /\ Position' = Position
        /\ method' = method /\ pc' = pc
    BY <1>9 DEF vars, source, block, history, Allowance, Lost, Position
  <2>. QED
    BY <2>1 DEF LossInv
<1>. QED
  BY <1>1, <1>2, <1>3, <1>4, <1>5, <1>6, <1>7, <1>8, <1>9 DEF Next, Step

(* A callback of playFile0: loses less than one block, a read of playFile: *)
(* too, and playFile3: nothing.                                            *)
THEOREM LossIsBounded == Spec => []LostInCallback
<1>1. Init => LossInv
  <2>. SUFFICES ASSUME Init PROVE LossInv
    OBVIOUS
  <2>1. Lost = {}
    BY DEF Init, Lost, Position, NoBuffer
  <2>2. 0 \in 0..(Allowance - 1)
    BY InitType, AllowancePositive
  <2>. QED
    BY <2>1, <2>2 DEF LossInv
<1>2. TypeOK /\ LossInv => LostInCallback
  <2>. SUFFICES ASSUME TypeOK, LossInv, method # "playFile00"
                PROVE  /\ Lost = {} \/ method # "playFile3"
                       /\ Cardinality(Lost) < Allowance
    BY DEF LostInCallback, Allowance
  <2>1. PICK d \in 0..(Allowance - 1) : \A f \in Lost : f + d >= Position
    BY DEF LossInv
  <2>2. /\ Position \in Nat /\ before \in Nat
        /\ d \in Nat /\ d < Allowance
    BY <2>1, AllowancePositive, SizesAssumption DEF TypeOK, Position
  <2>3. Lost \subseteq (Position - d)..(Position - 1)
    BY <2>1, <2>2 DEF Lost
  <2>4. /\ IsFiniteSet((Position - d)..(Position - 1))
        /\ Cardinality((Position - d)..(Position - 1)) = d
    <3>1. Position - d \in Int /\ Position - 1 \in Int
      BY <2>2
    <3>2. (IF Position - d > Position - 1 THEN 0
           ELSE (Position - 1) - (Position - d) + 1) = d
      BY <2>2
    <3>. QED
      BY <3>1, <3>2, FS_Interval
  <2>5. IsFiniteSet(Lost) /\ Cardinality(Lost) <= d
    BY <2>3, <2>4, FS_Subset
  <2>6. Cardinality(Lost) < Allowance
    BY <2>2, <2>5, FS_CardinalityType, AllowancePositive
  <2>7. method = "playFile3" => d = 0
    BY <2>1 DEF Allowance
  <2>8. method = "playFile3" => Lost = {}
    BY <2>2, <2>3, <2>7
  <2>. QED
    BY <2>6, <2>8
<1>. QED
  BY <1>1, <1>2, ControlCorrect, NextLoss, PTL DEF Spec

-----------------------------------------------------------------------------
(* What was heard in the current callback of playFile3: without having     *)
(* been given to the APM is the rest that made no block.                   *)
RawRest == {f \in Raw : f >= before}

(* Where the blocks of playFile0: are a frame too long, a frame that was   *)
(* not given to the APM is the last of a full block: the position is then  *)
(* a frame further, and a block before it there is none.                   *)
RawInv ==
  /\ method = "playFile0" =>
       \A f \in Raw : /\ framePer10ms = Block10ms + 1
                      /\ \A g \in Raw : g > f => g >= f + framePer10ms
  /\ method = "playFile" => Raw = {}
  /\ method = "playFile3" =>
       /\ pc = "direct" => before = Position
       /\ \E d \in 0..(Block10ms - 1) : \A f \in RawRest : f + d >= Position

LEMMA ZeroBelow == \A n \in Nat \ {0} : 0 \in 0..(n - 1)
OBVIOUS

(* A block lets through no frame but its last, and that only where it is   *)
(* longer than the APM's.                                                  *)
LEMMA BlockRaw ==
  ASSUME TypeOK, ControlInv, Block
  PROVE  \A f \in Raw' \ Raw : /\ f = front.start + Block10ms
                               /\ framePer10ms = Block10ms + 1
<1>0. front.start \in Nat /\ Block10ms \in Nat \ {0}
      /\ framePer10ms \in {Block10ms, Block10ms + 1}
  BY SizesAssumption DEF TypeOK
<1>1. /\ Taken \in Nat /\ Taken <= front.count /\ Taken <= framePer10ms
      /\ Copied \in Nat /\ Copied <= Taken
      /\ Processed \in Nat /\ Processed <= Taken
  BY BlockBounds DEF Block
<1>2. Processed = Taken
      \/ (Processed = Block10ms /\ Taken = Block10ms + 1
            /\ framePer10ms = Block10ms + 1)
  BY <1>0, <1>1 DEF Processed, AtMost
<1>3. front.start + Processed <= Length
  BY <1>0, <1>1, SizesAssumption DEF TypeOK
<1>4. Span(front.start, Processed) \in SUBSET (0..(Length - 1))
  BY <1>0, <1>1, <1>3, SpanInFile
<1>5. /\ Given' = Given \cup Span(front.start, Processed)
      /\ heard' = heard \cup Span(front.start, Copied)
  BY <1>4, ProcessStreamGives DEF Block
<1>6. ASSUME NEW f \in Raw' \ Raw
      PROVE  f = front.start + Block10ms /\ framePer10ms = Block10ms + 1
  <2>1. f \in Span(front.start, Copied) /\ f \notin Span(front.start, Processed)
    BY <1>5, <1>6 DEF Raw, Given
  <2>2. f \in Nat /\ f >= front.start /\ f < front.start + Copied
        /\ f >= front.start + Processed
    BY <1>0, <1>1, <2>1 DEF Span
  <2>. QED
    BY <1>0, <1>1, <1>2, <2>2
<1>. QED
  BY <1>6

LEMMA NextRaw ==
  TypeOK /\ ControlInv /\ OrderInv /\ RawInv /\ [Next]_vars => RawInv'
<1>. SUFFICES ASSUME TypeOK, ControlInv, OrderInv, RawInv, [Next]_vars
              PROVE  RawInv'
  OBVIOUS
<1>0. /\ front.start \in Nat /\ front.count \in Nat /\ filePos \in Nat
      /\ before \in Nat /\ heard \subseteq Nat
      /\ Block10ms \in Nat \ {0} /\ framePer10ms \in Nat \ {0}
  BY SizesAssumption DEF TypeOK
<1>1. ASSUME NEW n \in Requests, renderBlock(n) PROVE RawInv'
  <2>1. /\ before' = Position /\ Position' = Position /\ method' = method
        /\ framePer10ms' = framePer10ms /\ Raw' = Raw
    BY <1>1 DEF renderBlock, Position, Raw, source
  <2>2. Position \in Nat /\ \A f \in heard : f < Position
    BY <1>0 DEF Position, OrderInv
  <2>3. \A f \in RawRest' : FALSE
    <3>1. SUFFICES ASSUME NEW f \in RawRest' PROVE FALSE
      OBVIOUS
    <3>2. f \in heard /\ f >= Position
      BY <2>1, <3>1 DEF RawRest, Raw
    <3>3. f \in Nat /\ f < Position
      BY <1>0, <2>2, <3>2
    <3>. QED
      BY <2>2, <3>2, <3>3
  <2>4. 0 \in 0..(Block10ms - 1)
    BY <1>0, ZeroBelow, Zenon
  <2>5. \A f \in RawRest' : f + 0 >= Position'
    BY <2>3, Zenon
  <2>. QED
    BY <2>1, <2>4, <2>5 DEF RawInv
<1>2. ASSUME Drain \/ Fill \/ Read PROVE RawInv'
  <2>1. method # "playFile3"
    BY <1>2, MethodsAssumption DEF Drain, Fill, Read, ControlInv
  <2>2. method' = method /\ framePer10ms' = framePer10ms /\ Raw' = Raw
    BY <1>2 DEF Drain, Fill, Read, Raw, source
  <2>. QED
    BY <2>1, <2>2 DEF RawInv
<1>3. ASSUME Block PROVE RawInv'
  <2>1. method # "playFile3" /\ method # "playFile"
        /\ method' = method /\ framePer10ms' = framePer10ms
    BY <1>3 DEF Block, ControlInv, source
  <2>2. \A f \in Raw' \ Raw : /\ f = front.start + Block10ms
                              /\ framePer10ms = Block10ms + 1
    BY <1>3, BlockRaw
  <2>3. \A f \in Raw : f \in Nat /\ f < front.start
    <3>1. Position = front.start
      BY <1>3 DEF Block, TypeOK, Position
    <3>. QED
      BY <1>0, <3>1 DEF OrderInv, Raw
  <2>4. ASSUME method = "playFile0", NEW f \in Raw'
        PROVE  framePer10ms = Block10ms + 1
    BY <2>2, <2>4 DEF RawInv
  <2>5. ASSUME method = "playFile0", NEW f \in Raw', NEW g \in Raw', g > f
        PROVE  g >= f + framePer10ms
    <3>1. framePer10ms = Block10ms + 1
      BY <2>4, <2>5
    <3>2. CASE g \in Raw /\ f \in Raw
      BY <2>5, <3>2 DEF RawInv
    <3>3. CASE g \in Raw /\ f \notin Raw
      BY <1>0, <2>2, <2>3, <2>5, <3>3
    <3>4. CASE g \notin Raw /\ f \in Raw
      BY <1>0, <2>2, <2>3, <2>5, <3>1, <3>4
    <3>5. CASE g \notin Raw /\ f \notin Raw
      BY <1>0, <2>2, <2>5, <3>5
    <3>. QED
      BY <3>2, <3>3, <3>4, <3>5
  <2>. QED
    BY <2>1, <2>4, <2>5 DEF RawInv
<1>4. ASSUME Direct PROVE RawInv'
  <2>1. PICK k \in Reads(framesRemaining) :
          /\ filePos' = filePos + k
          /\ heard' = heard \cup Span(filePos, k)
          /\ ProcessStream(Span(filePos, k - (k % Block10ms)))
    BY <1>4 DEF Direct
  <2>2. k \in Nat /\ filePos + k \in 0..Length
    BY <2>1, ReadsBounds DEF TypeOK
  <2>3. /\ front.count = 0 /\ front' = front /\ before' = before
        /\ pc = "direct" /\ pc' = "idle"
        /\ method = "playFile3" /\ method' = method
    BY <1>4 DEF Direct, ControlInv, source
  <2>4. before = filePos /\ Position = filePos /\ Position' = filePos + k
    BY <2>1, <2>3 DEF RawInv, Position
  <2>5. k % Block10ms \in 0..(Block10ms - 1) /\ k % Block10ms <= k
    BY <1>0, <2>2
  <2>6. \A f \in heard : f < filePos
    BY <2>4 DEF OrderInv
  <2>7. \A f \in RawRest' : f + (k % Block10ms) >= Position'
    <3>. DEFINE r == k % Block10ms
    <3>1. r \in Nat /\ r <= k
      BY <1>0, <2>5
    <3>. HIDE DEF r
    <3>2. Span(filePos, k - r) \in SUBSET (0..(Length - 1))
      <4>1. k - r \in Nat /\ filePos + (k - r) <= Length
        BY <1>0, <2>2, <3>1, SizesAssumption
      <4>. QED
        BY <1>0, <4>1, SpanInFile
    <3>3. Given' = Given \cup Span(filePos, k - r)
      BY <2>1, <3>2, ProcessStreamGives DEF r
    <3>4. SUFFICES ASSUME NEW f \in RawRest'
                   PROVE  f + r >= Position'
      BY DEF r
    <3>5. f \in heard' /\ f \notin Given' /\ f >= filePos
      BY <2>3, <2>4, <3>4 DEF RawRest, Raw, Given
    <3>6. f \in Span(filePos, k)
      BY <1>0, <2>1, <2>6, <3>5
    <3>7. f \notin Span(filePos, k - r)
      BY <3>3, <3>5
    <3>8. f \in filePos..(filePos + k - 1)
          /\ f \notin filePos..(filePos + (k - r) - 1)
      BY <3>6, <3>7 DEF Span
    <3>9. f + r >= filePos + k
      BY <1>0, <2>2, <3>1, <3>8
    <3>. QED
      BY <2>4, <3>9
  <2>. QED
    BY <2>3, <2>5, <2>7 DEF RawInv
<1>5. ASSUME Cut PROVE RawInv'
  <2>1. /\ method = "playFile" /\ method' = method /\ Raw = {}
        /\ front.start + front.count = filePos
    BY <1>5 DEF Cut, ControlInv, RawInv, source
  <2>2. CASE front.count < Block10ms
    BY <1>5, <2>1, <2>2 DEF Cut, RawInv, Raw
  <2>3. CASE ~(front.count < Block10ms)
    <3>1. Span(front.start, Block10ms) \in SUBSET (0..(Length - 1))
      <4>1. front.start + Block10ms <= Length
        BY <1>0, <2>3, SizesAssumption DEF TypeOK
      <4>. QED
        BY <1>0, <4>1, SpanInFile
    <3>2. /\ Given' = Given \cup Span(front.start, Block10ms)
          /\ heard' = heard \cup Span(front.start, Block10ms)
      BY <1>5, <2>3, <3>1, ProcessStreamGives DEF Cut
    <3>3. Raw' = {}
      BY <2>1, <3>2 DEF Raw, Given
    <3>. QED
      BY <2>1, <3>3 DEF RawInv
  <2>. QED
    BY <2>2, <2>3
<1>6. ASSUME UNCHANGED vars PROVE RawInv'
  <2>1. /\ RawRest' = RawRest /\ Raw' = Raw
        /\ Position' = Position /\ before' = before
        /\ method' = method /\ pc' = pc /\ framePer10ms' = framePer10ms
    BY <1>6 DEF vars, source, block, history, RawRest, Raw, Position
  <2>. QED
    BY <2>1 DEF RawInv
<1>. QED
  BY <1>1, <1>2, <1>3, <1>4, <1>5, <1>6 DEF Next, Step

(* What is heard without having been given to the APM: of playFile0: at    *)
(* most the last frame of each full block; nothing of playFile:; less than *)
(* a block of a callback of playFile3:.                                    *)
THEOREM RawIsBounded == Spec => []RawFrames
<1>1. Init => OrderInv /\ RawInv
  <2>. SUFFICES ASSUME Init PROVE OrderInv /\ RawInv
    OBVIOUS
  <2>1. heard = {} /\ ~repeated /\ pc # "direct"
    BY DEF Init
  <2>2. Raw = {} /\ RawRest = {} /\ 0 \in 0..(Block10ms - 1)
    BY <2>1, SizesAssumption, ZeroBelow DEF Raw, RawRest
  <2>. QED
    BY <2>1, <2>2 DEF OrderInv, RawInv
<1>2. TypeOK /\ OrderInv /\ RawInv => RawFrames
  <2>. SUFFICES ASSUME TypeOK, OrderInv, RawInv, method = "playFile3"
                PROVE  Cardinality(RawRest) < Block10ms
    BY DEF RawFrames, RawInv, RawRest
  <2>1. PICK d \in 0..(Block10ms - 1) : \A f \in RawRest : f + d >= Position
    BY DEF RawInv
  <2>2. /\ Position \in Nat /\ Block10ms \in Nat /\ heard \subseteq Nat
        /\ d \in Nat /\ d < Block10ms
    BY <2>1, SizesAssumption DEF TypeOK, Position
  <2>3. RawRest \subseteq (Position - d)..(Position - 1)
    <3>1. SUFFICES ASSUME NEW f \in RawRest
                   PROVE  f \in (Position - d)..(Position - 1)
      OBVIOUS
    <3>2. f \in heard /\ f + d >= Position
      BY <2>1, <3>1 DEF RawRest, Raw
    <3>3. f \in Nat /\ f < Position
      BY <2>2, <3>2 DEF OrderInv
    <3>. QED
      BY <2>2, <3>2, <3>3
  <2>4. /\ IsFiniteSet((Position - d)..(Position - 1))
        /\ Cardinality((Position - d)..(Position - 1)) = d
    <3>1. Position - d \in Int /\ Position - 1 \in Int
      BY <2>2
    <3>2. (IF Position - d > Position - 1 THEN 0
           ELSE (Position - 1) - (Position - d) + 1) = d
      BY <2>2
    <3>. QED
      BY <3>1, <3>2, FS_Interval
  <2>5. IsFiniteSet(RawRest) /\ Cardinality(RawRest) <= d
    BY <2>3, <2>4, FS_Subset
  <2>. QED
    BY <2>2, <2>5, FS_CardinalityType
<1>. QED
  BY <1>1, <1>2, ControlCorrect, NextOrder, NextRaw, PTL DEF Spec

-----------------------------------------------------------------------------
(* How many steps a callback, or the loop of playFile:, has left at most.  *)
Rank ==
  CASE pc \in {"idle", "ended"} -> 0
    [] pc \in {"fill", "block", "direct", "read"} -> 1
    [] pc \in {"drain", "cut"} -> 2

StepsLeft == 3 * (Length - filePos) + front.count + framesRemaining + Rank

LEMMA StepsLeftType ==
  ASSUME TypeOK
  PROVE  /\ Length - filePos \in Nat /\ front.count \in Nat
         /\ framesRemaining \in Nat /\ Rank \in Nat
         /\ StepsLeft \in Nat
<1>1. Length - filePos \in Nat /\ front.count \in Nat /\ framesRemaining \in Nat
  BY SizesAssumption DEF TypeOK
<1>2. Rank \in Nat
  BY DEF Rank, TypeOK
<1>. QED
  BY <1>1, <1>2 DEF StepsLeft

(* k more frames of the file were read.                                    *)
LEMMA ReadShrinks ==
  ASSUME TypeOK, NEW k \in Nat, filePos' = filePos + k
  PROVE  3 * (Length - filePos') = 3 * (Length - filePos) - 3 * k
BY SizesAssumption DEF TypeOK

LEMMA StepShrinks ==
  ASSUME TypeOK, ControlInv, TypeOK', Step
  PROVE  StepsLeft' < StepsLeft
<1>1. /\ Length - filePos \in Nat /\ front.count \in Nat
      /\ framesRemaining \in Nat /\ 3 * (Length - filePos) \in Nat
  BY StepsLeftType
<1>2. CASE Drain
  <2>1. PICK k \in Reads(ReadSize) :
          /\ filePos' = filePos + k
          /\ pc' = IF k = 0 THEN Refill(front) ELSE "drain"
    BY <1>2 DEF Drain
  <2>2. k \in Nat
    BY <2>1, ReadsBounds, SizesAssumption
  <2>3. 3 * (Length - filePos') = 3 * (Length - filePos) - 3 * k
    BY <2>1, <2>2, ReadShrinks
  <2>4. Rank = 2 /\ Rank' = IF k = 0 THEN 1 ELSE 2
    BY <1>2, <2>1 DEF Drain, Rank, Refill
  <2>5. UNCHANGED <<front, framesRemaining>>
    BY <1>2 DEF Drain
  <2>. QED
    BY <1>1, <2>2, <2>3, <2>4, <2>5 DEF StepsLeft
<1>3. CASE Fill \/ Read
  <2>1. PICK k \in Reads(ReadSize) :
          /\ filePos' = filePos + k
          /\ front' = [start |-> filePos, count |-> k]
          /\ pc' \in IF k = 0 THEN {"idle", "ended"} ELSE {"block", "cut"}
    BY <1>3 DEF Fill, Read
  <2>2. k \in Nat
    BY <2>1, ReadsBounds, SizesAssumption
  <2>3. 3 * (Length - filePos') = 3 * (Length - filePos) - 3 * k
    BY <2>1, <2>2, ReadShrinks
  <2>4. Rank = 1 /\ Rank' \in IF k = 0 THEN {0} ELSE {1, 2}
    BY <1>3, <2>1 DEF Fill, Read, Rank
  <2>5. framesRemaining' = framesRemaining /\ front'.count = k
    BY <1>3, <2>1 DEF Fill, Read
  <2>. QED
    BY <1>1, <2>2, <2>3, <2>4, <2>5 DEF StepsLeft
<1>4. CASE Block
  <2>1. pc = "block"
    BY <1>4 DEF Block
  <2>2. /\ Taken \in Nat /\ Taken > 0 /\ Taken <= front.count
        /\ Copied \in Nat /\ Copied > 0 /\ Copied <= framesRemaining
    BY <2>1, BlockBounds
  <2>3. /\ framesRemaining' = framesRemaining - Copied
        /\ front'.count = front.count - Taken /\ filePos' = filePos
    BY <1>4 DEF Block, AfterBlock
  <2>4. Rank = 1 /\ Rank' \in {0, 1}
    BY <1>4, <2>1 DEF Block, Rank, Refill
  <2>5. Length - filePos' = Length - filePos
    BY <2>3
  <2>. QED
    BY <1>1, <2>2, <2>3, <2>4, <2>5 DEF StepsLeft
<1>5. CASE Direct
  <2>1. PICK k \in Reads(framesRemaining) :
          /\ filePos' = filePos + k
          /\ framesRemaining' = framesRemaining - k
    BY <1>5 DEF Direct
  <2>2. k \in Nat
    BY <1>1, <2>1, ReadsBounds
  <2>3. 3 * (Length - filePos') = 3 * (Length - filePos) - 3 * k
    BY <2>1, <2>2, ReadShrinks
  <2>4. Rank = 1 /\ Rank' = 0 /\ front' = front
    BY <1>5 DEF Direct, Rank
  <2>. QED
    BY <1>1, <2>1, <2>2, <2>3, <2>4 DEF StepsLeft
<1>6. CASE Cut
  <2>1. filePos' = filePos /\ framesRemaining' = framesRemaining /\ Rank = 2
    BY <1>6 DEF Cut, Rank
  <2>2. CASE front.count < Block10ms
    <3>1. front'.count = 0 /\ Rank' = 1
      BY <1>6, <2>2 DEF Cut, Rank
    <3>. QED
      BY <1>1, <2>1, <3>1 DEF StepsLeft
  <2>3. CASE ~(front.count < Block10ms)
    <3>1. front'.count = front.count - Block10ms /\ Rank' = 2
      BY <1>6, <2>3 DEF Cut, Rank
    <3>2. front'.count < front.count /\ front'.count \in Nat
      BY <1>1, <2>3, <3>1, SizesAssumption
    <3>. QED
      BY <1>1, <2>1, <3>1, <3>2 DEF StepsLeft
  <2>. QED
    BY <2>2, <2>3
<1>. QED
  BY <1>2, <1>3, <1>4, <1>5, <1>6 DEF Step

(* Every step of a callback, and of the loop of playFile:, brings it       *)
(* nearer to its return, however the reads and the blocks fall: a thread   *)
(* that runs on does return.  It is the bound behind CallbackReturns.      *)
RunsDown == [][Step => StepsLeft \in Nat /\ StepsLeft' < StepsLeft]_vars

THEOREM CallbackRunsDown == Spec => RunsDown
<1>1. TypeOK /\ ControlInv /\ TypeOK' /\ [Next]_vars
        => [Step => StepsLeft \in Nat /\ StepsLeft' < StepsLeft]_vars
  BY StepShrinks, StepsLeftType
<1>. QED
  BY <1>1, ControlCorrect, PTL DEF Spec, RunsDown

=============================================================================
