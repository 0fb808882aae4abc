-------------------------- MODULE QueueUser_proofs --------------------------
(***************************************************************************)
(* The circular queue is a bounded FIFO, for every size of the array.      *)
(***************************************************************************)
EXTENDS QueueUser, SequenceTheorems, TLAPS

(***************************************************************************)
(* A remainder below the modulus is the number itself: what makes the      *)
(* expression (front - 1) % (max_size - 1) of cq_full the slot before      *)
(* front.                                                                  *)
(***************************************************************************)
LEMMA SmallRemainder ==
  ASSUME NEW a \in Nat, NEW b \in Nat, a < b
  PROVE  a % b = a
  BY Z3

(***************************************************************************)
(* For the states that TypeOK allows, cq_full implies that no slot is      *)
(* free, and, unless the array has two slots, the converse holds.          *)
(***************************************************************************)
LEMMA FullRear ==
  ASSUME TypeOK, ~cq_empty(q)
  PROVE  /\ q.front \in Slots /\ q.rear \in Slots
         /\ ~cq_full(q, MaxSize) => /\ ~(q.front = 0 /\ q.rear = MaxSize - 1)
                                    /\ q.rear # q.front - 1
         /\ MaxSize # 2 /\ cq_full(q, MaxSize) =>
              \/ q.front = 0 /\ q.rear = MaxSize - 1
              \/ q.rear = q.front - 1
<1>1. q.front \in Slots /\ q.rear \in Slots
  BY DEF TypeOK, cq_empty, cq_reset, Slots
<1>2. CASE MaxSize = 1
  BY <1>1, <1>2 DEF cq_full, Slots
<1>3. CASE MaxSize > 1 /\ q.front > 0
  <2>1. (q.front - 1) % (MaxSize - 1) = q.front - 1
    BY <1>1, <1>3, SmallRemainder, MaxSizeAssumption DEF Slots
  <2> QED
    BY <2>1, <1>1, <1>3, MaxSizeAssumption DEF cq_full, CRem, Slots
<1>4. CASE MaxSize > 1 /\ q.front = 0
  <2>1. q.rear # q.front - 1
    BY <1>1, <1>4 DEF Slots
  <2>2. CASE MaxSize = 2
    BY <2>1, <2>2, <1>1, <1>4, Zenon DEF cq_full
  <2>3. CASE MaxSize > 2
    <3>1. 1 % (MaxSize - 1) = 1
      BY <2>3, SmallRemainder, MaxSizeAssumption
    <3> QED
      BY <3>1, <2>1, <2>3, <1>1, <1>4, MaxSizeAssumption DEF cq_full, CRem, Slots
  <2> QED
    BY <2>2, <2>3, <1>4, MaxSizeAssumption
<1> QED
  BY <1>1, <1>2, <1>3, <1>4, MaxSizeAssumption DEF Slots

(***************************************************************************)
(* How many elements there are, and that the slots they sit in are slots   *)
(* of the array.                                                           *)
(***************************************************************************)
LEMMA CountAndSlots ==
  ASSUME TypeOK
  PROVE  /\ CqCount(q, MaxSize) \in 0 .. MaxSize
         /\ cq_empty(q) <=> CqCount(q, MaxSize) = 0
         /\ \A i \in 1 .. CqCount(q, MaxSize) : CqSlot(q, MaxSize, i) \in Slots
<1>1. CASE q = cq_reset
  BY <1>1, MaxSizeAssumption DEF CqCount, cq_empty, cq_reset
<1>2. CASE q \in [front : Slots, rear : Slots]
  <2>1. q.front \in Slots /\ q.rear \in Slots /\ ~cq_empty(q)
    BY <1>2, MaxSizeAssumption DEF Slots, cq_empty
  <2>2. CASE q.front <= q.rear
    <3>1. CqCount(q, MaxSize) = q.rear - q.front + 1
      BY <2>1, <2>2, Zenon DEF CqCount
    <3> QED BY <2>1, <2>2, <3>1, MaxSizeAssumption DEF CqSlot, Slots
  <2>3. CASE ~(q.front <= q.rear)
    <3>1. CqCount(q, MaxSize) = q.rear + MaxSize - q.front + 1
      BY <2>1, <2>3, Zenon DEF CqCount
    <3> QED BY <2>1, <2>3, <3>1, MaxSizeAssumption DEF CqSlot, Slots
  <2> QED BY <2>2, <2>3, Zenon
<1> QED BY <1>1, <1>2, Zenon DEF TypeOK

(***************************************************************************)
(* cq_full of a queue that holds nothing is false, so that the first       *)
(* cq_enqueue succeeds whatever the size.                                  *)
(***************************************************************************)
LEMMA EmptyNotFull ==
  ASSUME q = cq_reset, MaxSize # 2
  PROVE  ~cq_full(q, MaxSize)
<1>1. CASE MaxSize = 1 \/ MaxSize = 3
  BY <1>1 DEF cq_full, CRem, cq_reset
<1>2. CASE MaxSize > 3
  <2>1. 2 % (MaxSize - 1) = 2
    BY <1>2, SmallRemainder, MaxSizeAssumption
  <2> QED BY <2>1, <1>2, MaxSizeAssumption DEF cq_full, CRem, cq_reset
<1> QED BY <1>1, <1>2, MaxSizeAssumption

(***************************************************************************)
(* The queue answers "full" exactly when all its slots are used, for every *)
(* size but two, for which cq_full's modulus is one (the run queue2 shows  *)
(* what happens there).                                                    *)
(***************************************************************************)
LEMMA FullExact ==
  ASSUME TypeOK, MaxSize # 2
  PROVE  FullIffAllSlotsUsed
<1>1. CASE q = cq_reset
  BY <1>1, EmptyNotFull, MaxSizeAssumption, Zenon
  DEF FullIffAllSlotsUsed, CqCount, cq_empty, cq_reset
<1>2. CASE q \in [front : Slots, rear : Slots]
  <2>1. ~cq_empty(q) /\ q.front \in Slots /\ q.rear \in Slots
    BY <1>2, MaxSizeAssumption DEF Slots, cq_empty
  <2>2. cq_full(q, MaxSize) <=> \/ q.front = 0 /\ q.rear = MaxSize - 1
                                \/ q.rear = q.front - 1
    BY <2>1, FullRear, Zenon
  <2>3. CqCount(q, MaxSize) = IF q.front <= q.rear THEN q.rear - q.front + 1
                              ELSE q.rear + MaxSize - q.front + 1
    BY <2>1, Zenon DEF CqCount
  <2> QED BY <2>1, <2>2, <2>3, MaxSizeAssumption DEF FullIffAllSlotsUsed, Slots
<1> QED BY <1>1, <1>2, Zenon DEF TypeOK

(***************************************************************************)
(* The indices of circular_queue.c never leave the array.                  *)
(***************************************************************************)
THEOREM TypeCorrect == Spec => []TypeOK
<1>1. Init => TypeOK
  BY Zenon DEF Init, TypeOK
<1>2. TypeOK /\ [Next]_vars => TypeOK'
  <2> SUFFICES ASSUME TypeOK, [Next]_vars PROVE TypeOK'
    BY Zenon
  <2> USE MaxSizeAssumption
  <2>1. ASSUME NEW v \in Values, Enqueue(v) PROVE TypeOK'
    <3>1. CASE cq_empty(q)
      BY <2>1, <3>1 DEF TypeOK, Enqueue, cq_enqueue, Slots
    <3>2. CASE ~cq_empty(q)
      <4>1. /\ q.front \in Slots /\ q.rear \in Slots
            /\ ~(q.front = 0 /\ q.rear = MaxSize - 1)
        BY <2>1, <3>2, FullRear, Zenon DEF Enqueue
      <4>2. q = [front |-> q.front, rear |-> q.rear]
        BY <3>2, Zenon DEF TypeOK, cq_empty, cq_reset
      <4>3. q' = [front |-> q.front,
                  rear |-> IF q.rear = MaxSize - 1 THEN 0 ELSE q.rear + 1]
        BY <2>1, <3>2, <4>1, <4>2, Zenon DEF Enqueue, cq_enqueue
      <4>4. q' \in [front : Slots, rear : Slots]
        BY <4>1, <4>3 DEF Slots
      <4> QED
        BY <2>1, <4>4, Zenon DEF TypeOK, Enqueue
    <3> QED BY <3>1, <3>2, Zenon
  <2>2. CASE Dequeue
    BY <2>2 DEF TypeOK, Dequeue, cq_dequeue, cq_empty, cq_reset, Slots
  <2>3. CASE Reset
    BY <2>3, Zenon DEF TypeOK, Reset
  <2>4. ASSUME NEW i \in 1 .. MaxSize, Rollback(i) PROVE TypeOK'
    <3>1. CqSlot(q, MaxSize, i) \in Slots /\ ~cq_empty(q)
      BY <2>4, CountAndSlots DEF Rollback
    <3> QED
      BY <2>4, <3>1 DEF TypeOK, Rollback, cq_set_rear, cq_empty, cq_reset
  <2>5. CASE UNCHANGED vars
    BY <2>5, Zenon DEF TypeOK, vars, cq_reset
  <2> QED BY <2>1, <2>2, <2>3, <2>4, <2>5, Zenon DEF Next
<1> QED BY <1>1, <1>2, PTL DEF Spec

(***************************************************************************)
(* Whatever calls came before, cq_full refuses an element exactly when     *)
(* every slot of the array is in use, for all sizes but two.               *)
(***************************************************************************)
THEOREM FullExactAlways ==
  ASSUME MaxSize # 2
  PROVE  Spec => []FullIffAllSlotsUsed
<1>1. TypeOK => FullIffAllSlotsUsed
  BY FullExact, Zenon
<1> QED BY <1>1, TypeCorrect, PTL

(***************************************************************************)
(* cq_enqueue: one more element, in the slot that the C function returns,  *)
(* which held none of the others.                                          *)
(***************************************************************************)
LEMMA EnqueueEffect ==
  ASSUME TypeOK, NEW v \in Values, Enqueue(v)
  PROVE  LET n == CqCount(q, MaxSize)
         IN  /\ n < MaxSize
             /\ CqCount(q', MaxSize) = n + 1
             /\ q'.rear \in Slots
             /\ CqSlot(q', MaxSize, n + 1) = q'.rear
             /\ \A i \in 1 .. n : /\ CqSlot(q', MaxSize, i) = CqSlot(q, MaxSize, i)
                                  /\ CqSlot(q, MaxSize, i) # q'.rear
<1> USE MaxSizeAssumption
<1>1. CASE cq_empty(q)
  <2>1. q' = [front |-> 0, rear |-> 0] /\ CqCount(q, MaxSize) = 0
    BY <1>1, Zenon DEF Enqueue, cq_enqueue, CqCount
  <2>2. CqCount(q', MaxSize) = 1 /\ CqSlot(q', MaxSize, 1) = 0
    BY <2>1 DEF CqCount, CqSlot, cq_empty
  <2> QED BY <2>1, <2>2 DEF Slots
<1>2. CASE ~cq_empty(q)
  <2>1. /\ q.front \in Slots /\ q.rear \in Slots
        /\ ~(q.front = 0 /\ q.rear = MaxSize - 1)
        /\ q.rear # q.front - 1
    BY <1>2, FullRear, Zenon DEF Enqueue
  <2>2. q = [front |-> q.front, rear |-> q.rear]
    BY <1>2, Zenon DEF TypeOK, cq_empty, cq_reset
  <2>3. q' = [front |-> q.front,
              rear |-> IF q.rear = MaxSize - 1 THEN 0 ELSE q.rear + 1]
    BY <1>2, <2>1, <2>2, Zenon DEF Enqueue, cq_enqueue
  <2>4. CqCount(q, MaxSize) = IF q.front <= q.rear THEN q.rear - q.front + 1
                              ELSE q.rear + MaxSize - q.front + 1
    BY <1>2, Zenon DEF CqCount
  <2>5. CqCount(q', MaxSize) = IF q.front <= q'.rear THEN q'.rear - q.front + 1
                               ELSE q'.rear + MaxSize - q.front + 1
    BY <2>1, <2>3 DEF CqCount, cq_empty, Slots
  <2>6. \A i \in 1 .. MaxSize : CqSlot(q', MaxSize, i) = CqSlot(q, MaxSize, i)
    BY <2>3, Zenon DEF CqSlot
  <2>7. q'.rear = IF q.rear = MaxSize - 1 THEN 0 ELSE q.rear + 1
    BY <2>3, Zenon
  <2> QED BY <2>1, <2>4, <2>5, <2>6, <2>7 DEF CqSlot, Slots
<1> QED BY <1>1, <1>2, Zenon

(***************************************************************************)
(* cq_dequeue: the oldest element goes, the others keep their order.       *)
(***************************************************************************)
LEMMA DequeueEffect ==
  ASSUME TypeOK, Dequeue
  PROVE  LET n == CqCount(q, MaxSize)
         IN  /\ n > 0
             /\ CqCount(q', MaxSize) = n - 1
             /\ \A i \in 1 .. n - 1 : CqSlot(q', MaxSize, i) = CqSlot(q, MaxSize, i + 1)
<1> USE MaxSizeAssumption
<1>1. ~cq_empty(q) /\ q.front \in Slots /\ q.rear \in Slots
  BY FullRear, Zenon DEF Dequeue
<1>2. q = [front |-> q.front, rear |-> q.rear]
  BY <1>1, Zenon DEF TypeOK, cq_empty, cq_reset
<1>3. CqCount(q, MaxSize) = IF q.front <= q.rear THEN q.rear - q.front + 1
                            ELSE q.rear + MaxSize - q.front + 1
  BY <1>1, Zenon DEF CqCount
<1>4. CASE q.front = q.rear
  <2>1. CqCount(q', MaxSize) = 0
    BY <1>4, Zenon DEF Dequeue, cq_dequeue, cq_reset, CqCount, cq_empty
  <2> QED BY <1>1, <1>3, <1>4, <2>1 DEF Slots
<1>5. CASE q.front # q.rear
  <2>1. q' = [front |-> IF q.front = MaxSize - 1 THEN 0 ELSE q.front + 1,
              rear |-> q.rear]
    BY <1>2, <1>5, Zenon DEF Dequeue, cq_dequeue
  <2>2. q'.rear = q.rear /\ q'.front = IF q.front = MaxSize - 1 THEN 0 ELSE q.front + 1
    BY <2>1, Zenon
  <2>3. CqCount(q', MaxSize) = IF q'.front <= q.rear THEN q.rear - q'.front + 1
                               ELSE q.rear + MaxSize - q'.front + 1
    BY <1>1, <2>2 DEF CqCount, cq_empty, Slots
  <2>4. CqCount(q, MaxSize) > 0 /\ CqCount(q', MaxSize) = CqCount(q, MaxSize) - 1
    BY <1>1, <1>3, <1>5, <2>2, <2>3 DEF Slots
  <2>5. CqCount(q, MaxSize) \in 0 .. MaxSize
    BY CountAndSlots, Zenon
  <2>6. ASSUME NEW i \in 1 .. CqCount(q, MaxSize) - 1
        PROVE  CqSlot(q', MaxSize, i) = CqSlot(q, MaxSize, i + 1)
    BY <1>1, <2>2, <2>5 DEF CqSlot, Slots
  <2> QED BY <2>4, <2>6, Zenon
<1> QED BY <1>4, <1>5, Zenon

(***************************************************************************)
(* cq_set_rear to the slot of the i-th element: the first i elements stay. *)
(***************************************************************************)
LEMMA RollbackEffect ==
  ASSUME TypeOK, NEW n \in 1 .. MaxSize, Rollback(n)
  PROVE  /\ n <= CqCount(q, MaxSize)
         /\ CqCount(q', MaxSize) = n
         /\ \A i \in 1 .. n : CqSlot(q', MaxSize, i) = CqSlot(q, MaxSize, i)
<1> USE MaxSizeAssumption
<1>1. /\ n \in 1 .. CqCount(q, MaxSize) /\ CqCount(q, MaxSize) \in 0 .. MaxSize
      /\ ~cq_empty(q) /\ CqSlot(q, MaxSize, n) \in Slots
  BY CountAndSlots DEF Rollback
<1>2. q.front \in Slots /\ q.rear \in Slots /\ q = [front |-> q.front, rear |-> q.rear]
  BY <1>1 DEF TypeOK, cq_empty, cq_reset
<1>3. q' = [front |-> q.front, rear |-> CqSlot(q, MaxSize, n)]
  BY <1>2, Zenon DEF Rollback, cq_set_rear
<1>4. q'.front = q.front /\ q'.rear = CqSlot(q, MaxSize, n)
  BY <1>3, Zenon
<1>5. CqCount(q', MaxSize) = IF q.front <= q'.rear THEN q'.rear - q.front + 1
                             ELSE q'.rear + MaxSize - q.front + 1
  BY <1>2, <1>4 DEF CqCount, cq_empty, Slots
<1>6. CqCount(q', MaxSize) = n
  BY <1>1, <1>2, <1>4, <1>5 DEF CqSlot, Slots
<1> QED BY <1>1, <1>4, <1>6 DEF CqSlot

(***************************************************************************)
(* Append and Tail as functions on an interval, the form in which Contents *)
(* is given.                                                               *)
(***************************************************************************)
LEMMA SeqAsFunction ==
  ASSUME NEW S, NEW s \in Seq(S)
  PROVE  s = [i \in 1 .. Len(s) |-> s[i]]
<1>1. s \in [1 .. Len(s) -> S]
  BY LenProperties, Zenon
<1> QED BY <1>1, Zenon

LEMMA AppendAsFunction ==
  ASSUME NEW S, NEW s \in Seq(S), NEW v \in S
  PROVE  Append(s, v) = [i \in 1 .. Len(s) + 1 |-> IF i = Len(s) + 1 THEN v ELSE s[i]]
<1>1. Append(s, v) \in Seq(S) /\ Len(Append(s, v)) = Len(s) + 1
  BY AppendProperties, Zenon
<1>2. /\ \A i \in 1 .. Len(s) : Append(s, v)[i] = s[i]
      /\ Append(s, v)[Len(s) + 1] = v
  BY AppendProperties
<1>3. Append(s, v) = [i \in 1 .. Len(s) + 1 |-> Append(s, v)[i]]
  BY <1>1, SeqAsFunction, Zenon
<1> QED BY <1>2, <1>3

LEMMA TailAsFunction ==
  ASSUME NEW S, NEW s \in Seq(S), Len(s) > 0
  PROVE  Tail(s) = [i \in 1 .. Len(s) - 1 |-> s[i + 1]]
<1>1. s # << >>
  OBVIOUS
<1>2. /\ Tail(s) \in Seq(S) /\ Len(Tail(s)) = Len(s) - 1
      /\ \A i \in 1 .. Len(Tail(s)) : Tail(s)[i] = s[i + 1]
  BY <1>1, HeadTailProperties, Zenon
<1>3. Tail(s) = [i \in 1 .. Len(Tail(s)) |-> Tail(s)[i]]
  BY <1>2, SeqAsFunction, Zenon
<1> QED BY <1>2, <1>3, Zenon

(***************************************************************************)
(* circular_queue.c implements a bounded FIFO: through Contents, every     *)
(* call of the library is a step of BoundedFifo, whatever the size of the  *)
(* array and however often the indices have wrapped around it.             *)
(***************************************************************************)
THEOREM Refinement == Spec => ImplementsFifo
<1>1. Init => Fifo!Init
  BY DEF Init, Fifo!Init, Contents, CqCount, cq_empty, cq_reset
<1>2. TypeOK /\ TypeOK' /\ [Next]_vars => [Fifo!Next]_Contents
  <2> SUFFICES ASSUME TypeOK, TypeOK', [Next]_vars PROVE [Fifo!Next]_Contents
    BY Zenon
  <2> DEFINE n == CqCount(q, MaxSize)
  <2>0. n \in 0 .. MaxSize /\ Contents \in Seq(Values) /\ Len(Contents) = n
    <3>1. n \in 0 .. MaxSize /\ Contents \in [1 .. n -> Values]
      BY CountAndSlots, Zenon DEF TypeOK, Contents
    <3> QED BY <3>1, MaxSizeAssumption
  <2>1. ASSUME NEW v \in Values, Enqueue(v) PROVE Fifo!Put(v)
    <3>1. \A i \in 1 .. n : entries'[CqSlot(q', MaxSize, i)] = entries[CqSlot(q, MaxSize, i)]
      BY <2>1, EnqueueEffect, CountAndSlots, Zenon DEF Enqueue, TypeOK
    <3>2. entries'[CqSlot(q', MaxSize, n + 1)] = v
      BY <2>1, EnqueueEffect, Zenon DEF Enqueue, TypeOK
    <3>3. Contents' = [i \in 1 .. n + 1 |-> IF i = n + 1 THEN v ELSE Contents[i]]
      BY <2>0, <2>1, <3>1, <3>2, EnqueueEffect, MaxSizeAssumption DEF Contents
    <3>4. Contents' = Append(Contents, v)
      BY <2>0, <3>3, AppendAsFunction
    <3> QED BY <2>0, <2>1, <3>4, EnqueueEffect, Zenon DEF Fifo!Put
  <2>2. CASE Dequeue
    <3>1. n > 0
      BY <2>2, DequeueEffect, Zenon
    <3>2. Contents' = [i \in 1 .. n - 1 |-> Contents[i + 1]]
      BY <2>0, <2>2, DequeueEffect, MaxSizeAssumption DEF Contents, Dequeue
    <3>3. Contents' = Tail(Contents)
      BY <2>0, <3>1, <3>2, TailAsFunction, Zenon
    <3> QED BY <2>0, <3>1, <3>3 DEF Fifo!Next, Fifo!Get
  <2>3. CASE Reset
    BY <2>3 DEF Reset, Fifo!Next, Fifo!Clear, Contents, CqCount, cq_empty, cq_reset
  <2>4. ASSUME NEW m \in 1 .. MaxSize, Rollback(m) PROVE Fifo!CutBack(m)
    <3>1. m \in 1 .. n
      BY <2>0, <2>4, RollbackEffect, MaxSizeAssumption
    <3>2. Contents' = [i \in 1 .. m |-> Contents[i]]
      BY <2>0, <2>4, <3>1, RollbackEffect, MaxSizeAssumption DEF Contents, Rollback
    <3>3. Contents' = SubSeq(Contents, 1, m)
      BY <2>0, <3>1, <3>2
    <3> QED BY <2>0, <3>1, <3>3, Zenon DEF Fifo!CutBack
  <2>5. CASE UNCHANGED vars
    BY <2>5, Zenon DEF vars, Contents
  <2> QED
    BY <2>0, <2>1, <2>2, <2>3, <2>4, <2>5, RollbackEffect, Zenon DEF Next, Fifo!Next, Fifo!CutBack
<1> QED BY <1>1, <1>2, TypeCorrect, PTL DEF Spec, ImplementsFifo, Fifo!Spec
=============================================================================
