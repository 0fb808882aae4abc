------------------------ MODULE CircularQueue_proofs ------------------------
(***************************************************************************)
(* What the operations of circular_queue.c do to the set of slots in use   *)
(* and to their order, for every size of the array.                        *)
(***************************************************************************)
EXTENDS CircularQueue, WellFoundedInduction, TLAPS

\* The states the two indices can be in.
QueueOK(q, max) ==
  \/ q = cq_reset
  \/ q \in [front : 0 .. max - 1, rear : 0 .. max - 1]

\* How far a slot is behind the front.
Off(q, max, s) == IF s >= q.front THEN s - q.front ELSE s - q.front + max

(***************************************************************************)
(* A set of natural numbers has a least element.                           *)
(***************************************************************************)
LEMMA LeastNatural ==
  ASSUME NEW S \in SUBSET Nat, S # {}
  PROVE  \E m \in S : \A n \in S : m <= n
<1>1. PICK m \in S : \A n \in S : ~(<<n, m>> \in OpToRel(<, Nat))
  BY NatLessThanWellFounded, WFMin, Zenon
<1>2. \A n \in S : ~(n < m)
  BY <1>1, Zenon DEF OpToRel
<1>3. QED
  BY <1>2

(***************************************************************************)
(* A remainder below the modulus is the number itself: what makes the      *)
(* expression (front - 1) % (max_size - 1) of cq_full the slot before      *)
(* front.                                                                  *)
(***************************************************************************)
LEMMA SmallModulus ==
  ASSUME NEW a \in Nat, NEW b \in Nat, a < b
  PROVE  a % b = a
  BY Z3

(***************************************************************************)
(* The slots in use are those up to the rear, in the order of Off.         *)
(***************************************************************************)
LEMMA SlotsInUse ==
  ASSUME NEW max \in Nat \ {0}, NEW q, QueueOK(q, max)
  PROVE  /\ cq_empty(q) => CqSlots(q, max) = {}
         /\ ~cq_empty(q) =>
              /\ q.front \in 0 .. max - 1 /\ q.rear \in 0 .. max - 1
              /\ q = [front |-> q.front, rear |-> q.rear]
              /\ CqSlots(q, max) =
                   {s \in 0 .. max - 1 : Off(q, max, s) <= Off(q, max, q.rear)}
<1>1. CASE q = cq_reset
  BY <1>1 DEF cq_reset, cq_empty, CqSlots, CqCount
<1>2. CASE q \in [front : 0 .. max - 1, rear : 0 .. max - 1]
  <2>1. /\ q.front \in 0 .. max - 1 /\ q.rear \in 0 .. max - 1
        /\ q = [front |-> q.front, rear |-> q.rear] /\ ~cq_empty(q)
    BY <1>2 DEF cq_empty
  <2>2. CqCount(q, max) = Off(q, max, q.rear) + 1 /\ CqCount(q, max) \in 1 .. max
    BY <2>1 DEF CqCount, Off
  <2>3. ASSUME NEW i \in 1 .. CqCount(q, max)
        PROVE  /\ CqSlot(q, max, i) \in 0 .. max - 1
               /\ Off(q, max, CqSlot(q, max, i)) <= Off(q, max, q.rear)
    <3>1. Off(q, max, CqSlot(q, max, i)) = i - 1 /\ CqSlot(q, max, i) \in 0 .. max - 1
      BY <2>1, <2>2 DEF Off, CqSlot
    <3>2. QED
      BY <2>1, <2>2, <3>1 DEF Off
  <2>4. ASSUME NEW s \in 0 .. max - 1, Off(q, max, s) <= Off(q, max, q.rear)
        PROVE  s \in CqSlots(q, max)
    <3> DEFINE i == Off(q, max, s) + 1
    <3>1. i \in 1 .. CqCount(q, max)
      BY <2>1, <2>2, <2>4 DEF Off
    <3>2. CqSlot(q, max, i) = s
      BY <2>1 DEF Off, CqSlot
    <3>3. QED
      BY <3>1, <3>2, Zenon DEF CqSlots
  <2>5. QED
    BY <2>1, <2>3, <2>4, Zenon DEF CqSlots
<1>3. QED
  BY <1>1, <1>2, Zenon DEF QueueOK

(***************************************************************************)
(* cq_enqueue of a queue that is not full takes a free slot, behind all    *)
(* the others.                                                             *)
(***************************************************************************)
LEMMA EnqueueSlots ==
  ASSUME NEW max \in Nat \ {0}, NEW q, QueueOK(q, max), ~cq_full(q, max),
         NEW n, n = cq_enqueue(q, max)
  PROVE  /\ QueueOK(n, max) /\ ~cq_empty(n)
         /\ n.rear \in 0 .. max - 1
         /\ n.rear \notin CqSlots(q, max)
         /\ CqSlots(n, max) = CqSlots(q, max) \cup {n.rear}
         /\ \A s \in CqSlots(q, max) : Off(n, max, s) < Off(n, max, n.rear)
         /\ \A s \in CqSlots(q, max) : Off(n, max, s) = Off(q, max, s)
<1>1. CASE cq_empty(q)
  <2>1. n = [front |-> 0, rear |-> 0]
    BY <1>1, Zenon DEF cq_enqueue
  <2>2. QueueOK(n, max) /\ ~cq_empty(n)
    BY <2>1 DEF QueueOK, cq_empty
  <2>3. CqSlots(q, max) = {}
    BY <1>1, SlotsInUse, Zenon
  <2>4. CqSlots(n, max) = {s \in 0 .. max - 1 : Off(n, max, s) <= Off(n, max, n.rear)}
    BY <2>2, SlotsInUse, Zenon
  <2>5. \A s \in 0 .. max - 1 : Off(n, max, s) = s
    BY <2>1 DEF Off
  <2>6. QED
    BY <2>1, <2>2, <2>3, <2>4, <2>5
<1>2. CASE ~cq_empty(q)
  <2>1. /\ q.front \in 0 .. max - 1 /\ q.rear \in 0 .. max - 1
        /\ q = [front |-> q.front, rear |-> q.rear]
        /\ CqSlots(q, max) =
             {s \in 0 .. max - 1 : Off(q, max, s) <= Off(q, max, q.rear)}
    BY <1>2, SlotsInUse, Zenon
  <2>2. ~(q.front = 0 /\ q.rear = max - 1) /\ q.rear # q.front - 1
    <3>1. CASE max > 1 /\ q.front > 0
      <4>1. q.front - 1 \in Nat /\ max - 1 \in Nat /\ q.front - 1 < max - 1
        BY <2>1, <3>1
      <4>2. (q.front - 1) % (max - 1) = q.front - 1
        BY <4>1, SmallModulus, Zenon
      <4>3. QED
        BY <2>1, <3>1, <4>2 DEF cq_full, CRem
    <3>2. CASE ~(max > 1 /\ q.front > 0)
      BY <2>1, <3>2 DEF cq_full
    <3>3. QED
      BY <3>1, <3>2, Zenon
  <2>3. n = [front |-> q.front, rear |-> IF q.rear = max - 1 THEN 0 ELSE q.rear + 1]
    BY <1>2, <2>1, <2>2, Zenon DEF cq_enqueue
  <2>4. /\ n.front = q.front /\ n.rear = (IF q.rear = max - 1 THEN 0 ELSE q.rear + 1)
        /\ n.rear \in 0 .. max - 1
    BY <2>1, <2>3
  <2>5. QueueOK(n, max) /\ ~cq_empty(n)
    BY <2>1, <2>3, <2>4 DEF QueueOK, cq_empty
  <2>6. CqSlots(n, max) = {s \in 0 .. max - 1 : Off(n, max, s) <= Off(n, max, n.rear)}
    BY <2>5, SlotsInUse, Zenon
  <2>7. \A s \in 0 .. max - 1 : Off(n, max, s) = Off(q, max, s)
    BY <2>1, <2>4, Zenon DEF Off
  <2>8. Off(n, max, n.rear) = Off(q, max, q.rear) + 1
    BY <2>1, <2>2, <2>4 DEF Off
  <2>9. \A s \in 0 .. max - 1 : /\ Off(q, max, s) \in Int
                                /\ Off(n, max, s) = Off(n, max, n.rear) => s = n.rear
    BY <2>1, <2>4 DEF Off
  <2>10. Off(q, max, q.rear) \in Int
    BY <2>1, <2>9, Zenon
  <2>11. \A s \in CqSlots(q, max) : Off(n, max, s) < Off(n, max, n.rear)
    BY <2>1, <2>7, <2>8, <2>9, <2>10
  <2>12. n.rear \notin CqSlots(q, max)
    BY <2>4, <2>9, <2>11, <2>7
  <2>13. CqSlots(n, max) = CqSlots(q, max) \cup {n.rear}
    <3>1. ASSUME NEW s \in 0 .. max - 1
          PROVE  Off(n, max, s) <= Off(n, max, n.rear)
                   <=> Off(q, max, s) <= Off(q, max, q.rear) \/ s = n.rear
      BY <2>4, <2>7, <2>8, <2>9, <2>10
    <3>2. QED
      BY <3>1, <2>1, <2>4, <2>6, Zenon
  <2>14. QED
    BY <2>1, <2>4, <2>5, <2>7, <2>11, <2>12, <2>13, Zenon
<1>3. QED
  BY <1>1, <1>2, Zenon

(***************************************************************************)
(* Two slots are never equally far behind the front.                       *)
(***************************************************************************)
LEMMA OffInjective ==
  ASSUME NEW max \in Nat \ {0}, NEW q, QueueOK(q, max), ~cq_empty(q),
         NEW s \in 0 .. max - 1, NEW t \in 0 .. max - 1
  PROVE  /\ Off(q, max, s) \in Nat
         /\ Off(q, max, s) = Off(q, max, t) => s = t
  BY SlotsInUse DEF Off

(***************************************************************************)
(* cq_dequeue frees the front, the first in the order, and keeps the order *)
(* of the others.                                                          *)
(***************************************************************************)
LEMMA DequeueSlots ==
  ASSUME NEW max \in Nat \ {0}, NEW q, QueueOK(q, max), ~cq_empty(q),
         NEW n, n = cq_dequeue(q, max)
  PROVE  /\ QueueOK(n, max)
         /\ q.front \in CqSlots(q, max)
         /\ \A s \in CqSlots(q, max) :
              s # q.front => Off(q, max, q.front) < Off(q, max, s)
         /\ CqSlots(n, max) = CqSlots(q, max) \ {q.front}
         /\ \A s \in CqSlots(n, max) : Off(n, max, s) = Off(q, max, s) - 1
<1>1. /\ q.front \in 0 .. max - 1 /\ q.rear \in 0 .. max - 1
      /\ q = [front |-> q.front, rear |-> q.rear]
      /\ CqSlots(q, max) =
           {s \in 0 .. max - 1 : Off(q, max, s) <= Off(q, max, q.rear)}
  BY SlotsInUse, Zenon
<1>2. /\ Off(q, max, q.front) = 0
      /\ \A s \in 0 .. max - 1 : /\ Off(q, max, s) \in Nat
                                 /\ s # q.front => Off(q, max, s) > 0
  BY <1>1 DEF Off
<1>3. /\ q.front \in CqSlots(q, max)
      /\ \A s \in CqSlots(q, max) :
           s # q.front => Off(q, max, q.front) < Off(q, max, s)
  BY <1>1, <1>2
<1>4. CASE q.front = q.rear
  <2>1. n = cq_reset
    BY <1>4, Zenon DEF cq_dequeue
  <2>2. QueueOK(n, max) /\ cq_empty(n)
    BY <2>1 DEF QueueOK, cq_empty, cq_reset
  <2>3. CqSlots(n, max) = {}
    BY <2>2, SlotsInUse, Zenon
  <2>4. \A s \in CqSlots(q, max) : s = q.front
    BY <1>1, <1>2, <1>4
  <2>5. QED
    BY <1>3, <2>2, <2>3, <2>4, Zenon
<1>5. CASE q.front # q.rear
  <2>1. n = [front |-> IF q.front = max - 1 THEN 0 ELSE q.front + 1, rear |-> q.rear]
    BY <1>1, <1>5, Zenon DEF cq_dequeue
  <2>2. /\ n.front = (IF q.front = max - 1 THEN 0 ELSE q.front + 1) /\ n.rear = q.rear
        /\ n.front \in 0 .. max - 1
    BY <1>1, <1>5, <2>1
  <2>3. QueueOK(n, max) /\ ~cq_empty(n)
    BY <1>1, <2>1, <2>2 DEF QueueOK, cq_empty
  <2>4. CqSlots(n, max) = {s \in 0 .. max - 1 : Off(n, max, s) <= Off(n, max, n.rear)}
    BY <2>3, SlotsInUse, Zenon
  <2>5. \A s \in 0 .. max - 1 :
          Off(n, max, s) = IF s = q.front THEN max - 1 ELSE Off(q, max, s) - 1
    BY <1>1, <2>2 DEF Off
  <2>6. Off(q, max, q.rear) <= max - 1
    BY <1>1 DEF Off
  <2>7. ASSUME NEW s \in 0 .. max - 1
        PROVE  Off(n, max, s) <= Off(n, max, n.rear)
                 <=> Off(q, max, s) <= Off(q, max, q.rear) /\ s # q.front
    BY <1>1, <1>2, <1>5, <2>2, <2>5, <2>6
  <2>8. CqSlots(n, max) = CqSlots(q, max) \ {q.front}
    BY <1>1, <2>4, <2>7, Zenon
  <2>9. QED
    BY <1>1, <1>3, <2>3, <2>5, <2>8, Zenon
<1>6. QED
  BY <1>4, <1>5, Zenon

(***************************************************************************)
(* cq_set_rear to a slot in use frees the slots behind it, and only those. *)
(***************************************************************************)
LEMMA SetRearSlots ==
  ASSUME NEW max \in Nat \ {0}, NEW q, QueueOK(q, max), NEW r \in CqSlots(q, max),
         NEW n, n = cq_set_rear(q, r)
  PROVE  /\ QueueOK(n, max) /\ ~cq_empty(n)
         /\ CqSlots(n, max) =
              {s \in CqSlots(q, max) : Off(q, max, s) <= Off(q, max, r)}
         /\ \A s : Off(n, max, s) = Off(q, max, s)
<1>1. ~cq_empty(q)
  BY SlotsInUse, Zenon
<1>2. /\ q.front \in 0 .. max - 1 /\ q.rear \in 0 .. max - 1
      /\ q = [front |-> q.front, rear |-> q.rear]
      /\ CqSlots(q, max) =
           {s \in 0 .. max - 1 : Off(q, max, s) <= Off(q, max, q.rear)}
  BY <1>1, SlotsInUse, Zenon
<1>3. n = [front |-> q.front, rear |-> r] /\ r \in 0 .. max - 1
  BY <1>2, Zenon DEF cq_set_rear
<1>4. QueueOK(n, max) /\ ~cq_empty(n)
  BY <1>2, <1>3 DEF QueueOK, cq_empty
<1>5. CqSlots(n, max) = {s \in 0 .. max - 1 : Off(n, max, s) <= Off(n, max, n.rear)}
  BY <1>4, SlotsInUse, Zenon
<1>6. n.front = q.front /\ n.rear = r
  BY <1>3
<1>7. \A s : Off(n, max, s) = Off(q, max, s)
  BY <1>6, Zenon DEF Off
<1>8. \A s \in 0 .. max - 1 : Off(q, max, s) \in Int
  BY <1>2 DEF Off
<1>9. \A s \in 0 .. max - 1 :
        Off(q, max, s) <= Off(q, max, r) => Off(q, max, s) <= Off(q, max, q.rear)
  BY <1>2, <1>8
<1>10. QED
  BY <1>2, <1>4, <1>5, <1>6, <1>7, <1>9, Zenon

-----------------------------------------------------------------------------
(***************************************************************************)
(* A user numbers its entries in the order it adds them: the slots in use  *)
(* are in the order of these numbers, k.                                   *)
(***************************************************************************)
InOrder(q, max, k) ==
  \A s, t \in CqSlots(q, max) :
    k[s] \in Nat /\ (Off(q, max, s) < Off(q, max, t) <=> k[s] < k[t])

(***************************************************************************)
(* Then no number is used twice.                                           *)
(***************************************************************************)
LEMMA UsedSlots ==
  ASSUME NEW max \in Nat \ {0}, NEW q, QueueOK(q, max)
  PROVE  /\ CqSlots(q, max) \subseteq 0 .. max - 1
         /\ CqSlots(q, max) # {} => ~cq_empty(q)
         /\ \A s, t \in CqSlots(q, max) :
              /\ Off(q, max, s) \in Nat
              /\ Off(q, max, s) = Off(q, max, t) => s = t
         /\ \A k : InOrder(q, max, k) =>
              \A s, t \in CqSlots(q, max) : k[s] = k[t] => s = t
<1>1. CASE cq_empty(q)
  BY <1>1, SlotsInUse, Zenon
<1>2. CASE ~cq_empty(q)
  <2>1. CqSlots(q, max) \subseteq 0 .. max - 1
    BY <1>2, SlotsInUse, Zenon
  <2>2. ASSUME NEW s \in 0 .. max - 1, NEW t \in 0 .. max - 1
        PROVE  /\ Off(q, max, s) \in Nat
               /\ Off(q, max, s) = Off(q, max, t) => s = t
    BY <1>2, OffInjective, Zenon
  <2>3. ASSUME NEW k, InOrder(q, max, k),
               NEW s \in CqSlots(q, max), NEW t \in CqSlots(q, max), k[s] = k[t]
        PROVE  s = t
    <3>1. /\ k[s] \in Nat /\ k[t] \in Nat
          /\ Off(q, max, s) < Off(q, max, t) <=> k[s] < k[t]
          /\ Off(q, max, t) < Off(q, max, s) <=> k[t] < k[s]
      BY <2>3, Zenon DEF InOrder
    <3>2. s \in 0 .. max - 1 /\ t \in 0 .. max - 1
      BY <2>1, Zenon
    <3>3. Off(q, max, s) \in Nat /\ Off(q, max, t) \in Nat
      BY <2>2, <3>2, Zenon
    <3>4. Off(q, max, s) = Off(q, max, t)
      BY <2>3, <3>1, <3>3
    <3>5. QED
      BY <2>2, <3>2, <3>4, Zenon
  <2>4. QED
    BY <1>2, <2>1, <2>2, <2>3, Zenon
<1>3. QED
  BY <1>1, <1>2, Zenon

\* The numbers after a new entry in slot x, with a higher one than those of L.
Numbers(L, k, k2, x) ==
  k2[x] \in Nat /\ \A s \in L : k2[s] = k[s] /\ k[s] < k2[x]

(***************************************************************************)
(* A new entry with a higher number goes behind all the others.            *)
(***************************************************************************)
LEMMA EnqueueKeepsOrder ==
  ASSUME NEW max \in Nat \ {0}, NEW q, NEW k, NEW k2, NEW n,
         QueueOK(q, max), InOrder(q, max, k),
         ~cq_full(q, max), n = cq_enqueue(q, max),
         Numbers(CqSlots(q, max), k, k2, n.rear)
  PROVE  /\ QueueOK(n, max) /\ InOrder(n, max, k2)
         /\ n.rear \in 0 .. max - 1 /\ n.rear \notin CqSlots(q, max)
         /\ CqSlots(n, max) = CqSlots(q, max) \cup {n.rear}
<1> DEFINE L == CqSlots(q, max)
<1>1. /\ QueueOK(n, max)
      /\ n.rear \in 0 .. max - 1 /\ n.rear \notin L
      /\ CqSlots(n, max) = L \cup {n.rear}
      /\ \A s \in L : Off(n, max, s) < Off(n, max, n.rear)
      /\ \A s \in L : Off(n, max, s) = Off(q, max, s)
  BY EnqueueSlots
<1>2. \A s \in L \cup {n.rear} : Off(n, max, s) \in Nat
  BY <1>1, UsedSlots, Zenon
<1>3. \A s, t \in L : k[s] \in Nat /\ (Off(q, max, s) < Off(q, max, t) <=> k[s] < k[t])
  BY Zenon DEF InOrder
<1>4. k2[n.rear] \in Nat /\ \A s \in L : k2[s] = k[s] /\ k[s] < k2[n.rear]
  BY Zenon DEF Numbers
<1> HIDE DEF L
<1>5. ASSUME NEW s \in L \cup {n.rear}, NEW t \in L \cup {n.rear}
      PROVE  k2[s] \in Nat /\ (Off(n, max, s) < Off(n, max, t) <=> k2[s] < k2[t])
  <2>1. CASE s \in L /\ t \in L
    BY <1>1, <1>3, <1>4, <2>1, Zenon
  <2>2. CASE s \in L /\ t = n.rear
    BY <1>1, <1>3, <1>4, <2>2, Zenon
  <2>3. CASE s = n.rear /\ t \in L
    BY <1>1, <1>2, <1>3, <1>4, <2>3
  <2>4. CASE s = n.rear /\ t = n.rear
    BY <1>2, <1>4, <2>4
  <2>5. QED
    BY <2>1, <2>2, <2>3, <2>4, Zenon
<1>6. InOrder(n, max, k2)
  BY <1>1, <1>5, Zenon DEF InOrder
<1>7. QED
  BY <1>1, <1>6, Zenon DEF L

(***************************************************************************)
(* The front has the lowest number, and removing it keeps the others in    *)
(* order.                                                                  *)
(***************************************************************************)
LEMMA DequeueKeepsOrder ==
  ASSUME NEW max \in Nat \ {0}, NEW q, NEW k, NEW k2, NEW n,
         QueueOK(q, max), InOrder(q, max, k),
         ~cq_empty(q), n = cq_dequeue(q, max),
         \A s \in CqSlots(q, max) : s # q.front => k2[s] = k[s]
  PROVE  /\ QueueOK(n, max) /\ InOrder(n, max, k2)
         /\ q.front \in CqSlots(q, max)
         /\ \A t \in CqSlots(q, max) : t # q.front => k[q.front] < k[t]
         /\ CqSlots(n, max) = CqSlots(q, max) \ {q.front}
<1> DEFINE L == CqSlots(q, max)
<1>1. /\ QueueOK(n, max) /\ q.front \in L
      /\ \A s \in L : s # q.front => Off(q, max, q.front) < Off(q, max, s)
      /\ CqSlots(n, max) = L \ {q.front}
      /\ \A s \in CqSlots(n, max) : Off(n, max, s) = Off(q, max, s) - 1
  BY DequeueSlots
<1>2. \A s, t \in L : k[s] \in Nat /\ (Off(q, max, s) < Off(q, max, t) <=> k[s] < k[t])
  BY Zenon DEF InOrder
<1>3. \A s \in L : Off(q, max, s) \in Nat
  BY UsedSlots, Zenon
<1>4. \A s \in L : s # q.front => k2[s] = k[s]
  BY Zenon
<1> HIDE DEF L
<1>5. \A t \in L : t # q.front => k[q.front] < k[t]
  BY <1>1, <1>2, Zenon
<1>6. ASSUME NEW s \in L \ {q.front}, NEW t \in L \ {q.front}
      PROVE  k2[s] \in Nat /\ (Off(n, max, s) < Off(n, max, t) <=> k2[s] < k2[t])
  <2>1. Off(n, max, s) < Off(n, max, t) <=> Off(q, max, s) < Off(q, max, t)
    BY <1>1, <1>3
  <2>2. QED
    BY <1>2, <1>4, <2>1, Zenon
<1>7. InOrder(n, max, k2)
  BY <1>1, <1>6, Zenon DEF InOrder
<1>8. QED
  BY <1>1, <1>5, <1>7, Zenon DEF L

(***************************************************************************)
(* The front has the lowest number.                                        *)
(***************************************************************************)
LEMMA FrontIsFirst ==
  ASSUME NEW max \in Nat \ {0}, NEW q, NEW k,
         QueueOK(q, max), InOrder(q, max, k), ~cq_empty(q)
  PROVE  /\ q.front \in CqSlots(q, max)
         /\ \A t \in CqSlots(q, max) : t # q.front => k[q.front] < k[t]
  BY DequeueKeepsOrder, Zenon

(***************************************************************************)
(* With the rear moved back to slot r, the entries left are those up to    *)
(* the one in r, in order.                                                 *)
(***************************************************************************)
LEMMA SetRearKeepsOrder ==
  ASSUME NEW max \in Nat \ {0}, NEW q, NEW k, NEW k2, NEW n,
         QueueOK(q, max), InOrder(q, max, k),
         NEW r \in CqSlots(q, max), n = cq_set_rear(q, r),
         \A s \in CqSlots(q, max) : k2[s] = k[s]
  PROVE  /\ QueueOK(n, max) /\ InOrder(n, max, k2) /\ ~cq_empty(n)
         /\ CqSlots(n, max) = {t \in CqSlots(q, max) : k[t] <= k[r]}
<1> DEFINE L == CqSlots(q, max)
<1>1. /\ QueueOK(n, max) /\ ~cq_empty(n)
      /\ CqSlots(n, max) = {s \in L : Off(q, max, s) <= Off(q, max, r)}
      /\ \A s : Off(n, max, s) = Off(q, max, s)
  BY SetRearSlots
<1>2. \A s, t \in L : k[s] \in Nat /\ (Off(q, max, s) < Off(q, max, t) <=> k[s] < k[t])
  BY Zenon DEF InOrder
<1>3. \A s \in L : Off(q, max, s) \in Nat /\ k2[s] = k[s]
  BY UsedSlots, Zenon
<1> HIDE DEF L
<1>4. r \in L
  BY Zenon DEF L
<1>5. ASSUME NEW s \in L
      PROVE  Off(q, max, s) <= Off(q, max, r) <=> k[s] <= k[r]
  <2>1. k[r] \in Nat /\ k[s] \in Nat /\ (Off(q, max, r) < Off(q, max, s) <=> k[r] < k[s])
    BY <1>2, <1>4, Zenon
  <2>2. QED
    BY <1>3, <1>4, <2>1
<1>6. CqSlots(n, max) = {t \in L : k[t] <= k[r]}
  BY <1>1, <1>5, Zenon
<1>7. InOrder(n, max, k2)
  BY <1>1, <1>2, <1>3, Zenon DEF InOrder
<1>8. QED
  BY <1>1, <1>6, <1>7, Zenon DEF L
=============================================================================
