--------------------------- MODULE CircularQueue ---------------------------
(***************************************************************************)
(* The circular queue of src/riscvsim/utils/circular_queue.c.  The C       *)
(* structure CQ only holds two indices, front and rear; the elements live  *)
(* in an array of the user (rob.entries, lsq.entries,                      *)
(* mem_request_queue.entry, ex_to_mem_queue.data), indexed by the value    *)
(* that cq_enqueue returns.  One operator per C function, on a record      *)
(* q = [front, rear] and the size max of the array.                        *)
(***************************************************************************)
EXTENDS Integers, Sequences

(***************************************************************************)
(* The remainder of C: the quotient is truncated towards zero, so that the *)
(* remainder has the sign of a.                                            *)
(***************************************************************************)
CRem(a, b) == IF a >= 0 THEN a % b ELSE -((-a) % b)

cq_reset == [front |-> -1, rear |-> -1]

cq_empty(q) == q.front = -1

cq_full(q, max) ==
  \/ q.front = 0 /\ q.rear = max - 1
  \/ max > 1 /\ q.rear = CRem(q.front - 1, max - 1)

(***************************************************************************)
(* The queue after a successful cq_enqueue; the slot that the C function   *)
(* returns is the new rear.                                                *)
(***************************************************************************)
cq_enqueue(q, max) ==
  IF cq_empty(q) THEN [front |-> 0, rear |-> 0]
  ELSE IF q.rear = max - 1 /\ q.front # 0 THEN [q EXCEPT !.rear = 0]
  ELSE [q EXCEPT !.rear = @ + 1]

\* Mutant: removing the last element does not reset the indices.
cq_dequeue_NoReset(q, max) ==
  IF q.front = max - 1 THEN [q EXCEPT !.front = 0] ELSE [q EXCEPT !.front = @ + 1]

cq_dequeue(q, max) ==
  IF q.front = q.rear THEN cq_reset
  ELSE IF q.front = max - 1 THEN [q EXCEPT !.front = 0]
  ELSE [q EXCEPT !.front = @ + 1]

cq_set_rear(q, r) == [q EXCEPT !.rear = r]

(***************************************************************************)
(* The slots that hold an element, oldest first.                           *)
(***************************************************************************)
CqCount(q, max) ==
  IF cq_empty(q) THEN 0
  ELSE IF q.front <= q.rear THEN q.rear - q.front + 1
  ELSE q.rear + max - q.front + 1

CqSlot(q, max, i) ==
  IF q.front + i - 1 < max THEN q.front + i - 1 ELSE q.front + i - 1 - max

CqSlots(q, max) == {CqSlot(q, max, i) : i \in 1 .. CqCount(q, max)}
=============================================================================
