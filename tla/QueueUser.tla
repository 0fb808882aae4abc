----------------------------- MODULE QueueUser -----------------------------
(***************************************************************************)
(* A user of the circular queue: the array of entries beside the two       *)
(* indices, and the operations in the order the cores call them.  The      *)
(* reorder buffer and the load/store queue test cq_full before cq_enqueue  *)
(* (stall_insn_dispatch), write the entry at the returned index, remove    *)
(* from the front, reset the queue, and after a mispredicted branch move   *)
(* the rear back to a slot that is still in use (restore_rob,              *)
(* restore_lsq).                                                           *)
(***************************************************************************)
EXTENDS CircularQueue

CONSTANTS MaxSize,  \* CQ.max_size
          Values    \* the contents of an entry

ASSUME MaxSizeAssumption == MaxSize \in Nat \ {0}

VARIABLES q,        \* the two indices of CQ
          entries   \* the user's array

vars == <<q, entries>>

Slots == 0 .. MaxSize - 1

Init == /\ q = cq_reset
        /\ entries \in [Slots -> Values]

Enqueue(v) == /\ ~cq_full(q, MaxSize)
              /\ q' = cq_enqueue(q, MaxSize)
              /\ entries' = [entries EXCEPT ![q'.rear] = v]

Dequeue == /\ ~cq_empty(q)
           /\ q' = cq_dequeue(q, MaxSize)
           /\ UNCHANGED entries

Reset == /\ q' = cq_reset
         /\ UNCHANGED entries

Rollback(i) == /\ i \in 1 .. CqCount(q, MaxSize)
               /\ q' = cq_set_rear(q, CqSlot(q, MaxSize, i))
               /\ UNCHANGED entries

Next == \/ \E v \in Values : Enqueue(v)
        \/ Dequeue
        \/ Reset
        \/ \E i \in 1 .. MaxSize : Rollback(i)

Spec == Init /\ [][Next]_vars

(***************************************************************************)
(* The indices are both -1 or both slots of the array, and the array holds *)
(* values (the states that the index arithmetic of circular_queue.c may    *)
(* leave the queue in).                                                    *)
(***************************************************************************)
TypeOK ==
  /\ \/ q = cq_reset
     \/ q \in [front : Slots, rear : Slots]
  /\ entries \in [Slots -> Values]

(***************************************************************************)
(* cq_full answers "full" exactly when every slot of the array is in use:  *)
(* no slot is wasted and none is overwritten.  The comment of cq_enqueue   *)
(* on the refusing branch says "Queue full".                               *)
(***************************************************************************)
FullIffAllSlotsUsed == cq_full(q, MaxSize) <=> CqCount(q, MaxSize) = MaxSize

(***************************************************************************)
(* The queue the user sees: the entries from front to rear, through the    *)
(* wrap-around.  Through it, every operation of circular_queue.c does what *)
(* a bounded FIFO does: the element written at the returned index is the   *)
(* youngest, a removed one is the oldest, nothing that is queued is        *)
(* overwritten, and a rollback keeps exactly the older elements.           *)
(***************************************************************************)
Contents == [i \in 1 .. CqCount(q, MaxSize) |-> entries[CqSlot(q, MaxSize, i)]]

Fifo == INSTANCE BoundedFifo WITH Capacity <- MaxSize, queue <- Contents

ImplementsFifo == Fifo!Spec
=============================================================================
