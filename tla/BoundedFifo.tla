---------------------------- MODULE BoundedFifo ----------------------------
(***************************************************************************)
(* What a circular queue of the simulator promises its users (the reorder  *)
(* buffer, the load/store queue, the memory-request queue and the          *)
(* execute-to-memory queue): a first-in first-out queue of at most         *)
(* Capacity elements that can also be emptied, or cut back to a prefix     *)
(* when a mispredicted branch is rolled back.                              *)
(***************************************************************************)
EXTENDS Naturals, Sequences

CONSTANTS Values,   \* what the users store in the slots
          Capacity  \* how many elements the queue may hold

VARIABLE queue      \* the elements, oldest first

Init == queue = << >>

Put(v) == /\ Len(queue) < Capacity
          /\ queue' = Append(queue, v)

Get == /\ queue # << >>
       /\ queue' = Tail(queue)

Clear == queue' = << >>

CutBack(n) == /\ n \in 1 .. Len(queue)
              /\ queue' = SubSeq(queue, 1, n)

Next == \/ \E v \in Values : Put(v)
        \/ Get
        \/ Clear
        \/ \E n \in 1 .. Len(queue) : CutBack(n)

Spec == Init /\ [][Next]_queue
=============================================================================
