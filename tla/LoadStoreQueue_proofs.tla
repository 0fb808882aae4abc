----------------------- MODULE LoadStoreQueue_proofs -----------------------
(***************************************************************************)
(* Memory is accessed in program order and never on a speculated path, for *)
(* every size of the reorder buffer and of the load/store queue, every     *)
(* number of commit ports and every program.                               *)
(*                                                                         *)
(* The code only looks at the front of the queue and, for a store, at the  *)
(* PC at the top of the ROB.  That this is enough rests on three things:   *)
(* the queue holds the memory instructions of the ROB that are not         *)
(* finished, in program order (Linked, Orders); an access that the unit    *)
(* has completed leaves the queue in the same cycle (FrontInv); so a store *)
(* that is finished is at the top of the ROB and is committed before the   *)
(* queue is looked at again (StoresInv), and a top with the PC of the      *)
(* store at the front is that store.                                       *)
(***************************************************************************)
EXTENDS LoadStoreQueue, CircularQueue_proofs

(***************************************************************************)
(* At one PC there is one instruction.                                     *)
(***************************************************************************)
OneInsnPerPc == \A i, j \in Insns : i.pc = j.pc => i = j

LsqLive == CqSlots(lsq_cq, LsqSize)

Ids(R) == [s \in Slots |-> R[s].id]

LsqIds(R, Q) == [i \in LsqSlots |-> R[Q[i].e].id]

Mem(R, s) == R[s].ins.kind \in {"load", "store", "atomic"}

Types ==
  /\ rob \in [Slots -> RobEntry \cup {NoEntry}]
  /\ lsq \in [LsqSlots -> LsqEntry \cup {NoEntry}]
  /\ lsu \in [has_data : BOOLEAN, stage_exec_done : BOOLEAN, e : Slots \cup {-1}]
  /\ ins_dispatch_id \in Nat
  /\ commits \in Nat /\ (phase # "commit" => commits = 0)

\* Both queues are in program order.
Orders ==
  /\ QueueOK(rob_cq, RobSize) /\ InOrder(rob_cq, RobSize, Ids(rob))
  /\ QueueOK(lsq_cq, LsqSize) /\ InOrder(lsq_cq, LsqSize, LsqIds(rob, lsq))
  /\ \A s \in Live : rob[s] \in RobEntry /\ rob[s].id < ins_dispatch_id

\* For the slots L and M in use: the queue holds what is not finished.
Linked(L, M, R, Q) ==
  /\ \A i \in M :
       /\ Q[i] \in LsqEntry /\ Q[i].e \in L
       /\ Mem(R, Q[i].e) /\ ~R[Q[i].e].ready /\ R[Q[i].e].lsq_idx = i
  /\ \A s \in L : Mem(R, s) /\ ~R[s].ready =>
       R[s].lsq_idx \in M /\ Q[R[s].lsq_idx].e = s

\* What is finished was accessed once, after what is older was finished.
Finished(L, R) ==
  \A t \in L : Mem(R, t) /\ R[t].ready =>
    /\ R[t].accesses = 1
    /\ \A s \in L : Mem(R, s) /\ R[s].id < R[t].id => R[s].ready

\* What is not at the front of the queue has not been sent to the unit.
Behind(M, R, Q, f) ==
  \A i \in M \ {f} :
    ~Q[i].mem_request_sent /\ ~Q[i].mem_request_complete /\ R[Q[i].e].accesses = 0

\* The entry at the front waits, is in the unit, or has been served.
Waits(q, a, u) ==
  ~q.mem_request_sent /\ ~q.mem_request_complete /\ a = 0 /\ ~u.has_data

InUnit(q, a, u) ==
  /\ q.mem_request_sent /\ ~q.mem_request_complete
  /\ u.has_data /\ u.e = q.e /\ a = IF u.stage_exec_done THEN 1 ELSE 0

Served(q, a, u) ==
  q.mem_request_sent /\ q.mem_request_complete /\ a = 1 /\ ~u.has_data

FrontState(q, r, u, p, F) ==
  /\ \/ Waits(q, r.accesses, u)
     \/ InUnit(q, r.accesses, u)
     \/ Served(q, r.accesses, u) /\ p = "lsq2"
  /\ q.mem_request_sent => q.ready /\ (r.ins.kind = "store" => q.e = F)

FrontInv ==
  /\ LsqLive = {} => ~lsu.has_data
  /\ \A i \in LsqLive : i = lsq_cq.front =>
       FrontState(lsq[i], rob[lsq[i].e], lsu, phase, rob_cq.front)

StoresInv ==
  \A s \in Live :
    /\ rob[s].ins.kind = "atomic" => s = rob_cq.front
    /\ rob[s].ins.kind = "store" /\ rob[s].ready =>
         /\ s = rob_cq.front /\ phase \in {"exec", "dispatch", "commit"}
         /\ commits = 0

TodoInv ==
  \A s \in todo :
    s \in Live /\ ~rob[s].ready /\ (Mem(rob, s) => ~lsq[rob[s].lsq_idx].ready)

LsqInv ==
  /\ Types
  /\ Orders
  /\ Linked(Live, LsqLive, rob, lsq)
  /\ Finished(Live, rob)
  /\ Behind(LsqLive, rob, lsq, lsq_cq.front)
  /\ FrontInv
  /\ StoresInv
  /\ TodoInv

-----------------------------------------------------------------------------
SetReady(R, s) == [R EXCEPT ![s].ready = TRUE]

ClearReady(R, s) == [R EXCEPT ![s].ready = FALSE]

Accessed(R, s, b) == [R EXCEPT ![s].accesses = @ + 1, ![s].exception = b]

\* R2 is R but for slot s, which holds the same instruction.
OneSlot(R, R2, s) ==
  /\ R2 \in [Slots -> RobEntry \cup {NoEntry}]
  /\ \A t \in Slots : t # s => R2[t] = R[t]
  /\ R2[s] \in RobEntry /\ R2[s].id = R[s].id /\ R2[s].ins = R[s].ins
  /\ R2[s].lsq_idx = R[s].lsq_idx

(***************************************************************************)
(* Setting the ready flag of a ROB entry changes nothing else in it.       *)
(***************************************************************************)
LEMMA ReadySet ==
  ASSUME NEW R \in [Slots -> RobEntry \cup {NoEntry}], NEW s \in Slots,
         R[s] \in RobEntry,
         NEW R2, R2 = SetReady(R, s)
  PROVE  OneSlot(R, R2, s) /\ R2[s].ready /\ R2[s].accesses = R[s].accesses
<1> DEFINE r == [R[s] EXCEPT !.ready = TRUE]
<1>1. /\ r \in RobEntry /\ r.ready /\ r.id = R[s].id /\ r.ins = R[s].ins
      /\ r.lsq_idx = R[s].lsq_idx /\ r.accesses = R[s].accesses
  BY Zenon DEF RobEntry
<1>2. R2 = [R EXCEPT ![s] = r]
  BY DEF SetReady
<1> HIDE DEF r
<1>3. R2[s] = r /\ \A t \in Slots : t # s => R2[t] = R[t]
  BY <1>2
<1>4. R2 \in [Slots -> RobEntry \cup {NoEntry}]
  BY <1>1, <1>2
<1>5. QED
  BY <1>1, <1>3, <1>4, Zenon DEF OneSlot

(***************************************************************************)
(* Nor does clearing it.                                                   *)
(***************************************************************************)
LEMMA ReadyCleared ==
  ASSUME NEW R \in [Slots -> RobEntry \cup {NoEntry}], NEW s \in Slots,
         R[s] \in RobEntry,
         NEW R2, R2 = ClearReady(R, s)
  PROVE  OneSlot(R, R2, s) /\ ~R2[s].ready /\ R2[s].accesses = R[s].accesses
<1> DEFINE r == [R[s] EXCEPT !.ready = FALSE]
<1>1. /\ r \in RobEntry /\ ~r.ready /\ r.id = R[s].id /\ r.ins = R[s].ins
      /\ r.lsq_idx = R[s].lsq_idx /\ r.accesses = R[s].accesses
  BY Zenon DEF RobEntry
<1>2. R2 = [R EXCEPT ![s] = r]
  BY DEF ClearReady
<1> HIDE DEF r
<1>3. R2[s] = r /\ \A t \in Slots : t # s => R2[t] = R[t]
  BY <1>2
<1>4. R2 \in [Slots -> RobEntry \cup {NoEntry}]
  BY <1>1, <1>2
<1>5. QED
  BY <1>1, <1>3, <1>4, Zenon DEF OneSlot

(***************************************************************************)
(* Nor does the access of the load/store unit change what the queues       *)
(* depend on.                                                              *)
(***************************************************************************)
LEMMA AccessCounted ==
  ASSUME NEW R \in [Slots -> RobEntry \cup {NoEntry}], NEW s \in Slots,
         R[s] \in RobEntry, NEW b \in BOOLEAN,
         NEW R2, R2 = Accessed(R, s, b)
  PROVE  /\ OneSlot(R, R2, s) /\ (R2[s].ready <=> R[s].ready)
         /\ R2[s].accesses = R[s].accesses + 1
<1> DEFINE q == [R[s] EXCEPT !.accesses = @ + 1]
           r == [q EXCEPT !.exception = b]
<1>1. q \in RobEntry /\ q = [R[s] EXCEPT !.accesses = R[s].accesses + 1]
  BY DEF RobEntry
<1>2. /\ r \in RobEntry /\ (r.ready <=> R[s].ready) /\ r.id = R[s].id
      /\ r.ins = R[s].ins /\ r.lsq_idx = R[s].lsq_idx
      /\ r.accesses = R[s].accesses + 1
  BY <1>1, Zenon DEF RobEntry
<1>3. R2 = [R EXCEPT ![s] = r]
  BY Zenon DEF Accessed
<1> HIDE DEF r
<1>4. R2[s] = r /\ \A t \in Slots : t # s => R2[t] = R[t]
  BY <1>3
<1>5. R2 \in [Slots -> RobEntry \cup {NoEntry}]
  BY <1>2, <1>3
<1>6. QED
  BY <1>2, <1>4, <1>5, Zenon DEF OneSlot

SetLsqReady(Q, i) == [Q EXCEPT ![i].ready = TRUE]

SetSent(Q, i) == [Q EXCEPT ![i].mem_request_sent = TRUE]

SetComplete(Q, i) == [Q EXCEPT ![i].mem_request_complete = TRUE]

\* Q2 is Q but for entry i.
OneEntry(Q, Q2, i) ==
  /\ Q2 \in [LsqSlots -> LsqEntry \cup {NoEntry}]
  /\ \A j \in LsqSlots : j # i => Q2[j] = Q[j]
  /\ Q2[i] \in LsqEntry /\ Q2[i].e = Q[i].e

(***************************************************************************)
(* Setting one of the flags of a queue entry changes nothing else in it.   *)
(***************************************************************************)
LEMMA LsqReadySet ==
  ASSUME NEW Q \in [LsqSlots -> LsqEntry \cup {NoEntry}], NEW i \in LsqSlots,
         Q[i] \in LsqEntry, NEW Q2, Q2 = SetLsqReady(Q, i)
  PROVE  /\ OneEntry(Q, Q2, i) /\ Q2[i].ready
         /\ Q2[i].mem_request_sent <=> Q[i].mem_request_sent
         /\ Q2[i].mem_request_complete <=> Q[i].mem_request_complete
<1> DEFINE r == [Q[i] EXCEPT !.ready = TRUE]
<1>1. /\ r \in LsqEntry /\ r.e = Q[i].e /\ r.ready
      /\ r.mem_request_sent <=> Q[i].mem_request_sent
      /\ r.mem_request_complete <=> Q[i].mem_request_complete
  BY Zenon DEF LsqEntry
<1>2. Q2 = [Q EXCEPT ![i] = r]
  BY DEF SetLsqReady
<1> HIDE DEF r
<1>3. Q2[i] = r /\ \A t \in LsqSlots : t # i => Q2[t] = Q[t]
  BY <1>2
<1>4. Q2 \in [LsqSlots -> LsqEntry \cup {NoEntry}]
  BY <1>1, <1>2
<1>5. QED
  BY <1>1, <1>3, <1>4, Zenon DEF OneEntry

(***************************************************************************)
(* The same for mem_request_sent.                                          *)
(***************************************************************************)
LEMMA LsqSentSet ==
  ASSUME NEW Q \in [LsqSlots -> LsqEntry \cup {NoEntry}], NEW i \in LsqSlots,
         Q[i] \in LsqEntry, NEW Q2, Q2 = SetSent(Q, i)
  PROVE  /\ OneEntry(Q, Q2, i) /\ Q2[i].mem_request_sent
         /\ Q2[i].ready <=> Q[i].ready
         /\ Q2[i].mem_request_complete <=> Q[i].mem_request_complete
<1> DEFINE r == [Q[i] EXCEPT !.mem_request_sent = TRUE]
<1>1. /\ r \in LsqEntry /\ r.e = Q[i].e /\ r.mem_request_sent
      /\ r.ready <=> Q[i].ready
      /\ r.mem_request_complete <=> Q[i].mem_request_complete
  BY Zenon DEF LsqEntry
<1>2. Q2 = [Q EXCEPT ![i] = r]
  BY DEF SetSent
<1> HIDE DEF r
<1>3. Q2[i] = r /\ \A t \in LsqSlots : t # i => Q2[t] = Q[t]
  BY <1>2
<1>4. Q2 \in [LsqSlots -> LsqEntry \cup {NoEntry}]
  BY <1>1, <1>2
<1>5. QED
  BY <1>1, <1>3, <1>4, Zenon DEF OneEntry

(***************************************************************************)
(* The same for mem_request_complete.                                      *)
(***************************************************************************)
LEMMA LsqCompleteSet ==
  ASSUME NEW Q \in [LsqSlots -> LsqEntry \cup {NoEntry}], NEW i \in LsqSlots,
         Q[i] \in LsqEntry, NEW Q2, Q2 = SetComplete(Q, i)
  PROVE  /\ OneEntry(Q, Q2, i) /\ Q2[i].mem_request_complete
         /\ Q2[i].ready <=> Q[i].ready
         /\ Q2[i].mem_request_sent <=> Q[i].mem_request_sent
<1> DEFINE r == [Q[i] EXCEPT !.mem_request_complete = TRUE]
<1>1. /\ r \in LsqEntry /\ r.e = Q[i].e /\ r.mem_request_complete
      /\ r.ready <=> Q[i].ready
      /\ r.mem_request_sent <=> Q[i].mem_request_sent
  BY Zenon DEF LsqEntry
<1>2. Q2 = [Q EXCEPT ![i] = r]
  BY DEF SetComplete
<1> HIDE DEF r
<1>3. Q2[i] = r /\ \A t \in LsqSlots : t # i => Q2[t] = Q[t]
  BY <1>2
<1>4. Q2 \in [LsqSlots -> LsqEntry \cup {NoEntry}]
  BY <1>1, <1>2
<1>5. QED
  BY <1>1, <1>3, <1>4, Zenon DEF OneEntry

(***************************************************************************)
(* What follows at once from the invariant: the fronts are the oldest      *)
(* entries, and the front of the load/store queue is the oldest memory     *)
(* instruction that is not finished.                                       *)
(***************************************************************************)
LEMMA Facts ==
  ASSUME LsqAssumption, LsqInv
  PROVE  /\ Live \subseteq Slots /\ LsqLive \subseteq LsqSlots
         /\ \A s \in Live : rob[s] \in RobEntry /\ rob[s].id \in Nat
         /\ \A i \in LsqLive : lsq[i] \in LsqEntry /\ lsq[i].e \in Live
         /\ Live = {} <=> cq_empty(rob_cq)
         /\ LsqLive = {} <=> cq_empty(lsq_cq)
         /\ Live # {} => rob_cq.front \in Live
         /\ LsqLive # {} => lsq_cq.front \in LsqLive
         /\ \A s \in Live : s # rob_cq.front => rob[rob_cq.front].id < rob[s].id
         /\ \A s, t \in Live : rob[s].id = rob[t].id => s = t
         /\ \A i \in LsqLive : i # lsq_cq.front =>
              rob[lsq[lsq_cq.front].e].id < rob[lsq[i].e].id
<1>1. /\ QueueOK(rob_cq, RobSize) /\ InOrder(rob_cq, RobSize, Ids(rob))
      /\ QueueOK(lsq_cq, LsqSize) /\ InOrder(lsq_cq, LsqSize, LsqIds(rob, lsq))
      /\ \A s \in Live : rob[s] \in RobEntry
  BY Zenon DEF LsqInv, Orders
<1>2. /\ RobSize \in Nat \ {0} /\ LsqSize \in Nat \ {0}
  BY Zenon DEF LsqAssumption
<1>3. /\ Live \subseteq Slots /\ (Live # {} => ~cq_empty(rob_cq))
      /\ \A s, t \in Live : Ids(rob)[s] = Ids(rob)[t] => s = t
  BY <1>1, <1>2, UsedSlots, Zenon DEF Live, Slots
<1>4. LsqLive \subseteq LsqSlots /\ (LsqLive # {} => ~cq_empty(lsq_cq))
  BY <1>1, <1>2, UsedSlots, Zenon DEF LsqLive, LsqSlots
<1>5. ~cq_empty(rob_cq) =>
        /\ rob_cq.front \in Live
        /\ \A s \in Live : s # rob_cq.front => Ids(rob)[rob_cq.front] < Ids(rob)[s]
  BY <1>1, <1>2, FrontIsFirst, Zenon DEF Live
<1>6. ~cq_empty(lsq_cq) =>
        /\ lsq_cq.front \in LsqLive
        /\ \A i \in LsqLive : i # lsq_cq.front =>
             LsqIds(rob, lsq)[lsq_cq.front] < LsqIds(rob, lsq)[i]
  BY <1>1, <1>2, FrontIsFirst, Zenon DEF LsqLive
<1>7. /\ \A s \in Slots : Ids(rob)[s] = rob[s].id
      /\ \A i \in LsqSlots : LsqIds(rob, lsq)[i] = rob[lsq[i].e].id
  BY Zenon DEF Ids, LsqIds
<1>8. \A i \in LsqLive : lsq[i] \in LsqEntry /\ lsq[i].e \in Live
  BY Zenon DEF LsqInv, Linked
<1>9. \A r \in RobEntry : r.id \in Nat
  BY DEF RobEntry
<1>10. /\ Live = {} <=> cq_empty(rob_cq)
       /\ Live # {} => rob_cq.front \in Live
       /\ \A s \in Live : s # rob_cq.front => rob[rob_cq.front].id < rob[s].id
       /\ \A s, t \in Live : rob[s].id = rob[t].id => s = t
  <2>1. \A s \in Live : Ids(rob)[s] = rob[s].id
    BY <1>3, <1>7, Zenon
  <2>2. \A s, t \in Live : rob[s].id = rob[t].id => s = t
    BY <1>3, <2>1, Zenon
  <2>3. QED
    BY <1>3, <1>5, <2>1, <2>2, Zenon
<1>11. /\ LsqLive = {} <=> cq_empty(lsq_cq)
       /\ LsqLive # {} => lsq_cq.front \in LsqLive
       /\ \A i \in LsqLive : i # lsq_cq.front =>
            rob[lsq[lsq_cq.front].e].id < rob[lsq[i].e].id
  BY <1>4, <1>6, <1>7, Zenon
<1>12. QED
  BY <1>1, <1>3, <1>4, <1>8, <1>9, <1>10, <1>11, Zenon

(***************************************************************************)
(* A memory instruction that is not finished is the front of the queue or  *)
(* younger.                                                                *)
(***************************************************************************)
LEMMA FrontIsOldest ==
  ASSUME LsqAssumption, LsqInv, NEW s \in Live, Mem(rob, s), ~rob[s].ready
  PROVE  /\ lsq_cq.front \in LsqLive
         /\ \/ s = lsq[lsq_cq.front].e
            \/ rob[lsq[lsq_cq.front].e].id < rob[s].id
<1>1. rob[s].lsq_idx \in LsqLive /\ lsq[rob[s].lsq_idx].e = s
  BY Zenon DEF LsqInv, Linked
<1>2. QED
  BY <1>1, Facts, Zenon

(***************************************************************************)
(* The orders depend only on the numbers.                                  *)
(***************************************************************************)
LEMMA SameOrder ==
  ASSUME NEW q, NEW max, NEW k, NEW k2, InOrder(q, max, k),
         \A s \in CqSlots(q, max) : k2[s] = k[s]
  PROVE  InOrder(q, max, k2)
  BY Zenon DEF InOrder

\* The entries of L are still the same instructions.
SameInsns(L, R, R2) ==
  \A s \in L : /\ R2[s] \in RobEntry /\ R2[s].id = R[s].id /\ R2[s].ins = R[s].ins
               /\ R2[s].lsq_idx = R[s].lsq_idx

\* The entries of M still hold the same latches.
SameLatches(M, Q, Q2) == \A i \in M : Q2[i] \in LsqEntry /\ Q2[i].e = Q[i].e

(***************************************************************************)
(* A step that adds and removes nothing keeps the orders.                  *)
(***************************************************************************)
LEMMA SameQueues ==
  ASSUME LsqAssumption, LsqInv,
         rob_cq' = rob_cq, lsq_cq' = lsq_cq, ins_dispatch_id' = ins_dispatch_id,
         SameInsns(Live, rob, rob'), SameLatches(LsqLive, lsq, lsq')
  PROVE  Live' = Live /\ LsqLive' = LsqLive /\ Orders'
<1>1. Live' = Live /\ LsqLive' = LsqLive
  BY Zenon DEF Live, LsqLive
<1>2. /\ QueueOK(rob_cq, RobSize) /\ InOrder(rob_cq, RobSize, Ids(rob))
      /\ QueueOK(lsq_cq, LsqSize) /\ InOrder(lsq_cq, LsqSize, LsqIds(rob, lsq))
      /\ \A s \in Live : rob[s].id < ins_dispatch_id
  BY Zenon DEF LsqInv, Orders
<1>3. /\ \A s \in Slots : Ids(rob)[s] = rob[s].id /\ Ids(rob')[s] = rob'[s].id
      /\ \A i \in LsqSlots : /\ LsqIds(rob, lsq)[i] = rob[lsq[i].e].id
                             /\ LsqIds(rob', lsq')[i] = rob'[lsq'[i].e].id
  BY Zenon DEF Ids, LsqIds
<1>4. /\ Live \subseteq Slots /\ LsqLive \subseteq LsqSlots
      /\ \A i \in LsqLive : lsq[i].e \in Live
  BY Facts, Zenon
<1>5. \A s \in CqSlots(rob_cq, RobSize) : Ids(rob')[s] = Ids(rob)[s]
  BY <1>3, <1>4, Zenon DEF Live, SameInsns
<1>6. \A i \in CqSlots(lsq_cq, LsqSize) : LsqIds(rob', lsq')[i] = LsqIds(rob, lsq)[i]
  <2> SUFFICES ASSUME NEW i \in LsqLive
               PROVE  LsqIds(rob', lsq')[i] = LsqIds(rob, lsq)[i]
    BY Zenon DEF LsqLive
  <2>1. lsq'[i].e = lsq[i].e /\ lsq[i].e \in Live
    BY <1>4, Zenon DEF SameLatches
  <2>2. rob'[lsq[i].e].id = rob[lsq[i].e].id
    BY <2>1, Zenon DEF SameInsns
  <2>3. QED
    BY <1>3, <1>4, <2>1, <2>2, Zenon
<1>7. InOrder(rob_cq, RobSize, Ids(rob')) /\ InOrder(lsq_cq, LsqSize, LsqIds(rob', lsq'))
  BY <1>2, <1>5, <1>6, SameOrder, Zenon
<1>8. \A s \in Live' : rob'[s] \in RobEntry /\ rob'[s].id < ins_dispatch_id'
  BY <1>1, <1>2, Zenon DEF SameInsns
<1>9. QED
  BY <1>1, <1>2, <1>7, <1>8, Zenon DEF Orders

(***************************************************************************)
(* The next stage: no finished store may be left when the load/store queue *)
(* is looked at, and no served access after it.                            *)
(***************************************************************************)
LEMMA PhaseKeeps ==
  ASSUME LsqAssumption, LsqInv, commits' = 0,
         UNCHANGED <<rob_cq, rob, lsq_cq, lsq, lsu, todo, ins_dispatch_id>>,
         \A s \in Live : rob[s].ins.kind = "store" /\ rob[s].ready =>
           phase' \in {"exec", "dispatch", "commit"},
         \A i \in LsqLive : i = lsq_cq.front =>
           ~Served(lsq[i], rob[lsq[i].e].accesses, lsu)
  PROVE  LsqInv'
<1>1. /\ rob_cq' = rob_cq /\ rob' = rob /\ lsq_cq' = lsq_cq /\ lsq' = lsq
      /\ lsu' = lsu /\ todo' = todo /\ ins_dispatch_id' = ins_dispatch_id
  BY Zenon
<1>2. SameInsns(Live, rob, rob') /\ SameLatches(LsqLive, lsq, lsq')
  BY <1>1, Facts, Zenon DEF SameInsns, SameLatches
<1>3. Live' = Live /\ LsqLive' = LsqLive /\ Orders'
  BY <1>1, <1>2, SameQueues, Zenon
<1>4. Types'
  BY <1>1 DEF LsqInv, Types
<1>5. /\ Linked(Live, LsqLive, rob, lsq)' /\ Finished(Live, rob)'
      /\ Behind(LsqLive, rob, lsq, lsq_cq.front)'
  BY <1>1, <1>3, Zenon DEF LsqInv
<1>6. FrontInv'
  BY <1>1, <1>3, Zenon DEF LsqInv, FrontInv, FrontState
<1>7. StoresInv'
  BY <1>1, <1>3, Zenon DEF LsqInv, StoresInv
<1>8. TodoInv'
  BY <1>1, <1>3, Zenon DEF LsqInv, TodoInv
<1>9. QED
  BY <1>3, <1>4, <1>5, <1>6, <1>7, <1>8, Zenon DEF LsqInv

(***************************************************************************)
(* The steps in which a stage has nothing (more) to do.                    *)
(***************************************************************************)
LEMMA IdleKeeps ==
  ASSUME LsqAssumption, LsqInv,
         CommitEnd \/ LsqNothing \/ LsuNothing \/ ExecEnd \/ DispatchNothing
  PROVE  LsqInv'
<1>1. UNCHANGED <<rob_cq, rob, lsq_cq, lsq, lsu, todo, ins_dispatch_id>>
  BY Zenon DEF CommitEnd, LsqNothing, LsuNothing, ExecEnd, DispatchNothing
<1>2. commits' = 0
  BY DEF LsqInv, Types, CommitEnd, LsqNothing, LsuNothing, ExecEnd, DispatchNothing,
         LsqPhase
<1>3. \A s \in Live : rob[s].ins.kind = "store" /\ rob[s].ready =>
        phase' \in {"exec", "dispatch", "commit"}
  <2> SUFFICES ASSUME NEW s \in Live, rob[s].ins.kind = "store", rob[s].ready
               PROVE  phase' \in {"exec", "dispatch", "commit"}
    BY Zenon
  <2>1. s = rob_cq.front /\ phase \in {"exec", "dispatch", "commit"} /\ commits = 0
    BY Zenon DEF LsqInv, StoresInv
  <2>2. rob_can_commit
    BY <2>1, Facts, Zenon DEF rob_can_commit
  <2>3. CommitPorts # 0
    BY Zenon DEF LsqAssumption
  <2>4. ~CommitEnd
    BY <2>1, <2>2, <2>3, Zenon DEF CommitEnd
  <2>5. QED
    BY <2>1, <2>4 DEF LsqNothing, LsuNothing, ExecEnd, DispatchNothing, LsqPhase
<1>4. ASSUME NEW i \in LsqLive, i = lsq_cq.front,
             Served(lsq[i], rob[lsq[i].e].accesses, lsu)
      PROVE  FALSE
  <2>1. /\ FrontState(lsq[i], rob[lsq[i].e], lsu, phase, rob_cq.front)
        /\ front = lsq[i] /\ ~cq_empty(lsq_cq)
    BY <1>4, Facts, Zenon DEF LsqInv, FrontInv, front
  <2>2. /\ lsq[i].mem_request_sent /\ lsq[i].mem_request_complete /\ lsq[i].ready
        /\ rob[lsq[i].e].ins.kind = "store" => lsq[i].e = rob_cq.front
        /\ phase = "lsq2"
    BY <1>4, <2>1, Zenon DEF FrontState, Waits, InUnit, Served
  <2>3. FrontReady /\ Allowed
    BY <2>1, <2>2, Zenon DEF FrontReady, Allowed
  <2>4. ~LsqNothing
    BY <2>1, <2>2, <2>3, Zenon DEF LsqNothing
  <2>5. QED
    BY <2>2, <2>4 DEF CommitEnd, LsuNothing, ExecEnd, DispatchNothing
<1>5. QED
  BY <1>1, <1>2, <1>3, <1>4, PhaseKeeps, Zenon

(***************************************************************************)
(* Where the queue is looked at, no store is finished.                     *)
(***************************************************************************)
LEMMA NoFinishedStore ==
  ASSUME LsqInv, phase \in {"lsq", "lsu", "lsq2"}
  PROVE  /\ \A s \in Live : rob[s].ins.kind = "store" => ~rob[s].ready
         /\ commits = 0
<1>1. phase \notin {"exec", "dispatch", "commit"} /\ phase # "commit"
  OBVIOUS
<1>2. QED
  BY <1>1, Zenon DEF LsqInv, StoresInv, Types

(***************************************************************************)
(* process_lsq_entry_store: when the top of the ROB has the PC of the      *)
(* store at the front of the queue, it is that store.                      *)
(***************************************************************************)
LEMMA TopIsStore ==
  ASSUME LsqAssumption, OneInsnPerPc, LsqInv, LsqPhase, lsq_cq.front \in LsqLive,
         Allowed, rob[lsq[lsq_cq.front].e].ins.kind = "store"
  PROVE  lsq[lsq_cq.front].e = rob_cq.front
<1> DEFINE e == lsq[lsq_cq.front].e
           F == rob_cq.front
<1>1. e \in Live /\ F \in Live
  BY Facts, Zenon
<1>2. rob[F].ins = rob[e].ins
  <2>1. rob[F].ins \in Insns /\ rob[e].ins \in Insns
    <3>1. \A r \in RobEntry : r.ins \in Insns
      BY DEF RobEntry
    <3>2. QED
      BY <1>1, <3>1, Facts, Zenon
  <2>2. rob[F].ins.pc = rob[e].ins.pc
    BY Zenon DEF Allowed, front
  <2>3. QED
    BY <2>1, <2>2, Zenon DEF OneInsnPerPc
<1>3. Mem(rob, F) /\ ~rob[F].ready
  BY <1>1, <1>2, NoFinishedStore, Zenon DEF LsqPhase, Mem
<1>4. F = e \/ rob[e].id < rob[F].id
  BY <1>1, <1>3, FrontIsOldest, Zenon
<1>5. F = e \/ rob[F].id < rob[e].id
  BY <1>1, Facts, Zenon
<1>6. rob[e].id \in Nat /\ rob[F].id \in Nat
  BY <1>1, Facts, Zenon
<1>7. QED
  BY <1>4, <1>5, <1>6

(***************************************************************************)
(* oo_core_lsq sends the front to the unit.                                *)
(***************************************************************************)
LEMMA LsqSendKeeps ==
  ASSUME LsqAssumption, OneInsnPerPc, LsqInv, LsqSend
  PROVE  LsqInv'
<1> DEFINE f == lsq_cq.front
           e == lsq[f].e
<1>1. /\ LsqPhase /\ Allowed /\ ~cq_empty(lsq_cq) /\ lsq[f].ready
      /\ ~lsq[f].mem_request_sent /\ ~lsu.has_data
      /\ lsu' = [has_data |-> TRUE, stage_exec_done |-> FALSE, e |-> e]
      /\ lsq' = [lsq EXCEPT ![f].mem_request_sent = TRUE]
      /\ commits' = commits /\ rob_cq' = rob_cq /\ rob' = rob /\ lsq_cq' = lsq_cq
      /\ todo' = todo /\ ins_dispatch_id' = ins_dispatch_id
  BY Zenon DEF LsqSend, FrontReady, front
<1>2. f \in LsqLive /\ f \in LsqSlots /\ e \in Live /\ e \in Slots /\ lsq[f] \in LsqEntry
  BY <1>1, Facts, Zenon
<1>3. lsq \in [LsqSlots -> LsqEntry \cup {NoEntry}]
  BY Zenon DEF LsqInv, Types
<1>4. /\ OneEntry(lsq, lsq', f) /\ lsq'[f].mem_request_sent
      /\ lsq'[f].ready <=> lsq[f].ready
      /\ lsq'[f].mem_request_complete <=> lsq[f].mem_request_complete
  <2> HIDE DEF f
  <2>1. lsq' = SetSent(lsq, f)
    BY <1>1, Zenon DEF SetSent
  <2>2. QED
    BY <1>2, <1>3, <2>1, LsqSentSet, Zenon
<1>5. /\ lsu' \in [has_data : BOOLEAN, stage_exec_done : BOOLEAN, e : Slots \cup {-1}]
      /\ lsu'.has_data /\ lsu'.e = e /\ ~lsu'.stage_exec_done
  BY <1>1, <1>2
<1>6. rob[e].ins.kind = "store" => e = rob_cq.front
  BY <1>1, <1>2, TopIsStore, Zenon
<1>7. Waits(lsq[f], rob[e].accesses, lsu)
  BY <1>1, <1>2, Zenon DEF LsqInv, FrontInv, FrontState, InUnit, Served
<1>8. /\ \A s \in Live : rob[s].ins.kind = "store" => ~rob[s].ready
      /\ commits = 0
  BY <1>1, NoFinishedStore, Zenon DEF LsqPhase
<1> HIDE DEF f, e
<1>9. LsqLive \subseteq LsqSlots
  BY Facts, Zenon
<1>10. /\ SameInsns(Live, rob, rob') /\ SameLatches(LsqLive, lsq, lsq')
       /\ \A i \in LsqLive : i # f => lsq'[i] = lsq[i]
  BY <1>1, <1>4, <1>9, Facts, Zenon DEF SameInsns, SameLatches, OneEntry
<1>11. Live' = Live /\ LsqLive' = LsqLive /\ Orders'
  BY <1>1, <1>10, SameQueues, Zenon
<1>12. Types'
  BY <1>1, <1>4, <1>5, <1>8, Zenon DEF LsqInv, Types, OneEntry
<1>13. Linked(Live, LsqLive, rob, lsq)' /\ Finished(Live, rob)'
  <2>1. Linked(Live, LsqLive, rob, lsq')
    BY <1>10, Zenon DEF LsqInv, Linked, SameLatches
  <2>2. QED
    BY <1>1, <1>11, <2>1, Zenon DEF LsqInv
<1>14. Behind(LsqLive, rob, lsq, lsq_cq.front)'
  BY <1>1, <1>10, <1>11, Zenon DEF LsqInv, Behind, f
<1>15. InUnit(lsq'[f], rob'[lsq'[f].e].accesses, lsu')
  <2>1. lsq'[f].e = e /\ ~lsq'[f].mem_request_complete /\ rob[e].accesses = 0
    BY <1>4, <1>7, Zenon DEF OneEntry, e, Waits
  <2>2. rob'[lsq'[f].e].accesses = IF lsu'.stage_exec_done THEN 1 ELSE 0
    BY <1>1, <1>5, <2>1
  <2>3. QED
    BY <1>4, <1>5, <2>1, <2>2, Zenon DEF InUnit
<1>16. FrontInv'
  <2>1. lsq'[f].ready /\ (rob'[lsq'[f].e].ins.kind = "store" => lsq'[f].e = rob_cq'.front)
    BY <1>1, <1>4, <1>6, Zenon DEF OneEntry, e
  <2>2. LsqLive # {}
    BY <1>2, Zenon
  <2>3. QED
    BY <1>1, <1>11, <1>15, <2>1, <2>2, Zenon DEF FrontInv, FrontState, f
<1>17. StoresInv'
  BY <1>1, <1>8, <1>11, Zenon DEF LsqInv, StoresInv
<1>18. TodoInv'
  <2> SUFFICES ASSUME NEW s \in todo
               PROVE  s \in Live /\ ~rob[s].ready /\ (Mem(rob, s) => ~lsq'[rob[s].lsq_idx].ready)
    BY <1>1, <1>11, Zenon DEF TodoInv
  <2>1. s \in Live /\ ~rob[s].ready /\ (Mem(rob, s) => ~lsq[rob[s].lsq_idx].ready)
    BY Zenon DEF LsqInv, TodoInv
  <2>2. Mem(rob, s) => rob[s].lsq_idx \in LsqLive
    BY <2>1, Zenon DEF LsqInv, Linked
  <2>3. QED
    BY <1>4, <1>10, <2>1, <2>2, Zenon
<1>19. QED
  BY <1>11, <1>12, <1>13, <1>14, <1>16, <1>17, <1>18, Zenon DEF LsqInv

(***************************************************************************)
(* oo_core_lsq marks the front ready and takes it out of the queue.        *)
(***************************************************************************)
LEMMA LsqFinishKeeps ==
  ASSUME LsqAssumption, LsqInv, LsqFinish
  PROVE  LsqInv'
<1> DEFINE f == lsq_cq.front
           e == lsq[f].e
<1>1. /\ LsqPhase /\ Allowed /\ ~cq_empty(lsq_cq) /\ lsq[f].ready
      /\ lsq[f].mem_request_sent /\ lsq[f].mem_request_complete
      /\ rob' = [rob EXCEPT ![e].ready = TRUE]
      /\ lsq_cq' = cq_dequeue(lsq_cq, LsqSize) /\ AfterLsq
      /\ commits' = commits /\ rob_cq' = rob_cq /\ lsq' = lsq /\ lsu' = lsu
      /\ todo' = todo /\ ins_dispatch_id' = ins_dispatch_id
  BY Zenon DEF LsqFinish, FrontReady, front
<1>2. f \in LsqLive /\ e \in Live /\ e \in Slots /\ rob[e] \in RobEntry
  BY <1>1, Facts, Zenon
<1>3. rob \in [Slots -> RobEntry \cup {NoEntry}]
  BY Zenon DEF LsqInv, Types
<1>4. /\ rob' \in [Slots -> RobEntry \cup {NoEntry}]
      /\ \A t \in Slots : t # e => rob'[t] = rob[t]
      /\ rob'[e] \in RobEntry /\ rob'[e].ready
      /\ rob'[e].id = rob[e].id /\ rob'[e].ins = rob[e].ins
      /\ rob'[e].lsq_idx = rob[e].lsq_idx /\ rob'[e].accesses = rob[e].accesses
  <2> HIDE DEF e
  <2>1. rob' = SetReady(rob, e)
    BY <1>1, Zenon DEF SetReady
  <2>2. QED
    <3>1. OneSlot(rob, rob', e) /\ rob'[e].ready /\ rob'[e].accesses = rob[e].accesses
      BY <1>2, <1>3, <2>1, ReadySet, Zenon
    <3>2. QED
      BY <3>1, Zenon DEF OneSlot
<1>5. /\ rob[e].accesses = 1 /\ ~lsu.has_data /\ phase = "lsq2"
      /\ rob[e].ins.kind = "store" => e = rob_cq.front
  BY <1>1, <1>2, Zenon DEF LsqInv, FrontInv, FrontState, Waits, InUnit, Served
<1>6. phase' = "exec"
  BY <1>1, <1>5 DEF AfterLsq
<1>7. /\ \A s \in Live : rob[s].ins.kind = "store" => ~rob[s].ready
      /\ commits = 0
  BY <1>1, NoFinishedStore, Zenon DEF LsqPhase
<1>8. Mem(rob, e) /\ ~rob[e].ready /\ rob[e].lsq_idx = f
  BY <1>2, Zenon DEF LsqInv, Linked
<1>9. \A i \in LsqLive : i # f => lsq[i].e # e /\ lsq[i].e \in Live
  BY <1>8, Zenon DEF LsqInv, Linked
<1>10. LsqLive' = LsqLive \ {f} /\ Live' = Live /\ Orders'
  <2>1. /\ QueueOK(rob_cq, RobSize) /\ InOrder(rob_cq, RobSize, Ids(rob))
        /\ QueueOK(lsq_cq, LsqSize) /\ InOrder(lsq_cq, LsqSize, LsqIds(rob, lsq))
        /\ \A s \in Live : rob[s] \in RobEntry /\ rob[s].id < ins_dispatch_id
    BY Zenon DEF LsqInv, Orders
  <2>2. /\ \A s \in Slots : Ids(rob)[s] = rob[s].id /\ Ids(rob')[s] = rob'[s].id
        /\ \A i \in LsqSlots : /\ LsqIds(rob, lsq)[i] = rob[lsq[i].e].id
                               /\ LsqIds(rob', lsq')[i] = rob'[lsq[i].e].id
    BY <1>1, Zenon DEF Ids, LsqIds
  <2>3. Live \subseteq Slots /\ LsqLive \subseteq LsqSlots
    BY Facts, Zenon
  <2>4. \A s \in CqSlots(rob_cq, RobSize) : Ids(rob')[s] = Ids(rob)[s]
    <3> SUFFICES ASSUME NEW s \in Live PROVE Ids(rob')[s] = Ids(rob)[s]
      BY Zenon DEF Live
    <3> HIDE DEF e
    <3>1. s \in Slots /\ rob'[s].id = rob[s].id
      BY <1>4, <2>3, Zenon
    <3>2. QED
      BY <2>2, <3>1, Zenon
  <2>5. \A i \in CqSlots(lsq_cq, LsqSize) :
          i # lsq_cq.front => LsqIds(rob', lsq')[i] = LsqIds(rob, lsq)[i]
    <3> SUFFICES ASSUME NEW i \in LsqLive, i # f
                 PROVE  LsqIds(rob', lsq')[i] = LsqIds(rob, lsq)[i]
      BY Zenon DEF LsqLive
    <3>1. i \in LsqSlots /\ lsq[i].e \in Slots /\ lsq[i].e # e
      BY <1>9, <2>3, Zenon
    <3> HIDE DEF e
    <3>2. rob'[lsq[i].e].id = rob[lsq[i].e].id
      BY <1>4, <3>1, Zenon
    <3>3. QED
      BY <2>2, <3>1, <3>2, Zenon
  <2>6. InOrder(rob_cq, RobSize, Ids(rob'))
    BY <2>1, <2>4, SameOrder, Zenon
  <2>7. LsqSize \in Nat \ {0}
    BY Zenon DEF LsqAssumption
  <2>8. /\ QueueOK(lsq_cq', LsqSize) /\ InOrder(lsq_cq', LsqSize, LsqIds(rob', lsq'))
        /\ CqSlots(lsq_cq', LsqSize) = CqSlots(lsq_cq, LsqSize) \ {f}
    <3>1. ~cq_empty(lsq_cq) /\ lsq_cq' = cq_dequeue(lsq_cq, LsqSize)
      BY <1>1, Zenon
    <3>2. QED
      BY <2>1, <2>5, <2>7, <3>1, DequeueKeepsOrder
  <2>9. Live' = Live /\ LsqLive' = LsqLive \ {f}
    BY <1>1, <2>8, Zenon DEF Live, LsqLive
  <2>10. \A s \in Live' : rob'[s] \in RobEntry /\ rob'[s].id < ins_dispatch_id'
    <3> SUFFICES ASSUME NEW s \in Live
                 PROVE  rob'[s] \in RobEntry /\ rob'[s].id < ins_dispatch_id
      BY <1>1, <2>9, Zenon
    <3> HIDE DEF e
    <3>1. rob'[s] \in RobEntry /\ rob'[s].id = rob[s].id
      BY <1>4, <2>1, <2>3, Zenon
    <3>2. QED
      BY <2>1, <3>1, Zenon
  <2>11. QED
    BY <1>1, <2>1, <2>6, <2>8, <2>9, <2>10, Zenon DEF Orders
<1>11. /\ \A s \in Live : s # e => rob'[s] = rob[s]
       /\ Mem(rob', e)
       /\ \A s \in Live : s # e => (Mem(rob', s) <=> Mem(rob, s))
  BY <1>4, <1>8, Facts, Zenon DEF Mem
<1>12. LsqLive' # {} => lsq_cq'.front \in LsqLive'
  <2>1. QueueOK(lsq_cq', LsqSize) /\ InOrder(lsq_cq', LsqSize, LsqIds(rob', lsq'))
    BY <1>10, Zenon DEF Orders
  <2>2. LsqSize \in Nat \ {0}
    BY Zenon DEF LsqAssumption
  <2>3. CqSlots(lsq_cq', LsqSize) # {} => ~cq_empty(lsq_cq')
    BY <2>1, <2>2, UsedSlots, Zenon
  <2>4. QED
    BY <2>1, <2>2, <2>3, FrontIsFirst, Zenon DEF LsqLive
<1> HIDE DEF f, e
<1>13. Types'
  BY <1>1, <1>4, <1>7, Zenon DEF LsqInv, Types
<1>14. Linked(Live, LsqLive, rob, lsq)'
  <2>1. ASSUME NEW i \in LsqLive \ {f}
        PROVE  /\ lsq[i] \in LsqEntry /\ lsq[i].e \in Live
               /\ Mem(rob', lsq[i].e) /\ ~rob'[lsq[i].e].ready /\ rob'[lsq[i].e].lsq_idx = i
    <3>1. /\ lsq[i] \in LsqEntry /\ lsq[i].e \in Live
          /\ Mem(rob, lsq[i].e) /\ ~rob[lsq[i].e].ready /\ rob[lsq[i].e].lsq_idx = i
      BY Zenon DEF LsqInv, Linked
    <3>2. rob'[lsq[i].e] = rob[lsq[i].e] /\ Mem(rob', lsq[i].e)
      BY <1>9, <1>11, <3>1, Zenon
    <3>3. QED
      BY <3>1, <3>2, Zenon
  <2>2. ASSUME NEW s \in Live, Mem(rob', s), ~rob'[s].ready
        PROVE  rob'[s].lsq_idx \in LsqLive \ {f} /\ lsq[rob'[s].lsq_idx].e = s
    <3>1. s # e
      BY <1>4, <2>2, Zenon
    <3>2. rob'[s] = rob[s] /\ rob[s].lsq_idx \in LsqLive /\ lsq[rob[s].lsq_idx].e = s
      BY <1>11, <2>2, <3>1, Zenon DEF LsqInv, Linked
    <3>3. QED
      BY <3>1, <3>2, Zenon DEF e
  <2>3. lsq' = lsq /\ LsqLive' = LsqLive \ {f} /\ Live' = Live
    BY <1>1, <1>10, Zenon
  <2>4. QED
    BY <2>1, <2>2, <2>3, Zenon DEF Linked
<1>15. Finished(Live, rob)'
  <2> SUFFICES ASSUME NEW t \in Live, Mem(rob', t), rob'[t].ready
               PROVE  /\ rob'[t].accesses = 1
                      /\ \A s \in Live : Mem(rob', s) /\ rob'[s].id < rob'[t].id => rob'[s].ready
    BY <1>10, Zenon DEF Finished
  <2>1. CASE t = e
    <3>1. ASSUME NEW s \in Live, Mem(rob', s), rob'[s].id < rob'[e].id
          PROVE  rob'[s].ready
      <4>1. CASE s = e
        BY <1>4, <4>1, Zenon
      <4>2. CASE s # e
        <5>1. Mem(rob, s) /\ rob[s].id < rob[e].id /\ rob'[s] = rob[s]
          BY <1>4, <1>11, <3>1, <4>2, Zenon
        <5>2. rob[s].id \in Nat /\ rob[e].id \in Nat
          BY <1>2, Facts, Zenon
        <5>3. ~(rob[e].id < rob[s].id)
          BY <5>1, <5>2
        <5>4. QED
          BY <4>2, <5>1, <5>3, FrontIsOldest, Zenon DEF e, f
      <4>3. QED
        BY <4>1, <4>2, Zenon
    <3>2. QED
      BY <1>4, <1>5, <2>1, <3>1, Zenon
  <2>2. CASE t # e
    <3>1. /\ rob'[t] = rob[t] /\ rob[t].accesses = 1
          /\ \A s \in Live : Mem(rob, s) /\ rob[s].id < rob[t].id => rob[s].ready
      BY <1>11, <2>2, Zenon DEF LsqInv, Finished
    <3>2. QED
      BY <1>4, <1>11, <3>1, Zenon
  <2>3. QED
    BY <2>1, <2>2, Zenon
<1>16. \A i \in LsqLive \ {f} :
         /\ ~lsq'[i].mem_request_sent /\ ~lsq'[i].mem_request_complete
         /\ rob'[lsq'[i].e].accesses = 0
  <2> SUFFICES ASSUME NEW i \in LsqLive, i # f
               PROVE  /\ ~lsq[i].mem_request_sent /\ ~lsq[i].mem_request_complete
                      /\ rob'[lsq[i].e].accesses = 0
    BY <1>1, Zenon
  <2>1. /\ ~lsq[i].mem_request_sent /\ ~lsq[i].mem_request_complete
        /\ rob[lsq[i].e].accesses = 0
    BY Zenon DEF LsqInv, Behind, f
  <2>2. rob'[lsq[i].e] = rob[lsq[i].e]
    BY <1>9, <1>11, Zenon
  <2>3. QED
    BY <2>1, <2>2, Zenon
<1>17. Behind(LsqLive, rob, lsq, lsq_cq.front)'
  BY <1>10, <1>16, Zenon DEF Behind
<1>18. FrontInv'
  BY <1>1, <1>5, <1>10, <1>16, Zenon DEF FrontInv, FrontState, Waits
<1>19. StoresInv'
  <2> SUFFICES ASSUME NEW s \in Live
               PROVE  /\ rob'[s].ins.kind = "atomic" => s = rob_cq.front
                      /\ rob'[s].ins.kind = "store" /\ rob'[s].ready => s = rob_cq.front
    BY <1>1, <1>6, <1>7, <1>10, Zenon DEF StoresInv
  <2>1. rob'[s].ins = rob[s].ins
    BY <1>4, <1>11, Zenon
  <2>2. QED
    BY <1>5, <1>7, <1>11, <2>1, Zenon DEF LsqInv, StoresInv
<1>20. TodoInv'
  <2> SUFFICES ASSUME NEW s \in todo
               PROVE  /\ s \in Live /\ ~rob'[s].ready
                      /\ Mem(rob', s) => ~lsq[rob'[s].lsq_idx].ready
    BY <1>1, <1>10, Zenon DEF TodoInv
  <2>1. s \in Live /\ ~rob[s].ready /\ (Mem(rob, s) => ~lsq[rob[s].lsq_idx].ready)
    BY Zenon DEF LsqInv, TodoInv
  <2>2. s # e
    BY <1>1, <1>8, <2>1, Zenon
  <2>3. QED
    BY <1>11, <2>1, <2>2, Zenon
<1>21. QED
  BY <1>10, <1>13, <1>14, <1>15, <1>17, <1>18, <1>19, <1>20, Zenon DEF LsqInv

(***************************************************************************)
(* oo_core_lsu: the instruction in the unit is the one at the front, so    *)
(* the access is its first.                                                *)
(***************************************************************************)
LEMMA LsuStepKeeps ==
  ASSUME LsqAssumption, LsqInv, NEW fault \in BOOLEAN, NEW done \in BOOLEAN,
         LsuStep(fault, done)
  PROVE  LsqInv'
<1> DEFINE f == lsq_cq.front
           e == lsq[f].e
<1>1. /\ phase = "lsu" /\ lsu.has_data
      /\ rob' = IF lsu.stage_exec_done THEN rob
                ELSE [rob EXCEPT ![lsu.e].accesses = @ + 1, ![lsu.e].exception = fault]
      /\ IF done
         THEN /\ lsq' = [lsq EXCEPT ![rob[lsu.e].lsq_idx].mem_request_complete = TRUE]
              /\ lsu' = LsuFree
         ELSE /\ lsu' = [lsu EXCEPT !.stage_exec_done = TRUE]
              /\ lsq' = lsq
      /\ phase' = "lsq2"
      /\ commits' = commits /\ rob_cq' = rob_cq /\ lsq_cq' = lsq_cq
      /\ todo' = todo /\ ins_dispatch_id' = ins_dispatch_id
  BY Zenon DEF LsuStep
<1>2. f \in LsqLive
  BY <1>1, Facts, Zenon DEF LsqInv, FrontInv
<1>3. e \in Live /\ e \in Slots /\ f \in LsqSlots /\ rob[e] \in RobEntry /\ lsq[f] \in LsqEntry
  BY <1>2, Facts, Zenon
<1>4. /\ InUnit(lsq[f], rob[e].accesses, lsu) /\ lsq[f].ready
      /\ rob[e].ins.kind = "store" => e = rob_cq.front
  BY <1>1, <1>2, Zenon DEF LsqInv, FrontInv, FrontState, Waits, InUnit, Served
<1>5. lsu.e = e /\ rob[e].lsq_idx = f /\ Mem(rob, e) /\ ~rob[e].ready
  BY <1>2, <1>4, Zenon DEF LsqInv, Linked, InUnit
<1>6. /\ rob \in [Slots -> RobEntry \cup {NoEntry}]
      /\ lsq \in [LsqSlots -> LsqEntry \cup {NoEntry}]
      /\ lsu \in [has_data : BOOLEAN, stage_exec_done : BOOLEAN, e : Slots \cup {-1}]
  BY Zenon DEF LsqInv, Types
<1>7. \A i \in LsqLive : i # f => lsq[i].e # e /\ lsq[i].e \in Live
  BY <1>5, Zenon DEF LsqInv, Linked
<1> HIDE DEF f, e
<1>8. /\ rob' \in [Slots -> RobEntry \cup {NoEntry}]
      /\ \A t \in Slots : t # e => rob'[t] = rob[t]
      /\ rob'[e] \in RobEntry /\ ~rob'[e].ready
      /\ rob'[e].id = rob[e].id /\ rob'[e].ins = rob[e].ins
      /\ rob'[e].lsq_idx = rob[e].lsq_idx /\ rob'[e].accesses = 1
  <2>1. CASE lsu.stage_exec_done
    <3>1. rob' = rob /\ rob[e].accesses = 1
      BY <1>1, <1>4, <2>1, Zenon DEF InUnit
    <3>2. QED
      BY <1>3, <1>5, <1>6, <3>1, Zenon
  <2>2. CASE ~lsu.stage_exec_done
    <3>1. rob' = Accessed(rob, e, fault)
      BY <1>1, <1>5, <2>2, Zenon DEF Accessed
    <3>2. rob[e].accesses = 0
      BY <1>4, <2>2, Zenon DEF InUnit
    <3>3. /\ rob' \in [Slots -> RobEntry \cup {NoEntry}]
          /\ \A t \in Slots : t # e => rob'[t] = rob[t]
          /\ rob'[e] \in RobEntry /\ (rob'[e].ready <=> rob[e].ready)
          /\ rob'[e].id = rob[e].id /\ rob'[e].ins = rob[e].ins
          /\ rob'[e].lsq_idx = rob[e].lsq_idx /\ rob'[e].accesses = rob[e].accesses + 1
      <4>1. /\ OneSlot(rob, rob', e) /\ (rob'[e].ready <=> rob[e].ready)
            /\ rob'[e].accesses = rob[e].accesses + 1
        <5>1. /\ rob \in [Slots -> RobEntry \cup {NoEntry}]
              /\ e \in Slots /\ rob[e] \in RobEntry /\ fault \in BOOLEAN
          BY <1>3, <1>6, Zenon
        <5>2. QED
          BY <3>1, <5>1, AccessCounted, Zenon
      <4>2. QED
        BY <4>1, Zenon DEF OneSlot
    <3>4. rob[e].accesses + 1 = 1
      BY <3>2
    <3>5. QED
      BY <1>5, <3>3, <3>4, Zenon
  <2>3. QED
    BY <2>1, <2>2, Zenon
<1>9. /\ lsq' \in [LsqSlots -> LsqEntry \cup {NoEntry}]
      /\ \A j \in LsqSlots : j # f => lsq'[j] = lsq[j]
      /\ lsq'[f] \in LsqEntry /\ lsq'[f].e = e
      /\ lsq'[f].mem_request_sent /\ lsq'[f].ready
      /\ IF done THEN lsq'[f].mem_request_complete ELSE ~lsq'[f].mem_request_complete
  <2>1. lsq[f].e = e /\ lsq[f].mem_request_sent /\ ~lsq[f].mem_request_complete
    BY <1>4, Zenon DEF InUnit, e
  <2>2. CASE done
    <3>1. lsq' = SetComplete(lsq, f)
      BY <1>1, <1>5, <2>2, Zenon DEF SetComplete
    <3>2. /\ OneEntry(lsq, lsq', f) /\ lsq'[f].mem_request_complete
          /\ lsq'[f].ready <=> lsq[f].ready
          /\ lsq'[f].mem_request_sent <=> lsq[f].mem_request_sent
      BY <1>3, <1>6, <3>1, LsqCompleteSet, Zenon
    <3>3. QED
      BY <1>4, <2>1, <2>2, <3>2, Zenon DEF OneEntry
  <2>3. CASE ~done
    <3>1. lsq' = lsq
      BY <1>1, <2>3, Zenon
    <3>2. QED
      BY <1>3, <1>4, <1>6, <2>1, <2>3, <3>1, Zenon
  <2>4. QED
    BY <2>2, <2>3, Zenon
<1>10. /\ lsu' \in [has_data : BOOLEAN, stage_exec_done : BOOLEAN, e : Slots \cup {-1}]
       /\ IF done THEN ~lsu'.has_data
          ELSE lsu'.has_data /\ lsu'.e = e /\ lsu'.stage_exec_done
  <2>1. CASE done
    <3>1. lsu' = LsuFree
      BY <1>1, <2>1, Zenon
    <3>2. /\ LsuFree \in [has_data : BOOLEAN, stage_exec_done : BOOLEAN, e : Slots \cup {-1}]
          /\ ~LsuFree.has_data
      BY DEF LsuFree
    <3>3. QED
      BY <2>1, <3>1, <3>2, Zenon
  <2>2. CASE ~done
    <3>1. lsu' = [lsu EXCEPT !.stage_exec_done = TRUE]
      BY <1>1, <2>2, Zenon
    <3>2. /\ lsu' \in [has_data : BOOLEAN, stage_exec_done : BOOLEAN, e : Slots \cup {-1}]
          /\ lsu'.has_data = lsu.has_data /\ lsu'.e = lsu.e /\ lsu'.stage_exec_done
      BY <1>6, <3>1, Zenon
    <3>3. QED
      BY <1>1, <1>5, <2>2, <3>2, Zenon
  <2>3. QED
    BY <2>1, <2>2, Zenon
<1>11. /\ \A s \in Live : rob[s].ins.kind = "store" => ~rob[s].ready
       /\ commits = 0
  BY <1>1, NoFinishedStore
<1>12. /\ LsqLive \subseteq LsqSlots /\ Live \subseteq Slots
       /\ \A s \in Live : rob[s] \in RobEntry
       /\ \A i \in LsqLive : lsq[i] \in LsqEntry
  BY Facts, Zenon
<1>13. /\ SameInsns(Live, rob, rob') /\ SameLatches(LsqLive, lsq, lsq')
       /\ \A s \in Live : s # e => rob'[s] = rob[s]
       /\ \A s \in Live : rob'[s].ready <=> rob[s].ready
       /\ \A i \in LsqLive : i # f => lsq'[i] = lsq[i]
  <2>1. lsq[f].e = e
    BY Zenon DEF e
  <2>2. \A s \in Live : s # e => rob'[s] = rob[s] /\ rob[s] \in RobEntry
    BY <1>8, <1>12, Zenon
  <2>3. \A i \in LsqLive : i # f => lsq'[i] = lsq[i] /\ lsq[i] \in LsqEntry
    BY <1>9, <1>12, Zenon
  <2>4. SameInsns(Live, rob, rob')
    BY <1>8, <2>2, Zenon DEF SameInsns
  <2>5. SameLatches(LsqLive, lsq, lsq')
    BY <1>9, <2>1, <2>3, Zenon DEF SameLatches
  <2>6. \A s \in Live : rob'[s].ready <=> rob[s].ready
    BY <1>5, <1>8, <2>2, Zenon
  <2>7. QED
    BY <2>2, <2>3, <2>4, <2>5, <2>6, Zenon
<1>14. Live' = Live /\ LsqLive' = LsqLive /\ Orders'
  BY <1>1, <1>13, SameQueues, Zenon
<1>15. \A s \in Live : Mem(rob', s) <=> Mem(rob, s)
  BY <1>13, Zenon DEF SameInsns, Mem
<1>16. Types'
  BY <1>1, <1>8, <1>9, <1>10, <1>11, Zenon DEF LsqInv, Types
<1>17. Linked(Live, LsqLive, rob, lsq)'
  <2>1. ASSUME NEW i \in LsqLive
        PROVE  /\ lsq'[i] \in LsqEntry /\ lsq'[i].e \in Live
               /\ Mem(rob', lsq'[i].e) /\ ~rob'[lsq'[i].e].ready /\ rob'[lsq'[i].e].lsq_idx = i
    <3>1. /\ lsq[i].e \in Live
          /\ Mem(rob, lsq[i].e) /\ ~rob[lsq[i].e].ready /\ rob[lsq[i].e].lsq_idx = i
      BY Zenon DEF LsqInv, Linked
    <3>2. QED
      BY <1>13, <1>15, <3>1, Zenon DEF SameInsns, SameLatches
  <2>2. ASSUME NEW s \in Live, Mem(rob', s), ~rob'[s].ready
        PROVE  rob'[s].lsq_idx \in LsqLive /\ lsq'[rob'[s].lsq_idx].e = s
    <3>1. rob[s].lsq_idx \in LsqLive /\ lsq[rob[s].lsq_idx].e = s
      BY <1>13, <1>15, <2>2, Zenon DEF LsqInv, Linked
    <3>2. QED
      BY <1>13, <3>1, Zenon DEF SameInsns, SameLatches
  <2>3. QED
    BY <1>14, <2>1, <2>2, Zenon DEF Linked
<1>18. Finished(Live, rob)'
  <2> SUFFICES ASSUME NEW t \in Live, Mem(rob', t), rob'[t].ready
               PROVE  /\ rob'[t].accesses = 1
                      /\ \A s \in Live : Mem(rob', s) /\ rob'[s].id < rob'[t].id => rob'[s].ready
    BY <1>14, Zenon DEF Finished
  <2>1. t # e /\ rob'[t] = rob[t] /\ Mem(rob, t) /\ rob[t].ready
    BY <1>8, <1>13, <1>15, Zenon
  <2>2. /\ rob[t].accesses = 1
        /\ \A s \in Live : Mem(rob, s) /\ rob[s].id < rob[t].id => rob[s].ready
    BY <2>1, Zenon DEF LsqInv, Finished
  <2>3. QED
    BY <1>13, <1>15, <2>1, <2>2, Zenon DEF SameInsns
<1>19. Behind(LsqLive, rob, lsq, lsq_cq.front)'
  <2> SUFFICES ASSUME NEW i \in LsqLive, i # f
               PROVE  /\ ~lsq'[i].mem_request_sent /\ ~lsq'[i].mem_request_complete
                      /\ rob'[lsq'[i].e].accesses = 0
    BY <1>1, <1>14, Zenon DEF Behind, f
  <2>1. /\ ~lsq[i].mem_request_sent /\ ~lsq[i].mem_request_complete
        /\ rob[lsq[i].e].accesses = 0
    BY Zenon DEF LsqInv, Behind, f
  <2>2. lsq'[i] = lsq[i] /\ rob'[lsq[i].e] = rob[lsq[i].e]
    BY <1>7, <1>13, Zenon
  <2>3. QED
    BY <2>1, <2>2, Zenon
<1>20. FrontInv'
  <2>1. lsq'[f].e = e /\ rob'[e].ins = rob[e].ins /\ rob'[e].accesses = 1
    BY <1>8, <1>9, Zenon
  <2>2. LsqLive' # {} /\ lsq_cq'.front = f /\ rob_cq'.front = rob_cq.front
    BY <1>1, <1>2, <1>14, Zenon DEF f
  <2>3. \/ InUnit(lsq'[f], rob'[e].accesses, lsu')
        \/ Served(lsq'[f], rob'[e].accesses, lsu') /\ phase' = "lsq2"
    <3>1. CASE done
      BY <1>1, <1>9, <1>10, <2>1, <3>1, Zenon DEF Served
    <3>2. CASE ~done
      <4>1. rob'[e].accesses = IF lsu'.stage_exec_done THEN 1 ELSE 0
        BY <1>10, <2>1, <3>2
      <4>2. QED
        BY <1>9, <1>10, <2>1, <3>2, <4>1, Zenon DEF InUnit
    <3>3. QED
      BY <3>1, <3>2, Zenon
  <2>4. FrontState(lsq'[f], rob'[lsq'[f].e], lsu', phase', rob_cq'.front)
    BY <1>4, <1>9, <2>1, <2>2, <2>3, Zenon DEF FrontState
  <2>5. QED
    BY <2>2, <2>4, Zenon DEF FrontInv
<1>21. StoresInv'
  <2> SUFFICES ASSUME NEW s \in Live
               PROVE  /\ rob'[s].ins.kind = "atomic" => s = rob_cq.front
                      /\ ~(rob'[s].ins.kind = "store" /\ rob'[s].ready)
    BY <1>1, <1>14, Zenon DEF StoresInv
  <2>1. rob'[s].ins = rob[s].ins /\ (rob'[s].ready <=> rob[s].ready)
    BY <1>13, Zenon DEF SameInsns
  <2>2. QED
    BY <1>11, <2>1, Zenon DEF LsqInv, StoresInv
<1>22. TodoInv'
  <2> SUFFICES ASSUME NEW s \in todo
               PROVE  /\ s \in Live /\ ~rob'[s].ready
                      /\ Mem(rob', s) => ~lsq'[rob'[s].lsq_idx].ready
    BY <1>1, <1>14, Zenon DEF TodoInv
  <2>1. s \in Live /\ ~rob[s].ready /\ (Mem(rob, s) => ~lsq[rob[s].lsq_idx].ready)
    BY Zenon DEF LsqInv, TodoInv
  <2>2. Mem(rob, s) => rob[s].lsq_idx \in LsqLive /\ rob[s].lsq_idx # f
    BY <1>4, <2>1, Zenon DEF LsqInv, Linked
  <2>3. QED
    <3>1. rob'[s].lsq_idx = rob[s].lsq_idx
      BY <1>13, <2>1, Zenon DEF SameInsns
    <3>2. QED
      BY <1>13, <1>15, <2>1, <2>2, <3>1, Zenon
<1>23. QED
  BY <1>14, <1>16, <1>17, <1>18, <1>19, <1>20, <1>21, <1>22, Zenon DEF LsqInv

(***************************************************************************)
(* A memory instruction leaves its functional unit: its queue entry is     *)
(* ready.                                                                  *)
(***************************************************************************)
LEMMA FinishMemKeeps ==
  ASSUME LsqAssumption, LsqInv, NEW s, Finish(s), Mem(rob, s)
  PROVE  LsqInv'
<1> DEFINE x == rob[s].lsq_idx
<1>1. /\ s \in todo /\ lsq' = [lsq EXCEPT ![x].ready = TRUE] /\ rob' = rob
      /\ phase' = phase /\ commits' = commits /\ rob_cq' = rob_cq
      /\ lsq_cq' = lsq_cq /\ lsu' = lsu /\ todo' = todo \ {s}
      /\ ins_dispatch_id' = ins_dispatch_id
  BY Zenon DEF Finish, IsMem, Mem
<1>2. s \in Live /\ ~rob[s].ready
  BY <1>1, Zenon DEF LsqInv, TodoInv
<1>3. x \in LsqLive /\ lsq[x].e = s
  BY <1>2, Zenon DEF LsqInv, Linked
<1>4. x \in LsqSlots /\ lsq[x] \in LsqEntry /\ lsq \in [LsqSlots -> LsqEntry \cup {NoEntry}]
  BY <1>3, Facts, Zenon DEF LsqInv, Types
<1>5. /\ OneEntry(lsq, lsq', x) /\ lsq'[x].ready
      /\ lsq'[x].mem_request_sent <=> lsq[x].mem_request_sent
      /\ lsq'[x].mem_request_complete <=> lsq[x].mem_request_complete
  <2>1. lsq' = SetLsqReady(lsq, x)
    BY <1>1, Zenon DEF SetLsqReady
  <2> HIDE DEF x
  <2>2. QED
    BY <1>4, <2>1, LsqReadySet, Zenon
<1> HIDE DEF x
<1>6. /\ SameInsns(Live, rob, rob') /\ SameLatches(LsqLive, lsq, lsq')
      /\ \A i \in LsqLive : /\ lsq'[i].mem_request_sent <=> lsq[i].mem_request_sent
                            /\ lsq'[i].mem_request_complete <=> lsq[i].mem_request_complete
                            /\ lsq[i].ready => lsq'[i].ready
                            /\ i # x => lsq'[i] = lsq[i]
  <2>1. \A i \in LsqLive : i # x => lsq'[i] = lsq[i]
    BY <1>5, Facts, Zenon DEF OneEntry
  <2>2. SameInsns(Live, rob, rob')
    BY <1>1, Facts, Zenon DEF SameInsns
  <2>3. SameLatches(LsqLive, lsq, lsq')
    BY <1>5, <2>1, Facts, Zenon DEF SameLatches, OneEntry
  <2>4. QED
    BY <1>5, <2>1, <2>2, <2>3, Zenon
<1>7. Live' = Live /\ LsqLive' = LsqLive /\ Orders'
  BY <1>1, <1>6, SameQueues, Zenon
<1>8. Types'
  BY <1>1, <1>5, Zenon DEF LsqInv, Types, OneEntry
<1>9. Linked(Live, LsqLive, rob, lsq)' /\ Finished(Live, rob)'
  <2>1. Linked(Live, LsqLive, rob, lsq')
    <3>1. \A i \in LsqLive : lsq'[i] \in LsqEntry /\ lsq'[i].e = lsq[i].e
      BY <1>6, Zenon DEF SameLatches
    <3>2. QED
      BY <3>1, Zenon DEF LsqInv, Linked
  <2>2. QED
    BY <1>1, <1>7, <2>1, Zenon DEF LsqInv
<1>10. Behind(LsqLive, rob, lsq, lsq_cq.front)'
  <2>1. Behind(LsqLive, rob, lsq', lsq_cq.front)
    BY <1>6, Zenon DEF LsqInv, Behind, SameLatches
  <2>2. QED
    BY <1>1, <1>7, <2>1, Zenon
<1>11. FrontInv'
  <2> SUFFICES ASSUME NEW i \in LsqLive, i = lsq_cq.front
               PROVE  FrontState(lsq'[i], rob[lsq[i].e], lsu, phase, rob_cq.front)
    BY <1>1, <1>6, <1>7, Zenon DEF LsqInv, FrontInv, SameLatches
  <2>1. FrontState(lsq[i], rob[lsq[i].e], lsu, phase, rob_cq.front)
    BY Zenon DEF LsqInv, FrontInv
  <2>2. /\ lsq'[i].e = lsq[i].e
        /\ lsq'[i].mem_request_sent <=> lsq[i].mem_request_sent
        /\ lsq'[i].mem_request_complete <=> lsq[i].mem_request_complete
        /\ lsq[i].ready => lsq'[i].ready
    BY <1>6, Zenon DEF SameLatches
  <2>3. QED
    BY <2>1, <2>2, Zenon DEF FrontState, Waits, InUnit, Served
<1>12. StoresInv'
  BY <1>1, <1>7, Zenon DEF LsqInv, StoresInv
<1>13. TodoInv'
  <2> SUFFICES ASSUME NEW t \in todo, t # s
               PROVE  t \in Live /\ ~rob[t].ready /\ (Mem(rob, t) => ~lsq'[rob[t].lsq_idx].ready)
    BY <1>1, <1>7, Zenon DEF TodoInv
  <2>1. t \in Live /\ ~rob[t].ready /\ (Mem(rob, t) => ~lsq[rob[t].lsq_idx].ready)
    BY Zenon DEF LsqInv, TodoInv
  <2>2. Mem(rob, t) => rob[t].lsq_idx \in LsqLive /\ rob[t].lsq_idx # x
    BY <1>3, <2>1, Zenon DEF LsqInv, Linked
  <2>3. QED
    BY <1>6, <2>1, <2>2, Zenon
<1>14. QED
  BY <1>7, <1>8, <1>9, <1>10, <1>11, <1>12, <1>13, Zenon DEF LsqInv

\* The entries after that of s was marked ready.
Marked(s) ==
  /\ rob' \in [Slots -> RobEntry \cup {NoEntry}]
  /\ SameInsns(Live, rob, rob')
  /\ \A t \in Live : t # s => rob'[t] = rob[t]
  /\ \A t \in Live : rob'[t].accesses = rob[t].accesses
  /\ \A t \in Live : Mem(rob', t) <=> Mem(rob, t)

(***************************************************************************)
(* Marking an instruction ready changes no other entry, and nothing else   *)
(* in its own.                                                             *)
(***************************************************************************)
LEMMA MarkedMeans ==
  ASSUME LsqAssumption, LsqInv, NEW s \in Live, rob' = SetReady(rob, s)
  PROVE  Marked(s)
<1>1. /\ Live \subseteq Slots /\ rob[s] \in RobEntry /\ s \in Slots
      /\ \A t \in Live : rob[t] \in RobEntry
  BY Facts, Zenon
<1>2. rob \in [Slots -> RobEntry \cup {NoEntry}]
  BY Zenon DEF LsqInv, Types
<1>3. /\ rob' \in [Slots -> RobEntry \cup {NoEntry}]
      /\ \A t \in Slots : t # s => rob'[t] = rob[t]
      /\ rob'[s] \in RobEntry
      /\ rob'[s].id = rob[s].id /\ rob'[s].ins = rob[s].ins
      /\ rob'[s].lsq_idx = rob[s].lsq_idx /\ rob'[s].accesses = rob[s].accesses
  <2>1. OneSlot(rob, rob', s) /\ rob'[s].ready /\ rob'[s].accesses = rob[s].accesses
    <3>1. s \in Slots /\ rob[s] \in RobEntry
      BY <1>1, Zenon
    <3>2. QED
      BY <1>2, <3>1, ReadySet, Zenon
  <2>2. QED
    BY <2>1, Zenon DEF OneSlot
<1>4. SameInsns(Live, rob, rob')
  BY <1>1, <1>3, Zenon DEF SameInsns
<1>5. QED
  BY <1>1, <1>3, <1>4, Zenon DEF Marked, SameInsns, Mem

(***************************************************************************)
(* Another instruction leaves its functional unit.                         *)
(***************************************************************************)
LEMMA FinishOtherKeeps ==
  ASSUME LsqAssumption, LsqInv, NEW s, Finish(s), ~Mem(rob, s)
  PROVE  LsqInv'
<1>1. /\ s \in todo /\ rob' = [rob EXCEPT ![s].ready = TRUE] /\ lsq' = lsq
      /\ phase' = phase /\ commits' = commits /\ rob_cq' = rob_cq
      /\ lsq_cq' = lsq_cq /\ lsu' = lsu /\ todo' = todo \ {s}
      /\ ins_dispatch_id' = ins_dispatch_id
  BY Zenon DEF Finish, IsMem, Mem
<1>2. s \in Live
  BY <1>1, Zenon DEF LsqInv, TodoInv
<1>3. /\ rob' \in [Slots -> RobEntry \cup {NoEntry}]
      /\ SameInsns(Live, rob, rob')
      /\ \A t \in Live : t # s => rob'[t] = rob[t]
      /\ \A t \in Live : rob'[t].accesses = rob[t].accesses
      /\ \A t \in Live : Mem(rob', t) <=> Mem(rob, t)
  <2>1. rob' = SetReady(rob, s)
    BY <1>1, Zenon DEF SetReady
  <2>2. Marked(s)
    BY <1>2, <2>1, MarkedMeans, Zenon
  <2>3. QED
    BY <2>2, Zenon DEF Marked
<1>4. SameLatches(LsqLive, lsq, lsq')
  BY <1>1, Facts, Zenon DEF SameLatches
<1>5. Live' = Live /\ LsqLive' = LsqLive /\ Orders'
  BY <1>1, <1>3, <1>4, SameQueues, Zenon
<1>6. \A i \in LsqLive : lsq[i].e \in Live /\ lsq[i].e # s
  BY Zenon DEF LsqInv, Linked
<1>7. Types'
  BY <1>1, <1>3, Zenon DEF LsqInv, Types
<1>8. Linked(Live, LsqLive, rob, lsq)'
  <2>1. \A i \in LsqLive : rob'[lsq[i].e] = rob[lsq[i].e] /\ Mem(rob', lsq[i].e)
    BY <1>3, <1>6, Zenon DEF LsqInv, Linked
  <2>2. \A t \in Live : Mem(rob', t) => rob'[t] = rob[t] /\ Mem(rob, t)
    BY <1>3, Zenon
  <2>3. Linked(Live, LsqLive, rob', lsq)
    BY <2>1, <2>2, Zenon DEF LsqInv, Linked
  <2>4. QED
    BY <1>1, <1>5, <2>3, Zenon
<1>9. Finished(Live, rob)'
  <2>1. \A t \in Live : Mem(rob', t) => rob'[t] = rob[t] /\ Mem(rob, t)
    BY <1>3, Zenon
  <2>2. Finished(Live, rob')
    BY <2>1, Zenon DEF LsqInv, Finished
  <2>3. QED
    BY <1>5, <2>2, Zenon
<1>10. Behind(LsqLive, rob, lsq, lsq_cq.front)'
  BY <1>1, <1>3, <1>5, <1>6, Zenon DEF LsqInv, Behind
<1>11. FrontInv'
  <2>1. \A i \in LsqLive : rob'[lsq[i].e] = rob[lsq[i].e]
    BY <1>3, <1>6, Zenon
  <2>2. /\ LsqLive' = LsqLive /\ lsq' = lsq /\ lsu' = lsu /\ phase' = phase
        /\ lsq_cq' = lsq_cq /\ rob_cq' = rob_cq
    BY <1>1, <1>5, Zenon
  <2>3. QED
    BY <2>1, <2>2, Zenon DEF LsqInv, FrontInv
<1>12. StoresInv'
  <2> SUFFICES ASSUME NEW t \in Live
               PROVE  /\ rob'[t].ins.kind = "atomic" => t = rob_cq.front
                      /\ rob'[t].ins.kind = "store" /\ rob'[t].ready =>
                           /\ t = rob_cq.front /\ phase \in {"exec", "dispatch", "commit"}
                           /\ commits = 0
    BY <1>1, <1>5, Zenon DEF StoresInv
  <2>1. rob[s].ins.kind # "store"
    BY Zenon DEF Mem
  <2>2. rob'[t].ins = rob[t].ins
    BY <1>3, Zenon DEF SameInsns
  <2>3. rob'[t].ins.kind = "store" => rob'[t] = rob[t]
    BY <1>3, <2>1, <2>2, Zenon
  <2>4. QED
    BY <2>2, <2>3, Zenon DEF LsqInv, StoresInv
<1>13. TodoInv'
  BY <1>1, <1>3, <1>5, Zenon DEF LsqInv, TodoInv
<1>14. QED
  BY <1>5, <1>7, <1>8, <1>9, <1>10, <1>11, <1>12, <1>13, Zenon DEF LsqInv

-----------------------------------------------------------------------------
(***************************************************************************)
(* The loops of restore_lsq find the first speculated entry if there is    *)
(* one.                                                                    *)
(***************************************************************************)
LEMMA NoneSpeculated ==
  ASSUME NEW from \in Nat, NEW to \in Int, NEW tag, FirstSpeculated(from, to, tag) = {}
  PROVE  \A i \in from .. to : ~is_lsq_entry_speculated(i, tag)
<1> DEFINE S == {i \in from .. to : is_lsq_entry_speculated(i, tag)}
<1> SUFFICES ASSUME S # {} PROVE FALSE
  BY Zenon
<1>1. S \in SUBSET Nat
  OBVIOUS
<1>2. PICK m \in S : \A n \in S : m <= n
  BY <1>1, LeastNatural, Zenon
<1>3. m \in from .. to /\ is_lsq_entry_speculated(m, tag)
  BY Zenon
<1>4. ASSUME NEW j \in from .. m - 1
      PROVE  ~is_lsq_entry_speculated(j, tag)
  <2>1. j \in from .. to /\ ~(m <= j)
    BY <1>3
  <2>2. QED
    BY <1>2, <2>1, Zenon
<1>5. QED
  BY <1>3, <1>4, Zenon DEF FirstSpeculated

\* Slot r is the last with a number up to tag, and x is the slot after it.
LastUpTo(q, max, k, tag, x, r) ==
  /\ x \in CqSlots(q, max) /\ Off(q, max, x) = Off(q, max, r) + 1
  /\ tag \in Nat /\ k[x] > tag /\ ~(k[r] > tag)

\* The queue q is cut to n behind r; k and k2 number its slots before and after.
CutTo(q, max, k, n, k2, r) ==
  /\ max \in Nat \ {0} /\ QueueOK(q, max) /\ InOrder(q, max, k)
  /\ r \in CqSlots(q, max) /\ n = cq_set_rear(q, r)
  /\ \A s \in CqSlots(q, max) : k2[s] = k[s]

UpTo(q, max, k, tag) == {t \in CqSlots(q, max) : k[t] <= tag}

(***************************************************************************)
(* Cutting a queue before x, the first slot with a number above tag,       *)
(* leaves the slots with the others.                                       *)
(***************************************************************************)
LEMMA CutBefore ==
  ASSUME NEW max, NEW q, NEW k, NEW k2, NEW n, NEW tag, NEW x, NEW r,
         CutTo(q, max, k, n, k2, r), LastUpTo(q, max, k, tag, x, r)
  PROVE  /\ QueueOK(n, max) /\ InOrder(n, max, k2)
         /\ CqSlots(n, max) = UpTo(q, max, k, tag)
<1>1. /\ QueueOK(n, max) /\ InOrder(n, max, k2)
      /\ CqSlots(n, max) = {t \in CqSlots(q, max) : k[t] <= k[r]}
  BY SetRearKeepsOrder DEF CutTo
<1>2. ASSUME NEW t \in CqSlots(q, max)
      PROVE  k[t] <= k[r] <=> k[t] <= tag
  <2>1. /\ k[t] \in Nat /\ k[r] \in Nat /\ k[x] \in Nat
        /\ Off(q, max, t) < Off(q, max, x) <=> k[t] < k[x]
        /\ Off(q, max, r) < Off(q, max, t) <=> k[r] < k[t]
    BY Zenon DEF CutTo, InOrder, LastUpTo
  <2>2. /\ Off(q, max, t) \in Nat /\ Off(q, max, r) \in Nat
    BY UsedSlots, Zenon DEF CutTo
  <2>3. /\ Off(q, max, x) = Off(q, max, r) + 1
        /\ tag \in Nat /\ k[x] > tag /\ ~(k[r] > tag)
    BY Zenon DEF LastUpTo
  <2>4. QED
    BY <2>1, <2>2, <2>3
<1>3. QED
  BY <1>1, <1>2, Zenon DEF UpTo

(***************************************************************************)
(* restore_lsq leaves the entries of the branch's own path.                *)
(***************************************************************************)
LEMMA RestoreLsq ==
  ASSUME LsqAssumption, LsqInv, NEW tag \in Nat, NEW n, n = restore_lsq(tag),
         NEW k2, \A i \in LsqLive : k2[i] = LsqIds(rob, lsq)[i]
  PROVE  /\ QueueOK(n, LsqSize) /\ InOrder(n, LsqSize, k2)
         /\ CqSlots(n, LsqSize) = {i \in LsqLive : rob[lsq[i].e].id <= tag}
         /\ ~cq_empty(n) => n.front = lsq_cq.front
<1> DEFINE q == lsq_cq
           k == LsqIds(rob, lsq)
           Spec0(i) == is_lsq_entry_speculated(i, tag)
<1>1. /\ LsqSize \in Nat \ {0} /\ QueueOK(q, LsqSize) /\ InOrder(q, LsqSize, k)
      /\ LsqLive \subseteq LsqSlots /\ LsqLive = CqSlots(q, LsqSize)
  BY Facts, Zenon DEF LsqAssumption, LsqInv, Orders, LsqLive
<1>2. /\ \A i \in LsqSlots : k[i] = rob[lsq[i].e].id /\ (Spec0(i) <=> k[i] > tag)
      /\ \A i \in LsqLive : k[i] \in Nat
  <2>1. \A i \in LsqSlots : k[i] = rob[lsq[i].e].id
    BY Zenon DEF LsqIds
  <2>2. \A i \in LsqLive : k[i] \in Nat
    BY <1>1, <2>1, Facts, Zenon
  <2>3. QED
    BY <2>1, <2>2, Zenon DEF is_lsq_entry_speculated
<1>3. {i \in LsqLive : rob[lsq[i].e].id <= tag} = {i \in LsqLive : k[i] <= tag}
  BY <1>1, <1>2, Zenon
<1>4. /\ \A i \in CqSlots(q, LsqSize) : k2[i] = k[i]
      /\ InOrder(q, LsqSize, k2)
  <2>1. \A i \in CqSlots(q, LsqSize) : k2[i] = k[i]
    BY <1>1, Zenon
  <2> HIDE DEF k
  <2>2. QED
    BY <1>1, <2>1, SameOrder, Zenon
<1>5. ASSUME n = q, \A i \in LsqLive : ~Spec0(i)
      PROVE  /\ QueueOK(n, LsqSize) /\ InOrder(n, LsqSize, k2)
             /\ CqSlots(n, LsqSize) = {i \in LsqLive : k[i] <= tag}
             /\ ~cq_empty(n) => n.front = lsq_cq.front
  <2>1. \A i \in LsqLive : k[i] <= tag
    <3> SUFFICES ASSUME NEW i \in LsqLive PROVE k[i] <= tag
      BY Zenon
    <3>1. k[i] \in Nat /\ ~(k[i] > tag)
      BY <1>1, <1>2, <1>5, Zenon
    <3>2. QED
      BY <3>1
  <2>2. QED
    BY <1>1, <1>4, <1>5, <2>1, Zenon
<1>6. ASSUME NEW x, NEW r \in LsqLive, LastUpTo(q, LsqSize, k, tag, x, r),
             n = cq_set_rear(q, r)
      PROVE  /\ QueueOK(n, LsqSize) /\ InOrder(n, LsqSize, k2)
             /\ CqSlots(n, LsqSize) = {i \in LsqLive : k[i] <= tag}
  <2> HIDE DEF q, k
  <2>1. CutTo(q, LsqSize, k, n, k2, r)
    BY <1>1, <1>4, <1>6, Zenon DEF CutTo
  <2>2. LastUpTo(q, LsqSize, k, tag, x, r)
    BY <1>6, Zenon
  <2>3. /\ QueueOK(n, LsqSize) /\ InOrder(n, LsqSize, k2)
        /\ CqSlots(n, LsqSize) = UpTo(q, LsqSize, k, tag)
    BY <2>1, <2>2, CutBefore, Zenon
  <2>4. QED
    BY <1>1, <2>3, Zenon DEF UpTo
<1>7. CASE cq_empty(q)
  <2>1. LsqLive = {} /\ n = q
    BY <1>1, <1>7, Facts, Zenon DEF restore_lsq
  <2>2. QED
    BY <1>3, <1>5, <2>1, Zenon
<1>8. CASE ~cq_empty(q) /\ Spec0(q.front)
  <2>1. n = cq_reset /\ q.front \in LsqLive
    BY <1>8, Facts, Zenon DEF restore_lsq
  <2>2. cq_empty(n) /\ QueueOK(n, LsqSize)
    BY <2>1 DEF cq_reset, cq_empty, QueueOK
  <2>3. CqSlots(n, LsqSize) = {}
    BY <1>1, <2>2, SlotsInUse, Zenon
  <2>4. ASSUME NEW i \in LsqLive PROVE ~(k[i] <= tag)
    <3>1. i = q.front \/ rob[lsq[q.front].e].id < rob[lsq[i].e].id
      BY Facts, Zenon
    <3>2. /\ k[i] \in Nat /\ k[q.front] \in Nat /\ k[q.front] > tag
          /\ i = q.front \/ k[q.front] < k[i]
      BY <1>1, <1>2, <1>8, <2>1, <3>1, Zenon
    <3>3. QED
      BY <3>2
  <2>5. InOrder(n, LsqSize, k2)
    BY <2>3, Zenon DEF InOrder
  <2>6. QED
    BY <1>3, <2>2, <2>3, <2>4, <2>5, Zenon
<1>9. CASE ~cq_empty(q) /\ ~Spec0(q.front)
  <2> DEFINE straight == q.rear >= q.front
             top == IF straight THEN q.rear ELSE LsqSize - 1
             upper == FirstSpeculated(q.front, top, tag)
             lower == IF straight THEN {} ELSE FirstSpeculated(0, q.rear, tag)
  <2>1. n = IF upper # {} THEN cq_set_rear(q, (CHOOSE i \in upper : TRUE) - 1)
            ELSE IF lower = {} THEN q
            ELSE LET i == CHOOSE i \in lower : TRUE
                 IN  cq_set_rear(q, IF i = 0 THEN LsqSize - 1 ELSE i - 1)
    BY <1>9, Zenon DEF restore_lsq
  <2>2. /\ q.front \in 0 .. LsqSize - 1 /\ q.rear \in 0 .. LsqSize - 1
        /\ q = [front |-> q.front, rear |-> q.rear]
        /\ LsqLive = {i \in 0 .. LsqSize - 1 :
                        Off(q, LsqSize, i) <= Off(q, LsqSize, q.rear)}
    BY <1>1, <1>9, SlotsInUse, Zenon
  <2>3. \A r : cq_set_rear(q, r).front = q.front
    BY <2>2 DEF cq_set_rear
  <2> HIDE DEF q
  <2>4. \A i \in LsqSlots : i \in LsqLive <=>
          IF straight THEN i \in q.front .. q.rear
          ELSE i \in q.front .. LsqSize - 1 \/ i \in 0 .. q.rear
    BY <1>1, <2>2 DEF Off, LsqSlots
  <2>5. top \in Nat /\ q.front \in Nat /\ q.rear \in Nat /\ q.front <= top
    BY <1>1, <2>2
  <2>6. \A i \in q.front .. top : i \in LsqLive
    <3> SUFFICES ASSUME NEW i \in q.front .. top PROVE i \in LsqLive
      BY Zenon
    <3>1. i \in LsqSlots
      BY <1>1, <2>2 DEF LsqSlots
    <3>2. IF straight THEN i \in q.front .. q.rear
          ELSE i \in q.front .. LsqSize - 1 \/ i \in 0 .. q.rear
      BY Zenon
    <3>3. QED
      BY <2>4, <3>1, <3>2, Zenon
  <2>7. CASE upper # {}
    <3> DEFINE x == CHOOSE i \in upper : TRUE
    <3>1. x \in upper /\ n = cq_set_rear(q, x - 1)
      BY <2>1, <2>7, Zenon
    <3> HIDE DEF x
    <3>2. /\ x \in q.front .. top /\ Spec0(x)
          /\ \A j \in q.front .. x - 1 : ~Spec0(j)
      BY <3>1, Zenon DEF FirstSpeculated
    <3>3. x # q.front
      BY <1>9, <3>2, Zenon
    <3>4. x \in LsqSlots /\ x - 1 \in LsqSlots /\ x - 1 \in q.front .. x - 1
      BY <1>1, <2>2, <2>5, <3>2, <3>3 DEF LsqSlots
    <3>5. x \in CqSlots(q, LsqSize) /\ x - 1 \in CqSlots(q, LsqSize)
      <4>1. x \in q.front .. top /\ x - 1 \in q.front .. top
        BY <2>5, <3>2, <3>3
      <4>2. QED
        BY <1>1, <2>6, <4>1, Zenon
    <3>6. Off(q, LsqSize, x) = Off(q, LsqSize, x - 1) + 1
      BY <2>2, <3>2, <3>3 DEF Off
    <3>7. k[x] > tag /\ ~(k[x - 1] > tag)
      BY <1>2, <3>2, <3>4, Zenon
    <3> HIDE DEF k
    <3>8. /\ QueueOK(n, LsqSize) /\ InOrder(n, LsqSize, k2)
          /\ CqSlots(n, LsqSize) = {i \in LsqLive : k[i] <= tag}
      <4>1. LastUpTo(q, LsqSize, k, tag, x, x - 1)
        BY <3>5, <3>6, <3>7, Zenon DEF LastUpTo
      <4>2. x - 1 \in LsqLive /\ n = cq_set_rear(q, x - 1)
        BY <1>1, <3>1, <3>5, Zenon
      <4>3. QED
        BY <1>6, <4>1, <4>2, Zenon
    <3>9. QED
      BY <1>3, <2>3, <3>1, <3>8, Zenon DEF q
  <2>8. CASE upper = {}
    <3>1. \A i \in q.front .. top : ~Spec0(i)
      BY <2>5, <2>8, NoneSpeculated
    <3>2. CASE lower = {}
      <4>1. n = q
        BY <2>1, <2>8, <3>2, Zenon
      <4>2. ~straight => \A i \in 0 .. q.rear : ~Spec0(i)
        BY <2>5, <3>2, NoneSpeculated
      <4>3. \A i \in LsqLive : ~Spec0(i)
        BY <1>1, <2>4, <3>1, <4>2, Zenon
      <4>4. QED
        BY <1>3, <1>5, <4>1, <4>3, Zenon
    <3>3. CASE lower # {}
      <4> DEFINE x == CHOOSE i \in lower : TRUE
                 r == IF x = 0 THEN LsqSize - 1 ELSE x - 1
      <4>1. x \in lower /\ n = cq_set_rear(q, r) /\ ~straight
        BY <2>1, <2>8, <3>3, Zenon
      <4> HIDE DEF x
      <4>2. /\ x \in 0 .. q.rear /\ Spec0(x)
            /\ \A j \in 0 .. x - 1 : ~Spec0(j)
        BY <4>1, Zenon DEF FirstSpeculated
      <4>3. /\ x \in LsqSlots /\ r \in LsqSlots /\ x \in LsqLive /\ r \in LsqLive
            /\ x = 0 => r \in q.front .. top
            /\ x # 0 => r \in 0 .. x - 1
        BY <1>1, <2>2, <2>4, <4>1, <4>2 DEF LsqSlots
      <4>4. Off(q, LsqSize, x) = Off(q, LsqSize, r) + 1
        BY <1>1, <2>2, <4>1, <4>2 DEF Off
      <4>5. ~Spec0(r)
        BY <3>1, <4>2, <4>3, Zenon
      <4>6. k[x] > tag /\ ~(k[r] > tag)
        BY <1>2, <4>2, <4>3, <4>5, Zenon
      <4> HIDE DEF k, r
      <4>7. /\ QueueOK(n, LsqSize) /\ InOrder(n, LsqSize, k2)
            /\ CqSlots(n, LsqSize) = {i \in LsqLive : k[i] <= tag}
        <5>1. LastUpTo(q, LsqSize, k, tag, x, r)
          BY <1>1, <4>3, <4>4, <4>6, Zenon DEF LastUpTo
        <5>2. r \in LsqLive /\ n = cq_set_rear(q, r)
          BY <4>1, <4>3, Zenon
        <5>3. QED
          BY <1>6, <5>1, <5>2, Zenon
      <4>8. QED
        BY <1>3, <2>3, <4>1, <4>7, Zenon DEF q
    <3>4. QED
      BY <3>2, <3>3, Zenon
  <2>9. QED
    BY <2>7, <2>8, Zenon
<1>10. QED
  BY <1>7, <1>8, <1>9, Zenon

(***************************************************************************)
(* A misprediction cuts both queues at the branch, and frees the unit if   *)
(* what it holds is cut.                                                   *)
(***************************************************************************)
LEMMA MispredictKeeps ==
  ASSUME LsqAssumption, LsqInv, NEW s, Mispredict(s)
  PROVE  LsqInv'
<1> DEFINE tag == rob[s].id
<1>1. /\ s \in todo /\ rob[s].ins.kind = "branch" /\ rob_cq' = cq_set_rear(rob_cq, s)
      /\ rob' = [rob EXCEPT ![s].ready = TRUE] /\ todo' = {t \in todo : rob[t].id < tag}
      /\ lsq_cq' = restore_lsq(tag) /\ lsu' = restore_lsu(tag)
      /\ phase' = phase /\ commits' = commits /\ lsq' = lsq
      /\ ins_dispatch_id' = ins_dispatch_id
  BY Zenon DEF Mispredict
<1>2. s \in Live /\ tag \in Nat
  BY <1>1, Facts, Zenon DEF LsqInv, TodoInv
<1>3. /\ rob' \in [Slots -> RobEntry \cup {NoEntry}]
      /\ SameInsns(Live, rob, rob')
      /\ \A t \in Live : t # s => rob'[t] = rob[t]
      /\ \A t \in Live : rob'[t].accesses = rob[t].accesses
      /\ \A t \in Live : Mem(rob', t) <=> Mem(rob, t)
  <2>1. rob' = SetReady(rob, s)
    BY <1>1, Zenon DEF SetReady
  <2>2. Marked(s)
    BY <1>2, <2>1, MarkedMeans, Zenon
  <2>3. QED
    BY <2>2, Zenon DEF Marked
<1>4. ~Mem(rob, s) /\ rob[s].ins.kind # "store"
  BY <1>1 DEF Mem
<1>5. \A i \in LsqLive : lsq[i].e \in Live /\ lsq[i].e # s /\ lsq[i] \in LsqEntry
  BY <1>4, Zenon DEF LsqInv, Linked
<1>6. /\ LsqLive \subseteq LsqSlots /\ Live \subseteq Slots
      /\ \A t \in Live : rob[t].id \in Nat
      /\ \A t, u \in Live : rob[t].id = rob[u].id => t = u
      /\ LsqLive # {} => lsq_cq.front \in LsqLive
  BY Facts, Zenon
<1>7. /\ \A t \in Slots : Ids(rob)[t] = rob[t].id /\ Ids(rob')[t] = rob'[t].id
      /\ \A i \in LsqSlots : /\ LsqIds(rob, lsq)[i] = rob[lsq[i].e].id
                             /\ LsqIds(rob', lsq')[i] = rob'[lsq[i].e].id
  BY <1>1, Zenon DEF Ids, LsqIds
<1>8. /\ QueueOK(rob_cq', RobSize) /\ InOrder(rob_cq', RobSize, Ids(rob'))
      /\ Live' = {t \in Live : rob[t].id <= tag}
      /\ rob_cq'.front = rob_cq.front
  <2>1. /\ RobSize \in Nat \ {0}
        /\ QueueOK(rob_cq, RobSize) /\ InOrder(rob_cq, RobSize, Ids(rob))
    BY Zenon DEF LsqAssumption, LsqInv, Orders
  <2>2. \A t \in CqSlots(rob_cq, RobSize) : Ids(rob')[t] = Ids(rob)[t]
    <3>1. \A t \in Live : rob'[t].id = rob[t].id /\ t \in Slots
      BY <1>3, <1>6, Zenon DEF SameInsns
    <3>2. \A t \in Live : Ids(rob')[t] = Ids(rob)[t]
      BY <1>7, <3>1, Zenon
    <3>3. QED
      BY <3>2, Zenon DEF Live
  <2>3. s \in CqSlots(rob_cq, RobSize) /\ rob_cq' = cq_set_rear(rob_cq, s)
    BY <1>1, <1>2, Zenon DEF Live
  <2>4. /\ QueueOK(rob_cq', RobSize) /\ InOrder(rob_cq', RobSize, Ids(rob'))
        /\ CqSlots(rob_cq', RobSize) =
             {t \in CqSlots(rob_cq, RobSize) : Ids(rob)[t] <= Ids(rob)[s]}
    BY <2>1, <2>2, <2>3, SetRearKeepsOrder
  <2>5. Live' = {t \in Live : rob[t].id <= tag}
    BY <1>2, <1>6, <1>7, <2>4, Zenon DEF Live
  <2>6. ~cq_empty(rob_cq)
    BY <1>2, Facts, Zenon
  <2>7. rob_cq = [front |-> rob_cq.front, rear |-> rob_cq.rear]
    BY <2>1, <2>6, SlotsInUse, Zenon
  <2>8. rob_cq'.front = rob_cq.front
    BY <1>1, <2>7 DEF cq_set_rear
  <2>9. QED
    BY <2>4, <2>5, <2>8, Zenon
<1>9. /\ QueueOK(lsq_cq', LsqSize) /\ InOrder(lsq_cq', LsqSize, LsqIds(rob', lsq'))
      /\ LsqLive' = {i \in LsqLive : rob[lsq[i].e].id <= tag}
      /\ LsqLive' # {} => lsq_cq'.front = lsq_cq.front
  <2>1. \A i \in LsqLive : LsqIds(rob', lsq')[i] = LsqIds(rob, lsq)[i]
    <3>1. \A i \in LsqLive : i \in LsqSlots /\ rob'[lsq[i].e] = rob[lsq[i].e]
      BY <1>3, <1>5, <1>6, Zenon
    <3>2. QED
      BY <1>7, <3>1, Zenon
  <2>2. /\ QueueOK(lsq_cq', LsqSize) /\ InOrder(lsq_cq', LsqSize, LsqIds(rob', lsq'))
        /\ CqSlots(lsq_cq', LsqSize) = {i \in LsqLive : rob[lsq[i].e].id <= tag}
        /\ ~cq_empty(lsq_cq') => lsq_cq'.front = lsq_cq.front
    <3>1. lsq_cq' = restore_lsq(tag)
      BY <1>1, Zenon
    <3> HIDE DEF tag
    <3>2. QED
      BY <1>2, <2>1, <3>1, RestoreLsq, Zenon
  <2>3. LsqSize \in Nat \ {0}
    BY Zenon DEF LsqAssumption
  <2>4. CqSlots(lsq_cq', LsqSize) # {} => ~cq_empty(lsq_cq')
    BY <2>2, <2>3, UsedSlots, Zenon
  <2>5. QED
    BY <2>2, <2>4, Zenon DEF LsqLive
<1>10. \A t \in Live' : t \in Live
  BY <1>8, Zenon
<1>11. \A i \in LsqLive' : i \in LsqLive /\ lsq[i].e \in Live' /\ rob'[lsq[i].e] = rob[lsq[i].e]
  BY <1>3, <1>5, <1>8, <1>9, Zenon
<1>12. \A t \in Live' : Mem(rob, t) /\ ~rob[t].ready =>
         rob[t].lsq_idx \in LsqLive' /\ lsq[rob[t].lsq_idx].e = t
  BY <1>8, <1>9, Zenon DEF LsqInv, Linked
<1>13. /\ LsqLive' = {} => ~lsu'.has_data
       /\ LsqLive' # {} => lsu' = lsu
       /\ lsu' \in [has_data : BOOLEAN, stage_exec_done : BOOLEAN, e : Slots \cup {-1}]
  <2>1. /\ lsu' = IF lsu.has_data /\ rob[lsu.e].id > tag THEN LsuFree ELSE lsu
        /\ LsuFree \in [has_data : BOOLEAN, stage_exec_done : BOOLEAN, e : Slots \cup {-1}]
        /\ ~LsuFree.has_data
    BY <1>1 DEF restore_lsu, LsuFree
  <2>2. lsu \in [has_data : BOOLEAN, stage_exec_done : BOOLEAN, e : Slots \cup {-1}]
    BY Zenon DEF LsqInv, Types
  <2>3. ASSUME lsu.has_data
        PROVE  /\ lsq_cq.front \in LsqLive /\ lsu.e = lsq[lsq_cq.front].e
    <3>1. lsq_cq.front \in LsqLive
      BY <1>6, <2>3, Zenon DEF LsqInv, FrontInv
    <3>2. QED
      BY <2>3, <3>1, Zenon DEF LsqInv, FrontInv, FrontState, Waits, InUnit, Served
  <2>4. CASE ~lsu.has_data
    BY <2>1, <2>2, <2>4, Zenon
  <2>5. CASE lsu.has_data
    <3> DEFINE u == rob[lsu.e].id
    <3>1. u \in Nat /\ (u > tag <=> ~(u <= tag))
      <4>1. u \in Nat
        BY <1>5, <1>6, <2>3, <2>5, Zenon
      <4>2. QED
        BY <1>2, <4>1
    <3>2. u <= tag <=> lsq_cq.front \in LsqLive'
      BY <1>9, <2>3, <2>5, Zenon
    <3>3. ASSUME NEW i \in LsqLive'
          PROVE  u <= tag
      <4>1. /\ i \in LsqLive /\ rob[lsq[i].e].id <= tag
            /\ i = lsq_cq.front \/ rob[lsq[lsq_cq.front].e].id < rob[lsq[i].e].id
        BY <1>9, Facts, Zenon
      <4>2. rob[lsq[i].e].id \in Nat /\ (i = lsq_cq.front \/ u < rob[lsq[i].e].id)
        BY <1>5, <1>6, <2>3, <2>5, <4>1, Zenon
      <4>3. i = lsq_cq.front => u <= tag
        BY <2>3, <2>5, <4>1, Zenon
      <4>4. QED
        BY <1>2, <3>1, <4>1, <4>2, <4>3
    <3>4. QED
      BY <2>1, <2>2, <2>5, <3>1, <3>2, <3>3, Zenon
  <2>6. QED
    BY <2>4, <2>5, Zenon
<1> HIDE DEF tag
<1>14. Orders'
  <2>1. ASSUME NEW t \in Live'
        PROVE  rob'[t] \in RobEntry /\ rob'[t].id < ins_dispatch_id'
    <3>1. rob'[t] \in RobEntry /\ rob'[t].id = rob[t].id
      BY <1>3, <1>10, Zenon DEF SameInsns
    <3>2. rob[t].id < ins_dispatch_id /\ ins_dispatch_id' = ins_dispatch_id
      BY <1>1, <1>10, Zenon DEF LsqInv, Orders
    <3>3. QED
      BY <3>1, <3>2, Zenon
  <2>2. QED
    BY <1>8, <1>9, <2>1, Zenon DEF Orders
<1>15. Types'
  BY <1>1, <1>3, <1>13, Zenon DEF LsqInv, Types
<1>16. Linked(Live, LsqLive, rob, lsq)'
  <2>1. ASSUME NEW i \in LsqLive'
        PROVE  /\ lsq[i] \in LsqEntry /\ lsq[i].e \in Live'
               /\ Mem(rob', lsq[i].e) /\ ~rob'[lsq[i].e].ready /\ rob'[lsq[i].e].lsq_idx = i
    BY <1>3, <1>5, <1>10, <1>11, Zenon DEF LsqInv, Linked
  <2>2. ASSUME NEW t \in Live', Mem(rob', t), ~rob'[t].ready
        PROVE  rob'[t].lsq_idx \in LsqLive' /\ lsq[rob'[t].lsq_idx].e = t
    BY <1>3, <1>4, <1>10, <1>12, <2>2, Zenon
  <2>3. QED
    BY <1>1, <2>1, <2>2, Zenon DEF Linked
<1>17. Finished(Live, rob)'
  BY <1>3, <1>4, <1>10, Zenon DEF LsqInv, Finished
<1>18. Behind(LsqLive, rob, lsq, lsq_cq.front)'
  <2> SUFFICES ASSUME NEW i \in LsqLive', i # lsq_cq.front
               PROVE  /\ ~lsq[i].mem_request_sent /\ ~lsq[i].mem_request_complete
                      /\ rob'[lsq[i].e].accesses = 0
    <3>1. lsq' = lsq /\ (LsqLive' # {} => lsq_cq'.front = lsq_cq.front)
      BY <1>1, <1>9, Zenon
    <3>2. QED
      BY <3>1, Zenon DEF Behind
  <2>1. i \in LsqLive /\ rob'[lsq[i].e] = rob[lsq[i].e]
    BY <1>11, Zenon
  <2>2. QED
    BY <2>1, Zenon DEF LsqInv, Behind
<1>19. FrontInv'
  <2>1. ASSUME NEW i \in LsqLive', i = lsq_cq'.front
        PROVE  FrontState(lsq[i], rob'[lsq[i].e], lsu', phase, rob_cq'.front)
    BY <1>8, <1>9, <1>11, <1>13, <2>1, Zenon DEF LsqInv, FrontInv
  <2>2. QED
    BY <1>1, <1>13, <2>1, Zenon DEF FrontInv
<1>20. StoresInv'
  <2> SUFFICES ASSUME NEW t \in Live'
               PROVE  /\ rob'[t].ins.kind = "atomic" => t = rob_cq.front
                      /\ rob'[t].ins.kind = "store" /\ rob'[t].ready =>
                           /\ t = rob_cq.front /\ phase \in {"exec", "dispatch", "commit"}
                           /\ commits = 0
    BY <1>1, <1>8, Zenon DEF StoresInv
  <2>1. t \in Live /\ rob'[t].ins = rob[t].ins
    BY <1>3, <1>10, Zenon DEF SameInsns
  <2>2. rob'[t].ins.kind = "store" => rob'[t] = rob[t]
    BY <1>3, <1>4, <2>1, Zenon
  <2>3. QED
    BY <2>1, <2>2, Zenon DEF LsqInv, StoresInv
<1>21. TodoInv'
  <2> SUFFICES ASSUME NEW t \in todo, rob[t].id < tag
               PROVE  t \in Live' /\ ~rob'[t].ready /\ (Mem(rob', t) => ~lsq[rob'[t].lsq_idx].ready)
    BY <1>1, Zenon DEF TodoInv
  <2>1. t \in Live /\ ~rob[t].ready /\ (Mem(rob, t) => ~lsq[rob[t].lsq_idx].ready)
    BY Zenon DEF LsqInv, TodoInv
  <2>2. rob[t].id \in Nat
    BY <1>6, <2>1, Zenon
  <2>3. rob[t].id <= tag /\ t # s
    BY <1>2, <2>2 DEF tag
  <2>4. QED
    BY <1>3, <1>8, <2>1, <2>3, Zenon
<1>22. QED
  BY <1>14, <1>15, <1>16, <1>17, <1>18, <1>19, <1>20, <1>21, Zenon DEF LsqInv

(***************************************************************************)
(* The top of the ROB is committed: it was finished, so it is not in the   *)
(* load/store queue, and an atomic or a finished store was the only one.   *)
(***************************************************************************)
LEMMA CommitKeeps ==
  ASSUME LsqAssumption, LsqInv, Commit
  PROVE  LsqInv'
<1> DEFINE F == rob_cq.front
<1>1. /\ phase = "commit" /\ ~cq_empty(rob_cq) /\ rob[F].ready
      /\ rob' = [rob EXCEPT ![F].ready = FALSE]
      /\ rob_cq' = cq_dequeue(rob_cq, RobSize) /\ commits' = commits + 1
      /\ phase' = phase /\ lsq_cq' = lsq_cq /\ lsq' = lsq /\ lsu' = lsu /\ todo' = todo
      /\ ins_dispatch_id' = ins_dispatch_id
  BY Zenon DEF Commit, rob_can_commit
<1>2. F \in Live /\ F \in Slots /\ rob[F] \in RobEntry /\ Live \subseteq Slots
      /\ LsqLive \subseteq LsqSlots
  BY <1>1, Facts, Zenon
<1>3. rob \in [Slots -> RobEntry \cup {NoEntry}]
  BY Zenon DEF LsqInv, Types
<1>4. /\ rob' \in [Slots -> RobEntry \cup {NoEntry}]
      /\ \A t \in Slots : t # F => rob'[t] = rob[t]
  <2> HIDE DEF F
  <2>1. rob' = ClearReady(rob, F)
    BY <1>1, Zenon DEF ClearReady
  <2>2. OneSlot(rob, rob', F)
    BY <1>2, <1>3, <2>1, ReadyCleared, Zenon
  <2>3. QED
    BY <2>2, Zenon DEF OneSlot
<1>5. \A i \in LsqLive : lsq[i].e \in Live /\ lsq[i].e # F
  BY <1>1, Zenon DEF LsqInv, Linked
<1>6. /\ \A t \in Slots : Ids(rob)[t] = rob[t].id /\ Ids(rob')[t] = rob'[t].id
      /\ \A i \in LsqSlots : /\ LsqIds(rob, lsq)[i] = rob[lsq[i].e].id
                             /\ LsqIds(rob', lsq')[i] = rob'[lsq[i].e].id
  BY <1>1, Zenon DEF Ids, LsqIds
<1>7. /\ QueueOK(rob_cq', RobSize) /\ InOrder(rob_cq', RobSize, Ids(rob'))
      /\ Live' = Live \ {F}
  <2>1. /\ RobSize \in Nat \ {0}
        /\ QueueOK(rob_cq, RobSize) /\ InOrder(rob_cq, RobSize, Ids(rob))
    BY Zenon DEF LsqAssumption, LsqInv, Orders
  <2>2. \A t \in CqSlots(rob_cq, RobSize) : t # rob_cq.front => Ids(rob')[t] = Ids(rob)[t]
    <3>1. \A t \in Live : t # F => t \in Slots /\ rob'[t] = rob[t]
      BY <1>2, <1>4, Zenon
    <3>2. \A t \in Live : t # F => Ids(rob')[t] = Ids(rob)[t]
      <4> SUFFICES ASSUME NEW t \in Live, t # F PROVE Ids(rob')[t] = Ids(rob)[t]
        BY Zenon
      <4>1. t \in Slots /\ rob'[t] = rob[t]
        BY <3>1, Zenon
      <4>2. Ids(rob)[t] = rob[t].id /\ Ids(rob')[t] = rob'[t].id
        BY <1>6, <4>1, Zenon
      <4>3. QED
        BY <4>1, <4>2, Zenon
    <3>3. QED
      BY <3>2, Zenon DEF Live
  <2>3. /\ QueueOK(rob_cq', RobSize) /\ InOrder(rob_cq', RobSize, Ids(rob'))
        /\ CqSlots(rob_cq', RobSize) = CqSlots(rob_cq, RobSize) \ {F}
    <3>1. ~cq_empty(rob_cq) /\ rob_cq' = cq_dequeue(rob_cq, RobSize)
      BY <1>1, Zenon
    <3>2. QED
      BY <2>1, <2>2, <3>1, DequeueKeepsOrder
  <2>4. QED
    BY <2>3, Zenon DEF Live
<1>8. /\ QueueOK(lsq_cq', LsqSize) /\ InOrder(lsq_cq', LsqSize, LsqIds(rob', lsq'))
      /\ LsqLive' = LsqLive
  <2>1. QueueOK(lsq_cq, LsqSize) /\ InOrder(lsq_cq, LsqSize, LsqIds(rob, lsq))
    BY Zenon DEF LsqInv, Orders
  <2>2. \A i \in CqSlots(lsq_cq, LsqSize) : LsqIds(rob', lsq')[i] = LsqIds(rob, lsq)[i]
    <3>1. \A i \in LsqLive : i \in LsqSlots /\ rob'[lsq[i].e] = rob[lsq[i].e]
      BY <1>2, <1>4, <1>5, Zenon
    <3>2. \A i \in LsqLive : LsqIds(rob', lsq')[i] = LsqIds(rob, lsq)[i]
      BY <1>6, <3>1, Zenon
    <3>3. QED
      BY <3>2, Zenon DEF LsqLive
  <2>3. InOrder(lsq_cq, LsqSize, LsqIds(rob', lsq'))
    BY <2>1, <2>2, SameOrder, Zenon
  <2>4. QED
    BY <1>1, <2>1, <2>3, Zenon DEF LsqLive
<1>9. \A t \in Live' : t \in Live /\ t # F /\ rob'[t] = rob[t]
  BY <1>2, <1>4, <1>7, Zenon
<1>10. \A t \in Live' : Mem(rob', t) <=> Mem(rob, t)
  BY <1>9, Zenon DEF Mem
<1>11. \A i \in LsqLive : lsq[i].e \in Live' /\ rob'[lsq[i].e] = rob[lsq[i].e]
  BY <1>5, <1>7, <1>9, Zenon
<1>12. Orders'
  <2>1. \A t \in Live' : rob'[t] \in RobEntry /\ rob'[t].id < ins_dispatch_id'
    BY <1>1, <1>9, Zenon DEF LsqInv, Orders
  <2>2. QED
    BY <1>7, <1>8, <2>1, Zenon DEF Orders
<1>13. Types'
  <2>1. commits' \in Nat
    BY <1>1 DEF LsqInv, Types
  <2>2. QED
    BY <1>1, <1>4, <2>1, Zenon DEF LsqInv, Types
<1>14. Linked(Live, LsqLive, rob, lsq)'
  <2>1. ASSUME NEW i \in LsqLive
        PROVE  /\ lsq[i] \in LsqEntry /\ lsq[i].e \in Live'
               /\ Mem(rob', lsq[i].e) /\ ~rob'[lsq[i].e].ready /\ rob'[lsq[i].e].lsq_idx = i
    BY <1>10, <1>11, Zenon DEF LsqInv, Linked
  <2>2. ASSUME NEW t \in Live', Mem(rob', t), ~rob'[t].ready
        PROVE  rob'[t].lsq_idx \in LsqLive /\ lsq[rob'[t].lsq_idx].e = t
    BY <1>9, <1>10, <2>2, Zenon DEF LsqInv, Linked
  <2>3. QED
    BY <1>1, <1>8, <2>1, <2>2, Zenon DEF Linked
<1>15. Finished(Live, rob)'
  BY <1>9, <1>10, Zenon DEF LsqInv, Finished
<1>16. Behind(LsqLive, rob, lsq, lsq_cq.front)'
  <2>1. lsq' = lsq /\ lsq_cq' = lsq_cq /\ LsqLive' = LsqLive
    BY <1>1, <1>8, Zenon
  <2>2. QED
    BY <1>11, <2>1, Zenon DEF LsqInv, Behind
<1>17. FrontInv'
  <2>1. ASSUME NEW i \in LsqLive, i = lsq_cq.front
        PROVE  FrontState(lsq[i], rob[lsq[i].e], lsu, phase, rob_cq'.front)
    <3>1. /\ FrontState(lsq[i], rob[lsq[i].e], lsu, phase, F)
          /\ lsq[i].e # F
      BY <1>5, <2>1, Zenon DEF LsqInv, FrontInv
    <3>2. QED
      BY <3>1, Zenon DEF FrontState
  <2>2. /\ lsq' = lsq /\ lsq_cq' = lsq_cq /\ lsu' = lsu /\ phase' = phase
        /\ LsqLive' = LsqLive /\ (LsqLive = {} => ~lsu.has_data)
    BY <1>1, <1>8, Zenon DEF LsqInv, FrontInv
  <2>3. QED
    BY <1>11, <2>1, <2>2, Zenon DEF FrontInv
<1>18. StoresInv'
  BY <1>9, Zenon DEF LsqInv, StoresInv
<1>19. TodoInv'
  <2> SUFFICES ASSUME NEW t \in todo
               PROVE  t \in Live' /\ ~rob'[t].ready /\ (Mem(rob', t) => ~lsq[rob'[t].lsq_idx].ready)
    BY <1>1, Zenon DEF TodoInv
  <2>1. t \in Live /\ ~rob[t].ready /\ (Mem(rob, t) => ~lsq[rob[t].lsq_idx].ready)
    BY Zenon DEF LsqInv, TodoInv
  <2>2. QED
    BY <1>1, <1>7, <1>9, <1>10, <2>1, Zenon
<1>20. QED
  BY <1>12, <1>13, <1>14, <1>15, <1>16, <1>17, <1>18, <1>19, Zenon DEF LsqInv

(***************************************************************************)
(* cq_enqueue moves the front only if the queue was empty.                 *)
(***************************************************************************)
LEMMA EnqueueFront ==
  ASSUME NEW max \in Nat \ {0}, NEW q, QueueOK(q, max), NEW n, n = cq_enqueue(q, max)
  PROVE  n.front = IF cq_empty(q) THEN n.rear ELSE q.front
<1>1. CASE cq_empty(q)
  BY <1>1 DEF cq_enqueue
<1>2. CASE ~cq_empty(q)
  <2>1. q = [front |-> q.front, rear |-> q.rear]
    BY <1>2, SlotsInUse, Zenon
  <2>2. QED
    BY <1>2, <2>1 DEF cq_enqueue
<1>3. QED
  BY <1>1, <1>2, Zenon

(***************************************************************************)
(* oo_core_dispatch adds the youngest instruction to the ROB and, if it    *)
(* uses memory, to the load/store queue.                                   *)
(***************************************************************************)
LEMMA DispatchKeeps ==
  ASSUME LsqAssumption, LsqInv, NEW ins \in Insns, Dispatch(ins)
  PROVE  LsqInv'
<1> DEFINE x == cq_enqueue(rob_cq, RobSize).rear
           mem == ins.kind \in {"load", "store", "atomic"}
           lq == IF mem THEN cq_enqueue(lsq_cq, LsqSize) ELSE lsq_cq
           y == lq.rear
           r == [ready |-> FALSE, id |-> ins_dispatch_id, ins |-> ins,
                 exception |-> FALSE, lsq_idx |-> IF mem THEN y ELSE -1,
                 accesses |-> 0]
           v == [ready |-> FALSE, mem_request_sent |-> FALSE,
                 mem_request_complete |-> FALSE, e |-> x]
<1>1. /\ phase = "dispatch" /\ ~cq_full(rob_cq, RobSize)
      /\ ins.kind = "atomic" => cq_empty(rob_cq)
      /\ mem => ~cq_full(lsq_cq, LsqSize)
      /\ rob_cq' = cq_enqueue(rob_cq, RobSize) /\ rob' = [rob EXCEPT ![x] = r]
      /\ lsq_cq' = lq /\ lsq' = IF ~mem THEN lsq ELSE [lsq EXCEPT ![y] = v]
      /\ todo' = todo \cup {x} /\ ins_dispatch_id' = ins_dispatch_id + 1
      /\ phase' = "commit" /\ commits' = commits /\ lsu' = lsu
  BY Zenon DEF Dispatch
<1>2. /\ RobSize \in Nat \ {0} /\ LsqSize \in Nat \ {0}
      /\ QueueOK(rob_cq, RobSize) /\ InOrder(rob_cq, RobSize, Ids(rob))
      /\ QueueOK(lsq_cq, LsqSize) /\ InOrder(lsq_cq, LsqSize, LsqIds(rob, lsq))
      /\ \A s \in Live : rob[s] \in RobEntry /\ rob[s].id < ins_dispatch_id
      /\ rob \in [Slots -> RobEntry \cup {NoEntry}]
      /\ lsq \in [LsqSlots -> LsqEntry \cup {NoEntry}]
      /\ ins_dispatch_id \in Nat
  BY Zenon DEF LsqAssumption, LsqInv, Orders, Types
<1>3. /\ Live \subseteq Slots /\ LsqLive \subseteq LsqSlots
      /\ \A s \in Live : rob[s].id \in Nat
      /\ \A i \in LsqLive : lsq[i] \in LsqEntry /\ lsq[i].e \in Live
      /\ Live = {} <=> cq_empty(rob_cq)
      /\ LsqLive = {} <=> cq_empty(lsq_cq)
  BY Facts, Zenon
<1>4. x \in Slots /\ x \notin Live /\ Live' = Live \cup {x}
  BY <1>1, <1>2, EnqueueSlots, Zenon DEF Live, Slots
<1>5. rob_cq'.front = IF Live = {} THEN x ELSE rob_cq.front
  BY <1>1, <1>2, <1>3, EnqueueFront, Zenon
<1>6. mem => /\ y \in LsqSlots /\ y \notin LsqLive /\ LsqLive' = LsqLive \cup {y}
             /\ lsq_cq'.front = IF LsqLive = {} THEN y ELSE lsq_cq.front
  <2> SUFFICES ASSUME mem
               PROVE  /\ y \in LsqSlots /\ y \notin LsqLive /\ LsqLive' = LsqLive \cup {y}
                      /\ lsq_cq'.front = IF LsqLive = {} THEN y ELSE lsq_cq.front
    BY Zenon
  <2>1. lq = cq_enqueue(lsq_cq, LsqSize) /\ ~cq_full(lsq_cq, LsqSize)
    BY <1>1, Zenon
  <2>2. y \in LsqSlots /\ y \notin LsqLive /\ LsqLive' = LsqLive \cup {y}
    BY <1>1, <1>2, <2>1, EnqueueSlots, Zenon DEF LsqLive, LsqSlots
  <2>3. lsq_cq'.front = IF LsqLive = {} THEN y ELSE lsq_cq.front
    BY <1>1, <1>2, <1>3, <2>1, EnqueueFront, Zenon
  <2>4. QED
    BY <2>2, <2>3, Zenon
<1>7. ~mem => lsq' = lsq /\ lsq_cq' = lsq_cq /\ LsqLive' = LsqLive
  BY <1>1, Zenon DEF LsqLive
<1>8. /\ r \in RobEntry /\ ~r.ready /\ r.id = ins_dispatch_id /\ r.ins = ins
      /\ r.accesses = 0 /\ (mem => r.lsq_idx = y)
  <2>1. (IF mem THEN y ELSE -1) \in LsqSlots \cup {-1}
    BY <1>6, Zenon
  <2> HIDE DEF y, mem
  <2>2. QED
    BY <1>2, <2>1 DEF RobEntry
<1>9. /\ v \in LsqEntry /\ ~v.ready /\ ~v.mem_request_sent
      /\ ~v.mem_request_complete /\ v.e = x
  BY <1>4 DEF LsqEntry
<1> HIDE DEF x, lq, y, r, v
<1>10. /\ rob' \in [Slots -> RobEntry \cup {NoEntry}]
       /\ rob'[x] = r /\ \A s \in Live : s # x /\ rob'[s] = rob[s]
  BY <1>1, <1>2, <1>3, <1>4, <1>8
<1>11. /\ lsq' \in [LsqSlots -> LsqEntry \cup {NoEntry}]
       /\ \A i \in LsqLive : lsq'[i] = lsq[i]
       /\ mem => lsq'[y] = v
  <2>1. CASE mem
    <3>1. lsq' = [lsq EXCEPT ![y] = v] /\ y \in LsqSlots /\ y \notin LsqLive
      BY <1>1, <1>6, <2>1, Zenon
    <3>2. QED
      BY <1>2, <1>3, <1>9, <3>1
  <2>2. CASE ~mem
    BY <1>2, <1>7, <2>2, Zenon
  <2>3. QED
    BY <2>1, <2>2, Zenon
<1>12. \A i \in LsqLive' : \/ i \in LsqLive
                           \/ mem /\ i = y /\ i \notin LsqLive
  BY <1>6, <1>7, Zenon
<1>13. /\ Mem(rob', x) <=> mem
       /\ \A s \in Live : Mem(rob', s) <=> Mem(rob, s)
  BY <1>8, <1>10, Zenon DEF Mem
<1> HIDE DEF mem
<1>14. Orders'
  <2>1. /\ \A s \in Slots : Ids(rob)[s] = rob[s].id /\ Ids(rob')[s] = rob'[s].id
        /\ \A i \in LsqSlots : /\ LsqIds(rob, lsq)[i] = rob[lsq[i].e].id
                               /\ LsqIds(rob', lsq')[i] = rob'[lsq'[i].e].id
    BY Zenon DEF Ids, LsqIds
  <2>2. Numbers(Live, Ids(rob), Ids(rob'), x)
    <3>1. Ids(rob')[x] = ins_dispatch_id
      BY <1>4, <1>8, <1>10, <2>1, Zenon
    <3>2. ASSUME NEW s \in Live
          PROVE  Ids(rob')[s] = Ids(rob)[s] /\ Ids(rob)[s] < ins_dispatch_id
      <4>1. s \in Slots /\ rob'[s] = rob[s] /\ rob[s].id < ins_dispatch_id
        BY <1>2, <1>3, <1>10, Zenon
      <4>2. QED
        BY <2>1, <4>1, Zenon
    <3>3. QED
      BY <1>2, <3>1, <3>2, Zenon DEF Numbers
  <2>3. QueueOK(rob_cq', RobSize) /\ InOrder(rob_cq', RobSize, Ids(rob'))
    <3>1. Numbers(CqSlots(rob_cq, RobSize), Ids(rob), Ids(rob'), rob_cq'.rear)
      BY <1>1, <2>2, Zenon DEF Live, x
    <3>2. QED
      BY <1>1, <1>2, <3>1, EnqueueKeepsOrder, Zenon
  <2>4. \A i \in LsqLive : LsqIds(rob', lsq')[i] = LsqIds(rob, lsq)[i]
    <3> SUFFICES ASSUME NEW i \in LsqLive
                 PROVE  LsqIds(rob', lsq')[i] = LsqIds(rob, lsq)[i]
      BY Zenon
    <3>1. i \in LsqSlots /\ lsq'[i] = lsq[i] /\ rob'[lsq[i].e] = rob[lsq[i].e]
      BY <1>3, <1>10, <1>11, Zenon
    <3>2. /\ LsqIds(rob, lsq)[i] = rob[lsq[i].e].id
          /\ LsqIds(rob', lsq')[i] = rob'[lsq'[i].e].id
      BY <2>1, <3>1, Zenon
    <3>3. QED
      BY <3>1, <3>2, Zenon
  <2>5. QueueOK(lsq_cq', LsqSize) /\ InOrder(lsq_cq', LsqSize, LsqIds(rob', lsq'))
    <3>1. CASE mem
      <4>1. LsqIds(rob', lsq')[y] = ins_dispatch_id
        BY <1>6, <1>8, <1>9, <1>10, <1>11, <2>1, <3>1, Zenon
      <4>2. \A i \in LsqLive : LsqIds(rob, lsq)[i] < ins_dispatch_id
        BY <1>2, <1>3, <2>1, Zenon
      <4>3. Numbers(LsqLive, LsqIds(rob, lsq), LsqIds(rob', lsq'), y)
        BY <1>2, <2>4, <4>1, <4>2, Zenon DEF Numbers
      <4>4. lsq_cq' = cq_enqueue(lsq_cq, LsqSize) /\ y = lsq_cq'.rear
        BY <1>1, <3>1, Zenon DEF lq, y
      <4>5. Numbers(CqSlots(lsq_cq, LsqSize), LsqIds(rob, lsq), LsqIds(rob', lsq'), lsq_cq'.rear)
        BY <4>3, <4>4, Zenon DEF LsqLive
      <4>6. ~cq_full(lsq_cq, LsqSize)
        BY <1>1, <3>1, Zenon
      <4>7. QED
        BY <1>2, <4>4, <4>5, <4>6, EnqueueKeepsOrder, Zenon
    <3>2. CASE ~mem
      <4>1. \A i \in CqSlots(lsq_cq, LsqSize) : LsqIds(rob', lsq')[i] = LsqIds(rob, lsq)[i]
        BY <2>4, Zenon DEF LsqLive
      <4>2. InOrder(lsq_cq, LsqSize, LsqIds(rob', lsq'))
        BY <1>2, <4>1, SameOrder, Zenon
      <4>3. QED
        BY <1>2, <1>7, <3>2, <4>2, Zenon
    <3>3. QED
      BY <3>1, <3>2, Zenon
  <2>6. \A s \in Live' : rob'[s] \in RobEntry /\ rob'[s].id < ins_dispatch_id'
    <3>1. ASSUME NEW s \in Live
          PROVE  rob'[s] \in RobEntry /\ rob'[s].id < ins_dispatch_id'
      <4>1. rob'[s] = rob[s] /\ rob[s] \in RobEntry /\ rob[s].id \in Nat
            /\ rob[s].id < ins_dispatch_id /\ ins_dispatch_id' = ins_dispatch_id + 1
        BY <1>1, <1>2, <1>3, <1>10, Zenon
      <4>2. rob[s].id < ins_dispatch_id + 1
        BY <1>2, <4>1
      <4>3. QED
        BY <4>1, <4>2, Zenon
    <3>2. rob'[x] \in RobEntry /\ rob'[x].id < ins_dispatch_id'
      <4>1. rob'[x] \in RobEntry /\ rob'[x].id = ins_dispatch_id
            /\ ins_dispatch_id' = ins_dispatch_id + 1
        BY <1>1, <1>8, <1>10, Zenon
      <4>2. ins_dispatch_id < ins_dispatch_id + 1
        BY <1>2
      <4>3. QED
        BY <4>1, <4>2, Zenon
    <3>3. QED
      BY <1>4, <3>1, <3>2, Zenon
  <2>7. QED
    BY <2>3, <2>5, <2>6, Zenon DEF Orders
<1>15. phase # "commit" /\ phase # "lsq2"
  BY <1>1
<1>16. commits = 0
  BY <1>15, Zenon DEF LsqInv, Types
<1>17. Types'
  <2>1. ins_dispatch_id' \in Nat
    BY <1>1, <1>2
  <2>2. QED
    BY <1>1, <1>10, <1>11, <1>15, <2>1, Zenon DEF LsqInv, Types
<1>18. Linked(Live, LsqLive, rob, lsq)'
  <2>1. ASSUME NEW i \in LsqLive'
        PROVE  /\ lsq'[i] \in LsqEntry /\ lsq'[i].e \in Live'
               /\ Mem(rob', lsq'[i].e) /\ ~rob'[lsq'[i].e].ready
               /\ rob'[lsq'[i].e].lsq_idx = i
    <3>1. CASE i \in LsqLive
      <4>1. /\ lsq[i] \in LsqEntry /\ lsq[i].e \in Live /\ Mem(rob, lsq[i].e)
            /\ ~rob[lsq[i].e].ready /\ rob[lsq[i].e].lsq_idx = i
        BY <3>1, Zenon DEF LsqInv, Linked
      <4>2. QED
        BY <1>4, <1>10, <1>11, <1>13, <3>1, <4>1, Zenon
    <3>2. CASE mem /\ i = y
      BY <1>4, <1>8, <1>9, <1>10, <1>11, <1>13, <3>2, Zenon
    <3>3. QED
      BY <1>12, <3>1, <3>2, Zenon
  <2>2. ASSUME NEW s \in Live', Mem(rob', s), ~rob'[s].ready
        PROVE  rob'[s].lsq_idx \in LsqLive' /\ lsq'[rob'[s].lsq_idx].e = s
    <3>1. CASE s \in Live
      <4>1. rob[s].lsq_idx \in LsqLive /\ lsq[rob[s].lsq_idx].e = s
        BY <1>10, <1>13, <2>2, <3>1, Zenon DEF LsqInv, Linked
      <4>2. QED
        BY <1>6, <1>7, <1>10, <1>11, <3>1, <4>1, Zenon
    <3>2. CASE s = x
      BY <1>6, <1>8, <1>9, <1>10, <1>11, <1>13, <2>2, <3>2, Zenon
    <3>3. QED
      BY <1>4, <3>1, <3>2, Zenon
  <2>3. QED
    BY <2>1, <2>2, Zenon DEF Linked
<1>19. Finished(Live, rob)'
  <2> SUFFICES ASSUME NEW t \in Live', Mem(rob', t), rob'[t].ready
               PROVE  /\ rob'[t].accesses = 1
                      /\ \A s \in Live' : Mem(rob', s) /\ rob'[s].id < rob'[t].id => rob'[s].ready
    BY Zenon DEF Finished
  <2>1. t \in Live /\ rob'[t] = rob[t] /\ Mem(rob, t)
    BY <1>4, <1>8, <1>10, <1>13, Zenon
  <2>2. /\ rob[t].accesses = 1
        /\ \A s \in Live : Mem(rob, s) /\ rob[s].id < rob[t].id => rob[s].ready
    BY <2>1, Zenon DEF LsqInv, Finished
  <2>3. rob[t].id \in Nat /\ rob[t].id < ins_dispatch_id
    BY <1>2, <1>3, <2>1, Zenon
  <2>4. ~(ins_dispatch_id < rob[t].id)
    BY <1>2, <2>3
  <2>5. ASSUME NEW s \in Live', Mem(rob', s), rob'[s].id < rob'[t].id
        PROVE  rob'[s].ready
    <3>1. s \in Live
      BY <1>4, <1>8, <1>10, <2>1, <2>4, <2>5, Zenon
    <3>2. QED
      BY <1>10, <1>13, <2>1, <2>2, <2>5, <3>1, Zenon
  <2>6. QED
    BY <2>1, <2>2, <2>5, Zenon
<1>20. Behind(LsqLive, rob, lsq, lsq_cq.front)'
  <2> SUFFICES ASSUME NEW i \in LsqLive', i # lsq_cq'.front
               PROVE  /\ ~lsq'[i].mem_request_sent /\ ~lsq'[i].mem_request_complete
                      /\ rob'[lsq'[i].e].accesses = 0
    BY Zenon DEF Behind
  <2>1. CASE i \in LsqLive
    <3>1. i # lsq_cq.front
      BY <1>6, <1>7, <2>1, Zenon
    <3>2. /\ ~lsq[i].mem_request_sent /\ ~lsq[i].mem_request_complete
          /\ rob[lsq[i].e].accesses = 0
      BY <2>1, <3>1, Zenon DEF LsqInv, Behind
    <3>3. QED
      BY <1>3, <1>10, <1>11, <2>1, <3>2, Zenon
  <2>2. CASE mem /\ i = y
    BY <1>8, <1>9, <1>10, <1>11, <2>2, Zenon
  <2>3. QED
    BY <1>12, <2>1, <2>2, Zenon
<1>21. FrontInv'
  <2>1. ASSUME NEW i \in LsqLive', i = lsq_cq'.front
        PROVE  FrontState(lsq'[i], rob'[lsq'[i].e], lsu, phase', rob_cq'.front)
    <3>1. CASE i \in LsqLive
      <4>1. i = lsq_cq.front /\ Live # {}
        BY <1>3, <1>6, <1>7, <2>1, <3>1, Zenon
      <4>2. FrontState(lsq[i], rob[lsq[i].e], lsu, phase, rob_cq.front)
        BY <3>1, <4>1, Zenon DEF LsqInv, FrontInv
      <4>3. FrontState(lsq[i], rob[lsq[i].e], lsu, phase', rob_cq.front)
        BY <1>15, <4>2, Zenon DEF FrontState
      <4>4. QED
        BY <1>3, <1>5, <1>10, <1>11, <3>1, <4>1, <4>3, Zenon
    <3>2. CASE mem /\ i = y /\ i \notin LsqLive
      <4>1. LsqLive = {}
        <5>1. LsqLive # {} => lsq_cq.front \in LsqLive
          BY Facts, Zenon
        <5>2. QED
          BY <1>6, <2>1, <3>2, <5>1, Zenon
      <4>2. ~lsu.has_data
        BY <4>1, Zenon DEF LsqInv, FrontInv
      <4>3. QED
        BY <1>8, <1>9, <1>10, <1>11, <3>2, <4>2, Zenon DEF FrontState, Waits
    <3>3. QED
      BY <1>12, <3>1, <3>2, Zenon
  <2>2. LsqLive' = {} => ~lsu.has_data
    <3>1. LsqLive' = {} => LsqLive = {}
      BY <1>6, <1>7, Zenon
    <3>2. QED
      BY <3>1, Zenon DEF LsqInv, FrontInv
  <2>3. QED
    BY <1>1, <2>1, <2>2, Zenon DEF FrontInv
<1>22. StoresInv'
  <2> SUFFICES ASSUME NEW s \in Live'
               PROVE  /\ rob'[s].ins.kind = "atomic" => s = rob_cq'.front
                      /\ rob'[s].ins.kind = "store" /\ rob'[s].ready => s = rob_cq'.front
    BY <1>1, <1>16, Zenon DEF StoresInv
  <2>1. CASE s \in Live
    <3>1. rob'[s] = rob[s] /\ rob_cq'.front = rob_cq.front
      BY <1>5, <1>10, <2>1, Zenon
    <3>2. QED
      BY <2>1, <3>1, Zenon DEF LsqInv, StoresInv
  <2>2. CASE s = x
    BY <1>1, <1>3, <1>5, <1>8, <1>10, <2>2, Zenon
  <2>3. QED
    BY <1>4, <2>1, <2>2, Zenon
<1>23. TodoInv'
  <2> SUFFICES ASSUME NEW s \in todo \cup {x}
               PROVE  /\ s \in Live' /\ ~rob'[s].ready
                      /\ Mem(rob', s) => ~lsq'[rob'[s].lsq_idx].ready
    BY <1>1, Zenon DEF TodoInv
  <2>1. CASE s \in todo
    <3>1. s \in Live /\ ~rob[s].ready /\ (Mem(rob, s) => ~lsq[rob[s].lsq_idx].ready)
      BY <2>1, Zenon DEF LsqInv, TodoInv
    <3>2. Mem(rob, s) => rob[s].lsq_idx \in LsqLive
      BY <3>1, Zenon DEF LsqInv, Linked
    <3>3. QED
      BY <1>4, <1>10, <1>11, <1>13, <3>1, <3>2, Zenon
  <2>2. CASE s = x
    <3>1. s \in Live' /\ rob'[s] = r
      BY <1>4, <1>10, <2>2, Zenon
    <3>2. Mem(rob', s) => ~lsq'[rob'[s].lsq_idx].ready
      BY <1>8, <1>9, <1>11, <1>13, <2>2, <3>1, Zenon
    <3>3. QED
      BY <1>8, <3>1, <3>2, Zenon
  <2>3. QED
    BY <2>1, <2>2, Zenon
<1>24. QED
  BY <1>14, <1>17, <1>18, <1>19, <1>20, <1>21, <1>22, <1>23, Zenon DEF LsqInv

-----------------------------------------------------------------------------
(***************************************************************************)
(* The invariant holds after oo_core_reset.                                *)
(***************************************************************************)
LEMMA InitHolds == LsqAssumption /\ Init => LsqInv
<1> SUFFICES ASSUME LsqAssumption, Init PROVE LsqInv
  BY Zenon
<1>1. /\ phase = "commit" /\ commits = 0 /\ rob_cq = cq_reset /\ lsq_cq = cq_reset
      /\ rob = [s \in Slots |-> NoEntry] /\ lsq = [i \in LsqSlots |-> NoEntry]
      /\ lsu = LsuFree /\ todo = {} /\ ins_dispatch_id = 0
  BY Zenon DEF Init
<1>2. /\ RobSize \in Nat \ {0} /\ LsqSize \in Nat \ {0}
  BY Zenon DEF LsqAssumption
<1>3. cq_empty(cq_reset)
  BY DEF cq_empty, cq_reset
<1>4. \A max : QueueOK(cq_reset, max)
  BY Zenon DEF QueueOK
<1>5. Live = {} /\ LsqLive = {}
  BY <1>1, <1>2, <1>3, <1>4, SlotsInUse, Zenon DEF Live, LsqLive
<1>6. Types
  <2>1. /\ LsuFree \in [has_data : BOOLEAN, stage_exec_done : BOOLEAN, e : Slots \cup {-1}]
    BY DEF LsuFree
  <2>2. QED
    BY <1>1, <2>1 DEF Types
<1>7. Orders
  BY <1>1, <1>4, <1>5, Zenon DEF Orders, InOrder, Live, LsqLive
<1>8. ~LsuFree.has_data
  BY DEF LsuFree
<1>9. FrontInv
  BY <1>1, <1>5, <1>8, Zenon DEF FrontInv
<1>10. QED
  BY <1>1, <1>5, <1>6, <1>7, <1>9, Zenon
     DEF LsqInv, Linked, Finished, Behind, StoresInv, TodoInv

(***************************************************************************)
(* The loop is entered again through oo_core_reset.                        *)
(***************************************************************************)
LEMMA SimExitKeeps == LsqAssumption /\ SimExit => LsqInv'
<1>1. SimExit => Init'
  BY Zenon DEF SimExit, Init
<1>2. LsqAssumption /\ Init' => LsqInv'
  <2>1. LsqAssumption => LsqAssumption'
    BY DEF LsqAssumption
  <2>2. QED
    BY <2>1, InitHolds, PTL
<1>3. QED
  BY <1>1, <1>2, Zenon

(***************************************************************************)
(* Every step of a cycle keeps the invariant.                              *)
(***************************************************************************)
LEMMA StepKeeps ==
  LsqAssumption /\ OneInsnPerPc /\ LsqInv /\ [Next]_vars => LsqInv'
<1> SUFFICES ASSUME LsqAssumption, OneInsnPerPc, LsqInv, [Next]_vars
             PROVE  LsqInv'
  BY Zenon
<1>1. CASE Commit
  BY <1>1, CommitKeeps, Zenon
<1>2. CASE CommitEnd \/ LsqNothing \/ LsuNothing \/ ExecEnd \/ DispatchNothing
  BY <1>2, IdleKeeps, Zenon
<1>3. CASE SimExit
  BY <1>3, SimExitKeeps, Zenon
<1>4. CASE LsqSend
  BY <1>4, LsqSendKeeps, Zenon
<1>5. CASE LsqFinish
  BY <1>5, LsqFinishKeeps, Zenon
<1>6. CASE LsuDone
  BY <1>6, LsuStepKeeps, Zenon DEF LsuDone
<1>7. CASE LsuBusy
  BY <1>7, LsuStepKeeps, Zenon DEF LsuBusy
<1>8. CASE Exec
  BY <1>8, FinishMemKeeps, FinishOtherKeeps, MispredictKeeps, Zenon DEF Exec
<1>9. CASE \E ins \in Insns : Dispatch(ins)
  BY <1>9, DispatchKeeps, Zenon
<1>10. CASE UNCHANGED vars
  <2>1. /\ phase' = phase /\ commits' = commits /\ rob_cq' = rob_cq /\ rob' = rob
        /\ lsq_cq' = lsq_cq /\ lsq' = lsq /\ lsu' = lsu /\ todo' = todo
        /\ ins_dispatch_id' = ins_dispatch_id
    BY <1>10, Zenon DEF vars
  <2>2. Live' = Live /\ LsqLive' = LsqLive
    BY <2>1, Zenon DEF Live, LsqLive
  <2>3. Types' /\ Orders'
    BY <2>1, <2>2, Zenon DEF LsqInv, Types, Orders
  <2>4. FrontInv' /\ StoresInv' /\ TodoInv'
    BY <2>1, <2>2, Zenon DEF LsqInv, FrontInv, StoresInv, TodoInv
  <2>5. QED
    BY <2>1, <2>2, <2>3, <2>4, Zenon DEF LsqInv
<1>11. QED
  BY <1>1, <1>2, <1>3, <1>4, <1>5, <1>6, <1>7, <1>8, <1>9, <1>10, Zenon DEF Next, Lsq

(***************************************************************************)
(* The invariant holds in every state of the queue.                        *)
(***************************************************************************)
THEOREM Invariance == LsqAssumption /\ OneInsnPerPc => (Spec => []LsqInv)
<1> SUFFICES ASSUME LsqAssumption, OneInsnPerPc PROVE Spec => []LsqInv
  OBVIOUS
<1>1. Init => LsqInv
  BY InitHolds, Zenon
<1>2. LsqInv /\ [Next]_vars => LsqInv'
  BY StepKeeps, Zenon
<1>3. QED
  BY <1>1, <1>2, PTL DEF Spec

(***************************************************************************)
(* A store or an atomic accesses memory only as the oldest instruction of  *)
(* the ROB, although process_lsq_entry_store compares only PCs.            *)
(***************************************************************************)
THEOREM StoresNotSpeculativeAlways ==
  LsqAssumption /\ OneInsnPerPc => (Spec => []StoresNotSpeculative)
<1> SUFFICES ASSUME LsqAssumption, OneInsnPerPc PROVE Spec => []StoresNotSpeculative
  OBVIOUS
<1>1. LsqInv => StoresNotSpeculative
  <2> SUFFICES ASSUME LsqInv, NEW s \in Live, rob[s].ins.kind \in {"store", "atomic"},
                      rob[s].accesses > 0
               PROVE  s = rob_cq.front
    BY Zenon DEF StoresNotSpeculative
  <2>1. CASE rob[s].ins.kind = "atomic" \/ rob[s].ready
    BY <2>1, Zenon DEF LsqInv, StoresInv
  <2>2. CASE rob[s].ins.kind = "store" /\ ~rob[s].ready
    <3>1. rob[s].lsq_idx \in LsqLive /\ lsq[rob[s].lsq_idx].e = s
      BY <2>2, Zenon DEF LsqInv, Linked, Mem
    <3>2. rob[s].accesses # 0
      OBVIOUS
    <3>3. rob[s].lsq_idx = lsq_cq.front
      BY <3>1, <3>2, Zenon DEF LsqInv, Behind
    <3>4. lsq[lsq_cq.front].mem_request_sent
      BY <3>1, <3>2, <3>3, Zenon DEF LsqInv, FrontInv, FrontState, Waits, InUnit, Served
    <3>5. QED
      BY <2>2, <3>1, <3>3, <3>4, Zenon DEF LsqInv, FrontInv, FrontState
  <2>3. QED
    BY <2>1, <2>2, Zenon
<1>2. QED
  BY <1>1, Invariance, PTL

(***************************************************************************)
(* Memory is accessed in program order, and an instruction is marked ready *)
(* after exactly one access.                                               *)
(***************************************************************************)
THEOREM AccessesInOrderAlways ==
  LsqAssumption /\ OneInsnPerPc => (Spec => []AccessesInOrder)
<1> SUFFICES ASSUME LsqAssumption, OneInsnPerPc PROVE Spec => []AccessesInOrder
  OBVIOUS
<1>1. LsqInv => AccessesInOrder
  <2> SUFFICES ASSUME LsqInv, NEW t \in Live, Mem(rob, t)
               PROVE  /\ rob[t].accesses <= 1
                      /\ rob[t].ready => rob[t].accesses = 1
                      /\ rob[t].accesses = 1 =>
                           \A s \in Live : Mem(rob, s) /\ rob[s].id < rob[t].id => rob[s].ready
    BY Zenon DEF AccessesInOrder, IsMem, Mem, Older
  <2>1. CASE rob[t].ready
    <3>1. /\ rob[t].accesses = 1
          /\ \A s \in Live : Mem(rob, s) /\ rob[s].id < rob[t].id => rob[s].ready
      BY <2>1, Zenon DEF LsqInv, Finished
    <3>2. rob[t].accesses <= 1
      BY <3>1
    <3>3. QED
      BY <3>1, <3>2, Zenon
  <2>2. CASE ~rob[t].ready
    <3>1. rob[t].lsq_idx \in LsqLive /\ lsq[rob[t].lsq_idx].e = t
      BY <2>2, Zenon DEF LsqInv, Linked
    <3>2. rob[t].accesses = 0 \/ (rob[t].accesses = 1 /\ rob[t].lsq_idx = lsq_cq.front)
      <4>1. CASE rob[t].lsq_idx = lsq_cq.front
        BY <3>1, <4>1, Zenon DEF LsqInv, FrontInv, FrontState, Waits, InUnit, Served
      <4>2. CASE rob[t].lsq_idx # lsq_cq.front
        BY <3>1, <4>2, Zenon DEF LsqInv, Behind
      <4>3. QED
        BY <4>1, <4>2, Zenon
    <3>3. rob[t].accesses <= 1 /\ (rob[t].accesses = 1 => rob[t].lsq_idx = lsq_cq.front)
      BY <3>2
    <3>4. ASSUME rob[t].accesses = 1, NEW s \in Live, Mem(rob, s), rob[s].id < rob[t].id
          PROVE  rob[s].ready
      <4>1. lsq[lsq_cq.front].e = t
        BY <3>1, <3>3, <3>4, Zenon
      <4>2. rob[s].id \in Nat /\ rob[t].id \in Nat
        BY Facts, Zenon
      <4>3. s # t /\ ~(rob[t].id < rob[s].id)
        BY <3>4, <4>2
      <4>4. QED
        BY <3>4, <4>1, <4>3, FrontIsOldest, Zenon
    <3>5. QED
      BY <2>2, <3>3, <3>4, Zenon
  <2>3. QED
    BY <2>1, <2>2, Zenon
<1>2. QED
  BY <1>1, Invariance, PTL
=============================================================================
