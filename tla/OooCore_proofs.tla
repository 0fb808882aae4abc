--------------------------- MODULE OooCore_proofs ---------------------------
(***************************************************************************)
(* Renaming is right for every size of the reorder buffer and of the issue *)
(* queue, every number of registers and every program.                     *)
(*                                                                         *)
(* The inductive invariant speaks of dispatch numbers and not of slots:    *)
(* the slots in use are in dispatch order (QueueInv), and each slot number *)
(* that the core has kept (in the rename table, in prs1 and in old_pdest)  *)
(* is that of the last writer before its holder, or else that writer is    *)
(* gone and the slot is free or was reused by a younger instruction.       *)
(***************************************************************************)
EXTENDS OooCore, CircularQueue_proofs

(***************************************************************************)
(* The decoder sets no destination for an instruction it marks as an       *)
(* exception.  The one exception in the code is the illegal atomic         *)
(* instruction, for which RatCorrect fails (README, section 5).            *)
(***************************************************************************)
ExceptionsHaveNoDest ==
  \A ins \in Insns : ins.kind \in {"complex", "illegal"} => ins.rd = 0

Renamed(p) == [rob_idx |-> p, read_from_rob |-> TRUE]

(***************************************************************************)
(* For a set L of slots in use and the entries R: the entry in slot t      *)
(* writes register r; p holds the last writer of r before the instruction  *)
(* numbered n; there is no such writer.                                    *)
(***************************************************************************)
Writes(R, t, r) == r # 0 /\ R[t].ins.rd = r /\ R[t].ins.kind # "illegal"

IsLast(L, R, p, r, n) ==
  /\ p \in L /\ Writes(R, p, r) /\ R[p].id < n
  /\ \A u \in L : Writes(R, u, r) /\ R[u].id < n => R[u].id <= R[p].id

NoneBefore(L, R, r, n) == \A u \in L : Writes(R, u, r) => ~(R[u].id < n)

\* A slot number that instruction n has kept for its predecessor.
Refers(L, R, p, r, n) ==
  \/ IsLast(L, R, p, r, n)
  \/ NoneBefore(L, R, r, n) /\ (p \in L => R[p].id > n)

\* The operand v of instruction n is the last write before it.
ReadsLast(L, R, g, v, r, n) ==
  \/ NoneBefore(L, R, r, n) /\ v = g[r]
  \/ \E p \in L : IsLast(L, R, p, r, n) /\ v = R[p].id + 1

MapsLast(L, R, m, r, n) ==
  \/ NoneBefore(L, R, r, n) /\ m = NotRenamed
  \/ \E p \in L : IsLast(L, R, p, r, n) /\ m = Renamed(p)

Numbered(L, R, n) ==
  /\ \A t \in L : R[t] \in RobEntry /\ R[t].id < n
  /\ \A t, u \in L : R[t].id = R[u].id => t = u

Renaming(L, R, m, g, n) ==
  /\ Numbered(L, R, n)
  /\ \A r \in Regs : MapsLast(L, R, m[r], r, n)
  /\ \A t \in L : R[t].ins.rd # 0 =>
       Refers(L, R, R[t].old_pdest, R[t].ins.rd, R[t].id)
  /\ \A t \in L : ~R[t].ready /\ ~R[t].read_rs1 =>
       R[t].prs1 \in Slots /\ Refers(L, R, R[t].prs1, R[t].ins.rs, R[t].id)
  /\ \A t \in L : R[t].read_rs1 =>
       ReadsLast(L, R, g, R[t].rs1_val, R[t].ins.rs, R[t].id)

Ids(R) == [s \in Slots |-> R[s].id]

\* The slots in use are in dispatch order.
QueueInv == QueueOK(cq, RobSize) /\ InOrder(cq, RobSize, Ids(rob))

Types ==
  /\ rob \in [Slots -> RobEntry \cup {NoEntry}]
  /\ int_rat \in [Regs -> [rob_idx : Slots \cup {-1}, read_from_rob : BOOLEAN]]
  /\ reg \in [Regs -> Nat]
  /\ iq \in [0 .. IqSize - 1 ->
               [valid : BOOLEAN, ready : BOOLEAN, e : Slots \cup {-1}]]
  /\ fu \subseteq Slots
  /\ ins_dispatch_id \in Nat

IssueInv ==
  /\ NothingLeftBehind
  /\ \A i \in DOMAIN iq : iq[i].valid /\ iq[i].ready => rob[iq[i].e].read_rs1

OooInv ==
  /\ Types
  /\ QueueInv
  /\ Renaming(Live, rob, int_rat, reg, ins_dispatch_id)
  /\ IssueInv
  /\ asserts

-----------------------------------------------------------------------------
(* The rename state, apart from the queue *)

(***************************************************************************)
(* A change of ready, read_rs1 or rs1_val (an operand is read, an          *)
(* instruction is executed) leaves alone who the last writers are.         *)
(***************************************************************************)
SameInsns(L, R, R2) ==
  \A t \in L : R2[t].id = R[t].id /\ R2[t].ins = R[t].ins

LEMMA SameLast ==
  ASSUME NEW L, NEW R, NEW R2, SameInsns(L, R, R2)
  PROVE  /\ \A p, r, n : IsLast(L, R, p, r, n) => IsLast(L, R2, p, r, n)
         /\ \A r, n : NoneBefore(L, R, r, n) => NoneBefore(L, R2, r, n)
         /\ \A p, r, n : Refers(L, R, p, r, n) => Refers(L, R2, p, r, n)
         /\ \A m, r, n : MapsLast(L, R, m, r, n) => MapsLast(L, R2, m, r, n)
         /\ \A g, v, r, n : ReadsLast(L, R, g, v, r, n) => ReadsLast(L, R2, g, v, r, n)
<1>1. \A t \in L : \A r : Writes(R2, t, r) <=> Writes(R, t, r)
  BY Zenon DEF SameInsns, Writes
<1>2. \A p, r, n : IsLast(L, R, p, r, n) => IsLast(L, R2, p, r, n)
  BY <1>1, Zenon DEF SameInsns, IsLast
<1>3. \A r, n : NoneBefore(L, R, r, n) => NoneBefore(L, R2, r, n)
  BY <1>1, Zenon DEF SameInsns, NoneBefore
<1>4. \A p, r, n : Refers(L, R, p, r, n) => Refers(L, R2, p, r, n)
  BY <1>2, <1>3, Zenon DEF SameInsns, Refers
<1>5. \A m, r, n : MapsLast(L, R, m, r, n) => MapsLast(L, R2, m, r, n)
  BY <1>2, <1>3, Zenon DEF SameInsns, MapsLast
<1>6. \A g, v, r, n : ReadsLast(L, R, g, v, r, n) => ReadsLast(L, R2, g, v, r, n)
  BY <1>2, <1>3, Zenon DEF SameInsns, ReadsLast
<1>7. QED
  BY <1>2, <1>3, <1>4, <1>5, <1>6, Zenon

(***************************************************************************)
(* The slots in use, when one more is taken by an instruction numbered n:  *)
(* the last writers before the earlier ones are as they were.              *)
(***************************************************************************)
LEMMA PushLast ==
  ASSUME NEW L, NEW R, NEW R2, NEW n \in Nat, NEW x, x \notin L,
         Numbered(L, R, n), SameInsns(L, R, R2), R2[x].id = n,
         NEW k \in Nat, k <= n
  PROVE  /\ \A p, r : IsLast(L, R, p, r, k) => IsLast(L \cup {x}, R2, p, r, k)
         /\ \A r : NoneBefore(L, R, r, k) => NoneBefore(L \cup {x}, R2, r, k)
         /\ \A p, r : Refers(L, R, p, r, k) /\ (k < n \/ p # x) =>
                        Refers(L \cup {x}, R2, p, r, k)
         /\ \A g, v, r : ReadsLast(L, R, g, v, r, k) =>
                           ReadsLast(L \cup {x}, R2, g, v, r, k)
<1>1. \A t \in L : \A r : Writes(R2, t, r) <=> Writes(R, t, r)
  BY Zenon DEF SameInsns, Writes
<1>2. ~(R2[x].id < k)
  OBVIOUS
<1>3. ASSUME NEW p, NEW r, IsLast(L, R, p, r, k)
      PROVE  IsLast(L \cup {x}, R2, p, r, k)
  BY <1>1, <1>2, <1>3, Zenon DEF SameInsns, IsLast
<1>4. ASSUME NEW r, NoneBefore(L, R, r, k)
      PROVE  NoneBefore(L \cup {x}, R2, r, k)
  BY <1>1, <1>2, <1>4, Zenon DEF SameInsns, NoneBefore
<1>5. ASSUME NEW p, NEW r, Refers(L, R, p, r, k), k < n \/ p # x
      PROVE  Refers(L \cup {x}, R2, p, r, k)
  BY <1>3, <1>4, <1>5, Zenon DEF SameInsns, Refers
<1>6. ASSUME NEW g, NEW v, NEW r, ReadsLast(L, R, g, v, r, k)
      PROVE  ReadsLast(L \cup {x}, R2, g, v, r, k)
  <2>1. CASE NoneBefore(L, R, r, k) /\ v = g[r]
    BY <1>4, <2>1, Zenon DEF ReadsLast
  <2>2. ASSUME NEW p \in L, IsLast(L, R, p, r, k), v = R[p].id + 1
        PROVE  ReadsLast(L \cup {x}, R2, g, v, r, k)
    <3>1. IsLast(L \cup {x}, R2, p, r, k) /\ p \in L \cup {x} /\ v = R2[p].id + 1
      BY <1>3, <2>2, Zenon DEF SameInsns
    <3>2. QED
      BY <3>1, Zenon DEF ReadsLast
  <2>3. QED
    BY <1>6, <2>1, <2>2, Zenon DEF ReadsLast
<1>7. QED
  BY <1>3, <1>4, <1>5, <1>6, Zenon

(***************************************************************************)
(* When the oldest instruction leaves, the last writer before a later one  *)
(* is as it was, or it was the one that left and there is none now.        *)
(***************************************************************************)
LEMMA PopLast ==
  ASSUME NEW L, NEW R, NEW R2, NEW n \in Nat, NEW x \in L,
         Numbered(L, R, n), SameInsns(L \ {x}, R, R2),
         \A t \in L : t # x => R[x].id < R[t].id,
         NEW k \in Nat
  PROVE  /\ \A p, r : IsLast(L, R, p, r, k) /\ p # x => IsLast(L \ {x}, R2, p, r, k)
         /\ \A r : NoneBefore(L, R, r, k) => NoneBefore(L \ {x}, R2, r, k)
         /\ \A r : IsLast(L, R, x, r, k) => NoneBefore(L \ {x}, R2, r, k)
         /\ \A p, r : Refers(L, R, p, r, k) => Refers(L \ {x}, R2, p, r, k)
<1>1. \A t \in L \ {x} : \A r : Writes(R2, t, r) <=> Writes(R, t, r)
  BY Zenon DEF SameInsns, Writes
<1>2. ASSUME NEW p, NEW r, IsLast(L, R, p, r, k), p # x
      PROVE  IsLast(L \ {x}, R2, p, r, k)
  BY <1>1, <1>2, Zenon DEF SameInsns, IsLast
<1>3. ASSUME NEW r, NoneBefore(L, R, r, k)
      PROVE  NoneBefore(L \ {x}, R2, r, k)
  BY <1>1, <1>3, Zenon DEF SameInsns, NoneBefore
<1>4. ASSUME NEW r, IsLast(L, R, x, r, k)
      PROVE  NoneBefore(L \ {x}, R2, r, k)
  <2> SUFFICES ASSUME NEW u \in L \ {x}, Writes(R2, u, r), R2[u].id < k
               PROVE  FALSE
    BY Zenon DEF NoneBefore
  <2>1. Writes(R, u, r) /\ R[u].id < k
    BY <1>1, Zenon DEF SameInsns
  <2>2. R[u].id <= R[x].id
    BY <1>4, <2>1, Zenon DEF IsLast
  <2>3. R[x].id < R[u].id /\ R[x].id \in Nat /\ R[u].id \in Nat
    BY Zenon DEF Numbered, RobEntry
  <2>4. QED
    BY <2>2, <2>3
<1>5. ASSUME NEW p, NEW r, Refers(L, R, p, r, k)
      PROVE  Refers(L \ {x}, R2, p, r, k)
  <2>1. CASE IsLast(L, R, p, r, k) /\ p # x
    BY <1>2, <2>1, Zenon DEF Refers
  <2>2. CASE IsLast(L, R, p, r, k) /\ p = x
    BY <1>4, <2>2, Zenon DEF Refers
  <2>3. CASE NoneBefore(L, R, r, k) /\ (p \in L => R[p].id > k)
    BY <1>3, <2>3, Zenon DEF Refers, SameInsns
  <2>4. QED
    BY <1>5, <2>1, <2>2, <2>3, Zenon DEF Refers
<1>6. QED
  BY <1>2, <1>3, <1>4, <1>5, Zenon

(***************************************************************************)
(* When the instructions younger than number b are dropped, the last       *)
(* writers before the others are as they were.                             *)
(***************************************************************************)
LEMMA CutLast ==
  ASSUME NEW L, NEW R, NEW R2, NEW n \in Nat, NEW b \in Nat, NEW L2,
         Numbered(L, R, n), SameInsns(L, R, R2),
         L2 = {t \in L : R[t].id <= b},
         NEW k \in Nat, k <= b
  PROVE  /\ \A p, r : IsLast(L, R, p, r, k) => IsLast(L2, R2, p, r, k)
         /\ \A r : NoneBefore(L, R, r, k) => NoneBefore(L2, R2, r, k)
         /\ \A p, r : Refers(L, R, p, r, k) => Refers(L2, R2, p, r, k)
         /\ \A g, v, r : ReadsLast(L, R, g, v, r, k) => ReadsLast(L2, R2, g, v, r, k)
<1>1. \A t \in L : \A r : Writes(R2, t, r) <=> Writes(R, t, r)
  BY Zenon DEF SameInsns, Writes
<1>2. \A t \in L : R[t].id \in Nat /\ (R[t].id < k => t \in L2)
  BY DEF Numbered, RobEntry
<1>3. ASSUME NEW p, NEW r, IsLast(L, R, p, r, k)
      PROVE  IsLast(L2, R2, p, r, k)
  BY <1>1, <1>2, <1>3, Zenon DEF SameInsns, IsLast
<1>4. ASSUME NEW r, NoneBefore(L, R, r, k)
      PROVE  NoneBefore(L2, R2, r, k)
  BY <1>1, <1>4, Zenon DEF SameInsns, NoneBefore
<1>5. ASSUME NEW p, NEW r, Refers(L, R, p, r, k)
      PROVE  Refers(L2, R2, p, r, k)
  BY <1>3, <1>4, <1>5, Zenon DEF SameInsns, Refers
<1>6. ASSUME NEW g, NEW v, NEW r, ReadsLast(L, R, g, v, r, k)
      PROVE  ReadsLast(L2, R2, g, v, r, k)
  <2>1. CASE NoneBefore(L, R, r, k) /\ v = g[r]
    BY <1>4, <2>1, Zenon DEF ReadsLast
  <2>2. ASSUME NEW p \in L, IsLast(L, R, p, r, k), v = R[p].id + 1
        PROVE  ReadsLast(L2, R2, g, v, r, k)
    <3>1. IsLast(L2, R2, p, r, k) /\ v = R2[p].id + 1
      BY <1>3, <2>2, Zenon DEF SameInsns
    <3>2. p \in L2
      BY <3>1, Zenon DEF IsLast
    <3>3. QED
      BY <3>1, <3>2, Zenon DEF ReadsLast
  <2>3. QED
    BY <1>6, <2>1, <2>2, Zenon DEF ReadsLast
<1>7. QED
  BY <1>3, <1>4, <1>5, <1>6, Zenon

SameEntries(L, R, R2) == \A t \in L : R2[t] = R[t]

(***************************************************************************)
(* Dispatch keeps the renaming of the entries that are there already.      *)
(***************************************************************************)
LEMMA PushRenaming ==
  ASSUME NEW L, NEW R, NEW R2, NEW m, NEW m2, NEW g, NEW n \in Nat, NEW x,
         Renaming(L, R, m, g, n), x \notin L, SameEntries(L, R, R2),
         NEW e \in RobEntry, R2[x] = e, e.id = n,
         \A r \in Regs : MapsLast(L \cup {x}, R2, m2[r], r, n + 1),
         e.ins.rd # 0 => Refers(L \cup {x}, R2, e.old_pdest, e.ins.rd, n),
         ~e.ready /\ ~e.read_rs1 =>
           e.prs1 \in Slots /\ Refers(L \cup {x}, R2, e.prs1, e.ins.rs, n),
         e.read_rs1 => ReadsLast(L \cup {x}, R2, g, e.rs1_val, e.ins.rs, n)
  PROVE  Renaming(L \cup {x}, R2, m2, g, n + 1)
<1>1. Numbered(L, R, n) /\ SameInsns(L, R, R2)
  BY Zenon DEF Renaming, SameEntries, SameInsns
<1>2. \A t \in L : R2[t] = R[t] /\ R[t] \in RobEntry /\ R[t].id \in Nat /\ R[t].id < n
  BY <1>1, Zenon DEF Numbered, SameEntries, RobEntry
<1>3. Numbered(L \cup {x}, R2, n + 1)
  BY <1>1, <1>2 DEF Numbered
<1>4. ASSUME NEW t \in L
      PROVE  /\ \A p, r : Refers(L, R, p, r, R[t].id) =>
                            Refers(L \cup {x}, R2, p, r, R[t].id)
             /\ \A v, r : ReadsLast(L, R, g, v, r, R[t].id) =>
                            ReadsLast(L \cup {x}, R2, g, v, r, R[t].id)
  <2>1. R[t].id \in Nat /\ R[t].id <= n /\ R[t].id < n
    BY <1>2
  <2>2. QED
    BY <1>1, <2>1, PushLast, Zenon
<1>5. ASSUME NEW t \in L \cup {x}, R2[t].ins.rd # 0
      PROVE  Refers(L \cup {x}, R2, R2[t].old_pdest, R2[t].ins.rd, R2[t].id)
  BY <1>2, <1>4, <1>5, Zenon DEF Renaming
<1>6. ASSUME NEW t \in L \cup {x}, ~R2[t].ready, ~R2[t].read_rs1
      PROVE  /\ R2[t].prs1 \in Slots
             /\ Refers(L \cup {x}, R2, R2[t].prs1, R2[t].ins.rs, R2[t].id)
  BY <1>2, <1>4, <1>6, Zenon DEF Renaming
<1>7. ASSUME NEW t \in L \cup {x}, R2[t].read_rs1
      PROVE  ReadsLast(L \cup {x}, R2, g, R2[t].rs1_val, R2[t].ins.rs, R2[t].id)
  BY <1>2, <1>4, <1>7, Zenon DEF Renaming
<1>8. QED
  BY <1>3, <1>5, <1>6, <1>7, Zenon DEF Renaming

(***************************************************************************)
(* Its rename table entry stays right for a register that the new          *)
(* instruction does not write.                                             *)
(***************************************************************************)
LEMMA PushMap ==
  ASSUME NEW L, NEW R, NEW R2, NEW n \in Nat, NEW x, x \notin L,
         Numbered(L, R, n), SameEntries(L, R, R2), R2[x].id = n,
         NEW m, NEW r, MapsLast(L, R, m, r, n), ~Writes(R2, x, r)
  PROVE  MapsLast(L \cup {x}, R2, m, r, n + 1)
<1>1. \A t \in L : /\ Writes(R2, t, r) <=> Writes(R, t, r)
                   /\ R2[t] = R[t] /\ R[t].id \in Nat /\ R[t].id < n
  BY Zenon DEF SameEntries, Writes, Numbered, RobEntry
<1>2. CASE NoneBefore(L, R, r, n) /\ m = NotRenamed
  <2>1. NoneBefore(L \cup {x}, R2, r, n + 1)
    BY <1>1, <1>2, Zenon DEF NoneBefore
  <2>2. QED
    BY <1>2, <2>1, Zenon DEF MapsLast
<1>3. ASSUME NEW p \in L, IsLast(L, R, p, r, n), m = Renamed(p)
      PROVE  MapsLast(L \cup {x}, R2, m, r, n + 1)
  <2>1. IsLast(L \cup {x}, R2, p, r, n + 1)
    BY <1>1, <1>3 DEF IsLast
  <2>2. QED
    BY <1>3, <2>1, Zenon DEF MapsLast
<1>4. QED
  BY <1>2, <1>3, Zenon DEF MapsLast

(***************************************************************************)
(* An operand that is read, or an instruction that is executed.            *)
(***************************************************************************)
LEMMA UpdateRenaming ==
  ASSUME NEW L, NEW R, NEW R2, NEW m, NEW g, NEW n \in Nat,
         Renaming(L, R, m, g, n), SameInsns(L, R, R2),
         \A t \in L :
           /\ R2[t] \in RobEntry
           /\ R2[t].old_pdest = R[t].old_pdest /\ R2[t].prs1 = R[t].prs1
           /\ R[t].ready \/ R[t].read_rs1 => R2[t].ready \/ R2[t].read_rs1
           /\ R2[t].read_rs1 =>
                ReadsLast(L, R, g, R2[t].rs1_val, R[t].ins.rs, R[t].id)
  PROVE  Renaming(L, R2, m, g, n)
<1>1. \A t \in L : R2[t].id = R[t].id /\ R2[t].ins = R[t].ins
  BY Zenon DEF SameInsns
<1>2. Numbered(L, R2, n)
  BY <1>1 DEF Renaming, Numbered
<1>3. \A r \in Regs : MapsLast(L, R2, m[r], r, n)
  BY SameLast, Zenon DEF Renaming
<1>4. \A t \in L : R2[t].ins.rd # 0 =>
        Refers(L, R2, R2[t].old_pdest, R2[t].ins.rd, R2[t].id)
  BY <1>1, SameLast DEF Renaming
<1>5. \A t \in L : ~R2[t].ready /\ ~R2[t].read_rs1 =>
        R2[t].prs1 \in Slots /\ Refers(L, R2, R2[t].prs1, R2[t].ins.rs, R2[t].id)
  BY <1>1, SameLast DEF Renaming
<1>6. \A t \in L : R2[t].read_rs1 =>
        ReadsLast(L, R2, g, R2[t].rs1_val, R2[t].ins.rs, R2[t].id)
  BY <1>1, SameLast
<1>7. QED
  BY <1>2, <1>3, <1>4, <1>5, <1>6, Zenon DEF Renaming

(***************************************************************************)
(* Commit of the oldest instruction: the register file takes over from its *)
(* ROB entry, in the rename table and for those who wait for its result.   *)
(***************************************************************************)
LEMMA PopRenaming ==
  ASSUME OooAssumption, ExceptionsHaveNoDest,
         NEW L, NEW R, NEW R2, NEW n \in Nat, NEW x \in L,
         NEW m, DOMAIN m = Regs, NEW g, DOMAIN g = Regs,
         Renaming(L, R, m, g, n), SameEntries(L \ {x}, R, R2),
         \A t \in L : t # x => R[x].id < R[t].id,
         NEW g2, NEW m2,
         g2 = IF R[x].ins.rd = 0 THEN g ELSE [g EXCEPT ![R[x].ins.rd] = R[x].id + 1],
         m2 = IF R[x].ins.rd # 0 /\ m[R[x].ins.rd].rob_idx = x
              THEN [m EXCEPT ![R[x].ins.rd] = NotRenamed] ELSE m
  PROVE  Renaming(L \ {x}, R2, m2, g2, n)
<1> DEFINE L2 == L \ {x}  rd == R[x].ins.rd
<1>1. Numbered(L, R, n) /\ SameInsns(L2, R, R2)
  BY Zenon DEF Renaming, SameEntries, SameInsns
<1>2. \A t \in L : R[t] \in RobEntry /\ R[t].id \in Nat /\ R[t].id < n
  BY <1>1, Zenon DEF Numbered, RobEntry
<1>3. rd \in Regs /\ (rd # 0 => Writes(R, x, rd))
  BY <1>2, Zenon DEF RobEntry, Writes, ExceptionsHaveNoDest, OooAssumption
<1>4. \A t \in L2 : R2[t] = R[t] /\ t \in L
  BY Zenon DEF SameEntries
<1>5. Numbered(L2, R2, n)
  BY <1>1, <1>4, Zenon DEF Numbered
<1>6. ASSUME NEW k \in Nat
      PROVE  /\ \A p, r : IsLast(L, R, p, r, k) /\ p # x => IsLast(L2, R2, p, r, k)
             /\ \A r : NoneBefore(L, R, r, k) => NoneBefore(L2, R2, r, k)
             /\ \A r : IsLast(L, R, x, r, k) => NoneBefore(L2, R2, r, k)
             /\ \A p, r : Refers(L, R, p, r, k) => Refers(L2, R2, p, r, k)
  BY <1>1, PopLast, Zenon
<1>7. ASSUME NEW r \in Regs PROVE MapsLast(L2, R2, m2[r], r, n)
  <2>1. MapsLast(L, R, m[r], r, n)
    BY Zenon DEF Renaming
  <2>2. CASE NoneBefore(L, R, r, n) /\ m[r] = NotRenamed
    <3>1. m2[r] = NotRenamed
      BY <1>3, <2>2, Zenon
    <3>2. QED
      BY <1>6, <2>2, <3>1, Zenon DEF MapsLast
  <2>3. ASSUME NEW p \in L, IsLast(L, R, p, r, n), m[r] = Renamed(p)
        PROVE  MapsLast(L2, R2, m2[r], r, n)
    <3>1. m[r].rob_idx = p /\ r = R[p].ins.rd /\ r # 0
      BY <2>3 DEF Renamed, IsLast, Writes
    <3>2. CASE p = x
      <4>1. m2[r] = NotRenamed
        BY <1>3, <3>1, <3>2, Zenon
      <4>2. NoneBefore(L2, R2, r, n)
        BY <1>6, <2>3, <3>2, Zenon
      <4>3. QED
        BY <4>1, <4>2, Zenon DEF MapsLast
    <3>3. CASE p # x
      <4>1. m2[r] = m[r]
        BY <1>3, <3>1, <3>3, Zenon
      <4>2. IsLast(L2, R2, p, r, n)
        BY <1>6, <2>3, <3>3, Zenon
      <4>3. QED
        BY <2>3, <3>3, <4>1, <4>2, Zenon DEF MapsLast
    <3>4. QED
      BY <3>2, <3>3, Zenon
  <2>4. QED
    BY <2>1, <2>2, <2>3, Zenon DEF MapsLast
<1>8. ASSUME NEW t \in L2, R2[t].ins.rd # 0
      PROVE  Refers(L2, R2, R2[t].old_pdest, R2[t].ins.rd, R2[t].id)
  BY <1>2, <1>4, <1>6, <1>8, Zenon DEF Renaming
<1>9. ASSUME NEW t \in L2, ~R2[t].ready, ~R2[t].read_rs1
      PROVE  R2[t].prs1 \in Slots /\ Refers(L2, R2, R2[t].prs1, R2[t].ins.rs, R2[t].id)
  BY <1>2, <1>4, <1>6, <1>9, Zenon DEF Renaming
<1>10. ASSUME NEW t \in L2, R2[t].read_rs1
       PROVE  ReadsLast(L2, R2, g2, R2[t].rs1_val, R2[t].ins.rs, R2[t].id)
  <2> DEFINE r == R[t].ins.rs  k == R[t].id  v == R[t].rs1_val
  <2>1. r \in Regs /\ k \in Nat /\ R[x].id < k /\ R[x].id \in Nat
    BY <1>2, Zenon DEF RobEntry, OooAssumption
  <2>2. ReadsLast(L, R, g, v, r, k)
    BY <1>4, <1>10, Zenon DEF Renaming
  <2>3. CASE NoneBefore(L, R, r, k) /\ v = g[r]
    <3>1. ~Writes(R, x, r)
      BY <2>1, <2>3, Zenon DEF NoneBefore
    <3>2. r = 0 \/ r # rd
      BY <1>3, <3>1, Zenon
    <3>3. g2[r] = g[r]
      BY <1>3, <2>1, <3>2, Zenon
    <3>4. QED
      BY <1>4, <1>6, <2>1, <2>3, <3>3, Zenon DEF ReadsLast
  <2>4. ASSUME NEW p \in L, IsLast(L, R, p, r, k), v = R[p].id + 1
        PROVE  ReadsLast(L2, R2, g2, v, r, k)
    <3>1. CASE p = x
      <4>1. r = rd /\ rd # 0
        BY <2>4, <3>1, Zenon DEF IsLast, Writes
      <4>2. g2[r] = v
        BY <1>3, <2>4, <3>1, <4>1, Zenon
      <4>3. NoneBefore(L2, R2, r, k)
        BY <1>6, <2>1, <2>4, <3>1, Zenon
      <4>4. QED
        BY <4>2, <4>3, Zenon DEF ReadsLast
    <3>2. CASE p # x
      <4>1. IsLast(L2, R2, p, r, k) /\ p \in L2 /\ v = R2[p].id + 1
        BY <1>4, <1>6, <2>1, <2>4, <3>2, Zenon
      <4>2. QED
        BY <4>1, Zenon DEF ReadsLast
    <3>3. QED
      BY <3>1, <3>2, Zenon
  <2>5. QED
    BY <1>4, <2>2, <2>3, <2>4, Zenon DEF ReadsLast
<1>11. QED
  BY <1>5, <1>7, <1>8, <1>9, <1>10, Zenon DEF Renaming

\* Nothing is changed but ready, which is set.
MarkedReady(L, R, R2) ==
  \A t \in L :
    /\ R2[t] \in RobEntry
    /\ R2[t].old_pdest = R[t].old_pdest /\ R2[t].prs1 = R[t].prs1
    /\ R[t].ready => R2[t].ready
    /\ R2[t].read_rs1 = R[t].read_rs1 /\ R2[t].rs1_val = R[t].rs1_val

(***************************************************************************)
(* A rollback keeps the renaming of the instructions up to the branch.     *)
(***************************************************************************)
LEMMA CutRenaming ==
  ASSUME NEW L, NEW R, NEW R2, NEW m, NEW m2, NEW g, NEW n \in Nat,
         NEW b \in Nat, NEW L2,
         Renaming(L, R, m, g, n), SameInsns(L, R, R2),
         L2 = {t \in L : R[t].id <= b}, MarkedReady(L, R, R2),
         \A r \in Regs : MapsLast(L2, R2, m2[r], r, n)
  PROVE  Renaming(L2, R2, m2, g, n)
<1>1. \A t \in L2 : /\ R2[t].id = R[t].id /\ R2[t].ins = R[t].ins /\ t \in L
                    /\ R[t].id \in Nat /\ R[t].id <= b
  BY Zenon DEF SameInsns, Renaming, Numbered, RobEntry
<1>2. Numbered(L2, R2, n)
  BY <1>1 DEF Renaming, Numbered, MarkedReady
<1>3. Numbered(L, R, n)
  BY Zenon DEF Renaming
<1>4. ASSUME NEW t \in L2
      PROVE  /\ \A p, r : Refers(L, R, p, r, R[t].id) => Refers(L2, R2, p, r, R[t].id)
             /\ \A v, r : ReadsLast(L, R, g, v, r, R[t].id) =>
                            ReadsLast(L2, R2, g, v, r, R[t].id)
  <2>1. ASSUME NEW k \in Nat, k <= b
        PROVE  /\ \A p, r : Refers(L, R, p, r, k) => Refers(L2, R2, p, r, k)
               /\ \A v, r : ReadsLast(L, R, g, v, r, k) => ReadsLast(L2, R2, g, v, r, k)
    BY <1>3, <2>1, CutLast, Zenon
  <2>2. R[t].id \in Nat /\ R[t].id <= b
    BY <1>1, Zenon
  <2>3. QED
    BY <2>1, <2>2, Zenon
<1>5. \A t \in L2 : R2[t].ins.rd # 0 =>
        Refers(L2, R2, R2[t].old_pdest, R2[t].ins.rd, R2[t].id)
  BY <1>1, <1>4 DEF Renaming, MarkedReady
<1>6. \A t \in L2 : ~R2[t].ready /\ ~R2[t].read_rs1 =>
        R2[t].prs1 \in Slots /\ Refers(L2, R2, R2[t].prs1, R2[t].ins.rs, R2[t].id)
  BY <1>1, <1>4, SMTT(30) DEF Renaming, MarkedReady
<1>7. \A t \in L2 : R2[t].read_rs1 =>
        ReadsLast(L2, R2, g, R2[t].rs1_val, R2[t].ins.rs, R2[t].id)
  BY <1>1, <1>4, Zenon DEF Renaming, MarkedReady
<1>8. QED
  BY <1>2, <1>5, <1>6, <1>7, Zenon DEF Renaming

\* fix_rename_tables, for one entry c and the slots L2 still in use.
Fixed(c, L2) == IF c.read_from_rob /\ c.rob_idx \notin L2 THEN NotRenamed ELSE c

(***************************************************************************)
(* The rename table entry of a register that no dropped instruction        *)
(* writes, after the rollback.                                             *)
(***************************************************************************)
LEMMA KeptMap ==
  ASSUME NEW L, NEW R, NEW R2, NEW n \in Nat, NEW b \in Nat, NEW L2,
         Numbered(L, R, n), SameInsns(L, R, R2), L2 = {t \in L : R[t].id <= b},
         NEW r, NEW c, MapsLast(L, R, c, r, n),
         \A t \in L : R[t].id > b => ~(R[t].ins.rd = r /\ r # 0)
  PROVE  MapsLast(L2, R2, Fixed(c, L2), r, n)
<1>1. \A t \in L : /\ Writes(R2, t, r) <=> Writes(R, t, r)
                   /\ R2[t].id = R[t].id /\ R[t].id \in Nat
                   /\ Writes(R, t, r) => t \in L2
  BY DEF SameInsns, Writes, Numbered, RobEntry
<1>2. CASE NoneBefore(L, R, r, n) /\ c = NotRenamed
  <2>1. NoneBefore(L2, R2, r, n)
    BY <1>1, <1>2, Zenon DEF NoneBefore
  <2>2. Fixed(c, L2) = NotRenamed
    BY <1>2, Zenon DEF Fixed, NotRenamed
  <2>3. QED
    BY <2>1, <2>2, Zenon DEF MapsLast
<1>3. ASSUME NEW p \in L, IsLast(L, R, p, r, n), c = Renamed(p)
      PROVE  MapsLast(L2, R2, Fixed(c, L2), r, n)
  <2>1. p \in L2 /\ IsLast(L2, R2, p, r, n)
    BY <1>1, <1>3, Zenon DEF IsLast
  <2>2. Fixed(c, L2) = Renamed(p)
    BY <1>3, <2>1, Zenon DEF Fixed, Renamed
  <2>3. QED
    BY <2>1, <2>2, Zenon DEF MapsLast
<1>4. QED
  BY <1>2, <1>3, Zenon DEF MapsLast

(***************************************************************************)
(* The rename table entry of a register whose first writer behind the      *)
(* branch is o: what o had replaced is right again, or it is the slot of a *)
(* writer that was committed meanwhile, and fix_rename_tables notices.     *)
(***************************************************************************)
LEMMA RestoredMap ==
  ASSUME NEW L, -1 \notin L, NEW R, NEW R2, NEW n \in Nat, NEW b \in Nat, NEW L2,
         Numbered(L, R, n), SameInsns(L, R, R2), L2 = {t \in L : R[t].id <= b},
         NEW r, r # 0,
         NEW o \in L, R[o].id > b, R[o].ins.rd = r,
         \A u \in L : R[u].id > b /\ R[u].ins.rd = r => R[o].id <= R[u].id,
         NEW p, Refers(L, R, p, r, R[o].id),
         NEW c, c = [rob_idx |-> p, read_from_rob |-> p # -1]
  PROVE  MapsLast(L2, R2, Fixed(c, L2), r, n)
<1>1. \A t \in L : /\ Writes(R2, t, r) <=> Writes(R, t, r)
                   /\ R2[t].id = R[t].id /\ R[t].id \in Nat /\ R[t].id < n
                   /\ Writes(R, t, r) => R[t].ins.rd = r
  BY Zenon DEF SameInsns, Writes, Numbered, RobEntry
<1>2. \A t \in L : Writes(R, t, r) =>
        /\ t \in L2 => R[t].id < R[o].id
        /\ R[t].id < R[o].id => t \in L2
  BY <1>1
<1>3. CASE IsLast(L, R, p, r, R[o].id)
  <2>1. p \in L2 /\ IsLast(L2, R2, p, r, n)
    BY <1>1, <1>2, <1>3, Zenon DEF IsLast
  <2>2. Fixed(c, L2) = Renamed(p)
    BY <2>1, Zenon DEF Fixed, Renamed
  <2>3. QED
    BY <2>1, <2>2, Zenon DEF MapsLast
<1>4. CASE NoneBefore(L, R, r, R[o].id) /\ (p \in L => R[p].id > R[o].id)
  <2>1. NoneBefore(L2, R2, r, n)
    BY <1>1, <1>2, <1>4, Zenon DEF NoneBefore
  <2>2. p \notin L2
    BY <1>1, <1>4
  <2>3. Fixed(c, L2) = NotRenamed
    BY <2>2, Zenon DEF Fixed, NotRenamed
  <2>4. QED
    BY <2>1, <2>3, Zenon DEF MapsLast
<1>5. QED
  BY <1>3, <1>4, Zenon DEF Refers

(***************************************************************************)
(* Of a set of instructions in the ROB one is the oldest.                  *)
(***************************************************************************)
LEMMA OldestExists ==
  ASSUME NEW L, NEW R, NEW n, Numbered(L, R, n), NEW W \in SUBSET L, W # {}
  PROVE  \E o \in W : \A u \in W : R[o].id <= R[u].id
<1> DEFINE S == {R[t].id : t \in W}
<1>1. S \in SUBSET Nat /\ S # {}
  BY DEF Numbered, RobEntry
<1>2. PICK k \in S : \A j \in S : k <= j
  BY <1>1, LeastNatural, Zenon
<1>3. QED
  BY <1>2, Zenon

-----------------------------------------------------------------------------
(* The queue keeps the entries in dispatch order *)

(***************************************************************************)
(* rob_entry_create puts the instruction behind all the others.            *)
(***************************************************************************)
LEMMA EnqueueOrder ==
  ASSUME OooAssumption, NEW q, NEW R, NEW R2, NEW n, NEW k \in Nat,
         QueueOK(q, RobSize), InOrder(q, RobSize, Ids(R)),
         Numbered(CqSlots(q, RobSize), R, k),
         ~cq_full(q, RobSize), n = cq_enqueue(q, RobSize),
         SameEntries(CqSlots(q, RobSize), R, R2), R2[n.rear].id = k
  PROVE  /\ QueueOK(n, RobSize) /\ InOrder(n, RobSize, Ids(R2))
         /\ n.rear \in Slots /\ n.rear \notin CqSlots(q, RobSize)
         /\ CqSlots(n, RobSize) = CqSlots(q, RobSize) \cup {n.rear}
<1>1. RobSize \in Nat \ {0} /\ Slots = 0 .. RobSize - 1
  BY Zenon DEF OooAssumption, Slots
<1>2. n.rear \in Slots /\ CqSlots(q, RobSize) \subseteq Slots
  BY <1>1, EnqueueSlots, UsedSlots, Zenon
<1>3. /\ Ids(R2)[n.rear] = k
      /\ \A s \in CqSlots(q, RobSize) : Ids(R2)[s] = Ids(R)[s] /\ Ids(R)[s] < k
  BY <1>2, Zenon DEF Ids, SameEntries, Numbered
<1>4. Numbers(CqSlots(q, RobSize), Ids(R), Ids(R2), n.rear)
  BY <1>3, Zenon DEF Numbers
<1>5. /\ QueueOK(n, RobSize) /\ InOrder(n, RobSize, Ids(R2))
      /\ n.rear \notin CqSlots(q, RobSize)
      /\ CqSlots(n, RobSize) = CqSlots(q, RobSize) \cup {n.rear}
  <2>1. RobSize \in Nat \ {0}
    BY <1>1, Zenon
  <2>2. QED
    BY <1>4, <2>1, EnqueueKeepsOrder, SMTT(30)
<1>6. QED
  BY <1>2, <1>5, Zenon

(***************************************************************************)
(* The front of the queue is the oldest instruction, and removing it keeps *)
(* the others in order.                                                    *)
(***************************************************************************)
LEMMA DequeueOrder ==
  ASSUME OooAssumption, NEW q, NEW R, NEW R2, NEW n,
         QueueOK(q, RobSize), InOrder(q, RobSize, Ids(R)),
         ~cq_empty(q), n = cq_dequeue(q, RobSize),
         SameEntries(CqSlots(q, RobSize) \ {q.front}, R, R2)
  PROVE  /\ QueueOK(n, RobSize) /\ InOrder(n, RobSize, Ids(R2))
         /\ q.front \in CqSlots(q, RobSize)
         /\ \A t \in CqSlots(q, RobSize) : t # q.front => R[q.front].id < R[t].id
         /\ CqSlots(n, RobSize) = CqSlots(q, RobSize) \ {q.front}
<1>1. RobSize \in Nat \ {0} /\ Slots = 0 .. RobSize - 1
  BY Zenon DEF OooAssumption, Slots
<1>2. CqSlots(q, RobSize) \subseteq Slots
  BY <1>1, UsedSlots, Zenon
<1>3. \A s \in CqSlots(q, RobSize) : s # q.front => Ids(R2)[s] = Ids(R)[s]
  BY <1>2, Zenon DEF Ids, SameEntries
<1>4. /\ QueueOK(n, RobSize) /\ InOrder(n, RobSize, Ids(R2))
      /\ q.front \in CqSlots(q, RobSize)
      /\ \A t \in CqSlots(q, RobSize) :
           t # q.front => Ids(R)[q.front] < Ids(R)[t]
      /\ CqSlots(n, RobSize) = CqSlots(q, RobSize) \ {q.front}
  BY <1>1, <1>3, DequeueKeepsOrder
<1>5. QED
  BY <1>2, <1>4, Zenon DEF Ids

(***************************************************************************)
(* With the rear moved back to slot r, what is left in the ROB are the     *)
(* instructions up to the one in r, in order.                              *)
(***************************************************************************)
LEMMA SetRearOrder ==
  ASSUME OooAssumption, NEW q, NEW R, NEW R2, NEW n,
         QueueOK(q, RobSize), InOrder(q, RobSize, Ids(R)),
         NEW r \in CqSlots(q, RobSize), n = cq_set_rear(q, r),
         SameInsns(CqSlots(q, RobSize), R, R2)
  PROVE  /\ QueueOK(n, RobSize) /\ InOrder(n, RobSize, Ids(R2)) /\ ~cq_empty(n)
         /\ CqSlots(n, RobSize) = {t \in CqSlots(q, RobSize) : R[t].id <= R[r].id}
<1>1. RobSize \in Nat \ {0} /\ Slots = 0 .. RobSize - 1
  BY Zenon DEF OooAssumption, Slots
<1>2. CqSlots(q, RobSize) \subseteq Slots
  BY <1>1, UsedSlots, Zenon
<1>3. \A s \in CqSlots(q, RobSize) : Ids(R2)[s] = Ids(R)[s]
  BY <1>2, Zenon DEF Ids, SameInsns
<1>4. /\ QueueOK(n, RobSize) /\ InOrder(n, RobSize, Ids(R2)) /\ ~cq_empty(n)
      /\ CqSlots(n, RobSize) = {t \in CqSlots(q, RobSize) : Ids(R)[t] <= Ids(R)[r]}
  BY <1>1, <1>3, SetRearKeepsOrder
<1>5. QED
  BY <1>2, <1>4, Zenon DEF Ids

(***************************************************************************)
(* rob_entry_committed answers whether a producer that was dispatched      *)
(* before cur has left the ROB.                                            *)
(***************************************************************************)
LEMMA CommittedMeans ==
  ASSUME OooAssumption, QueueInv, NEW src \in Slots, NEW cur \in Live
  PROVE  rob_entry_committed(src, cur) <=> ~(src \in Live /\ rob[src].id < rob[cur].id)
<1>1. RobSize \in Nat \ {0} /\ ~cq_empty(cq)
  BY UsedSlots, Zenon DEF OooAssumption, QueueInv, Live
<1>2. /\ cq.front \in Slots /\ cq.rear \in Slots
      /\ Live = {s \in Slots : Off(cq, RobSize, s) <= Off(cq, RobSize, cq.rear)}
  BY <1>1, SlotsInUse, Zenon DEF QueueInv, Live, Slots
<1>3. src \in Live =>
        (rob[src].id < rob[cur].id <=> Off(cq, RobSize, src) < Off(cq, RobSize, cur))
  <2>1. src \in Live => (Ids(rob)[src] < Ids(rob)[cur]
                         <=> Off(cq, RobSize, src) < Off(cq, RobSize, cur))
    BY Zenon DEF QueueInv, InOrder, Live
  <2>2. QED
    BY <1>2, <2>1, Zenon DEF Ids
<1>4. /\ cur \in Slots
      /\ Off(cq, RobSize, cur) <= Off(cq, RobSize, cq.rear)
  BY <1>2, Zenon
<1>5. rob_entry_committed(src, cur) <=>
        ~(/\ Off(cq, RobSize, src) <= Off(cq, RobSize, cq.rear)
          /\ Off(cq, RobSize, src) < Off(cq, RobSize, cur))
  <2>1. CASE cq.rear >= cq.front
    BY <1>1, <1>2, <1>4, <2>1 DEF rob_entry_committed, Off, Slots
  <2>2. CASE ~(cq.rear >= cq.front)
    BY <1>1, <1>2, <1>4, <2>2 DEF rob_entry_committed, Off, Slots
  <2>3. QED
    BY <2>1, <2>2, Zenon
<1>6. QED
  BY <1>2, <1>3, <1>5, Zenon

(***************************************************************************)
(* rob_entry_committed_after_rollback tells the slots in use from the      *)
(* others.                                                                 *)
(***************************************************************************)
LEMMA InRobMeans ==
  ASSUME OooAssumption, NEW q, QueueOK(q, RobSize), ~cq_empty(q), NEW idx \in Slots
  PROVE  InRob(q, idx) <=> idx \in CqSlots(q, RobSize)
<1>1. RobSize \in Nat \ {0}
  BY Zenon DEF OooAssumption
<1>2. /\ q.front \in Slots /\ q.rear \in Slots
      /\ CqSlots(q, RobSize) =
           {s \in Slots : Off(q, RobSize, s) <= Off(q, RobSize, q.rear)}
  BY <1>1, SlotsInUse, Zenon DEF Slots
<1>3. InRob(q, idx) <=> Off(q, RobSize, idx) <= Off(q, RobSize, q.rear)
  BY <1>1, <1>2 DEF InRob, Off, Slots
<1>4. QED
  BY <1>2, <1>3, Zenon

-----------------------------------------------------------------------------
(* The steps of the core *)

(***************************************************************************)
(* What the proofs of the steps use of the invariant.                      *)
(***************************************************************************)
LEMMA InvFacts ==
  ASSUME OooAssumption, OooInv
  PROVE  /\ RobSize \in Nat \ {0} /\ 0 \in Slots /\ -1 \notin Slots
         /\ Live \subseteq Slots
         /\ QueueInv
         /\ ins_dispatch_id \in Nat
         /\ Numbered(Live, rob, ins_dispatch_id)
         /\ \A t \in Live : /\ rob[t] \in RobEntry /\ rob[t].id \in Nat
                            /\ rob[t].ins \in Insns
                            /\ rob[t].ins.rd \in Regs /\ rob[t].ins.rs \in Regs
<1>1. RobSize \in Nat \ {0} /\ 0 \in Slots /\ -1 \notin Slots
  BY DEF OooAssumption, Slots
<1>2. QueueInv
  BY Zenon DEF OooInv
<1>3. Live \subseteq Slots
  <2>1. QueueOK(cq, RobSize)
    BY <1>2, Zenon DEF QueueInv
  <2>2. QED
    BY <1>1, <2>1, UsedSlots, Zenon DEF Live, Slots
<1>4. ins_dispatch_id \in Nat /\ Numbered(Live, rob, ins_dispatch_id)
  BY Zenon DEF OooInv, Types, Renaming
<1>5. \A t \in Live : rob[t] \in RobEntry
  BY <1>4, Zenon DEF Numbered
<1>6. \A t \in Live : /\ rob[t].id \in Nat /\ rob[t].ins \in Insns
                      /\ rob[t].ins.rd \in Regs /\ rob[t].ins.rs \in Regs
  BY <1>5, Zenon DEF RobEntry, OooAssumption
<1>7. QED
  BY <1>1, <1>2, <1>3, <1>4, <1>5, <1>6, Zenon

(***************************************************************************)
(* The slot that rob_entry_create takes is free.                           *)
(***************************************************************************)
LEMMA FreshSlot ==
  ASSUME OooAssumption, OooInv, ~cq_full(cq, RobSize)
  PROVE  cq_enqueue(cq, RobSize).rear \in Slots \ Live
<1>1. RobSize \in Nat \ {0} /\ QueueOK(cq, RobSize)
  BY InvFacts, Zenon DEF QueueInv
<1>2. QED
  BY <1>1, EnqueueSlots, Zenon DEF Live, Slots

(***************************************************************************)
(* The queue and the array after the dispatch of entry e.                  *)
(***************************************************************************)
LEMMA DispatchQueue ==
  ASSUME OooAssumption, OooInv, ~cq_full(cq, RobSize),
         NEW x, x = cq_enqueue(cq, RobSize).rear, cq' = cq_enqueue(cq, RobSize),
         NEW e \in RobEntry, e.id = ins_dispatch_id, rob' = [rob EXCEPT ![x] = e]
  PROVE  /\ x \in Slots \ Live
         /\ rob'[x] = e /\ SameEntries(Live, rob, rob')
         /\ rob' \in [Slots -> RobEntry \cup {NoEntry}]
         /\ Live' = Live \cup {x}
         /\ QueueInv'
<1>1. x \in Slots \ Live
  BY FreshSlot, Zenon
<1>2. rob \in [Slots -> RobEntry \cup {NoEntry}] /\ Live \subseteq Slots
  BY InvFacts, Zenon DEF OooInv, Types
<1>3. rob'[x] = e /\ rob' \in [Slots -> RobEntry \cup {NoEntry}]
  BY <1>1, <1>2, Zenon
<1>4. SameEntries(Live, rob, rob')
  BY <1>1, <1>2, Zenon DEF SameEntries
<1>5. /\ QueueInv /\ ins_dispatch_id \in Nat
      /\ Numbered(Live, rob, ins_dispatch_id)
  BY InvFacts, Zenon
<1>6. rob'[cq'.rear].id = ins_dispatch_id
  BY <1>3, Zenon
<1>7. /\ QueueOK(cq', RobSize) /\ InOrder(cq', RobSize, Ids(rob'))
      /\ CqSlots(cq', RobSize) = CqSlots(cq, RobSize) \cup {cq'.rear}
  BY <1>4, <1>5, <1>6, EnqueueOrder, ZenonT(30) DEF Live, QueueInv
<1>8. QED
  BY <1>1, <1>3, <1>4, <1>7, Zenon DEF QueueInv, Live

(***************************************************************************)
(* Dispatch of an instruction that is an exception.                        *)
(***************************************************************************)
LEMMA DispatchExceptionKeeps ==
  ASSUME OooAssumption, ExceptionsHaveNoDest, OooInv,
         NEW ins \in Insns, DispatchException(ins)
  PROVE  OooInv'
<1> DEFINE x == cq_enqueue(cq, RobSize).rear
           N == ins_dispatch_id
           e == [ready |-> TRUE, id |-> N, ins |-> ins, exception |-> TRUE,
                 prs1 |-> -1, read_rs1 |-> FALSE, rs1_val |-> 0, old_pdest |-> 0]
<1>1. /\ ~cq_full(cq, RobSize) /\ ins.kind \in {"complex", "illegal"}
      /\ cq' = cq_enqueue(cq, RobSize) /\ rob' = [rob EXCEPT ![x] = e]
      /\ fetching' = FALSE /\ ins_dispatch_id' = N + 1
      /\ UNCHANGED <<int_rat, reg, iq, fu, asserts>>
  BY Zenon DEF DispatchException, CanDispatch
<1>2. N \in Nat /\ 0 \in Slots /\ Numbered(Live, rob, N)
  BY InvFacts, Zenon
<1>3. e \in RobEntry /\ e.id = N /\ e.ins.rd = 0 /\ e.ready /\ ~e.read_rs1
  BY <1>1, <1>2, Zenon DEF RobEntry, ExceptionsHaveNoDest
<1> HIDE DEF x, e
<1>4. /\ x \in Slots \ Live
      /\ rob'[x] = e /\ SameEntries(Live, rob, rob')
      /\ rob' \in [Slots -> RobEntry \cup {NoEntry}]
      /\ Live' = Live \cup {x}
      /\ QueueInv'
  BY <1>1, <1>3, DispatchQueue, Zenon DEF x
<1>5. Types'
  BY <1>1, <1>2, <1>4 DEF OooInv, Types
<1>6. \A r \in Regs : MapsLast(Live \cup {x}, rob', int_rat[r], r, N + 1)
  <2>1. TAKE r \in Regs
  <2>2. MapsLast(Live, rob, int_rat[r], r, N)
    BY Zenon DEF OooInv, Renaming
  <2>3. ~Writes(rob', x, r)
    BY <1>3, <1>4, Zenon DEF Writes
  <2>4. x \notin Live /\ rob'[x].id = N /\ SameEntries(Live, rob, rob')
    BY <1>3, <1>4, Zenon
  <2>5. QED
    BY <1>2, <2>2, <2>3, <2>4, PushMap, Zenon
<1>7. Renaming(Live, rob, int_rat, reg, N)
  BY Zenon DEF OooInv
<1>8. Renaming(Live \cup {x}, rob', int_rat, reg, N + 1)
  BY <1>2, <1>3, <1>4, <1>6, <1>7, PushRenaming, Zenon
<1>9. Renaming(Live, rob, int_rat, reg, ins_dispatch_id)'
  BY <1>1, <1>4, <1>8, Zenon
<1>10. IssueInv'
  BY <1>1, <1>4 DEF OooInv, IssueInv, NothingLeftBehind, SameEntries
<1>11. QED
  BY <1>1, <1>4, <1>5, <1>9, <1>10, Zenon DEF OooInv

(***************************************************************************)
(* iq_entry_create finds a free entry when the issue queue is not full.    *)
(***************************************************************************)
LEMMA FreeIq ==
  ASSUME OooAssumption, OooInv, ~iq_full
  PROVE  (CHOOSE i \in IqFree : \A j \in IqFree : i <= j) \in IqFree
<1>1. IqFree \in SUBSET Nat /\ IqFree # {}
  BY DEF iq_full, IqFree, OooInv, Types, OooAssumption
<1>2. \E i \in IqFree : \A j \in IqFree : i <= j
  BY <1>1, LeastNatural, Zenon
<1>3. QED
  BY <1>2, Zenon

(***************************************************************************)
(* Dispatch of an instruction that is renamed.                             *)
(***************************************************************************)
LEMMA DispatchRenamedKeeps ==
  ASSUME OooAssumption, ExceptionsHaveNoDest, OooInv,
         NEW ins \in Insns, DispatchRenamed(ins)
  PROVE  OooInv'
<1> DEFINE x == cq_enqueue(cq, RobSize).rear
           N == ins_dispatch_id
           src == int_rat[ins.rs]
           old == IF ins.rd = 0 THEN 0 ELSE int_rat[ins.rd].rob_idx
           f == CHOOSE i \in IqFree : \A j \in IqFree : i <= j
           e == [ready |-> FALSE, id |-> N, ins |-> ins, exception |-> FALSE,
                 prs1 |-> IF src.read_from_rob THEN src.rob_idx ELSE -1,
                 read_rs1 |-> ~src.read_from_rob,
                 rs1_val |-> IF src.read_from_rob THEN 0 ELSE reg[ins.rs],
                 old_pdest |-> old]
           m == IF ins.rd = 0 THEN int_rat
                ELSE [int_rat EXCEPT ![ins.rd] = Renamed(x)]
           L2 == Live \cup {x}
<1>1. /\ ~cq_full(cq, RobSize) /\ ~iq_full /\ ins.kind \notin {"complex", "illegal"}
      /\ cq' = cq_enqueue(cq, RobSize) /\ rob' = [rob EXCEPT ![x] = e]
      /\ iq' = [iq EXCEPT ![f] = [valid |-> TRUE, ready |-> FALSE, e |-> x]]
      /\ int_rat' = m
      /\ asserts' = ((src.read_from_rob => src.rob_idx # -1) /\ (ins.rd # 0 => old # x))
      /\ ins_dispatch_id' = N + 1
      /\ UNCHANGED <<reg, fu, fetching>>
  BY Zenon DEF DispatchRenamed, CanDispatch, Renamed
<1>2. N \in Nat /\ 0 \in Slots /\ -1 \notin Slots /\ Live \subseteq Slots
  BY InvFacts, Zenon
<1>3. Numbered(Live, rob, N) /\ Renaming(Live, rob, int_rat, reg, N)
  BY Zenon DEF OooInv, Renaming
<1>4. /\ ins.rd \in Regs /\ ins.rs \in Regs
      /\ int_rat \in [Regs -> [rob_idx : Slots \cup {-1}, read_from_rob : BOOLEAN]]
      /\ reg \in [Regs -> Nat]
  BY Zenon DEF OooAssumption, OooInv, Types
<1>5. old \in Slots \cup {-1}
  BY <1>2, <1>4, Zenon
<1>6. /\ e \in RobEntry /\ e.id = N /\ e.ins = ins /\ e.ready = FALSE
      /\ e.old_pdest = old
      /\ e.prs1 = (IF src.read_from_rob THEN src.rob_idx ELSE -1)
      /\ e.read_rs1 = ~src.read_from_rob
      /\ e.rs1_val = (IF src.read_from_rob THEN 0 ELSE reg[ins.rs])
  <2>1. src \in [rob_idx : Slots \cup {-1}, read_from_rob : BOOLEAN]
    BY <1>4, Zenon
  <2>2. reg[ins.rs] \in Nat
    BY <1>4, Zenon
  <2> HIDE DEF src, old
  <2>3. QED
    BY <1>2, <1>5, <2>1, <2>2, Zenon DEF RobEntry
<1> HIDE DEF x, e, old, f, src
<1>7. /\ x \in Slots \ Live
      /\ rob'[x] = e /\ SameEntries(Live, rob, rob')
      /\ rob' \in [Slots -> RobEntry \cup {NoEntry}]
      /\ Live' = L2
      /\ QueueInv'
  BY <1>1, <1>6, DispatchQueue, Zenon DEF x
<1>8. SameInsns(Live, rob, rob') /\ rob'[x].id = N /\ x \notin Live
  BY <1>6, <1>7, Zenon DEF SameEntries, SameInsns
<1>9. /\ \A p, r : Refers(Live, rob, p, r, N) /\ p # x => Refers(L2, rob', p, r, N)
      /\ \A v, r : ReadsLast(Live, rob, reg, v, r, N) => ReadsLast(L2, rob', reg, v, r, N)
  <2>1. N <= N
    BY <1>2
  <2>2. QED
    BY <1>2, <1>3, <1>8, <2>1, PushLast, Zenon
<1>10. ASSUME NEW r \in Regs
       PROVE  \/ NoneBefore(Live, rob, r, N) /\ int_rat[r] = NotRenamed
              \/ \E p \in Live : IsLast(Live, rob, p, r, N) /\ int_rat[r] = Renamed(p)
  BY <1>3, Zenon DEF Renaming, MapsLast
<1>11. ASSUME NEW r \in Regs
       PROVE  /\ int_rat[r].rob_idx # x
              /\ Refers(Live, rob, int_rat[r].rob_idx, r, N)
              /\ int_rat[r].read_from_rob => int_rat[r].rob_idx \in Slots
              /\ ~int_rat[r].read_from_rob => ReadsLast(Live, rob, reg, reg[r], r, N)
  <2>1. CASE NoneBefore(Live, rob, r, N) /\ int_rat[r] = NotRenamed
    <3>1. int_rat[r].rob_idx = -1 /\ ~int_rat[r].read_from_rob
      BY <2>1 DEF NotRenamed
    <3>2. QED
      BY <1>2, <1>7, <2>1, <3>1, Zenon DEF Refers, ReadsLast
  <2>2. ASSUME NEW p \in Live, IsLast(Live, rob, p, r, N), int_rat[r] = Renamed(p)
        PROVE  /\ int_rat[r].rob_idx = p /\ int_rat[r].read_from_rob
               /\ Refers(Live, rob, p, r, N)
    BY <2>2 DEF Renamed, Refers
  <2>3. QED
    BY <1>2, <1>7, <1>10, <2>1, <2>2, Zenon
<1>12. ins.rd # 0 => old # x /\ Refers(L2, rob', old, ins.rd, N)
  BY <1>4, <1>9, <1>11, Zenon DEF old
<1>13. ~e.ready /\ ~e.read_rs1 =>
         e.prs1 \in Slots /\ Refers(L2, rob', e.prs1, ins.rs, N)
  BY <1>4, <1>6, <1>9, <1>11, Zenon DEF src
<1>14. e.read_rs1 => ReadsLast(L2, rob', reg, e.rs1_val, ins.rs, N)
  BY <1>4, <1>6, <1>9, <1>11, Zenon DEF src
<1>15. src.read_from_rob => src.rob_idx # -1
  BY <1>2, <1>4, <1>11, Zenon DEF src
<1>16. asserts'
  BY <1>1, <1>12, <1>15, Zenon
<1>17. ASSUME NEW r \in Regs PROVE MapsLast(L2, rob', m[r], r, N + 1)
  <2>1. CASE r = ins.rd /\ r # 0
    <3>1. m[r] = Renamed(x)
      BY <1>4, <2>1, Zenon
    <3>2. Writes(rob', x, r)
      BY <1>1, <1>6, <1>7, <2>1, Zenon DEF Writes
    <3>3. \A u \in L2 : rob'[u].id <= N
      BY <1>2, <1>3, <1>7, <1>8, InvFacts DEF SameInsns, Numbered
    <3>4. IsLast(L2, rob', x, r, N + 1)
      BY <1>2, <1>8, <3>2, <3>3 DEF IsLast
    <3>5. QED
      BY <3>1, <3>4, Zenon DEF MapsLast
  <2>2. CASE ~(r = ins.rd /\ r # 0)
    <3>1. m[r] = int_rat[r]
      BY <1>4, <1>10, <2>2, Zenon DEF MapsLast
    <3>2. ~Writes(rob', x, r)
      BY <1>6, <1>7, <2>2, Zenon DEF Writes
    <3>3. MapsLast(Live, rob, int_rat[r], r, N)
      BY <1>10, Zenon DEF MapsLast
    <3>4. MapsLast(L2, rob', int_rat[r], r, N + 1)
      BY <1>2, <1>3, <1>7, <1>8, <3>2, <3>3, PushMap, Zenon
    <3>5. QED
      BY <3>1, <3>4, Zenon
  <2>3. QED
    BY <2>1, <2>2, Zenon
<1>18. Renaming(L2, rob', m, reg, N + 1)
  <2> HIDE DEF m
  <2>1. QED
    BY <1>2, <1>3, <1>6, <1>7, <1>12, <1>13, <1>14, <1>17, PushRenaming, Zenon
<1>19. Renaming(Live, rob, int_rat, reg, ins_dispatch_id)'
  BY <1>1, <1>7, <1>18, Zenon
<1>20. f \in IqFree
  BY <1>1, FreeIq, Zenon DEF f
<1>21. Types'
  <2>1. iq' \in [0 .. IqSize - 1 ->
                   [valid : BOOLEAN, ready : BOOLEAN, e : Slots \cup {-1}]]
    BY <1>1, <1>7, <1>20, Zenon DEF OooInv, Types, IqFree
  <2>2. int_rat' \in [Regs -> [rob_idx : Slots \cup {-1}, read_from_rob : BOOLEAN]]
    BY <1>1, <1>4, <1>7, Zenon DEF Renamed
  <2>3. QED
    BY <1>1, <1>2, <1>7, <2>1, <2>2 DEF OooInv, Types
<1>22. IssueInv'
  <2>1. /\ DOMAIN iq' = DOMAIN iq /\ f \in DOMAIN iq /\ ~iq[f].valid
        /\ iq'[f].valid /\ ~iq'[f].ready /\ iq'[f].e = x
        /\ \A i \in DOMAIN iq : i # f => iq'[i] = iq[i]
    BY <1>1, <1>20, Zenon DEF IqFree, OooInv, Types
  <2>2. /\ fu' = fu /\ fu \subseteq Live
        /\ \A i \in DOMAIN iq : iq[i].valid => iq[i].e \in Live
    BY <1>1, Zenon DEF OooInv, IssueInv, NothingLeftBehind
  <2>3. \A t \in Live : rob'[t] = rob[t] /\ t # x
    BY <1>7, Zenon DEF SameEntries
  <2>4. ~rob'[x].ready
    BY <1>6, <1>7, Zenon
  <2>5. ASSUME NEW i \in DOMAIN iq', iq'[i].valid
        PROVE  /\ iq'[i].e \in L2 \ fu'
               /\ ~rob'[iq'[i].e].ready
               /\ \A j \in DOMAIN iq' : iq'[j].valid /\ iq'[j].e = iq'[i].e => j = i
               /\ iq'[i].ready => rob'[iq'[i].e].read_rs1
    <3>1. CASE i = f
      BY <1>7, <2>1, <2>2, <2>3, <2>4, <3>1, Zenon
    <3>2. CASE i # f
      <4>1. iq'[i] = iq[i] /\ i \in DOMAIN iq /\ iq[i].valid
        BY <2>1, <2>5, <3>2, Zenon
      <4>2. /\ iq[i].e \in Live \ fu /\ ~rob[iq[i].e].ready
            /\ \A j \in DOMAIN iq : iq[j].valid /\ iq[j].e = iq[i].e => j = i
            /\ iq[i].ready => rob[iq[i].e].read_rs1
        BY <4>1, Zenon DEF OooInv, IssueInv, NothingLeftBehind
      <4>3. QED
        BY <2>1, <2>2, <2>3, <4>1, <4>2
    <3>3. QED
      BY <3>1, <3>2, Zenon
  <2>6. \A s \in fu' : s \in L2 /\ ~rob'[s].ready /\ rob'[s].read_rs1
    BY <2>2, <2>3, Zenon DEF OooInv, IssueInv, NothingLeftBehind
  <2>7. QED
    BY <1>7, <2>5, <2>6, Zenon DEF IssueInv, NothingLeftBehind
<1>23. QED
  BY <1>7, <1>16, <1>19, <1>21, <1>22, Zenon DEF OooInv

(***************************************************************************)
(* The queue and the array while entries change in place.                  *)
(***************************************************************************)
LEMMA SameQueue ==
  ASSUME OooAssumption, OooInv, cq' = cq, SameInsns(Live, rob, rob')
  PROVE  QueueInv' /\ Live' = Live
<1>1. QueueInv /\ Live \subseteq Slots
  BY InvFacts, Zenon
<1>2. \A t \in Live : Ids(rob')[t] = Ids(rob)[t]
  BY <1>1, Zenon DEF Ids, SameInsns
<1>3. InOrder(cq, RobSize, Ids(rob'))
  BY <1>1, <1>2, Zenon DEF QueueInv, InOrder, Live
<1>4. QED
  BY <1>1, <1>3, Zenon DEF QueueInv, Live

(***************************************************************************)
(* An operand is read when it can be, and then it is the last write.       *)
(***************************************************************************)
LEMMA OperandIsLast ==
  ASSUME OooAssumption, OooInv, NEW cur \in Live,
         ~rob[cur].ready, ~rob[cur].read_rs1
  PROVE  /\ rob[cur].prs1 # cur
         /\ Operand(cur) \in Nat
         /\ ReadsLast(Live, rob, reg, Operand(cur), rob[cur].ins.rs, rob[cur].id)
<1> DEFINE src == rob[cur].prs1  r == rob[cur].ins.rs  k == rob[cur].id
<1>1. src \in Slots /\ Refers(Live, rob, src, r, k)
  BY Zenon DEF OooInv, Renaming
<1>2. k \in Nat /\ r \in Regs /\ reg[r] \in Nat
  BY InvFacts, Zenon DEF OooInv, Types
<1>3. QueueInv
  BY Zenon DEF OooInv
<1>4. rob_entry_committed(src, cur) <=> ~(src \in Live /\ rob[src].id < k)
  BY <1>1, <1>3, CommittedMeans, Zenon
<1>5. src # cur
  BY <1>1, <1>2 DEF Refers, IsLast
<1>6. CASE rob_entry_committed(src, cur)
  <2>1. NoneBefore(Live, rob, r, k)
    BY <1>1, <1>4, <1>6, Zenon DEF Refers, IsLast
  <2>2. Operand(cur) = reg[r]
    BY <1>6, Zenon DEF Operand
  <2>3. QED
    BY <1>2, <1>5, <2>1, <2>2, Zenon DEF ReadsLast
<1>7. CASE ~rob_entry_committed(src, cur)
  <2>1. src \in Live /\ rob[src].id < k /\ rob[src].id \in Nat
    BY <1>4, <1>7, InvFacts, Zenon
  <2>2. IsLast(Live, rob, src, r, k)
    BY <1>1, <1>2, <2>1 DEF Refers
  <2>3. Operand(cur) = rob[src].id + 1
    BY <1>7, Zenon DEF Operand, Result
  <2>4. Operand(cur) \in Nat
    BY <2>1, <2>3
  <2>5. QED
    BY <1>5, <2>1, <2>2, <2>3, <2>4 DEF ReadsLast
<1>8. QED
  BY <1>6, <1>7, Zenon

(***************************************************************************)
(* process_iq for one entry, as far as the entries of the ROB go.          *)
(***************************************************************************)
LEMMA ProcessIqReads ==
  ASSUME OooAssumption, OooInv,
         NEW i \in DOMAIN iq, NEW fu_free \in BOOLEAN, ProcessIq(i, fu_free),
         NEW cur, cur = iq[i].e
  PROVE  /\ cur \in Live \ fu /\ ~rob[cur].ready
         /\ rob' \in [Slots -> RobEntry \cup {NoEntry}]
         /\ SameInsns(Live, rob, rob')
         /\ \A t \in Live : /\ rob'[t].ready = rob[t].ready
                            /\ rob[t].read_rs1 => rob'[t].read_rs1
         /\ rob'[cur].read_rs1
         /\ Renaming(Live, rob', int_rat, reg, ins_dispatch_id)
         /\ asserts'
<1> DEFINE reads == ~iq[i].ready /\ ~rob[cur].read_rs1
           v == Operand(cur)
<1>1. /\ iq[i].valid /\ asserts
      /\ rob' = IF reads THEN [rob EXCEPT ![cur].read_rs1 = TRUE, ![cur].rs1_val = v]
                ELSE rob
      /\ asserts' = (reads => rob[cur].prs1 # cur)
  BY Zenon DEF ProcessIq
<1>2. cur \in Live \ fu /\ ~rob[cur].ready /\ (iq[i].ready => rob[cur].read_rs1)
  BY <1>1, Zenon DEF OooInv, IssueInv, NothingLeftBehind
<1>3. /\ Renaming(Live, rob, int_rat, reg, ins_dispatch_id)
      /\ rob \in [Slots -> RobEntry \cup {NoEntry}]
      /\ Live \subseteq Slots /\ ins_dispatch_id \in Nat
      /\ \A t \in Live : rob[t] \in RobEntry
  BY InvFacts, Zenon DEF OooInv, Types
<1>4. CASE ~reads
  <2>1. rob' = rob /\ asserts'
    BY <1>1, <1>4, Zenon
  <2>2. SameInsns(Live, rob, rob')
    BY <2>1, Zenon DEF SameInsns
  <2>3. rob[cur].read_rs1
    BY <1>2, <1>4, Zenon
  <2>4. QED
    BY <1>2, <1>3, <2>1, <2>2, <2>3, Zenon
<1>5. CASE reads
  <2>1. /\ rob[cur].prs1 # cur /\ v \in Nat
        /\ ReadsLast(Live, rob, reg, v, rob[cur].ins.rs, rob[cur].id)
    BY <1>2, <1>5, OperandIsLast, Zenon
  <2>2. asserts'
    BY <1>1, <2>1, Zenon
  <2>3. rob' = [rob EXCEPT ![cur].read_rs1 = TRUE, ![cur].rs1_val = v]
    BY <1>1, <1>5, Zenon
  <2> HIDE DEF v, reads
  <2>4. cur \in Slots /\ rob[cur] \in RobEntry
    BY <1>2, <1>3, Zenon
  <2>5. rob'[cur] = [rob[cur] EXCEPT !.read_rs1 = TRUE, !.rs1_val = v]
    BY <1>3, <2>3, <2>4, Zenon
  <2>6. /\ rob'[cur] \in RobEntry
        /\ rob'[cur].id = rob[cur].id /\ rob'[cur].ins = rob[cur].ins
        /\ rob'[cur].ready = rob[cur].ready
        /\ rob'[cur].prs1 = rob[cur].prs1 /\ rob'[cur].old_pdest = rob[cur].old_pdest
        /\ rob'[cur].read_rs1 /\ rob'[cur].rs1_val = v
    BY <2>1, <2>4, <2>5, Zenon DEF RobEntry
  <2>7. \A t \in Slots : t # cur => rob'[t] = rob[t]
    BY <1>3, <2>3, Zenon
  <2>8. DOMAIN rob' = Slots /\ rob' = [t \in Slots |-> rob'[t]]
    BY <1>3, <2>3, Zenon
  <2>9. rob' \in [Slots -> RobEntry \cup {NoEntry}]
    <3>1. \A t \in Slots : rob'[t] \in RobEntry \cup {NoEntry}
      BY <1>3, <2>6, <2>7, Zenon
    <3>2. QED
      BY <2>8, <3>1, Zenon
  <2>10. SameInsns(Live, rob, rob')
    BY <1>3, <2>6, <2>7, Zenon DEF SameInsns
  <2>11. \A t \in Live : /\ rob'[t].ready = rob[t].ready
                         /\ rob[t].read_rs1 => rob'[t].read_rs1
    BY <1>3, <2>6, <2>7, Zenon
  <2>12. \A t \in Live :
           /\ rob'[t] \in RobEntry
           /\ rob'[t].old_pdest = rob[t].old_pdest /\ rob'[t].prs1 = rob[t].prs1
           /\ rob[t].ready \/ rob[t].read_rs1 => rob'[t].ready \/ rob'[t].read_rs1
           /\ rob'[t].read_rs1 =>
                ReadsLast(Live, rob, reg, rob'[t].rs1_val, rob[t].ins.rs, rob[t].id)
    <3>1. \A t \in Live : rob[t].read_rs1 =>
            ReadsLast(Live, rob, reg, rob[t].rs1_val, rob[t].ins.rs, rob[t].id)
      BY <1>3 DEF Renaming
    <3>2. QED
      BY <1>3, <2>1, <2>6, <2>7, <3>1, ZenonT(30)
  <2>13. Renaming(Live, rob', int_rat, reg, ins_dispatch_id)
    BY <1>3, <2>10, <2>12, UpdateRenaming, Zenon
  <2>14. QED
    BY <1>2, <2>2, <2>6, <2>9, <2>10, <2>11, <2>13, Zenon
<1>6. QED
  BY <1>4, <1>5, Zenon

(***************************************************************************)
(* A step of process_iq.                                                   *)
(***************************************************************************)
LEMMA ProcessIqKeeps ==
  ASSUME OooAssumption, OooInv,
         NEW i \in DOMAIN iq, NEW fu_free \in BOOLEAN, ProcessIq(i, fu_free)
  PROVE  OooInv'
<1> DEFINE cur == iq[i].e
<1>1. /\ cur \in Live \ fu /\ ~rob[cur].ready
      /\ rob' \in [Slots -> RobEntry \cup {NoEntry}]
      /\ SameInsns(Live, rob, rob')
      /\ \A t \in Live : /\ rob'[t].ready = rob[t].ready
                         /\ rob[t].read_rs1 => rob'[t].read_rs1
      /\ rob'[cur].read_rs1
      /\ Renaming(Live, rob', int_rat, reg, ins_dispatch_id)
      /\ asserts'
  BY ProcessIqReads, Zenon
<1>2. /\ IF fu_free
         THEN iq' = [iq EXCEPT ![i] = FreeIqEntry] /\ fu' = fu \cup {cur}
         ELSE iq' = [iq EXCEPT ![i].ready = TRUE] /\ fu' = fu
      /\ iq[i].valid
      /\ UNCHANGED <<cq, int_rat, reg, ins_dispatch_id>>
  BY Zenon DEF ProcessIq
<1>3. QueueInv' /\ Live' = Live
  BY <1>1, <1>2, SameQueue, Zenon
<1>4. Renaming(Live, rob, int_rat, reg, ins_dispatch_id)'
  BY <1>1, <1>2, <1>3, Zenon
<1>5. /\ iq \in [0 .. IqSize - 1 ->
                   [valid : BOOLEAN, ready : BOOLEAN, e : Slots \cup {-1}]]
      /\ fu \subseteq Slots /\ Live \subseteq Slots
  BY InvFacts, Zenon DEF OooInv, Types
<1>6. /\ iq' \in [0 .. IqSize - 1 ->
                    [valid : BOOLEAN, ready : BOOLEAN, e : Slots \cup {-1}]]
      /\ fu' \subseteq Slots
  <2> DEFINE E == [valid : BOOLEAN, ready : BOOLEAN, e : Slots \cup {-1}]
  <2>1. FreeIqEntry \in E
    BY Zenon DEF FreeIqEntry
  <2>2. iq[i] \in E
    BY <1>5, Zenon
  <2>3. [iq[i] EXCEPT !.ready = TRUE] \in E
    BY <2>2, Zenon
  <2> HIDE DEF E
  <2>4. iq \in [0 .. IqSize - 1 -> E]
    BY <1>5, Zenon DEF E
  <2>5. CASE fu_free
    <3>1. iq' = [iq EXCEPT ![i] = FreeIqEntry] /\ fu' = fu \cup {cur}
      BY <1>2, <2>5, Zenon
    <3>2. iq' \in [0 .. IqSize - 1 -> E] /\ fu' \subseteq Slots
      BY <1>1, <1>5, <2>1, <2>4, <3>1
    <3>3. QED
      BY <3>2, Zenon DEF E
  <2>6. CASE ~fu_free
    <3>1. iq' = [iq EXCEPT ![i] = [iq[i] EXCEPT !.ready = TRUE]] /\ fu' = fu
      BY <1>2, <2>6, Zenon
    <3>2. iq' \in [0 .. IqSize - 1 -> E] /\ fu' \subseteq Slots
      BY <1>5, <2>3, <2>4, <3>1, Zenon
    <3>3. QED
      BY <3>2, Zenon DEF E
  <2>7. QED
    BY <2>5, <2>6, Zenon
<1>7. Types'
  BY <1>1, <1>2, <1>6, Zenon DEF OooInv, Types
<1>8. /\ DOMAIN iq' = DOMAIN iq
      /\ \A j \in DOMAIN iq : j # i => iq'[j] = iq[j]
      /\ iq'[i].valid => iq'[i].e = cur /\ fu' = fu
      /\ fu' = fu \/ (fu' = fu \cup {cur} /\ ~iq'[i].valid)
  <2>1. CASE fu_free
    BY <1>2, <1>5, <2>1 DEF FreeIqEntry
  <2>2. CASE ~fu_free
    BY <1>2, <1>5, <2>2
  <2>3. QED
    BY <2>1, <2>2, Zenon
<1>9. \A j \in DOMAIN iq : iq[j].valid =>
        /\ iq[j].e \in Live \ fu /\ ~rob[iq[j].e].ready
        /\ \A k \in DOMAIN iq : iq[k].valid /\ iq[k].e = iq[j].e => k = j
        /\ iq[j].ready => rob[iq[j].e].read_rs1
  BY Zenon DEF OooInv, IssueInv, NothingLeftBehind
<1> HIDE DEF cur
<1>10. ASSUME NEW j \in DOMAIN iq', iq'[j].valid
       PROVE  /\ iq'[j].e \in Live \ fu' /\ ~rob'[iq'[j].e].ready
              /\ \A k \in DOMAIN iq' : iq'[k].valid /\ iq'[k].e = iq'[j].e => k = j
              /\ iq'[j].ready => rob'[iq'[j].e].read_rs1
  <2>1. iq[j].valid /\ iq'[j].e = iq[j].e /\ (j # i => iq'[j] = iq[j])
    BY <1>2, <1>8, <1>10, Zenon DEF cur
  <2>2. \A k \in DOMAIN iq' : iq'[k].valid => iq[k].valid /\ iq'[k].e = iq[k].e
    BY <1>2, <1>8, Zenon DEF cur
  <2>3. iq[j].e \notin fu'
    BY <1>2, <1>8, <1>9, <1>10, <2>1, Zenon DEF cur
  <2>4. iq'[j].ready => rob'[iq'[j].e].read_rs1
    BY <1>1, <1>8, <1>9, <2>1, Zenon DEF cur
  <2>5. QED
    BY <1>1, <1>8, <1>9, <2>1, <2>2, <2>3, <2>4
<1>11. \A s \in fu' : s \in Live /\ ~rob'[s].ready /\ rob'[s].read_rs1
  BY <1>1, <1>8 DEF OooInv, IssueInv, NothingLeftBehind
<1>12. IssueInv'
  BY <1>3, <1>10, <1>11, Zenon DEF IssueInv, NothingLeftBehind
<1>13. QED
  BY <1>1, <1>3, <1>4, <1>7, <1>12, Zenon DEF OooInv

(***************************************************************************)
(* An entry that becomes ready, with or without an exception, in a         *)
(* functional unit.                                                        *)
(***************************************************************************)
LEMMA MarkReady ==
  ASSUME OooAssumption, OooInv, NEW s \in fu,
         \/ rob' = [rob EXCEPT ![s].ready = TRUE]
         \/ rob' = [rob EXCEPT ![s].ready = TRUE, ![s].exception = TRUE]
  PROVE  /\ s \in Live /\ rob'[s].ready
         /\ rob' \in [Slots -> RobEntry \cup {NoEntry}]
         /\ SameInsns(Live, rob, rob')
         /\ \A t \in Live : t # s => rob'[t] = rob[t]
         /\ MarkedReady(Live, rob, rob')
<1>1. s \in Live
  BY Zenon DEF OooInv, IssueInv, NothingLeftBehind
<1>2. /\ rob \in [Slots -> RobEntry \cup {NoEntry}] /\ Live \subseteq Slots
      /\ \A t \in Live : rob[t] \in RobEntry
  BY InvFacts, Zenon DEF OooInv, Types
<1>3. s \in Slots /\ rob[s] \in RobEntry
  BY <1>1, <1>2, Zenon
<1>4. \/ rob'[s] = [rob[s] EXCEPT !.ready = TRUE]
      \/ rob'[s] = [rob[s] EXCEPT !.ready = TRUE, !.exception = TRUE]
  BY <1>2, <1>3, Zenon
<1>5. /\ rob'[s] \in RobEntry
      /\ rob'[s].id = rob[s].id /\ rob'[s].ins = rob[s].ins
      /\ rob'[s].prs1 = rob[s].prs1 /\ rob'[s].old_pdest = rob[s].old_pdest
      /\ rob'[s].read_rs1 = rob[s].read_rs1 /\ rob'[s].rs1_val = rob[s].rs1_val
      /\ rob'[s].ready
  <2>1. CASE rob'[s] = [rob[s] EXCEPT !.ready = TRUE]
    BY <1>3, <2>1, Zenon DEF RobEntry
  <2>2. CASE rob'[s] = [rob[s] EXCEPT !.ready = TRUE, !.exception = TRUE]
    BY <1>3, <2>2, Zenon DEF RobEntry
  <2>3. QED
    BY <1>4, <2>1, <2>2, Zenon
<1>6. /\ \A t \in Slots : t # s => rob'[t] = rob[t]
      /\ rob' = [t \in Slots |-> rob'[t]]
  BY <1>2, Zenon
<1>7. rob' \in [Slots -> RobEntry \cup {NoEntry}]
  <2>1. \A t \in Slots : rob'[t] \in RobEntry \cup {NoEntry}
    BY <1>2, <1>5, <1>6, Zenon
  <2>2. QED
    BY <1>6, <2>1, Zenon
<1>8. SameInsns(Live, rob, rob')
  BY <1>2, <1>5, <1>6, Zenon DEF SameInsns
<1>9. QED
  BY <1>1, <1>2, <1>5, <1>6, <1>7, <1>8, Zenon DEF MarkedReady

(***************************************************************************)
(* The end of an execution, without a rollback.                            *)
(***************************************************************************)
LEMMA CompleteKeeps ==
  ASSUME OooAssumption, OooInv, NEW s \in fu,
         \/ rob' = [rob EXCEPT ![s].ready = TRUE]
         \/ rob' = [rob EXCEPT ![s].ready = TRUE, ![s].exception = TRUE],
         fu' = fu \ {s},
         UNCHANGED <<cq, int_rat, reg, iq, ins_dispatch_id, asserts>>
  PROVE  OooInv'
<1>1. /\ s \in Live /\ rob'[s].ready
      /\ rob' \in [Slots -> RobEntry \cup {NoEntry}]
      /\ SameInsns(Live, rob, rob')
      /\ \A t \in Live : t # s => rob'[t] = rob[t]
      /\ MarkedReady(Live, rob, rob')
  BY MarkReady, Zenon
<1>2. QueueInv' /\ Live' = Live
  BY <1>1, SameQueue, Zenon
<1>3. Renaming(Live, rob, int_rat, reg, ins_dispatch_id) /\ ins_dispatch_id \in Nat
  BY Zenon DEF OooInv, Types
<1>4. \A t \in Live :
        /\ rob'[t] \in RobEntry
        /\ rob'[t].old_pdest = rob[t].old_pdest /\ rob'[t].prs1 = rob[t].prs1
        /\ rob[t].ready \/ rob[t].read_rs1 => rob'[t].ready \/ rob'[t].read_rs1
        /\ rob'[t].read_rs1 =>
             ReadsLast(Live, rob, reg, rob'[t].rs1_val, rob[t].ins.rs, rob[t].id)
  BY <1>1, <1>3, Zenon DEF Renaming, MarkedReady
<1>5. Renaming(Live, rob', int_rat, reg, ins_dispatch_id)
  BY <1>1, <1>3, <1>4, UpdateRenaming, Zenon
<1>6. Renaming(Live, rob, int_rat, reg, ins_dispatch_id)'
  BY <1>2, <1>5, Zenon
<1>7. Types'
  BY <1>1, Zenon DEF OooInv, Types
<1>8. IssueInv'
  <2>1. ASSUME NEW i \in DOMAIN iq, iq[i].valid
        PROVE  /\ iq[i].e \in Live \ fu /\ ~rob[iq[i].e].ready
               /\ \A j \in DOMAIN iq : iq[j].valid /\ iq[j].e = iq[i].e => j = i
               /\ iq[i].ready => rob[iq[i].e].read_rs1
               /\ rob'[iq[i].e] = rob[iq[i].e]
    BY <1>1, <2>1, Zenon DEF OooInv, IssueInv, NothingLeftBehind
  <2>2. \A t \in fu' : t \in Live /\ ~rob'[t].ready /\ rob'[t].read_rs1
    BY <1>1, Zenon DEF OooInv, IssueInv, NothingLeftBehind
  <2>3. QED
    BY <1>2, <2>1, <2>2, Zenon DEF IssueInv, NothingLeftBehind
<1>9. QED
  BY <1>2, <1>6, <1>7, <1>8, Zenon DEF OooInv

(***************************************************************************)
(* A hint leaves its functional unit, and its entry is as it was.          *)
(***************************************************************************)
LEMMA HintKeeps ==
  ASSUME OooAssumption, OooInv, NEW s \in fu, rob[s].ins.kind = "hint", Execute(s)
  PROVE  OooInv'
<1>1. /\ rob' = [rob EXCEPT ![s].ready = (rob[s].ins.kind # "hint")]
      /\ fu' = fu \ {s} /\ cq' = cq /\ int_rat' = int_rat /\ reg' = reg
      /\ iq' = iq /\ ins_dispatch_id' = ins_dispatch_id /\ asserts' = asserts
  BY Zenon DEF Execute
<1>2. s \in Live /\ ~rob[s].ready
  BY Zenon DEF OooInv, IssueInv, NothingLeftBehind
<1>3. /\ rob \in [Slots -> RobEntry \cup {NoEntry}]
      /\ s \in Slots /\ rob[s] \in RobEntry
  BY <1>2, InvFacts, Zenon DEF OooInv, Types
<1>4. rob' = rob
  <2>1. rob[s].ready = FALSE
    BY <1>2, <1>3, Zenon DEF RobEntry
  <2>2. [rob[s] EXCEPT !.ready = FALSE] = rob[s]
    BY <1>3, <2>1, SMT DEF RobEntry
  <2>3. rob' = [rob EXCEPT ![s] = [rob[s] EXCEPT !.ready = FALSE]]
    BY <1>1, Zenon
  <2>4. QED
    BY <1>3, <2>2, <2>3, Zenon
<1>5. Live' = Live
  BY <1>1, Zenon DEF Live
<1>6. Types' /\ QueueInv'
  BY <1>1, <1>4, <1>5, Zenon DEF OooInv, Types, QueueInv
<1>7. Renaming(Live, rob, int_rat, reg, ins_dispatch_id)'
  BY <1>1, <1>4, <1>5, Zenon DEF OooInv
<1>8. IssueInv'
  <2>1. ASSUME NEW i \in DOMAIN iq, iq[i].valid
        PROVE  /\ iq[i].e \in Live \ fu /\ ~rob[iq[i].e].ready
               /\ \A j \in DOMAIN iq : iq[j].valid /\ iq[j].e = iq[i].e => j = i
               /\ iq[i].ready => rob[iq[i].e].read_rs1
    BY <2>1, Zenon DEF OooInv, IssueInv, NothingLeftBehind
  <2>2. \A t \in fu' : t \in Live /\ ~rob[t].ready /\ rob[t].read_rs1
    BY <1>1, Zenon DEF OooInv, IssueInv, NothingLeftBehind
  <2>3. QED
    BY <1>1, <1>4, <1>5, <2>1, <2>2, Zenon DEF IssueInv, NothingLeftBehind
<1>9. QED
  BY <1>1, <1>6, <1>7, <1>8, Zenon DEF OooInv

(***************************************************************************)
(* restore_rob and fix_rename_tables, for one register.                    *)
(***************************************************************************)
LEMMA RestoredRatRight ==
  ASSUME OooAssumption, OooInv, NEW s \in Live,
         NEW q, q = cq_set_rear(cq, s), NEW R2, SameInsns(Live, rob, R2),
         NEW L2, L2 = {t \in Live : rob[t].id <= rob[s].id},
         L2 = CqSlots(q, RobSize), QueueOK(q, RobSize), ~cq_empty(q),
         NEW r \in Regs
  PROVE  MapsLast(L2, R2, FixedRat(RestoredRat(s), q)[r], r, ins_dispatch_id)
<1> DEFINE c == RestoredRat(s)[r]
           b == rob[s].id
           n == ins_dispatch_id
           W == {t \in Squashed(s) : rob[t].ins.rd = r /\ r # 0}
<1>1. /\ Numbered(Live, rob, n) /\ n \in Nat /\ b \in Nat /\ Live \subseteq Slots
      /\ -1 \notin Slots
      /\ \A t \in Live : rob[t] \in RobEntry
  BY InvFacts, Zenon
<1>2. MapsLast(Live, rob, int_rat[r], r, n)
  BY Zenon DEF OooInv, Renaming
<1>3. W = {t \in Live : rob[t].id > b /\ rob[t].ins.rd = r /\ r # 0}
  BY Zenon DEF Squashed
<1>4. /\ c.read_from_rob => c.rob_idx \in Slots
      /\ MapsLast(L2, R2, Fixed(c, L2), r, n)
  <2>1. CASE W = {}
    <3>1. c = int_rat[r]
      BY <2>1, Zenon DEF RestoredRat
    <3>2. c.read_from_rob => c.rob_idx \in Slots
      <4>1. CASE int_rat[r] = NotRenamed
        BY <3>1, <4>1 DEF NotRenamed
      <4>2. ASSUME NEW p \in Live, int_rat[r] = Renamed(p)
            PROVE  int_rat[r].rob_idx \in Slots
        BY <1>1, <4>2 DEF Renamed
      <4>3. QED
        BY <1>2, <3>1, <4>1, <4>2, Zenon DEF MapsLast
    <3>3. \A t \in Live : rob[t].id > b => ~(rob[t].ins.rd = r /\ r # 0)
      BY <1>3, <2>1, Zenon
    <3> HIDE DEF c, b, n
    <3>4. L2 = {t \in Live : rob[t].id <= b}
      BY Zenon DEF b
    <3>5. MapsLast(Live, rob, c, r, n)
      BY <1>2, <3>1, Zenon
    <3>6. MapsLast(L2, R2, Fixed(c, L2), r, n)
      BY <1>1, <3>3, <3>4, <3>5, KeptMap, Zenon
    <3>7. QED
      BY <3>2, <3>6, Zenon
  <2>2. CASE W # {}
    <3> DEFINE o == CHOOSE t \in W : \A u \in W : rob[t].id <= rob[u].id
               p == rob[o].old_pdest
    <3>1. W \in SUBSET Live
      BY <1>3, Zenon
    <3>2. \E t \in W : \A u \in W : rob[t].id <= rob[u].id
      BY <1>1, <2>2, <3>1, OldestExists, ZenonT(30)
    <3>3. o \in W /\ \A u \in W : rob[o].id <= rob[u].id
      BY <3>2, Zenon
    <3>4. c = [rob_idx |-> p, read_from_rob |-> p # -1]
      BY <2>2, Zenon DEF RestoredRat
    <3> HIDE DEF o
    <3>5. /\ o \in Live /\ rob[o].id > b /\ rob[o].ins.rd = r /\ r # 0
          /\ \A u \in Live : rob[u].id > b /\ rob[u].ins.rd = r => rob[o].id <= rob[u].id
      BY <1>3, <3>3, Zenon
    <3>6. p \in Slots \cup {-1}
      BY <1>1, <3>5, Zenon DEF RobEntry
    <3>7. Refers(Live, rob, p, r, rob[o].id)
      BY <3>5, Zenon DEF OooInv, Renaming
    <3> HIDE DEF p, c, b, n
    <3>8. c.read_from_rob => c.rob_idx \in Slots
      BY <3>4, <3>6, Zenon
    <3>9. L2 = {t \in Live : rob[t].id <= b} /\ -1 \notin Live
      BY <1>1 DEF b
    <3>10. MapsLast(L2, R2, Fixed(c, L2), r, n)
      BY <1>1, <3>4, <3>5, <3>7, <3>9, RestoredMap, Zenon
    <3>11. QED
      BY <3>8, <3>10, Zenon
  <2>3. QED
    BY <2>1, <2>2, Zenon
<1>5. FixedRat(RestoredRat(s), q)[r] = Fixed(c, L2)
  <2>1. FixedRat(RestoredRat(s), q)[r] =
          IF c.read_from_rob /\ ~InRob(q, c.rob_idx) THEN NotRenamed ELSE c
    BY Zenon DEF FixedRat
  <2> HIDE DEF c
  <2>2. c.read_from_rob => (InRob(q, c.rob_idx) <=> c.rob_idx \in L2)
    BY <1>4, InRobMeans, Zenon
  <2>3. QED
    BY <2>1, <2>2, Zenon DEF Fixed
<1>6. QED
  BY <1>4, <1>5, Zenon

(***************************************************************************)
(* A mispredicted branch.                                                  *)
(***************************************************************************)
LEMMA MispredictKeeps ==
  ASSUME OooAssumption, OooInv, NEW s \in Slots, Mispredict(s)
  PROVE  OooInv'
<1> DEFINE q == cq_set_rear(cq, s)
           L2 == {t \in Live : rob[t].id <= rob[s].id}
           m == FixedRat(RestoredRat(s), q)
<1>1. /\ s \in fu /\ cq' = q /\ rob' = [rob EXCEPT ![s].ready = TRUE]
      /\ int_rat' = m
      /\ iq' = [i \in DOMAIN iq |->
                  IF iq[i].valid /\ rob[iq[i].e].id > rob[s].id
                  THEN [iq[i] EXCEPT !.valid = FALSE] ELSE iq[i]]
      /\ fu' = {t \in fu : rob[t].id < rob[s].id}
      /\ asserts' = \A t \in Squashed(s) :
                       rob[t].ins.rd # 0 => rob[t].old_pdest # t
      /\ UNCHANGED <<reg, ins_dispatch_id>>
  BY Zenon DEF Mispredict
<1>2. /\ s \in Live /\ rob'[s].ready
      /\ rob' \in [Slots -> RobEntry \cup {NoEntry}]
      /\ SameInsns(Live, rob, rob')
      /\ \A t \in Live : t # s => rob'[t] = rob[t]
      /\ MarkedReady(Live, rob, rob')
  BY <1>1, MarkReady, Zenon
<1>3. /\ QueueInv /\ ins_dispatch_id \in Nat
      /\ Numbered(Live, rob, ins_dispatch_id)
      /\ Live \subseteq Slots /\ \A t \in Live : rob[t].id \in Nat
  BY InvFacts, Zenon
<1> HIDE DEF q
<1>4. /\ QueueOK(q, RobSize) /\ InOrder(q, RobSize, Ids(rob')) /\ ~cq_empty(q)
      /\ CqSlots(q, RobSize) = L2
  <2>1. /\ QueueOK(cq, RobSize) /\ InOrder(cq, RobSize, Ids(rob))
        /\ SameInsns(Live, rob, rob')
    BY <1>2, <1>3, Zenon DEF QueueInv
  <2>2. s \in CqSlots(cq, RobSize) /\ q = cq_set_rear(cq, s)
    BY <1>2, Zenon DEF Live, q
  <2>3. QED
    BY <2>1, <2>2, SetRearOrder DEF Live
<1> HIDE DEF L2
<1>5. Live' = L2 /\ QueueInv'
  BY <1>1, <1>4, Zenon DEF Live, QueueInv
<1>6. ASSUME NEW r \in Regs PROVE MapsLast(L2, rob', m[r], r, ins_dispatch_id)
  BY <1>2, <1>4, RestoredRatRight, Zenon DEF q, L2
<1>7. Renaming(Live, rob, int_rat, reg, ins_dispatch_id)
  BY Zenon DEF OooInv
<1> HIDE DEF m
<1>8. Renaming(L2, rob', m, reg, ins_dispatch_id)
  <2> DEFINE b == rob[s].id
  <2>1. b \in Nat /\ L2 = {t \in Live : rob[t].id <= b}
    BY <1>2, <1>3, Zenon DEF L2
  <2>2. /\ ins_dispatch_id \in Nat
        /\ SameInsns(Live, rob, rob') /\ MarkedReady(Live, rob, rob')
    BY <1>2, <1>3, Zenon
  <2> HIDE DEF b
  <2>3. \A r \in Regs : MapsLast(L2, rob', m[r], r, ins_dispatch_id)
    BY <1>6, Zenon
  <2>4. QED
    BY <1>7, <2>1, <2>2, <2>3, CutRenaming, ZenonT(30)
<1>9. Renaming(Live, rob, int_rat, reg, ins_dispatch_id)'
  BY <1>1, <1>5, <1>8, Zenon
<1>10. asserts'
  <2> SUFFICES ASSUME NEW t \in Squashed(s), rob[t].ins.rd # 0
               PROVE  rob[t].old_pdest # t
    BY <1>1, Zenon
  <2>1. t \in Live /\ rob[t].id \in Nat
    BY <1>3, Zenon DEF Squashed
  <2>2. Refers(Live, rob, rob[t].old_pdest, rob[t].ins.rd, rob[t].id)
    BY <1>7, <2>1, Zenon DEF Renaming
  <2>3. QED
    BY <2>1, <2>2 DEF Refers, IsLast
<1>11. Types'
  <2> DEFINE E == [valid : BOOLEAN, ready : BOOLEAN, e : Slots \cup {-1}]
             C == [rob_idx : Slots \cup {-1}, read_from_rob : BOOLEAN]
  <2>1. /\ iq \in [0 .. IqSize - 1 -> E] /\ fu \subseteq Slots
        /\ reg \in [Regs -> Nat] /\ ins_dispatch_id \in Nat
    BY Zenon DEF OooInv, Types
  <2>2. \A i \in DOMAIN iq : iq[i] \in E /\ [iq[i] EXCEPT !.valid = FALSE] \in E
    BY <2>1, ZenonT(30)
  <2>3. \A r \in Regs : m[r] \in C
    <3>1. TAKE r \in Regs
    <3>2. L2 \subseteq Slots
      BY <1>3, Zenon DEF L2
    <3>3. NotRenamed \in C /\ \A p \in Slots : Renamed(p) \in C
      BY Zenon DEF NotRenamed, Renamed
    <3>4. QED
      BY <1>6, <3>2, <3>3, Zenon DEF MapsLast
  <2> HIDE DEF E, C
  <2>4. iq' \in [0 .. IqSize - 1 -> E]
    BY <1>1, <2>1, <2>2, Zenon
  <2>5. int_rat' \in [Regs -> C]
    BY <1>1, <2>3, Zenon DEF m, FixedRat
  <2>6. fu' \subseteq Slots /\ reg' \in [Regs -> Nat] /\ ins_dispatch_id' \in Nat
    BY <1>1, <2>1, Zenon
  <2>7. QED
    BY <1>2, <2>4, <2>5, <2>6, Zenon DEF Types, E, C
<1>12. IssueInv'
  <2>1. ASSUME NEW i \in DOMAIN iq, iq[i].valid
        PROVE  /\ iq[i].e \in Live \ fu /\ ~rob[iq[i].e].ready
               /\ \A j \in DOMAIN iq : iq[j].valid /\ iq[j].e = iq[i].e => j = i
               /\ iq[i].ready => rob[iq[i].e].read_rs1
               /\ rob'[iq[i].e] = rob[iq[i].e]
    BY <1>1, <1>2, <2>1 DEF OooInv, IssueInv, NothingLeftBehind
  <2>2. /\ DOMAIN iq' = DOMAIN iq
        /\ \A i \in DOMAIN iq : iq'[i].valid =>
             iq[i].valid /\ iq'[i] = iq[i] /\ ~(rob[iq[i].e].id > rob[s].id)
    <3>1. \A i \in DOMAIN iq : [iq[i] EXCEPT !.valid = FALSE].valid = FALSE
      BY Zenon DEF OooInv, Types
    <3>2. QED
      BY <1>1, <3>1, Zenon
  <2>3. \A i \in DOMAIN iq : iq'[i].valid => iq[i].e \in L2
    BY <1>2, <1>3, <2>1, <2>2 DEF L2
  <2>4. ASSUME NEW t \in fu'
        PROVE  t \in L2 /\ ~rob'[t].ready /\ rob'[t].read_rs1
    <3>1. t \in fu /\ rob[t].id < rob[s].id
      BY <1>1, Zenon
    <3>2. t \in Live /\ ~rob[t].ready /\ rob[t].read_rs1
      BY <3>1, Zenon DEF OooInv, IssueInv, NothingLeftBehind
    <3>3. t # s /\ rob[t].id <= rob[s].id
      BY <1>2, <1>3, <3>1, <3>2
    <3>4. QED
      BY <1>2, <3>2, <3>3, Zenon DEF L2
  <2>5. fu' \subseteq fu
    BY <1>1, Zenon
  <2>6. QED
    BY <1>5, <2>1, <2>2, <2>3, <2>4, <2>5 DEF IssueInv, NothingLeftBehind
<1>13. QED
  BY <1>5, <1>9, <1>10, <1>11, <1>12, Zenon DEF OooInv

(***************************************************************************)
(* A commit.                                                               *)
(***************************************************************************)
LEMMA CommitKeeps ==
  ASSUME OooAssumption, ExceptionsHaveNoDest, OooInv, Commit
  PROVE  OooInv'
<1> DEFINE x == cq.front
           rd == rob[x].ins.rd
           n == ins_dispatch_id
<1>1. /\ ~cq_empty(cq) /\ rob[x].ready
      /\ reg' = IF rd = 0 THEN reg ELSE [reg EXCEPT ![rd] = rob[x].id + 1]
      /\ int_rat' = IF rd # 0 /\ int_rat[rd].rob_idx = x
                    THEN [int_rat EXCEPT ![rd] = NotRenamed] ELSE int_rat
      /\ rob' = [rob EXCEPT ![x].ready = FALSE]
      /\ cq' = cq_dequeue(cq, RobSize)
      /\ UNCHANGED <<iq, fu, ins_dispatch_id, asserts>>
  BY Zenon DEF Commit, CanCommit, Result
<1>2. /\ QueueInv /\ n \in Nat
      /\ Numbered(Live, rob, n) /\ Live \subseteq Slots
      /\ \A t \in Live : rob[t] \in RobEntry /\ rob[t].ins.rd \in Regs
      /\ RobSize \in Nat \ {0}
  BY InvFacts, Zenon
<1>3. /\ rob \in [Slots -> RobEntry \cup {NoEntry}]
      /\ int_rat \in [Regs -> [rob_idx : Slots \cup {-1}, read_from_rob : BOOLEAN]]
      /\ reg \in [Regs -> Nat]
  BY Zenon DEF OooInv, Types
<1>4. x \in Live
  BY <1>1, <1>2, DequeueSlots, Zenon DEF Live, QueueInv
<1>5. x \in Slots /\ rob[x] \in RobEntry /\ rd \in Regs /\ rob[x].id \in Nat
  BY <1>2, <1>4, Zenon DEF RobEntry
<1> HIDE DEF x
<1>6. /\ SameEntries(Live \ {x}, rob, rob')
      /\ rob' \in [Slots -> RobEntry \cup {NoEntry}]
  <2>1. /\ \A t \in Slots : t # x => rob'[t] = rob[t]
        /\ rob'[x] = [rob[x] EXCEPT !.ready = FALSE]
        /\ rob' = [t \in Slots |-> rob'[t]]
    BY <1>1, <1>3, <1>5, Zenon
  <2>2. rob'[x] \in RobEntry
    BY <1>5, <2>1, Zenon DEF RobEntry
  <2>3. \A t \in Slots : rob'[t] \in RobEntry \cup {NoEntry}
    BY <1>3, <2>1, <2>2, Zenon
  <2>4. rob' \in [Slots -> RobEntry \cup {NoEntry}]
    BY <2>1, <2>3, Zenon
  <2>5. QED
    BY <1>2, <2>1, <2>4, Zenon DEF SameEntries
<1>7. /\ QueueOK(cq', RobSize) /\ InOrder(cq', RobSize, Ids(rob'))
      /\ \A t \in Live : t # x => rob[x].id < rob[t].id
      /\ Live' = Live \ {x}
  <2> DEFINE L == CqSlots(cq, RobSize)
  <2>1. SameEntries(L \ {cq.front}, rob, rob') /\ Numbered(L, rob, n) /\ Live = L
    BY <1>2, <1>6, Zenon DEF Live, x
  <2>2. /\ ~cq_empty(cq) /\ cq' = cq_dequeue(cq, RobSize)
        /\ QueueOK(cq, RobSize) /\ InOrder(cq, RobSize, Ids(rob))
    BY <1>1, <1>2, Zenon DEF QueueInv
  <2>3. /\ QueueOK(cq', RobSize) /\ InOrder(cq', RobSize, Ids(rob'))
        /\ \A t \in L : t # cq.front => rob[cq.front].id < rob[t].id
        /\ CqSlots(cq', RobSize) = L \ {cq.front}
    BY <2>1, <2>2, DequeueOrder, Zenon
  <2>4. QED
    BY <2>1, <2>3, Zenon DEF Live, x
<1>8. Renaming(Live, rob, int_rat, reg, n)
  BY Zenon DEF OooInv
<1>9. Renaming(Live \ {x}, rob', int_rat', reg', n)
  <2>1. DOMAIN int_rat = Regs /\ DOMAIN reg = Regs
    BY <1>3, Zenon
  <2>2. /\ reg' = IF rob[x].ins.rd = 0 THEN reg
                 ELSE [reg EXCEPT ![rob[x].ins.rd] = rob[x].id + 1]
        /\ int_rat' = IF rob[x].ins.rd # 0 /\ int_rat[rob[x].ins.rd].rob_idx = x
                      THEN [int_rat EXCEPT ![rob[x].ins.rd] = NotRenamed] ELSE int_rat
    BY <1>1, Zenon
  <2>3. /\ n \in Nat /\ x \in Live /\ SameEntries(Live \ {x}, rob, rob')
        /\ \A t \in Live : t # x => rob[x].id < rob[t].id
    BY <1>2, <1>4, <1>6, <1>7
  <2>4. QED
    BY <1>8, <2>1, <2>2, <2>3, PopRenaming, Zenon
<1>10. Renaming(Live, rob, int_rat, reg, ins_dispatch_id)'
  BY <1>1, <1>7, <1>9, Zenon
<1>11. Types'
  <2>1. reg' \in [Regs -> Nat]
    BY <1>1, <1>3, <1>5
  <2>2. int_rat' \in [Regs -> [rob_idx : Slots \cup {-1}, read_from_rob : BOOLEAN]]
    <3> DEFINE C == [rob_idx : Slots \cup {-1}, read_from_rob : BOOLEAN]
    <3>1. NotRenamed \in C
      BY Zenon DEF NotRenamed
    <3>2. int_rat \in [Regs -> C]
      BY <1>3, Zenon
    <3> HIDE DEF C
    <3>3. int_rat' \in [Regs -> C]
      BY <1>1, <1>5, <3>1, <3>2, Zenon
    <3>4. QED
      BY <3>3, Zenon DEF C
  <2>3. QED
    BY <1>1, <1>6, <2>1, <2>2, Zenon DEF OooInv, Types
<1>12. IssueInv'
  <2>1. ASSUME NEW i \in DOMAIN iq, iq[i].valid
        PROVE  /\ iq[i].e \in Live \ fu /\ ~rob[iq[i].e].ready
               /\ \A j \in DOMAIN iq : iq[j].valid /\ iq[j].e = iq[i].e => j = i
               /\ iq[i].ready => rob[iq[i].e].read_rs1
               /\ iq[i].e # x
    BY <1>1, <2>1, Zenon DEF OooInv, IssueInv, NothingLeftBehind
  <2>2. \A t \in fu : t \in Live /\ ~rob[t].ready /\ rob[t].read_rs1 /\ t # x
    BY <1>1, Zenon DEF OooInv, IssueInv, NothingLeftBehind
  <2>3. \A t \in Live \ {x} : rob'[t] = rob[t]
    BY <1>6, Zenon DEF SameEntries
  <2>4. QED
    BY <1>1, <1>7, <2>1, <2>2, <2>3 DEF IssueInv, NothingLeftBehind
<1>13. QED
  BY <1>1, <1>7, <1>10, <1>11, <1>12, Zenon DEF OooInv, QueueInv

(***************************************************************************)
(* oo_core_reset establishes the invariant.                                *)
(***************************************************************************)
LEMMA InitHolds == OooAssumption /\ Init => OooInv
<1> SUFFICES ASSUME OooAssumption, Init PROVE OooInv
  BY Zenon
<1>1. RobSize \in Nat \ {0}
  BY Zenon DEF OooAssumption
<1>2. QueueOK(cq, RobSize) /\ cq_empty(cq)
  BY Zenon DEF Init, QueueOK, cq_empty, cq_reset
<1>3. Live = {}
  BY <1>1, <1>2, SlotsInUse, Zenon DEF Live
<1>4. QueueInv
  BY <1>2, <1>3, Zenon DEF QueueInv, InOrder, Live
<1>5. Types
  BY Zenon DEF Init, Types, NotRenamed, FreeIqEntry
<1>6. Renaming(Live, rob, int_rat, reg, ins_dispatch_id)
  BY <1>3, Zenon DEF Init, Renaming, Numbered, MapsLast, NoneBefore
<1>7. IssueInv
  BY Zenon DEF Init, IssueInv, NothingLeftBehind, FreeIqEntry
<1>8. QED
  BY <1>4, <1>5, <1>6, <1>7, Zenon DEF OooInv, Init

(***************************************************************************)
(* Leaving the loop and entering it again resets the core.                 *)
(***************************************************************************)
LEMMA SimExitKeeps ==
  ASSUME OooAssumption, SimExit
  PROVE  OooInv'
<1>1. Init'
  BY Zenon DEF SimExit, Init
<1>2. QED
  BY <1>1, InitHolds, PTL

(***************************************************************************)
(* Every step of the core keeps the invariant.                             *)
(***************************************************************************)
LEMMA StepKeeps ==
  ASSUME OooAssumption, ExceptionsHaveNoDest, OooInv, [Next]_vars
  PROVE  OooInv'
<1>1. CASE Dispatch
  BY <1>1, DispatchExceptionKeeps, DispatchRenamedKeeps, Zenon DEF Dispatch
<1>2. CASE Issue
  BY <1>2, ProcessIqKeeps, Zenon DEF Issue
<1>3. CASE Stall
  BY <1>3, ProcessIqKeeps, Zenon DEF Stall
<1>4. CASE Complete
  <2>1. ASSUME NEW s \in Slots, Execute(s) PROVE OooInv'
    <3>1. s \in fu
      BY <2>1, Zenon DEF Execute
    <3>2. CASE rob[s].ins.kind = "hint"
      BY <2>1, <3>1, <3>2, HintKeeps, Zenon
    <3>3. CASE rob[s].ins.kind # "hint"
      <4>1. /\ rob' = [rob EXCEPT ![s].ready = TRUE] /\ fu' = fu \ {s}
            /\ UNCHANGED <<cq, int_rat, reg, iq, ins_dispatch_id, asserts>>
        BY <2>1, <3>3, Zenon DEF Execute
      <4>2. QED
        BY <3>1, <4>1, CompleteKeeps, Zenon
    <3>4. QED
      BY <3>2, <3>3, Zenon
  <2>2. ASSUME NEW s \in Slots, LoadFault(s) PROVE OooInv'
    BY <2>2, CompleteKeeps, Zenon DEF LoadFault
  <2>3. QED
    BY <1>4, <2>1, <2>2, MispredictKeeps, Zenon DEF Complete
<1>5. CASE Commit
  BY <1>5, CommitKeeps, Zenon
<1>6. CASE SimExit
  BY <1>6, SimExitKeeps, Zenon
<1>7. CASE UNCHANGED vars
  <2>1. /\ cq' = cq /\ rob' = rob /\ int_rat' = int_rat /\ reg' = reg /\ iq' = iq
        /\ fu' = fu /\ ins_dispatch_id' = ins_dispatch_id /\ asserts' = asserts
    BY <1>7, Zenon DEF vars
  <2>2. Live' = Live
    BY <2>1, Zenon DEF Live
  <2>3. Types' /\ QueueInv' /\ IssueInv'
    BY <2>1, <2>2, Zenon DEF OooInv, Types, QueueInv, IssueInv, NothingLeftBehind
  <2>4. Renaming(Live, rob, int_rat, reg, ins_dispatch_id)'
    BY <2>1, <2>2, Zenon DEF OooInv
  <2>5. QED
    BY <2>1, <2>3, <2>4, Zenon DEF OooInv
<1>8. QED
  BY <1>1, <1>2, <1>3, <1>4, <1>5, <1>6, <1>7, Zenon DEF Next, Idle

(***************************************************************************)
(* The invariant holds in every state of the core.                         *)
(***************************************************************************)
THEOREM Invariance == ExceptionsHaveNoDest => (Spec => []OooInv)
<1> SUFFICES ASSUME ExceptionsHaveNoDest PROVE Spec => []OooInv
  BY Zenon
<1>1. Init => OooInv
  BY OooAssumption, InitHolds, Zenon
<1>2. OooInv /\ [Next]_vars => OooInv'
  BY OooAssumption, StepKeeps, Zenon
<1>3. QED
  BY <1>1, <1>2, PTL DEF Spec

(***************************************************************************)
(* What Youngest chooses is the last writer, which is unique.              *)
(***************************************************************************)
LEMMA YoungestIsLast ==
  ASSUME OooAssumption, OooInv, NEW p, NEW W \in SUBSET Live,
         p \in W, \A u \in W : rob[u].id <= rob[p].id
  PROVE  Youngest(W) = p
<1> DEFINE y == Youngest(W)
<1>1. y \in W /\ \A u \in W : rob[u].id <= rob[y].id
  BY Zenon DEF Youngest
<1> HIDE DEF y
<1>2. rob[y].id <= rob[p].id /\ rob[p].id <= rob[y].id
  BY <1>1, Zenon
<1>3. y \in Live /\ p \in Live /\ rob[y].id \in Nat /\ rob[p].id \in Nat
  BY <1>1, InvFacts, Zenon
<1>4. rob[y].id = rob[p].id
  BY <1>2, <1>3
<1>5. Numbered(Live, rob, ins_dispatch_id)
  BY InvFacts, Zenon
<1>6. y = p
  BY <1>3, <1>4, <1>5, Zenon DEF Numbered
<1>7. QED
  BY <1>6, Zenon DEF y

(***************************************************************************)
(* The rename table always maps a register to the youngest instruction in  *)
(* the ROB that writes it, or to the register file: through any number of  *)
(* wrap-arounds, commits and rollbacks that put back old_pdest.            *)
(***************************************************************************)
THEOREM RatCorrectAlways == ExceptionsHaveNoDest => (Spec => []RatCorrect)
<1> SUFFICES ASSUME ExceptionsHaveNoDest PROVE Spec => []RatCorrect
  BY Zenon
<1>1. OooInv => RatCorrect
  <2> SUFFICES ASSUME OooInv, NEW r \in Regs
               PROVE  int_rat[r] = IF Writers(r) = {} THEN NotRenamed
                                   ELSE [rob_idx |-> Youngest(Writers(r)),
                                         read_from_rob |-> TRUE]
    BY Zenon DEF RatCorrect
  <2> DEFINE n == ins_dispatch_id
  <2>1. MapsLast(Live, rob, int_rat[r], r, n) /\ \A t \in Live : rob[t].id < n
    BY Zenon DEF OooInv, Renaming, Numbered
  <2>2. \A t : t \in Writers(r) <=> t \in Live /\ Writes(rob, t, r)
    BY Zenon DEF Writers, Writes
  <2>3. CASE NoneBefore(Live, rob, r, n) /\ int_rat[r] = NotRenamed
    <3>1. Writers(r) = {}
      BY <2>1, <2>2, <2>3, Zenon DEF NoneBefore
    <3>2. QED
      BY <2>3, <3>1, Zenon
  <2>4. ASSUME NEW p \in Live, IsLast(Live, rob, p, r, n), int_rat[r] = Renamed(p)
        PROVE  Writers(r) # {} /\ int_rat[r] = Renamed(Youngest(Writers(r)))
    <3>1. p \in Writers(r) /\ \A u \in Writers(r) : rob[u].id <= rob[p].id
      BY <2>1, <2>2, <2>4, Zenon DEF IsLast
    <3>2. Writers(r) \in SUBSET Live
      BY <2>2, Zenon
    <3>3. Youngest(Writers(r)) = p
      BY <3>1, <3>2, OooAssumption, YoungestIsLast, Zenon
    <3>4. QED
      BY <2>4, <3>1, <3>3, Zenon
  <2>5. QED
    BY <2>1, <2>3, <2>4, Zenon DEF MapsLast, Renamed
<1>2. QED
  BY <1>1, Invariance, PTL

(***************************************************************************)
(* Every operand that an instruction in the ROB has read, from another     *)
(* entry or from the register file, is the last write before it.           *)
(***************************************************************************)
THEOREM OperandsCorrectAlways == ExceptionsHaveNoDest => (Spec => []OperandsCorrect)
<1> SUFFICES ASSUME ExceptionsHaveNoDest PROVE Spec => []OperandsCorrect
  BY Zenon
<1>1. OooInv => OperandsCorrect
  <2> SUFFICES ASSUME OooInv, NEW s \in Live, rob[s].read_rs1
               PROVE  LET r == rob[s].ins.rs
                          W == {t \in Writers(r) : rob[t].id < rob[s].id}
                      IN  rob[s].rs1_val = IF W = {} THEN reg[r] ELSE Result(Youngest(W))
    BY Zenon DEF OperandsCorrect
  <2> DEFINE r == rob[s].ins.rs
             n == rob[s].id
             W == {t \in Writers(r) : rob[t].id < rob[s].id}
             v == rob[s].rs1_val
  <2>1. ReadsLast(Live, rob, reg, v, r, n)
    BY Zenon DEF OooInv, Renaming
  <2>2. \A t : t \in W <=> t \in Live /\ Writes(rob, t, r) /\ rob[t].id < n
    BY Zenon DEF Writers, Writes
  <2> HIDE DEF W, r, n, v
  <2>3. CASE NoneBefore(Live, rob, r, n) /\ v = reg[r]
    <3>1. W = {}
      BY <2>2, <2>3, Zenon DEF NoneBefore
    <3>2. QED
      BY <2>3, <3>1, Zenon DEF W, r, v
  <2>4. ASSUME NEW p \in Live, IsLast(Live, rob, p, r, n), v = rob[p].id + 1
        PROVE  W # {} /\ v = Result(Youngest(W))
    <3>1. p \in W /\ \A u \in W : rob[u].id <= rob[p].id
      BY <2>2, <2>4, Zenon DEF IsLast
    <3>2. W \in SUBSET Live
      BY <2>2, Zenon
    <3>3. Youngest(W) = p
      BY <3>1, <3>2, OooAssumption, YoungestIsLast, Zenon
    <3>4. QED
      BY <2>4, <3>1, <3>3, Zenon DEF Result
  <2>5. QED
    BY <2>1, <2>3, <2>4, Zenon DEF ReadsLast, W, r, v
<1>2. QED
  BY <1>1, Invariance, PTL

(***************************************************************************)
(* The issue queue and the functional units hold instructions of the ROB   *)
(* only, each in one place: a rollback leaves none behind.                 *)
(***************************************************************************)
THEOREM NothingLeftBehindAlways ==
  ExceptionsHaveNoDest => (Spec => []NothingLeftBehind)
<1>1. OooInv => NothingLeftBehind
  BY Zenon DEF OooInv, IssueInv
<1>2. QED
  BY <1>1, Invariance, PTL

(***************************************************************************)
(* No assertion of rename, operand read and rollback ever fails.           *)
(***************************************************************************)
THEOREM AssertionsHoldAlways == ExceptionsHaveNoDest => (Spec => []AssertionsHold)
<1>1. OooInv => AssertionsHold
  BY Zenon DEF OooInv, AssertionsHold
<1>2. QED
  BY <1>1, Invariance, PTL
=============================================================================
