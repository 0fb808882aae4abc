------------------------------ MODULE OooCore -------------------------------
(***************************************************************************)
(* Register renaming in the out-of-order core: the reorder buffer, the     *)
(* rename table, the issue queue and the rollback of a mispredicted branch *)
(* (src/riscvsim/core/ooo.c, ooo_frontend.c, ooo_backend.c, ooo_branch.c). *)
(*                                                                         *)
(* oo_core_run calls commit, execute, issue and dispatch in turn, each     *)
(* looping over instructions; how far each gets in a cycle depends on      *)
(* ports, latencies and stalls.  Here a loop iteration is an action and    *)
(* the actions interleave freely, which includes every schedule of the     *)
(* core.                                                                   *)
(*                                                                         *)
(* The integer and the floating-point file are renamed by the same code;   *)
(* the model has one file, and one source operand per instruction.  What   *)
(* an instruction computes is abstracted to a value nobody else produces:  *)
(* its dispatch number plus one.  0 is what a register held at the start.  *)
(***************************************************************************)
EXTENDS CircularQueue, FiniteSets

CONSTANTS
  RobSize,    \* rob_size
  IqSize,     \* iq_size
  NumRegs,    \* registers that are renamed: 1 .. NumRegs; 0 is x0, or none
  Insns,      \* instructions that may be fetched: [kind, rd, rs]
  MaxId       \* instructions dispatched between two entries to the loop

(***************************************************************************)
(* alu: one cycle or many in a functional unit.  load: may fault in the    *)
(* LSU.  branch: may turn out mispredicted (rd is the link register of a   *)
(* jump).  complex: left to the emulator, marked as an exception by the    *)
(* decoder, which sets no destination.  illegal: an exception too, for     *)
(* which the decoder has already set has_dest (the ATOMIC_MASK case).      *)
(* hint: neither a destination nor an exception, branch or memory access,  *)
(* which is what the decoder makes of c.lui x0.  Of the other kinds every  *)
(* instruction has a destination (maybe x0), is a branch, or is in the LSQ.*)
(***************************************************************************)
Kinds == {"alu", "load", "branch", "complex", "illegal", "hint"}

Slots == 0 .. RobSize - 1

Regs == 0 .. NumRegs

ASSUME OooAssumption ==
  /\ RobSize \in Nat \ {0}
  /\ IqSize \in Nat \ {0}
  /\ NumRegs \in Nat
  /\ Insns \subseteq [kind : Kinds, rd : Regs, rs : Regs]
  /\ MaxId \in Nat

VARIABLES
  cq,          \* rob.cq
  rob,         \* rob.entries, with the instruction latch each points to
  int_rat,     \* the rename table
  reg,         \* the architectural registers
  iq,          \* the issue queue; e is the ROB slot of the entry's latch
  fu,          \* ROB slots of the instructions in the functional units
  fetching,    \* no exception has stopped the front end
  ins_dispatch_id,
  asserts      \* FALSE once a sim_assert has failed

vars == <<cq, rob, int_rat, reg, iq, fu, fetching, ins_dispatch_id, asserts>>

(***************************************************************************)
(* A reorder buffer entry: ready, and of its latch the dispatch number,    *)
(* the instruction, exception, prs1 (-1: not renamed), read_rs1, rs1_val   *)
(* and old_pdest.                                                          *)
(***************************************************************************)
RobEntry ==
  [ready : BOOLEAN, id : Nat, ins : Insns, exception : BOOLEAN,
   prs1 : Slots \cup {-1}, read_rs1 : BOOLEAN, rs1_val : Nat,
   old_pdest : Slots \cup {-1}]

NoEntry == [ready |-> FALSE]

NotRenamed == [rob_idx |-> -1, read_from_rob |-> FALSE]

FreeIqEntry == [valid |-> FALSE, ready |-> FALSE, e |-> -1]

(***************************************************************************)
(* oo_core_reset, at every entry to the simulation loop.  The registers    *)
(* are those the emulator leaves.                                          *)
(***************************************************************************)
Init ==
  /\ cq = cq_reset
  /\ rob = [s \in Slots |-> NoEntry]
  /\ int_rat = [r \in Regs |-> NotRenamed]
  /\ reg = [r \in Regs |-> 0]
  /\ iq = [i \in 0 .. IqSize - 1 |-> FreeIqEntry]
  /\ fu = {}
  /\ fetching = TRUE
  /\ ins_dispatch_id = 0
  /\ asserts = TRUE

Result(s) == rob[s].id + 1

HasDest(s) == rob[s].ins.rd # 0

-----------------------------------------------------------------------------
(***************************************************************************)
(* oo_core_dispatch.                                                       *)
(***************************************************************************)
IqFree == {i \in DOMAIN iq : ~iq[i].valid}

iq_full == IqFree = {}

CanDispatch ==
  /\ asserts /\ fetching
  /\ ins_dispatch_id < MaxId
  /\ ~cq_full(cq, RobSize)

(***************************************************************************)
(* An instruction with an exception only gets a ROB entry, ready at once;  *)
(* it is not renamed, and old_pdest keeps the 0 of the cleared latch.      *)
(* Decode has stopped fetch behind it.                                     *)
(***************************************************************************)
DispatchException(ins) ==
  LET next == cq_enqueue(cq, RobSize)
  IN  /\ CanDispatch
      /\ ins.kind \in {"complex", "illegal"}
      /\ cq' = next
      /\ rob' = [rob EXCEPT ![next.rear] =
           [ready |-> TRUE, id |-> ins_dispatch_id, ins |-> ins,
            exception |-> TRUE, prs1 |-> -1, read_rs1 |-> FALSE, rs1_val |-> 0,
            old_pdest |-> 0]]
      /\ fetching' = FALSE
      /\ ins_dispatch_id' = ins_dispatch_id + 1
      /\ UNCHANGED <<int_rat, reg, iq, fu, asserts>>

\* Mutant: the destination is renamed before the source.
DispatchRenamed_DestFirst(ins) ==
  LET next  == cq_enqueue(cq, RobSize)
      idx   == next.rear
      free  == CHOOSE i \in IqFree : \A j \in IqFree : i <= j
      rat   == IF ins.rd = 0 THEN int_rat
               ELSE [int_rat EXCEPT ![ins.rd] =
                       [rob_idx |-> idx, read_from_rob |-> TRUE]]
      src   == rat[ins.rs]
  IN  /\ CanDispatch
      /\ ins.kind \notin {"complex", "illegal"}
      /\ ~iq_full
      /\ cq' = next
      /\ rob' = [rob EXCEPT ![idx] =
           [ready |-> FALSE, id |-> ins_dispatch_id, ins |-> ins,
            exception |-> FALSE,
            prs1 |-> IF src.read_from_rob THEN src.rob_idx ELSE -1,
            read_rs1 |-> ~src.read_from_rob,
            rs1_val |-> IF src.read_from_rob THEN 0 ELSE reg[ins.rs],
            old_pdest |-> IF ins.rd = 0 THEN 0 ELSE int_rat[ins.rd].rob_idx]]
      /\ iq' = [iq EXCEPT ![free] = [valid |-> TRUE, ready |-> FALSE, e |-> idx]]
      /\ int_rat' = rat
      /\ ins_dispatch_id' = ins_dispatch_id + 1
      /\ UNCHANGED <<reg, fu, fetching, asserts>>

(***************************************************************************)
(* do_insn_rename_and_read_reg_file, rob_entry_create, iq_entry_create and *)
(* update_rd_rat_mapping, in this order, with their assertions.            *)
(***************************************************************************)
DispatchRenamed(ins) ==
  LET next  == cq_enqueue(cq, RobSize)
      idx   == next.rear
      src   == int_rat[ins.rs]
      old   == IF ins.rd = 0 THEN 0 ELSE int_rat[ins.rd].rob_idx
      free  == CHOOSE i \in IqFree : \A j \in IqFree : i <= j
  IN  /\ CanDispatch
      /\ ins.kind \notin {"complex", "illegal"}
      /\ ~iq_full
      /\ cq' = next
      /\ rob' = [rob EXCEPT ![idx] =
           [ready |-> FALSE, id |-> ins_dispatch_id, ins |-> ins,
            exception |-> FALSE,
            prs1 |-> IF src.read_from_rob THEN src.rob_idx ELSE -1,
            read_rs1 |-> ~src.read_from_rob,
            rs1_val |-> IF src.read_from_rob THEN 0 ELSE reg[ins.rs],
            old_pdest |-> old]]
      /\ iq' = [iq EXCEPT ![free] = [valid |-> TRUE, ready |-> FALSE, e |-> idx]]
      /\ int_rat' = IF ins.rd = 0 THEN int_rat
                    ELSE [int_rat EXCEPT ![ins.rd] =
                            [rob_idx |-> idx, read_from_rob |-> TRUE]]
      /\ asserts' = /\ src.read_from_rob => src.rob_idx # -1
                    /\ ins.rd # 0 => old # idx
      /\ ins_dispatch_id' = ins_dispatch_id + 1
      /\ UNCHANGED <<reg, fu, fetching>>

Dispatch == \E ins \in Insns : DispatchException(ins) \/ DispatchRenamed(ins)

-----------------------------------------------------------------------------
\* Mutant: a producer before the wrap-around of the ROB is forgotten.
rob_entry_committed_NoWrap(src, cur) == ~(src >= cq.front /\ src < cur)

(***************************************************************************)
(* rob_entry_committed: is the entry in slot src, which held the producer  *)
(* of an operand of the instruction in slot cur, committed by now?         *)
(***************************************************************************)
rob_entry_committed(src, cur) ==
  IF cq.rear >= cq.front
  THEN ~(src >= cq.front /\ src < cur)
  ELSE /\ ~(/\ cur >= cq.front /\ cur < RobSize
            /\ src >= cq.front /\ src < RobSize
            /\ src < cur)
       /\ ~(/\ cur >= 0 /\ cur <= cq.rear
            /\ (src >= cq.front /\ src < RobSize) \/ src < cur)

(***************************************************************************)
(* read_int_operand_from_rob_slot: can the operand be read now, and what   *)
(* is its value?                                                           *)
(***************************************************************************)
OperandReady(cur) ==
  LET src == rob[cur].prs1
  IN  \/ rob_entry_committed(src, cur)
      \/ /\ rob[src].ready /\ ~rob[src].exception
         /\ HasDest(src) /\ rob[src].ins.rd = rob[cur].ins.rs

Operand(cur) ==
  IF rob_entry_committed(rob[cur].prs1, cur) THEN reg[rob[cur].ins.rs]
  ELSE Result(rob[cur].prs1)

(***************************************************************************)
(* process_iq for one entry of the issue queue: read the operand if that   *)
(* is still to do, and hand the instruction to its functional unit if the  *)
(* unit is free.  Nothing happens while the operand cannot be read.        *)
(***************************************************************************)
ProcessIq(i, fu_free) ==
  LET cur   == iq[i].e
      reads == ~iq[i].ready /\ ~rob[cur].read_rs1
      now   == reads => OperandReady(cur)
  IN  /\ asserts
      /\ iq[i].valid
      /\ now
      /\ rob' = IF reads
                THEN [rob EXCEPT ![cur].read_rs1 = TRUE,
                                 ![cur].rs1_val = Operand(cur)]
                ELSE rob
      /\ IF fu_free
         THEN iq' = [iq EXCEPT ![i] = FreeIqEntry] /\ fu' = fu \cup {cur}
         ELSE iq' = [iq EXCEPT ![i].ready = TRUE] /\ fu' = fu
      /\ asserts' = (reads => rob[cur].prs1 # cur)
      /\ UNCHANGED <<cq, int_rat, reg, fetching, ins_dispatch_id>>

-----------------------------------------------------------------------------
\* Mutant: a branch without destination is not marked ready.
Execute_OnlyDest(s) ==
  /\ asserts
  /\ s \in fu
  /\ rob' = [rob EXCEPT ![s].ready = HasDest(s)]
  /\ fu' = fu \ {s}
  /\ UNCHANGED <<cq, int_rat, reg, iq, fetching, ins_dispatch_id, asserts>>

(***************************************************************************)
(* The last cycle in a functional unit, or in the LSU for a load.  The     *)
(* entry is marked ready by the unit if has_dest or has_fp_dest is set, by *)
(* oo_process_branch for the other branches, and by the LSQ; nobody marks  *)
(* that of a hint.                                                         *)
(***************************************************************************)
Execute(s) ==
  /\ asserts
  /\ s \in fu
  /\ rob' = [rob EXCEPT ![s].ready = (rob[s].ins.kind # "hint")]
  /\ fu' = fu \ {s}
  /\ UNCHANGED <<cq, int_rat, reg, iq, fetching, ins_dispatch_id, asserts>>

(***************************************************************************)
(* process_lsq_entry_load after an MMU exception: fetch, decode and        *)
(* dispatch are flushed.                                                   *)
(***************************************************************************)
LoadFault(s) ==
  /\ asserts
  /\ s \in fu /\ rob[s].ins.kind = "load"
  /\ rob' = [rob EXCEPT ![s].ready = TRUE, ![s].exception = TRUE]
  /\ fu' = fu \ {s}
  /\ fetching' = FALSE
  /\ UNCHANGED <<cq, int_rat, reg, iq, ins_dispatch_id, asserts>>

(***************************************************************************)
(* rollback_speculated_cpu_state for the branch in slot s: the entries     *)
(* younger than the branch.                                                *)
(***************************************************************************)
Live == CqSlots(cq, RobSize)

Squashed(s) == {t \in Live : rob[t].id > rob[s].id}

(***************************************************************************)
(* restore_rob walks from the youngest entry to the oldest, and each entry *)
(* it drops puts back the mapping it had replaced: the oldest one's stays. *)
(***************************************************************************)
RestoredRat(s) ==
  [r \in Regs |->
     LET W == {t \in Squashed(s) : rob[t].ins.rd = r /\ r # 0}
     IN  IF W = {} THEN int_rat[r]
         ELSE LET o == CHOOSE t \in W : \A u \in W : rob[t].id <= rob[u].id
              IN  [rob_idx |-> rob[o].old_pdest,
                   read_from_rob |-> rob[o].old_pdest # -1]]

(***************************************************************************)
(* rob_entry_committed_after_rollback, once rear is the branch's slot, and *)
(* fix_rename_tables.                                                      *)
(***************************************************************************)
InRob(q, idx) ==
  IF q.rear >= q.front THEN idx >= q.front /\ idx <= q.rear
  ELSE (idx >= q.front /\ idx < RobSize) \/ (idx >= 0 /\ idx <= q.rear)

\* Mutant: without fix_rename_tables.
FixedRat_NotFixed(rat, q) == rat

FixedRat(rat, q) ==
  [r \in Regs |-> IF rat[r].read_from_rob /\ ~InRob(q, rat[r].rob_idx)
                  THEN NotRenamed ELSE rat[r]]

\* Mutant: without restore_iq.
Mispredict_KeepIq(s) ==
  LET q == cq_set_rear(cq, s)
  IN  /\ asserts
      /\ s \in fu /\ rob[s].ins.kind = "branch"
      /\ cq' = q
      /\ rob' = [rob EXCEPT ![s].ready = TRUE]
      /\ int_rat' = FixedRat(RestoredRat(s), q)
      /\ fu' = {t \in fu : rob[t].id < rob[s].id}
      /\ fetching' = TRUE
      /\ UNCHANGED <<iq, reg, ins_dispatch_id, asserts>>

(***************************************************************************)
(* oo_process_branch on a misprediction, in the last cycle of the branch.  *)
(***************************************************************************)
Mispredict(s) ==
  LET q == cq_set_rear(cq, s)
  IN  /\ asserts
      /\ s \in fu /\ rob[s].ins.kind = "branch"
      /\ cq' = q
      /\ rob' = [rob EXCEPT ![s].ready = TRUE]
      /\ int_rat' = FixedRat(RestoredRat(s), q)
      /\ iq' = [i \in DOMAIN iq |->
                  IF iq[i].valid /\ rob[iq[i].e].id > rob[s].id
                  THEN [iq[i] EXCEPT !.valid = FALSE] ELSE iq[i]]
      /\ fu' = {t \in fu : rob[t].id < rob[s].id}
      /\ fetching' = TRUE
      /\ asserts' = \A t \in Squashed(s) :
                       rob[t].ins.rd # 0 => rob[t].old_pdest # t
      /\ UNCHANGED <<reg, ins_dispatch_id>>

-----------------------------------------------------------------------------
(***************************************************************************)
(* oo_core_rob_commit for the top of the ROB.                              *)
(***************************************************************************)
CanCommit == asserts /\ ~cq_empty(cq) /\ rob[cq.front].ready

Commit ==
  LET s  == cq.front
      rd == rob[s].ins.rd
  IN  /\ CanCommit /\ ~rob[s].exception
      /\ reg' = IF rd = 0 THEN reg ELSE [reg EXCEPT ![rd] = Result(s)]
      /\ int_rat' = IF rd # 0 /\ int_rat[rd].rob_idx = s
                    THEN [int_rat EXCEPT ![rd] = NotRenamed] ELSE int_rat
      /\ rob' = [rob EXCEPT ![s].ready = FALSE]
      /\ cq' = cq_dequeue(cq, RobSize)
      /\ UNCHANGED <<iq, fu, fetching, ins_dispatch_id, asserts>>

(***************************************************************************)
(* An exception at the top of the ROB leaves the loop; so does a timeout,  *)
(* or the end of the instruction budget, after a commit.  The loop is      *)
(* entered again through oo_core_reset.                                    *)
(***************************************************************************)
SimExit ==
  /\ CanCommit
  /\ cq' = cq_reset
  /\ rob' = [s \in Slots |-> NoEntry]
  /\ int_rat' = [r \in Regs |-> NotRenamed]
  /\ reg' = [r \in Regs |-> 0]
  /\ iq' = [i \in 0 .. IqSize - 1 |-> FreeIqEntry]
  /\ fu' = {}
  /\ fetching' = TRUE
  /\ ins_dispatch_id' = 0
  /\ asserts' = TRUE

(***************************************************************************)
(* A cycle of oo_core_run in which no stage moves.                         *)
(***************************************************************************)
Idle == UNCHANGED vars

Issue == \E i \in DOMAIN iq : ProcessIq(i, TRUE)

Stall == \E i \in DOMAIN iq : ~iq[i].ready /\ ProcessIq(i, FALSE)

Complete == \E s \in Slots : Execute(s) \/ LoadFault(s) \/ Mispredict(s)

Next == Dispatch \/ Issue \/ Stall \/ Complete \/ Commit \/ SimExit \/ Idle

Spec == Init /\ [][Next]_vars

(***************************************************************************)
(* The units drain, so some instruction of those that can be issued is;    *)
(* every latency ends; and commit runs every cycle.  Nothing is assumed of *)
(* the order in which the issue queue serves its entries.                  *)
(***************************************************************************)
FairSpec ==
  Spec /\ WF_vars(Issue) /\ WF_vars(Complete) /\ WF_vars(Commit \/ SimExit)

-----------------------------------------------------------------------------
(***************************************************************************)
(* The variables hold what their declarations say.                         *)
(***************************************************************************)
TypeOK ==
  /\ cq \in [front : Slots \cup {-1}, rear : Slots \cup {-1}]
  /\ rob \in [Slots -> RobEntry \cup {[ready |-> FALSE]}]
  /\ int_rat \in [Regs -> [rob_idx : Slots \cup {-1}, read_from_rob : BOOLEAN]]
  /\ reg \in [Regs -> Nat]
  /\ iq \in [0 .. IqSize - 1 ->
               [valid : BOOLEAN, ready : BOOLEAN, e : Slots \cup {-1}]]
  /\ fu \subseteq Slots
  /\ fetching \in BOOLEAN
  /\ ins_dispatch_id \in Nat
  /\ asserts \in BOOLEAN

(***************************************************************************)
(* The instructions in the ROB that were renamed to write r.               *)
(***************************************************************************)
Writers(r) ==
  {t \in Live : r # 0 /\ rob[t].ins.rd = r /\ rob[t].ins.kind # "illegal"}

Youngest(W) == CHOOSE t \in W : \A u \in W : rob[u].id <= rob[t].id

(***************************************************************************)
(* The rename table maps a register to the youngest instruction in the ROB *)
(* that writes it, and to the register file when there is none: after any  *)
(* number of commits that reuse ROB slots and of rollbacks that put back   *)
(* old_pdest, the slot of a producer that may have been committed and      *)
(* reused meanwhile.                                                       *)
(***************************************************************************)
RatCorrect ==
  \A r \in Regs :
    int_rat[r] = IF Writers(r) = {} THEN NotRenamed
                 ELSE [rob_idx |-> Youngest(Writers(r)), read_from_rob |-> TRUE]

(***************************************************************************)
(* Every operand an instruction has read is the result of the last write   *)
(* before it in program order, whether it was read from the ROB or, its    *)
(* producer being committed, from the register file.                       *)
(***************************************************************************)
OperandsCorrect ==
  \A s \in Live : rob[s].read_rs1 =>
    LET r == rob[s].ins.rs
        W == {t \in Writers(r) : rob[t].id < rob[s].id}
    IN  rob[s].rs1_val = IF W = {} THEN reg[r] ELSE Result(Youngest(W))

(***************************************************************************)
(* The instructions in the issue queue and in the functional units are in  *)
(* the ROB, each in one place only: a rollback leaves none behind.         *)
(***************************************************************************)
NothingLeftBehind ==
  /\ \A i \in DOMAIN iq : iq[i].valid =>
       /\ iq[i].e \in Live \ fu
       /\ ~rob[iq[i].e].ready
       /\ \A j \in DOMAIN iq : iq[j].valid /\ iq[j].e = iq[i].e => j = i
  /\ \A s \in fu : s \in Live /\ ~rob[s].ready /\ rob[s].read_rs1

(***************************************************************************)
(* "rename failure on destination register", "rename table entry should    *)
(* point to a valid rob entry if READ_FROM_ROB bit is set", "cur_rob_idx   *)
(* trying to read operand value from self" and "rob entry rollback         *)
(* failure": none of these assertions of the core fails.                   *)
(***************************************************************************)
AssertionsHold == asserts

(***************************************************************************)
(* Every instruction that enters the ROB leaves it, by commit, rollback or *)
(* exit (again and again the ROB is empty or its front moves): no          *)
(* instruction waits for ever for an operand, a unit or the top.  The only *)
(* one that can stop the core is a hint, which nobody marks ready: the     *)
(* core then stands still for ever with the hint at the top of the ROB.    *)
(***************************************************************************)
HintAtTop == ~cq_empty(cq) /\ rob[cq.front].ins.kind = "hint"

RobDrains ==
  \/ []<>cq_empty(cq)
  \/ []<><<cq'.front # cq.front>>_vars
  \/ <>[]HintAtTop
=============================================================================
