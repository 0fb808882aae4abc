--------------------------- MODULE BranchPredictor --------------------------
(***************************************************************************)
(* The branch target buffer (src/riscvsim/bpu/btb.c, bpu.c) and the        *)
(* handlers that use it in the fetch, decode and execute stages            *)
(* (src/riscvsim/core/riscv_sim_cpu.c), with several instructions in       *)
(* flight.  A prediction may be wrong, but what is committed must be the   *)
(* path of the program.                                                    *)
(*                                                                         *)
(* What the direction predictor and the return address stack answer is     *)
(* left open here: any direction, any address.  DirectionPredictor and     *)
(* ReturnStack are about their contents.  Instructions are all of length   *)
(* one.                                                                    *)
(***************************************************************************)
EXTENDS EvictPolicy, Sequences, FiniteSets

CONSTANTS
  NumPcs,           \* code addresses 1 .. NumPcs; 0 is no address
  Spaces,           \* address spaces
  Code,             \* Code[space][pc]: [kind, targets]
  BtbSets, BtbWays, \* btb_size / btb_ways, btb_ways
  HasRas,           \* ras_size # 0
  FlushOnSwitch,    \* bpu_flush_on_context_switch
  MaxInFlight       \* instructions between fetch and commit

Pcs == 1 .. NumPcs

(***************************************************************************)
(* plain: no branch.  cond: a conditional branch.  jump: JAL.  ret: JALR   *)
(* with rs1 = x1.  The target of a ret is in a register; the others have   *)
(* one target.                                                             *)
(***************************************************************************)
Kinds == {"plain", "cond", "jump", "ret"}

BranchAssumption ==
  /\ NumPcs \in Nat
  /\ Code \in [Spaces -> [Pcs -> [kind : Kinds, targets : SUBSET Pcs]]]
  /\ \A sp \in Spaces, p \in Pcs :
       Code[sp][p].kind \in {"cond", "jump"} => \E t \in Pcs : Code[sp][p].targets = {t}
  /\ BtbSets \in Nat \ {0} /\ BtbWays \in Nat \ {0}
  /\ HasRas \in BOOLEAN /\ FlushOnSwitch \in BOOLEAN
  /\ MaxInFlight \in Nat \ {0}

VARIABLES
  space,      \* the address space of the running process
  btb,        \* btb->data
  mru,        \* btb->evict_policy->sets
  window,     \* the instructions in flight, oldest first
  pc,         \* the address fetched next
  arch_pc,    \* the address that must be committed next (history variable)
  asserts     \* FALSE once a sim_assert has failed

vars == <<space, btb, mru, window, pc, arch_pc, asserts>>

BtbEntry == [pc : Pcs \cup {0}, target : Pcs \cup {0}, type : {"cond", "uncond"}]

(***************************************************************************)
(* What an instruction latch remembers: btb_hit and bpu_hit are from its   *)
(* bpu_resp_pkt, next is where the program goes on, once that is known.    *)
(***************************************************************************)
Latch ==
  [pc : Pcs, btb_hit : BOOLEAN, bpu_hit : BOOLEAN, predicted : Pcs \cup {0},
   decoded : BOOLEAN, resolved : BOOLEAN, next : 0 .. NumPcs + 1]

FlushedBtb ==
  [s \in 0 .. BtbSets - 1 |->
     [w \in Ways(BtbWays) |-> [pc |-> 0, target |-> 0, type |-> "uncond"]]]

NoMru == [s \in 0 .. BtbSets - 1 |-> {}]

Init ==
  /\ space \in Spaces
  /\ btb = FlushedBtb
  /\ mru = NoMru
  /\ window = <<>>
  /\ pc = 1
  /\ arch_pc = 1
  /\ asserts = TRUE

Ins(p) == Code[space][p]

IsBranch(p) == Ins(p).kind # "plain"

BranchType(p) == IF Ins(p).kind = "cond" THEN "cond" ELSE "uncond"

Set(p) == p % BtbSets

-----------------------------------------------------------------------------
(***************************************************************************)
(* btb_probe returns the first way that holds p, and touches it.           *)
(***************************************************************************)
Hits(b, p) ==
  {w \in Ways(BtbWays) : /\ b[Set(p)][w].pc = p
                         /\ \A v \in 0 .. w - 1 : b[Set(p)][v].pc # p}

Probed(m, b, p) ==
  [m EXCEPT ![Set(p)] =
     IF Hits(b, p) = {} THEN @
     ELSE EvictUse(@, CHOOSE w \in Hits(b, p) : TRUE, BtbWays)]

(***************************************************************************)
(* bpu_get_target; taken is what the direction predictor says.             *)
(***************************************************************************)
bpu_get_target(entry, taken) ==
  IF entry.type = "uncond" \/ taken THEN entry.target ELSE 0

(***************************************************************************)
(* bpu_enabled_fetch_stage_handler, when an instruction has been fetched.  *)
(* ap is the probe status of the direction predictor.  The fetch and the   *)
(* decode stage hold one instruction each.                                 *)
(***************************************************************************)
Fetch(ap, taken) ==
  LET hits   == Hits(btb, pc)
      entry  == btb[Set(pc)][CHOOSE w \in hits : TRUE]
      hit    == hits # {} /\ (ap \/ entry.type = "uncond")
      target == IF hit THEN bpu_get_target(entry, taken) ELSE 0
  IN  /\ asserts
      /\ pc \in Pcs
      /\ Len(window) < MaxInFlight
      /\ Cardinality({i \in DOMAIN window : ~window[i].decoded}) < 2
      /\ mru' = Probed(mru, btb, pc)
      /\ window' = Append(window,
           [pc |-> pc, btb_hit |-> hits # {}, bpu_hit |-> hit,
            predicted |-> target, decoded |-> FALSE, resolved |-> FALSE,
            next |-> 0])
      /\ pc' = IF target # 0 THEN target ELSE pc + 1
      /\ UNCHANGED <<space, btb, arch_pc, asserts>>

(***************************************************************************)
(* The decode stage.  bpu_enabled_decode_stage_handler redirects fetch to  *)
(* the address on the return address stack, ras_target, and drops what the *)
(* fetch stage holds.                                                      *)
(***************************************************************************)
Decode(ras_target) ==
  \E i \in DOMAIN window :
    LET e == window[i]
        redirect == HasRas /\ Ins(e.pc).kind = "ret" /\ ras_target # 0
    IN  /\ asserts
        /\ ~e.decoded
        /\ \A j \in 1 .. i - 1 : window[j].decoded
        /\ IF redirect
           THEN /\ window' = Append(SubSeq(window, 1, i - 1),
                       [e EXCEPT !.decoded = TRUE, !.predicted = ras_target])
                /\ pc' = ras_target
           ELSE /\ window' = [window EXCEPT ![i].decoded = TRUE]
                /\ UNCHANGED pc
        /\ UNCHANGED <<space, btb, mru, arch_pc, asserts>>

-----------------------------------------------------------------------------
(***************************************************************************)
(* bpu_add, for a branch that missed when it was fetched: an entry without *)
(* target in a victim way, unless it is a return and there is a return     *)
(* address stack.                                                          *)
(***************************************************************************)
Adds(e) == ~e.bpu_hit /\ ~e.btb_hit /\ ~(HasRas /\ Ins(e.pc).kind = "ret")

Added(e, victim) ==
  IF Adds(e)
  THEN [btb EXCEPT ![Set(e.pc)][victim] =
          [pc |-> e.pc, target |-> 0, type |-> BranchType(e.pc)]]
  ELSE btb

AddedMru(e, victim) ==
  IF Adds(e) THEN [mru EXCEPT ![Set(e.pc)] = EvictUse(@, victim, BtbWays)]
  ELSE mru

(***************************************************************************)
(* bpu_update, after a second probe: an entry that was evicted since fetch *)
(* is not touched.                                                         *)
(***************************************************************************)
Updated(b, p, target) ==
  [b EXCEPT ![Set(p)] =
     [w \in Ways(BtbWays) |->
        IF w \in Hits(b, p)
        THEN [pc |-> p, target |-> target, type |-> BranchType(p)]
        ELSE @[w]]]

\* Mutant: a branch that was predicted taken and is not is not corrected.
Mispredicted_OnlyTaken(e, taken, target) ==
  IF Ins(e.pc).kind = "cond" THEN taken /\ e.predicted = 0
  ELSE e.predicted # target

(***************************************************************************)
(* bpu_enabled_conditional_branch_handler and                              *)
(* bpu_enabled_unconditional_branch_handler: is it a misprediction?        *)
(***************************************************************************)
Mispredicted(e, taken, target) ==
  IF Ins(e.pc).kind = "cond" THEN taken = (e.predicted = 0)
  ELSE e.predicted # target

(***************************************************************************)
(* bpu_enabled_execute_stage_handler for the branch at place i, and the    *)
(* rollback of oo_process_branch.  taken and target are what the execution *)
(* of the branch finds; branches may be executed in any order.             *)
(***************************************************************************)
Execute(i, taken, target) ==
  LET e    == window[i]
      next == IF taken THEN target ELSE e.pc + 1
      done == [e EXCEPT !.resolved = TRUE, !.next = next]
  IN  /\ asserts
      /\ e.decoded /\ ~e.resolved
      /\ IsBranch(e.pc) /\ target \in Ins(e.pc).targets
      /\ Ins(e.pc).kind # "cond" => taken
      /\ \E victim \in IF Adds(e) THEN Evict(mru[Set(e.pc)], BtbWays) ELSE {0} :
           LET b == Added(e, victim)
           IN  /\ btb' = Updated(b, e.pc, target)
               /\ mru' = Probed(AddedMru(e, victim), b, e.pc)
      /\ IF Mispredicted(e, taken, target)
         THEN window' = Append(SubSeq(window, 1, i - 1), done) /\ pc' = next
         ELSE window' = [window EXCEPT ![i] = done] /\ UNCHANGED pc
      /\ asserts' = (Ins(e.pc).kind = "cond" /\ taken /\ e.predicted # 0
                       => e.predicted = target)
      /\ UNCHANGED <<space, arch_pc>>

-----------------------------------------------------------------------------
(***************************************************************************)
(* The oldest instruction is committed.                                    *)
(***************************************************************************)
Commit ==
  LET e == Head(window)
  IN  /\ asserts /\ window # <<>>
      /\ e.decoded /\ (IsBranch(e.pc) => e.resolved)
      /\ arch_pc' = IF IsBranch(e.pc) THEN e.next ELSE e.pc + 1
      /\ window' = Tail(window)
      /\ UNCHANGED <<space, btb, mru, pc, asserts>>

(***************************************************************************)
(* The simulation loop is left and entered again with an empty pipeline,   *)
(* in the same place after a timeout, and anywhere after an instruction    *)
(* that the emulator executed.                                             *)
(***************************************************************************)
SimExit(p) ==
  /\ asserts
  /\ window' = <<>>
  /\ pc' = p /\ arch_pc' = p
  /\ UNCHANGED <<space, btb, mru, asserts>>

(***************************************************************************)
(* The emulator executes a write to satp or an sfence: tlb_init flushes    *)
(* the predictor if that is configured.                                    *)
(***************************************************************************)
ContextSwitch(sp, p) ==
  /\ asserts
  /\ sp # space /\ space' = sp
  /\ window' = <<>>
  /\ pc' = p /\ arch_pc' = p
  /\ IF FlushOnSwitch THEN btb' = FlushedBtb /\ mru' = NoMru
     ELSE UNCHANGED <<btb, mru>>
  /\ UNCHANGED asserts

Next ==
  \/ \E ap, taken \in BOOLEAN : Fetch(ap, taken)
  \/ \E t \in Pcs \cup {0} : Decode(t)
  \/ \E i \in DOMAIN window, taken \in BOOLEAN, t \in Pcs : Execute(i, taken, t)
  \/ Commit
  \/ \E p \in Pcs : SimExit(p)
  \/ \E sp \in Spaces, p \in Pcs : ContextSwitch(sp, p)

Spec == Init /\ [][Next]_vars

-----------------------------------------------------------------------------
(***************************************************************************)
(* The variables hold what their declarations say.                         *)
(***************************************************************************)
TypeOK ==
  /\ space \in Spaces
  /\ btb \in [0 .. BtbSets - 1 -> [Ways(BtbWays) -> BtbEntry]]
  /\ mru \in [0 .. BtbSets - 1 -> SUBSET Ways(BtbWays)]
  /\ window \in Seq(Latch) /\ Len(window) <= MaxInFlight
  /\ pc \in 0 .. NumPcs + 1
  /\ arch_pc \in 0 .. NumPcs + 1
  /\ asserts \in BOOLEAN

(***************************************************************************)
(* What is committed is the path of the program: the oldest instruction in *)
(* flight, or the address fetched next, is where the program goes on,      *)
(* whatever was predicted for the branches before it.  And "predicted      *)
(* branch target should be equal to the computed branch target on correct  *)
(* prediction": the assertion of the conditional branch handler holds.     *)
(***************************************************************************)
CommitsProgram ==
  asserts /\ arch_pc = IF window = <<>> THEN pc ELSE Head(window).pc
=============================================================================
