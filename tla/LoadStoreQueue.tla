--------------------------- MODULE LoadStoreQueue ---------------------------
(***************************************************************************)
(* The load/store queue and the load/store unit of the out-of-order core   *)
(* (src/riscvsim/core/ooo_lsu.c), between the reorder buffer that commits  *)
(* and the functional units that compute addresses and resolve branches.   *)
(*                                                                         *)
(* Memory is accessed by mem_cpu_stage_exec, and the access of a store     *)
(* cannot be taken back.  The code keeps it off the speculative path by    *)
(* comparing the PC of the store with the PC at the top of the ROB, and    *)
(* relies on the order in which oo_core_run calls the stages; phase is     *)
(* where the cycle is.  The fetch, decode and issue stages are abstracted: *)
(* a dispatched instruction may finish in any later cycle.                 *)
(***************************************************************************)
EXTENDS CircularQueue, FiniteSets

CONSTANTS
  RobSize,      \* rob_size
  LsqSize,      \* lsq_size
  CommitPorts,  \* rob_commit_ports
  Insns,        \* instructions that may be fetched: [kind, pc]
  MaxId         \* instructions dispatched between two entries to the loop

(***************************************************************************)
(* load: also AIM_RD_MAC and AIM_RD_AF.  store: also every other AiM       *)
(* instruction.  branch: also an instruction that does not use memory, as  *)
(* a branch that was predicted right.                                      *)
(***************************************************************************)
Kinds == {"load", "store", "atomic", "branch"}

Slots == 0 .. RobSize - 1

LsqSlots == 0 .. LsqSize - 1

LsqAssumption ==
  /\ RobSize \in Nat \ {0}
  /\ LsqSize \in Nat \ {0}
  /\ CommitPorts \in Nat \ {0}
  /\ Insns \subseteq [kind : Kinds, pc : Nat]
  /\ MaxId \in Nat

VARIABLES
  phase,     \* the stage oo_core_run calls next
  commits,   \* the local variable of oo_core_rob_commit
  rob_cq,    \* rob.cq
  rob,       \* rob.entries, with the instruction latch each points to
  lsq_cq,    \* lsq.cq
  lsq,       \* lsq.entries; e is the ROB slot of the entry's latch
  lsu,       \* the latch of the load/store unit; e as above
  todo,      \* ROB slots of the instructions not yet through their unit
  fetching,  \* no exception has stopped the front end
  pending_exception,  \* the access that set the emulator's, and pending_tval
  ins_dispatch_id

vars == <<phase, commits, rob_cq, rob, lsq_cq, lsq, lsu, todo, fetching,
          pending_exception, ins_dispatch_id>>

(***************************************************************************)
(* accesses is a history variable: how often the latch went through        *)
(* mem_cpu_stage_exec.                                                     *)
(***************************************************************************)
RobEntry ==
  [ready : BOOLEAN, id : Nat, ins : Insns, exception : BOOLEAN,
   lsq_idx : LsqSlots \cup {-1}, accesses : Nat]

LsqEntry ==
  [ready : BOOLEAN, mem_request_sent : BOOLEAN, mem_request_complete : BOOLEAN,
   e : Slots]

NoEntry == [ready |-> FALSE]

LsuFree == [has_data |-> FALSE, stage_exec_done |-> FALSE, e |-> -1]

(***************************************************************************)
(* oo_core_reset.                                                          *)
(***************************************************************************)
Init ==
  /\ phase = "commit"
  /\ commits = 0
  /\ rob_cq = cq_reset
  /\ rob = [s \in Slots |-> NoEntry]
  /\ lsq_cq = cq_reset
  /\ lsq = [i \in LsqSlots |-> NoEntry]
  /\ lsu = LsuFree
  /\ todo = {}
  /\ fetching = TRUE
  /\ pending_exception = -1
  /\ ins_dispatch_id = 0

IsMem(s) == rob[s].ins.kind \in {"load", "store", "atomic"}

-----------------------------------------------------------------------------
(***************************************************************************)
(* oo_core_rob_commit, one iteration of its loop.                          *)
(***************************************************************************)
rob_can_commit == ~cq_empty(rob_cq) /\ rob[rob_cq.front].ready

Commit ==
  /\ phase = "commit" /\ commits < CommitPorts
  /\ rob_can_commit /\ ~rob[rob_cq.front].exception
  /\ rob' = [rob EXCEPT ![rob_cq.front].ready = FALSE]
  /\ rob_cq' = cq_dequeue(rob_cq, RobSize)
  /\ commits' = commits + 1
  /\ UNCHANGED <<phase, lsq_cq, lsq, lsu, todo, fetching, pending_exception,
                 ins_dispatch_id>>

\* Mutant: one instruction less than there are ports is committed.
CommitEnd_PortsOffByOne ==
  /\ phase = "commit"
  /\ rob_can_commit => commits >= CommitPorts - 1
  /\ phase' = "lsq" /\ commits' = 0
  /\ UNCHANGED <<rob_cq, rob, lsq_cq, lsq, lsu, todo, fetching,
                 pending_exception, ins_dispatch_id>>

CommitEnd ==
  /\ phase = "commit"
  /\ rob_can_commit => commits = CommitPorts
  /\ phase' = "lsq" /\ commits' = 0
  /\ UNCHANGED <<rob_cq, rob, lsq_cq, lsq, lsu, todo, fetching,
                 pending_exception, ins_dispatch_id>>

(***************************************************************************)
(* The loop is left on an exception at the top of the ROB, and on a        *)
(* timeout or the end of the instruction budget after a commit; it is      *)
(* entered again through oo_core_reset.                                    *)
(***************************************************************************)
SimExit ==
  /\ phase = "commit" /\ commits < CommitPorts
  /\ rob_can_commit
  /\ phase' = "commit" /\ commits' = 0
  /\ rob_cq' = cq_reset /\ rob' = [s \in Slots |-> NoEntry]
  /\ lsq_cq' = cq_reset /\ lsq' = [i \in LsqSlots |-> NoEntry]
  /\ lsu' = LsuFree
  /\ todo' = {}
  /\ fetching' = TRUE
  /\ pending_exception' = -1
  /\ ins_dispatch_id' = 0

-----------------------------------------------------------------------------
(***************************************************************************)
(* oo_core_lsq looks at the oldest entry of the queue only.  It is called  *)
(* before and after oo_core_lsu (phases lsq and lsq2).                     *)
(***************************************************************************)
front == lsq[lsq_cq.front]

\* Mutant: a store waits until the top of the ROB can be committed.
Allowed_TopReady ==
  rob[front.e].ins.kind = "store" =>
    rob_can_commit /\ rob[rob_cq.front].ins.pc = rob[front.e].ins.pc

(***************************************************************************)
(* process_lsq_entry_store only acts if the PCs are equal;                 *)
(* process_lsq_entry_load always does.                                     *)
(***************************************************************************)
Allowed ==
  rob[front.e].ins.kind = "store" =>
    rob[rob_cq.front].ins.pc = rob[front.e].ins.pc

LsqPhase == phase \in {"lsq", "lsq2"}

AfterLsq == phase' = IF phase = "lsq" THEN "lsu" ELSE "exec"

FrontReady == ~cq_empty(lsq_cq) /\ front.ready

LsqSend ==
  /\ LsqPhase /\ FrontReady /\ Allowed
  /\ ~front.mem_request_sent /\ ~lsu.has_data
  /\ lsu' = [has_data |-> TRUE, stage_exec_done |-> FALSE, e |-> front.e]
  /\ lsq' = [lsq EXCEPT ![lsq_cq.front].mem_request_sent = TRUE]
  /\ AfterLsq
  /\ UNCHANGED <<commits, rob_cq, rob, lsq_cq, todo, fetching,
                 pending_exception, ins_dispatch_id>>

(***************************************************************************)
(* A fault stops the front end.                                            *)
(***************************************************************************)
LsqFinish ==
  /\ LsqPhase /\ FrontReady /\ Allowed
  /\ front.mem_request_sent /\ front.mem_request_complete
  /\ rob' = [rob EXCEPT ![front.e].ready = TRUE]
  /\ fetching' = (fetching /\ ~rob[front.e].exception)
  /\ lsq_cq' = cq_dequeue(lsq_cq, LsqSize)
  /\ AfterLsq
  /\ UNCHANGED <<commits, rob_cq, lsq, lsu, todo, pending_exception,
                 ins_dispatch_id>>

LsqNothing ==
  /\ LsqPhase
  /\ FrontReady /\ Allowed =>
       IF front.mem_request_sent THEN ~front.mem_request_complete
       ELSE lsu.has_data
  /\ AfterLsq
  /\ UNCHANGED <<commits, rob_cq, rob, lsq_cq, lsq, lsu, todo, fetching,
                 pending_exception, ins_dispatch_id>>

Lsq == LsqSend \/ LsqFinish \/ LsqNothing

-----------------------------------------------------------------------------
(***************************************************************************)
(* oo_core_lsu.  The first call accesses memory, which may fault; the      *)
(* latency then passes, and the call in which it ends, which may be the    *)
(* first, and is for a fault, frees the unit.  fault and done are what the *)
(* MMU and the memory hierarchy answer.                                    *)
(***************************************************************************)
LsuStep(fault, done) ==
  /\ phase = "lsu" /\ lsu.has_data
  /\ rob' = IF lsu.stage_exec_done THEN rob
            ELSE [rob EXCEPT ![lsu.e].accesses = @ + 1,
                             ![lsu.e].exception = fault]
  /\ pending_exception' = IF fault /\ ~lsu.stage_exec_done THEN rob[lsu.e].id
                          ELSE pending_exception
  /\ IF done
     THEN /\ lsq' = [lsq EXCEPT ![rob[lsu.e].lsq_idx].mem_request_complete = TRUE]
          /\ lsu' = LsuFree
     ELSE /\ lsu' = [lsu EXCEPT !.stage_exec_done = TRUE]
          /\ UNCHANGED lsq
  /\ phase' = "lsq2"
  /\ UNCHANGED <<commits, rob_cq, lsq_cq, todo, fetching, ins_dispatch_id>>

LsuDone == \E fault \in BOOLEAN : LsuStep(fault, TRUE)

LsuBusy == LsuStep(FALSE, FALSE)

LsuNothing ==
  /\ phase = "lsu" /\ ~lsu.has_data
  /\ phase' = "lsq2"
  /\ UNCHANGED <<commits, rob_cq, rob, lsq_cq, lsq, lsu, todo, fetching,
                 pending_exception, ins_dispatch_id>>

-----------------------------------------------------------------------------
\* Mutant: an atomic is not sent to the load/store queue.
Finish_NoAtomic(s) ==
  /\ phase = "exec" /\ s \in todo
  /\ IF rob[s].ins.kind \in {"load", "store"}
     THEN lsq' = [lsq EXCEPT ![rob[s].lsq_idx].ready = TRUE] /\ UNCHANGED rob
     ELSE rob' = [rob EXCEPT ![s].ready = TRUE] /\ UNCHANGED lsq
  /\ todo' = todo \ {s}
  /\ UNCHANGED <<phase, commits, rob_cq, lsq_cq, lsu, fetching,
                 pending_exception, ins_dispatch_id>>

(***************************************************************************)
(* oo_core_execute_all: the instruction in slot s leaves its unit.  A      *)
(* memory instruction now has its address.                                 *)
(***************************************************************************)
Finish(s) ==
  /\ phase = "exec" /\ s \in todo
  /\ IF IsMem(s)
     THEN lsq' = [lsq EXCEPT ![rob[s].lsq_idx].ready = TRUE] /\ UNCHANGED rob
     ELSE rob' = [rob EXCEPT ![s].ready = TRUE] /\ UNCHANGED lsq
  /\ todo' = todo \ {s}
  /\ UNCHANGED <<phase, commits, rob_cq, lsq_cq, lsu, fetching,
                 pending_exception, ins_dispatch_id>>

(***************************************************************************)
(* restore_lsq for a branch with dispatch number tag: the queue is cut     *)
(* before the first entry on the wrong path.                               *)
(***************************************************************************)
is_lsq_entry_speculated(i, tag) == rob[lsq[i].e].id > tag

FirstSpeculated(from, to, tag) ==
  {i \in from .. to : /\ is_lsq_entry_speculated(i, tag)
                      /\ \A j \in from .. i - 1 : ~is_lsq_entry_speculated(j, tag)}

restore_lsq(tag) ==
  IF cq_empty(lsq_cq) THEN lsq_cq
  ELSE IF is_lsq_entry_speculated(lsq_cq.front, tag) THEN cq_reset
  ELSE LET straight == lsq_cq.rear >= lsq_cq.front
           upper == FirstSpeculated(lsq_cq.front,
                      IF straight THEN lsq_cq.rear ELSE LsqSize - 1, tag)
           lower == IF straight THEN {} ELSE FirstSpeculated(0, lsq_cq.rear, tag)
       IN  IF upper # {} THEN cq_set_rear(lsq_cq, (CHOOSE i \in upper : TRUE) - 1)
           ELSE IF lower = {} THEN lsq_cq
           ELSE LET i == CHOOSE i \in lower : TRUE
                IN  cq_set_rear(lsq_cq, IF i = 0 THEN LsqSize - 1 ELSE i - 1)

restore_lsu(tag) ==
  IF lsu.has_data /\ rob[lsu.e].id > tag THEN LsuFree ELSE lsu

(***************************************************************************)
(* oo_process_branch on a misprediction.                                   *)
(***************************************************************************)
Mispredict(s) ==
  LET tag == rob[s].id
  IN  /\ phase = "exec" /\ s \in todo /\ rob[s].ins.kind = "branch"
      /\ rob_cq' = cq_set_rear(rob_cq, s)
      /\ rob' = [rob EXCEPT ![s].ready = TRUE]
      /\ todo' = {t \in todo : rob[t].id < tag}
      /\ lsq_cq' = restore_lsq(tag)
      /\ lsu' = restore_lsu(tag)
      /\ fetching' = TRUE
      /\ UNCHANGED <<phase, commits, lsq, pending_exception, ins_dispatch_id>>

ExecEnd ==
  /\ phase = "exec"
  /\ phase' = "dispatch"
  /\ UNCHANGED <<commits, rob_cq, rob, lsq_cq, lsq, lsu, todo, fetching,
                 pending_exception, ins_dispatch_id>>

-----------------------------------------------------------------------------
(***************************************************************************)
(* oo_core_dispatch; stall_insn_dispatch makes an atomic wait for an empty *)
(* ROB.                                                                    *)
(***************************************************************************)
Dispatch(ins) ==
  LET next == cq_enqueue(rob_cq, RobSize)
      mem  == ins.kind \in {"load", "store", "atomic"}
      lq   == IF mem THEN cq_enqueue(lsq_cq, LsqSize) ELSE lsq_cq
  IN  /\ phase = "dispatch" /\ fetching /\ ins_dispatch_id < MaxId
      /\ ~cq_full(rob_cq, RobSize)
      /\ ins.kind = "atomic" => cq_empty(rob_cq)
      /\ mem => ~cq_full(lsq_cq, LsqSize)
      /\ rob_cq' = next
      /\ rob' = [rob EXCEPT ![next.rear] =
           [ready |-> FALSE, id |-> ins_dispatch_id, ins |-> ins,
            exception |-> FALSE, lsq_idx |-> IF mem THEN lq.rear ELSE -1,
            accesses |-> 0]]
      /\ lsq_cq' = lq
      /\ lsq' = IF ~mem THEN lsq
                ELSE [lsq EXCEPT ![lq.rear] =
                        [ready |-> FALSE, mem_request_sent |-> FALSE,
                         mem_request_complete |-> FALSE, e |-> next.rear]]
      /\ todo' = todo \cup {next.rear}
      /\ ins_dispatch_id' = ins_dispatch_id + 1
      /\ phase' = "commit"
      /\ UNCHANGED <<commits, lsu, fetching, pending_exception>>

DispatchNothing ==
  /\ phase = "dispatch"
  /\ phase' = "commit"
  /\ UNCHANGED <<commits, rob_cq, rob, lsq_cq, lsq, lsu, todo, fetching,
                 pending_exception, ins_dispatch_id>>

Exec == \E s \in Slots : Finish(s) \/ Mispredict(s)

Next ==
  \/ Commit \/ CommitEnd \/ SimExit
  \/ Lsq
  \/ LsuDone \/ LsuBusy \/ LsuNothing
  \/ Exec \/ ExecEnd
  \/ \E ins \in Insns : Dispatch(ins)
  \/ DispatchNothing

Spec == Init /\ [][Next]_vars

(***************************************************************************)
(* The cycles go on, and every latency ends: an access that is under way   *)
(* completes, and so does the computation of an instruction whose operands *)
(* are there, which RobDrains of OooCore shows they always come to be.     *)
(***************************************************************************)
FairSpec ==
  Spec /\ WF_vars(Next) /\ SF_vars(LsuDone) /\ SF_vars(Exec)

-----------------------------------------------------------------------------
(***************************************************************************)
(* The variables hold what their declarations say.                         *)
(***************************************************************************)
TypeOK ==
  /\ phase \in {"commit", "lsq", "lsu", "lsq2", "exec", "dispatch"}
  /\ commits \in 0 .. CommitPorts
  /\ rob_cq \in [front : Slots \cup {-1}, rear : Slots \cup {-1}]
  /\ rob \in [Slots -> RobEntry \cup {NoEntry}]
  /\ lsq_cq \in [front : LsqSlots \cup {-1}, rear : LsqSlots \cup {-1}]
  /\ lsq \in [LsqSlots -> LsqEntry \cup {NoEntry}]
  /\ lsu \in [has_data : BOOLEAN, stage_exec_done : BOOLEAN, e : Slots \cup {-1}]
  /\ todo \subseteq Slots
  /\ fetching \in BOOLEAN
  /\ pending_exception \in Nat \cup {-1}
  /\ ins_dispatch_id \in Nat

Live == CqSlots(rob_cq, RobSize)

Older(s, t) == rob[s].id < rob[t].id

(***************************************************************************)
(* A store or an atomic accesses memory only as the oldest instruction of  *)
(* the ROB: every branch before it is resolved and every exception before  *)
(* it is known.  The code compares PCs, and in a loop the top of the ROB   *)
(* may be an earlier execution of the same store, finished and waiting to  *)
(* be committed.                                                           *)
(***************************************************************************)
StoresNotSpeculative ==
  \A s \in Live :
    rob[s].ins.kind \in {"store", "atomic"} /\ rob[s].accesses > 0
      => s = rob_cq.front

(***************************************************************************)
(* Memory is accessed in program order, and an instruction is marked ready *)
(* after exactly one access, never before and never after two.             *)
(***************************************************************************)
AccessesInOrder ==
  \A t \in Live : IsMem(t) =>
    /\ rob[t].accesses <= 1
    /\ rob[t].ready => rob[t].accesses = 1
    /\ rob[t].accesses = 1 =>
         \A s \in Live : IsMem(s) /\ Older(s, t) => rob[s].ready

(***************************************************************************)
(* When a fault at the top of the ROB takes the simulation back to the     *)
(* emulator, pending_exception and pending_tval, which the emulator then   *)
(* raises, are those of that instruction.                                  *)
(***************************************************************************)
RaisesOwnFault ==
  phase = "commit" /\ rob_can_commit /\ rob[rob_cq.front].exception
    => pending_exception = rob[rob_cq.front].id

(***************************************************************************)
(* Whatever is at the front of the load/store queue leaves it (again and   *)
(* again the queue is empty or its front moves): a store does not wait for *)
(* ever for the top of the ROB, nor a load for the unit.                   *)
(***************************************************************************)
LsqDrains ==
  \/ []<>cq_empty(lsq_cq)
  \/ []<><<lsq_cq'.front # lsq_cq.front>>_vars
=============================================================================
