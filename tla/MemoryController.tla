-------------------------- MODULE MemoryController --------------------------
(***************************************************************************)
(* The memory controller and the DRAM behind it                            *)
(* (src/riscvsim/memory_hierarchy/memory_controller.c and dram.c), as      *)
(* operators on their data.                                                *)
(*                                                                         *)
(* A request for one burst is entered twice: in the queue of the pipeline  *)
(* stage that made it (frontend_mem_access_queue, backend_mem_access_queue *)
(* or backend_aim_queue), where it stays valid until the stage need wait   *)
(* for it no longer, and in the global mem_request_queue, from which the   *)
(* controller feeds the DRAM one request at a time.  Nothing links the two *)
(* entries but the address.                                                *)
(*                                                                         *)
(* A stage queue is the record of its counter cur_size and of the sequence *)
(* of its entries, cur_idx being the length of that sequence.              *)
(* mem_request_queue is a circular queue; QueueUser_proofs shows that a    *)
(* circular queue behaves as a sequence, and a sequence is used here.      *)
(***************************************************************************)
EXTENDS Integers, Sequences, FiniteSets

(***************************************************************************)
(* MemAccessType.  The AiM commands are those a processing-in-memory       *)
(* instruction sends to the DRAM; two of them bring data back.             *)
(***************************************************************************)
AimReads == {"AIM_RD_MAC", "AIM_RD_AF"}

AimWrites == {"AIM_MAC_SBK", "AIM_AF_SBK", "AIM_COPY_BKGB", "AIM_COPY_GBBK",
              "AIM_MAC_4BK_INTRA_BG", "AIM_AF_4BK_INTRA_BG", "AIM_EWMUL",
              "AIM_EWADD", "AIM_MAC_ABK", "AIM_AF_ABK", "AIM_WR_AFLUT",
              "AIM_WR_BK", "AIM_WR_GB", "AIM_WR_MAC", "AIM_WR_BIAS"}

MemAccessType == {"READ", "WRITE"} \cup AimReads \cup AimWrites

StageEntry(Addr) == [addr : Addr, type : MemAccessType, valid : BOOLEAN]

RequestEntry(Addr) ==
  [addr : Addr, type : MemAccessType, valid : BOOLEAN, start_access : BOOLEAN]

(***************************************************************************)
(* mem_controller_create_mem_request: the bursts an access of `bytes'      *)
(* bytes at paddr is cut into.  An AiM command is one burst at its own     *)
(* address, and so is an access to address 0.                              *)
(***************************************************************************)
Bursts(paddr, bytes, type, burst_length) ==
  LET rw     == type \in {"READ", "WRITE"} /\ paddr # 0
      offset == IF rw THEN paddr % burst_length ELSE 0
      total  == IF rw THEN bytes + offset ELSE burst_length
      count  == (total + burst_length - 1) \div burst_length
  IN  [k \in 1 .. count |->
         [addr |-> paddr - offset + (k - 1) * burst_length, type |-> type]]

EmptyStageQueue == [cur_size |-> 0, entry |-> <<>>]

(***************************************************************************)
(* fill_memory_request_entry for both queues, once per burst.              *)
(***************************************************************************)
AddToStage(sq, reqs) ==
  [cur_size |-> sq.cur_size + Len(reqs),
   entry    |-> sq.entry \o [k \in DOMAIN reqs |->
                   [addr |-> reqs[k].addr, type |-> reqs[k].type, valid |-> TRUE]]]

AddToRequests(queue, reqs) ==
  queue \o [k \in DOMAIN reqs |->
              [addr |-> reqs[k].addr, type |-> reqs[k].type, valid |-> TRUE,
               start_access |-> FALSE]]

InStage(sq, addr) == \E j \in DOMAIN sq.entry : sq.entry[j].addr = addr

(***************************************************************************)
(* mem_controller_cache_lookup_complete_signal: every queued request whose *)
(* address is in the stage queue may go to the DRAM.                       *)
(***************************************************************************)
Signal(queue, sq) ==
  [k \in DOMAIN queue |->
     [queue[k] EXCEPT !.start_access = @ \/ InStage(sq, queue[k].addr)]]

(***************************************************************************)
(* mem_controller_invalidate_mem_request_queue_entries: every queued       *)
(* request whose address is in the stage queue is dropped, whoever made it.*)
(***************************************************************************)
Invalidate(queue, sq) ==
  [k \in DOMAIN queue |->
     [queue[k] EXCEPT !.valid = @ /\ ~InStage(sq, queue[k].addr)]]

(***************************************************************************)
(* The entries of a stage queue that a completed request may release, and  *)
(* the release of the first of them.                                       *)
(***************************************************************************)
Waiting(sq, addr, types) ==
  {i \in DOMAIN sq.entry :
     sq.entry[i].valid /\ sq.entry[i].addr = addr /\ sq.entry[i].type \in types}

\* Mutant: the released entry stays valid.
Release_StaysValid(sq, addr, types) ==
  IF Waiting(sq, addr, types) = {} THEN sq
  ELSE [sq EXCEPT !.cur_size = @ - 1]

Release(sq, addr, types) ==
  LET W == Waiting(sq, addr, types)
  IN  IF W = {} THEN sq
      ELSE LET i == CHOOSE i \in W : \A j \in W : i <= j
           IN  [cur_size |-> sq.cur_size - 1,
                entry    |-> [sq.entry EXCEPT ![i].valid = FALSE]]

(***************************************************************************)
(* read_complete_callback and write_complete_callback: the frontend queue  *)
(* is searched first, the backend queue only if nothing was found there.   *)
(***************************************************************************)
ReleaseFrontend(f, addr, type) == Release(f, addr, {type})

ReleaseBackend(f, b, addr, type) ==
  IF Waiting(f, addr, {type}) # {} THEN b ELSE Release(b, addr, {type})

(***************************************************************************)
(* aim_read_complete_callback, and aim_write_complete_callback, which does *)
(* not look at the type of the entry.                                      *)
(***************************************************************************)
ReleaseAimRead(ba, addr) == Release(ba, addr, AimReads)

ReleaseAimWrite(ba, addr) == Release(ba, addr, MemAccessType)

(***************************************************************************)
(* dram_send_request: the cycles a request takes, from the latency the     *)
(* DRAM model gives and the delay between the last-level cache and the     *)
(* controller, which a read pays twice.                                    *)
(***************************************************************************)
MaxClockCycles(type, latency, LlcDelay) ==
  latency + (IF type = "READ" THEN 2 * LlcDelay ELSE LlcDelay)

(***************************************************************************)
(* dram_reset.  active_mem_request is a pointer into mem_request_queue, a  *)
(* position of it here; 0 is NULL.                                         *)
(***************************************************************************)
DramIdle ==
  [mem_access_active |-> FALSE, active_mem_request |-> 0,
   elapsed_clock_cycles |-> 0, max_clock_cycles |-> 0]
=============================================================================
