----------------------------- MODULE MemSystem ------------------------------
(***************************************************************************)
(* The memory controller at work between the DRAM and the two pipeline     *)
(* stages of the out-of-order core that use it, fetch and the load/store   *)
(* unit.                                                                   *)
(*                                                                         *)
(* oo_core_run (core/ooo.c) calls the parts in a fixed order every cycle;  *)
(* phase says which is next: the controller's clock ("mc"), commit and the *)
(* LSU ("lsu"), the execution units, where a mispredicted branch is        *)
(* discovered ("exec"), and fetch ("fetch").                               *)
(*                                                                         *)
(* An access is the sequence of bursts the caches ask of the controller    *)
(* (none on a hit), with the number of cycles the cache lookup takes.  A   *)
(* line may be asked for while an earlier read of it is still queued: the  *)
(* line that read allocated may have been evicted since.                   *)
(***************************************************************************)
EXTENDS MemoryController

CONSTANTS
  InsnAccesses,   \* what a fetch may ask of the controller
  DataAccesses,   \* what a load, a store or an atomic may ask of it
  AimAccesses,    \* what an AiM instruction may ask of it
  Lookups,        \* cycles a lookup in the caches may take; {1} without caches
  DramLatencies,  \* cycles the DRAM model may answer
  LlcDelay,       \* LLC_TO_MEM_CONTROLLER_DELAY
  QueueSize       \* MEM_REQUEST_QUEUE_SIZE

Accesses == InsnAccesses \cup DataAccesses \cup AimAccesses

ASSUME MemSystemAssumption ==
  /\ \A a \in Accesses : a \in Seq([addr : Nat, type : MemAccessType])
  /\ <<>> \in InsnAccesses \cap DataAccesses
  /\ \A a \in InsnAccesses \cup DataAccesses :
       \A k \in DOMAIN a : a[k].type \in {"READ", "WRITE"}
  /\ \A a \in AimAccesses : Len(a) = 1 /\ a[1].type \in AimReads \cup AimWrites
  /\ Lookups \subseteq Nat \ {0}
  /\ DramLatencies \subseteq Nat \ {0}
  /\ LlcDelay \in Nat \ {0}
  /\ QueueSize \in Nat

VARIABLES
  frontend,           \* frontend_mem_access_queue
  backend,            \* backend_mem_access_queue
  aim,                \* backend_aim_queue
  mem_request_queue,
  dram,
  fetch,              \* the fetch stage and its instruction
  lsu,                \* the LSU and its instruction
  skip_fetch_cycle,
  phase

queues == <<frontend, backend, aim, mem_request_queue>>

vars == <<queues, dram, fetch, lsu, skip_fetch_cycle, phase>>

(***************************************************************************)
(* A stage: has it an instruction whose access was started (busy), how     *)
(* many cycles of the cache lookup are left (max_clock_cycles less         *)
(* elapsed_clock_cycles) and was the controller told that the lookup is    *)
(* over (cache_lookup_complete_signal_sent).  fetch.on is fetch.has_data;  *)
(* lsu.aim says which of the two backend queues the instruction uses.      *)
(***************************************************************************)
FetchIdle == [on |-> TRUE, busy |-> FALSE, left |-> 0, sent |-> FALSE]

LsuIdle == [busy |-> FALSE, aim |-> FALSE, left |-> 0, sent |-> FALSE]

Init ==
  /\ frontend = EmptyStageQueue
  /\ backend = EmptyStageQueue
  /\ aim = EmptyStageQueue
  /\ mem_request_queue = <<>>
  /\ dram = DramIdle
  /\ fetch = FetchIdle
  /\ lsu = LsuIdle
  /\ skip_fetch_cycle = FALSE
  /\ phase = "mc"

-----------------------------------------------------------------------------
(***************************************************************************)
(* mem_controller_clock.  With the DRAM idle, it looks at the front        *)
(* request: an invalidated one is dropped, one whose cache lookup is over  *)
(* is sent.  dram_clock then advances the DRAM in the same call.           *)
(***************************************************************************)
front == mem_request_queue[1]

ClockIdle ==
  /\ phase = "mc"
  /\ ~dram.mem_access_active
  /\ (mem_request_queue # <<>>) => (front.valid /\ ~front.start_access)
  /\ phase' = "lsu"
  /\ UNCHANGED <<queues, dram, fetch, lsu, skip_fetch_cycle>>

ClockDrop ==
  /\ phase = "mc"
  /\ ~dram.mem_access_active
  /\ mem_request_queue # <<>> /\ ~front.valid
  /\ mem_request_queue' = Tail(mem_request_queue)
  /\ phase' = "lsu"
  /\ UNCHANGED <<frontend, backend, aim, dram, fetch, lsu, skip_fetch_cycle>>

(***************************************************************************)
(* dram_send_request, then the first increment of dram_clock: the latency  *)
(* is at least two cycles, so the request cannot be over in this call.  A  *)
(* write is released here, and so is every AiM command.                    *)
(***************************************************************************)
ClockSend(latency) ==
  /\ phase = "mc"
  /\ ~dram.mem_access_active
  /\ mem_request_queue # <<>> /\ front.valid /\ front.start_access
  /\ IF front.type = "WRITE"
     THEN /\ frontend' = ReleaseFrontend(frontend, front.addr, "WRITE")
          /\ backend' = ReleaseBackend(frontend, backend, front.addr, "WRITE")
          /\ aim' = aim
     ELSE IF front.type # "READ"
     THEN /\ aim' = ReleaseAimWrite(aim, front.addr)
          /\ UNCHANGED <<frontend, backend>>
     ELSE UNCHANGED <<frontend, backend, aim>>
  /\ dram' = [mem_access_active |-> TRUE, active_mem_request |-> 1,
              elapsed_clock_cycles |-> 2,
              max_clock_cycles |-> MaxClockCycles(front.type, latency, LlcDelay)]
  /\ phase' = "lsu"
  /\ UNCHANGED <<mem_request_queue, fetch, lsu, skip_fetch_cycle>>

ClockTick ==
  /\ phase = "mc"
  /\ dram.mem_access_active
  /\ dram.elapsed_clock_cycles # dram.max_clock_cycles
  /\ dram' = [dram EXCEPT !.elapsed_clock_cycles = @ + 1]
  /\ phase' = "lsu"
  /\ UNCHANGED <<queues, fetch, lsu, skip_fetch_cycle>>

(***************************************************************************)
(* dram_clock on the last cycle, and the cq_dequeue its result asks for.   *)
(***************************************************************************)
ClockDone ==
  LET served == mem_request_queue[dram.active_mem_request]
  IN  /\ phase = "mc"
      /\ dram.mem_access_active
      /\ dram.elapsed_clock_cycles = dram.max_clock_cycles
      /\ IF served.type = "READ"
         THEN /\ frontend' = ReleaseFrontend(frontend, served.addr, "READ")
              /\ backend' = ReleaseBackend(frontend, backend, served.addr, "READ")
              /\ aim' = aim
         ELSE IF served.type \in AimReads
         THEN /\ aim' = ReleaseAimRead(aim, served.addr)
              /\ UNCHANGED <<frontend, backend>>
         ELSE UNCHANGED <<frontend, backend, aim>>
      /\ mem_request_queue' = Tail(mem_request_queue)
      /\ dram' = DramIdle
      /\ phase' = "lsu"
      /\ UNCHANGED <<fetch, lsu, skip_fetch_cycle>>

McClock ==
  \/ ClockIdle
  \/ ClockDrop
  \/ \E latency \in DramLatencies : ClockSend(latency)
  \/ ClockTick
  \/ ClockDone

-----------------------------------------------------------------------------
(***************************************************************************)
(* mem_controller_reset, at every entry to simulation and when the LSU's   *)
(* instruction was on a mispredicted path.                                 *)
(***************************************************************************)
MemControllerReset ==
  /\ frontend' = EmptyStageQueue
  /\ backend' = EmptyStageQueue
  /\ aim' = EmptyStageQueue
  /\ mem_request_queue' = <<>>
  /\ dram' = DramIdle

(***************************************************************************)
(* Commit leaves the simulation loop on an exception or a timeout, and     *)
(* riscv_sim_cpu_reset prepares the next entry to it.                      *)
(***************************************************************************)
SimExit ==
  /\ phase = "lsu"
  /\ MemControllerReset
  /\ fetch' = FetchIdle
  /\ lsu' = LsuIdle
  /\ skip_fetch_cycle' = FALSE
  /\ phase' = "mc"

(***************************************************************************)
(* mem_controller_create_mem_request asserts that mem_request_queue has    *)
(* room; when it has not, the simulator aborts.                            *)
(***************************************************************************)
Fits(a) == Len(mem_request_queue) + Len(a) <= QueueSize

Abort ==
  /\ \/ /\ phase = "lsu" /\ ~lsu.busy
        /\ \E a \in DataAccesses \cup AimAccesses : ~Fits(a)
     \/ /\ phase = "fetch" /\ fetch.on /\ ~fetch.busy /\ ~skip_fetch_cycle
        /\ \E a \in InsnAccesses : ~Fits(a)
  /\ phase' = "aborted"
  /\ UNCHANGED <<queues, dram, fetch, lsu, skip_fetch_cycle>>

Aborted ==
  /\ phase = "aborted"
  /\ UNCHANGED vars

(***************************************************************************)
(* oo_core_lsu.  The first call for an instruction runs                    *)
(* mem_cpu_stage_exec, which creates the requests; when the lookup takes a *)
(* single cycle its end is signalled in the same call.                     *)
(***************************************************************************)
LsuNothing ==
  /\ phase = "lsu"
  /\ ~lsu.busy
  /\ phase' = "exec"
  /\ UNCHANGED <<queues, dram, fetch, lsu, skip_fetch_cycle>>

LsuStart(a, is_aim, lookup) ==
  LET sq    == IF is_aim THEN aim ELSE backend
      added == AddToStage(sq, a)
      reqs  == AddToRequests(mem_request_queue, a)
      over  == lookup = 1 /\ added.cur_size # 0
  IN  /\ phase = "lsu"
      /\ ~lsu.busy
      /\ a # <<>> \/ lookup > 1
      /\ Fits(a)
      /\ aim' = IF is_aim THEN added ELSE aim
      /\ backend' = IF is_aim THEN backend ELSE added
      /\ mem_request_queue' = IF over THEN Signal(reqs, added) ELSE reqs
      /\ lsu' = [busy |-> TRUE, aim |-> is_aim, left |-> lookup - 1, sent |-> over]
      /\ phase' = "exec"
      /\ UNCHANGED <<frontend, dram, fetch, skip_fetch_cycle>>

LsuQueue == IF lsu.aim THEN aim ELSE backend

\* Mutant: the lookup counts down only while no request of it waits.
LsuLookup_AfterWait ==
  /\ phase = "lsu"
  /\ lsu.busy /\ lsu.left > 0
  /\ lsu' = IF LsuQueue.cur_size = 0 THEN [lsu EXCEPT !.left = @ - 1] ELSE lsu
  /\ phase' = "exec"
  /\ UNCHANGED <<queues, dram, fetch, skip_fetch_cycle>>

LsuLookup ==
  /\ phase = "lsu"
  /\ lsu.busy /\ lsu.left > 0
  /\ lsu' = [lsu EXCEPT !.left = @ - 1]
  /\ phase' = "exec"
  /\ UNCHANGED <<queues, dram, fetch, skip_fetch_cycle>>

LsuWait ==
  /\ phase = "lsu"
  /\ lsu.busy /\ lsu.left = 0
  /\ LsuQueue.cur_size # 0
  /\ mem_request_queue' = IF lsu.sent THEN mem_request_queue
                          ELSE Signal(mem_request_queue, LsuQueue)
  /\ lsu' = [lsu EXCEPT !.sent = TRUE]
  /\ phase' = "exec"
  /\ UNCHANGED <<frontend, backend, aim, dram, fetch, skip_fetch_cycle>>

LsuComplete ==
  /\ phase = "lsu"
  /\ lsu.busy /\ lsu.left = 0
  /\ LsuQueue.cur_size = 0
  /\ aim' = IF lsu.aim THEN [aim EXCEPT !.entry = <<>>] ELSE aim
  /\ backend' = IF lsu.aim THEN backend ELSE [backend EXCEPT !.entry = <<>>]
  /\ lsu' = LsuIdle
  /\ phase' = "exec"
  /\ UNCHANGED <<frontend, mem_request_queue, dram, fetch, skip_fetch_cycle>>

Lsu ==
  \/ LsuNothing
  \/ \E a \in DataAccesses, lookup \in Lookups : LsuStart(a, FALSE, lookup)
  \/ \E a \in AimAccesses : LsuStart(a, TRUE, 1)
  \/ LsuLookup
  \/ LsuWait
  \/ LsuComplete

-----------------------------------------------------------------------------
(***************************************************************************)
(* oo_core_execute_all.  A mispredicted branch restores the front end      *)
(* (restore_cpu_frontend) and, when the instruction in the LSU is younger  *)
(* than the branch, resets the controller (restore_lsu).  The LSU may hold *)
(* an instruction it has not started, so the reset may also happen when it *)
(* is not busy.                                                            *)
(***************************************************************************)
NoRollback ==
  /\ phase = "exec"
  /\ phase' = "fetch"
  /\ UNCHANGED <<queues, dram, fetch, lsu, skip_fetch_cycle>>

\* Mutant: the LSU's requests are invalidated as well.
Rollback_InvalidatesBackend(lsu_speculated) ==
  /\ phase = "exec"
  /\ IF lsu_speculated
     THEN MemControllerReset /\ lsu' = LsuIdle
     ELSE /\ mem_request_queue' =
               Invalidate(Invalidate(mem_request_queue, frontend), backend)
          /\ frontend' = EmptyStageQueue
          /\ UNCHANGED <<backend, aim, dram, lsu>>
  /\ fetch' = FetchIdle
  /\ skip_fetch_cycle' = TRUE
  /\ phase' = "fetch"

Rollback(lsu_speculated) ==
  /\ phase = "exec"
  /\ IF lsu_speculated
     THEN MemControllerReset /\ lsu' = LsuIdle
     ELSE /\ mem_request_queue' = Invalidate(mem_request_queue, frontend)
          /\ frontend' = EmptyStageQueue
          /\ UNCHANGED <<backend, aim, dram, lsu>>
  /\ fetch' = FetchIdle
  /\ skip_fetch_cycle' = TRUE
  /\ phase' = "fetch"

(***************************************************************************)
(* process_lsq_entry_load and process_lsq_entry_store on a faulting        *)
(* access: the fetch stage is flushed, its requests are not.  The branches *)
(* of the same cycle are still to come.                                    *)
(***************************************************************************)
StopFetch ==
  /\ phase = "exec"
  /\ ~lsu.busy
  /\ fetch.on
  /\ fetch' = [FetchIdle EXCEPT !.on = FALSE]
  /\ UNCHANGED <<queues, dram, lsu, skip_fetch_cycle, phase>>

Exec ==
  \/ NoRollback
  \/ \E s \in BOOLEAN : Rollback(s)
  \/ StopFetch

-----------------------------------------------------------------------------
(***************************************************************************)
(* bpu_enabled_decode_stage_handler, just before fetch runs: a return      *)
(* whose target comes from the return address stack redirects the fetch    *)
(* stage.  Decode works on an instruction in the cycle after fetch handed  *)
(* it over, before fetch starts another.                                   *)
(***************************************************************************)
RasRedirect ==
  /\ phase = "fetch"
  /\ fetch.on /\ ~fetch.busy
  /\ mem_request_queue' = Invalidate(mem_request_queue, frontend)
  /\ frontend' = EmptyStageQueue
  /\ fetch' = FetchIdle
  /\ skip_fetch_cycle' = TRUE
  /\ UNCHANGED <<backend, aim, dram, lsu, phase>>

(***************************************************************************)
(* oo_core_fetch.  Nothing happens while fetching is stopped or in the     *)
(* cycle of a redirect; FetchNothing is also a fetch that hits in one      *)
(* cycle, and FetchFault one that faults, after which fetch stops.         *)
(***************************************************************************)
FetchNothing ==
  /\ phase = "fetch"
  /\ ~fetch.on \/ ~fetch.busy
  /\ skip_fetch_cycle' = (skip_fetch_cycle /\ ~fetch.on)
  /\ phase' = "mc"
  /\ UNCHANGED <<queues, dram, fetch, lsu>>

FetchFault ==
  /\ phase = "fetch"
  /\ fetch.on /\ ~fetch.busy /\ ~skip_fetch_cycle
  /\ frontend' = [frontend EXCEPT !.cur_size = 0, !.entry = <<>>]
  /\ fetch' = [FetchIdle EXCEPT !.on = FALSE]
  /\ phase' = "mc"
  /\ UNCHANGED <<backend, aim, mem_request_queue, dram, lsu, skip_fetch_cycle>>

(***************************************************************************)
(* fetch_cpu_stage_exec clears cur_size, not cur_idx, before the access.   *)
(***************************************************************************)
FetchStart(a, lookup) ==
  LET added == AddToStage([frontend EXCEPT !.cur_size = 0], a)
      reqs  == AddToRequests(mem_request_queue, a)
      over  == lookup = 1 /\ added.cur_size # 0
  IN  /\ phase = "fetch"
      /\ fetch.on /\ ~fetch.busy /\ ~skip_fetch_cycle
      /\ a # <<>> \/ lookup > 1
      /\ Fits(a)
      /\ frontend' = added
      /\ mem_request_queue' = IF over THEN Signal(reqs, added) ELSE reqs
      /\ fetch' = [on |-> TRUE, busy |-> TRUE, left |-> lookup - 1, sent |-> over]
      /\ phase' = "mc"
      /\ UNCHANGED <<backend, aim, dram, lsu, skip_fetch_cycle>>

\* Mutant: the lookup counts down only while no request of it waits.
FetchLookup_AfterWait ==
  /\ phase = "fetch"
  /\ fetch.busy /\ fetch.left > 0
  /\ fetch' = IF frontend.cur_size = 0 THEN [fetch EXCEPT !.left = @ - 1] ELSE fetch
  /\ phase' = "mc"
  /\ UNCHANGED <<queues, dram, lsu, skip_fetch_cycle>>

FetchLookup ==
  /\ phase = "fetch"
  /\ fetch.busy /\ fetch.left > 0
  /\ fetch' = [fetch EXCEPT !.left = @ - 1]
  /\ phase' = "mc"
  /\ UNCHANGED <<queues, dram, lsu, skip_fetch_cycle>>

FetchWait ==
  /\ phase = "fetch"
  /\ fetch.busy /\ fetch.left = 0
  /\ frontend.cur_size # 0
  /\ mem_request_queue' = IF fetch.sent THEN mem_request_queue
                          ELSE Signal(mem_request_queue, frontend)
  /\ fetch' = [fetch EXCEPT !.sent = TRUE]
  /\ phase' = "mc"
  /\ UNCHANGED <<frontend, backend, aim, dram, lsu, skip_fetch_cycle>>

(***************************************************************************)
(* The instruction goes to decode if decode is free, and stalls in fetch   *)
(* if it is not.                                                           *)
(***************************************************************************)
FetchComplete(decode_free) ==
  /\ phase = "fetch"
  /\ fetch.busy /\ fetch.left = 0
  /\ frontend.cur_size = 0
  /\ IF decode_free
     THEN /\ frontend' = [frontend EXCEPT !.entry = <<>>]
          /\ fetch' = FetchIdle
     ELSE UNCHANGED <<frontend, fetch>>
  /\ phase' = "mc"
  /\ UNCHANGED <<backend, aim, mem_request_queue, dram, lsu, skip_fetch_cycle>>

Fetch ==
  \/ RasRedirect
  \/ FetchNothing
  \/ FetchFault
  \/ \E a \in InsnAccesses, lookup \in Lookups : FetchStart(a, lookup)
  \/ FetchLookup
  \/ FetchWait
  \/ \E d \in BOOLEAN : FetchComplete(d)

-----------------------------------------------------------------------------
Next == McClock \/ SimExit \/ Lsu \/ Exec \/ Fetch \/ Abort \/ Aborted

Spec == Init /\ [][Next]_vars

(***************************************************************************)
(* oo_core_run is a loop that never waits.  Once a fault has stopped       *)
(* fetching, the faulting instruction comes to the top of the ROB and      *)
(* commit leaves the loop.                                                 *)
(***************************************************************************)
FairSpec ==
  Spec /\ WF_vars(Next) /\ SF_vars(SimExit /\ ~fetch.on)

-----------------------------------------------------------------------------
StageQueue == [cur_size : Int, entry : Seq(StageEntry(Nat))]

Requests == Seq(RequestEntry(Nat))

DramState ==
  [mem_access_active : BOOLEAN, active_mem_request : Nat,
   elapsed_clock_cycles : Nat, max_clock_cycles : Nat]

FetchState == [on : BOOLEAN, busy : BOOLEAN, left : Nat, sent : BOOLEAN]

LsuState == [busy : BOOLEAN, aim : BOOLEAN, left : Nat, sent : BOOLEAN]

(***************************************************************************)
(* The queues hold entries and the stages are in one of their states.      *)
(***************************************************************************)
TypeOK ==
  /\ frontend \in StageQueue
  /\ backend \in StageQueue
  /\ aim \in StageQueue
  /\ mem_request_queue \in Requests
  /\ dram \in DramState
  /\ fetch \in FetchState
  /\ lsu \in LsuState
  /\ skip_fetch_cycle \in BOOLEAN
  /\ phase \in {"mc", "lsu", "exec", "fetch", "aborted"}

(***************************************************************************)
(* The request the DRAM is busy with is the front of mem_request_queue, so *)
(* the cq_dequeue after dram_clock (memory_controller.c) removes the one   *)
(* that was served, whatever was invalidated, added or reset meanwhile.    *)
(***************************************************************************)
ActiveIsFront ==
  dram.mem_access_active =>
    /\ dram.active_mem_request = 1
    /\ mem_request_queue # <<>>
    /\ front.start_access
    /\ dram.elapsed_clock_cycles <= dram.max_clock_cycles

(***************************************************************************)
(* cur_size, on which a stage waits, is the number of its valid entries:   *)
(* it never goes negative, and it is zero exactly when nothing is awaited. *)
(***************************************************************************)
Pending(sq) == {i \in DOMAIN sq.entry : sq.entry[i].valid}

CurSizeCounts ==
  \A sq \in {frontend, backend, aim} : sq.cur_size = Cardinality(Pending(sq))

(***************************************************************************)
(* A stage queue holds the requests of at most one access, that of the     *)
(* stage's present instruction: cur_idx, which nothing checks against the  *)
(* size of the array, is back to 0 when the next access starts.            *)
(***************************************************************************)
OneAccessPerStage ==
  /\ (fetch.on /\ ~fetch.busy) => frontend = EmptyStageQueue
  /\ ~(lsu.busy /\ ~lsu.aim) => backend = EmptyStageQueue
  /\ ~(lsu.busy /\ lsu.aim) => aim = EmptyStageQueue

(***************************************************************************)
(* The queued requests that will still call back to (addr, type), and the  *)
(* stage entries that wait for such a call.                                *)
(***************************************************************************)
Served(addr, type) ==
  {k \in DOMAIN mem_request_queue :
     /\ mem_request_queue[k].addr = addr
     /\ mem_request_queue[k].type = type
     /\ mem_request_queue[k].valid \/ (dram.mem_access_active /\ k = 1)}

Awaiting(addr, type) ==
  Cardinality(Waiting(frontend, addr, {type}))
    + Cardinality(Waiting(backend, addr, {type}))

(***************************************************************************)
(* No stage waits for a request nobody will serve: for every address and   *)
(* type, at least as many requests are on their way as entries wait.  What *)
(* could lose one is the invalidation by address in a rollback.            *)
(***************************************************************************)
NoLostRequest ==
  \A sq \in {frontend, backend} : \A i \in Pending(sq) :
    LET e == sq.entry[i]
    IN  Awaiting(e.addr, e.type) <= Cardinality(Served(e.addr, e.type))


(***************************************************************************)
(* Two queued requests for the same burst: the second was made after what  *)
(* waited for the first was flushed.                                       *)
(***************************************************************************)
AskedTwice ==
  \E j, k \in DOMAIN mem_request_queue :
    /\ j # k
    /\ mem_request_queue[j].addr = mem_request_queue[k].addr
    /\ mem_request_queue[j].type = mem_request_queue[k].type

(***************************************************************************)
(* The front request waits for the end of a lookup that nobody is going to *)
(* signal: no stage that still waits for something has it in its queue.    *)
(***************************************************************************)
Signals(stage, sq) ==
  stage.busy /\ ~stage.sent /\ sq.cur_size # 0 /\ InStage(sq, front.addr)

Orphaned ==
  /\ mem_request_queue # <<>> /\ front.valid /\ ~front.start_access
  /\ ~Signals(fetch, frontend)
  /\ ~Signals(lsu, LsuQueue)

(***************************************************************************)
(* What may stop mem_controller_clock for ever: callbacks are matched by   *)
(* address, so the one of the first request may release the stage from the *)
(* second while it is still in its lookup, and the second is an orphan.    *)
(***************************************************************************)
Blocked == <>AskedTwice /\ <>[]Orphaned

(***************************************************************************)
(* The LSU is never stuck: its instruction completes or is flushed, unless *)
(* the simulator is aborted; only a burst that was asked for again while   *)
(* its first request was queued may leave an orphan that blocks it.        *)
(***************************************************************************)
LsuProgress == []<>(~lsu.busy \/ phase = "aborted") \/ Blocked

(***************************************************************************)
(* Nor is fetch, but for such an orphan: what it waits for arrives, or it  *)
(* is redirected.                                                          *)
(***************************************************************************)
FetchServed ==
  []<>(frontend.cur_size = 0 \/ ~fetch.busy \/ phase = "aborted") \/ Blocked
=============================================================================
