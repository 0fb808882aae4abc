---------------------------- MODULE InorderCore -----------------------------
(***************************************************************************)
(* The in-order core (src/riscvsim/core/inorder.c, inorder_frontend.c,     *)
(* inorder_backend.c): a pipeline of pcgen, fetch, decode, functional      *)
(* units, memory and commit, run backwards once per cycle.  Instructions   *)
(* may finish their functional units out of order; ex_to_mem_queue puts    *)
(* them back in order.  An operand comes from the register file when the   *)
(* register is valid, otherwise from a forwarding latch; keep_dest_busy    *)
(* leaves a register invalid when a younger instruction writes it too.     *)
(*                                                                         *)
(* The value of a register is the dispatch number of the instruction that  *)
(* wrote it.  What an instruction is becomes known when it is decoded.     *)
(* Cache and memory latencies, and those of the units in Slow, are any     *)
(* number of cycles.                                                       *)
(***************************************************************************)
EXTENDS Naturals, Sequences, FiniteSets

CONSTANTS
  Configs,           \* the configurations of the core, with a program each
  Slow,              \* units with a stage latency above one cycle
  QueueSize,         \* INCORE_EX_TO_MEM_QUEUE_SIZE
  PoolSize,          \* INSN_LATCH_POOL_SIZE
  IntRegs, FpRegs    \* registers other than x0, with distinct numbers

FU_ALU == 0

FU_MUL == 1

FU_DIV == 2

FU_FPU_ALU == 3

FU_FPU_FMA == 4

Units == FU_ALU .. FU_FPU_FMA

\* Forwarding buses: one for each functional unit, the last for memory.
MemBus == 5

Buses == 0 .. MemBus

Regs == IntRegs \cup FpRegs

(***************************************************************************)
(* mem: a load, a store or an atomic, which the memory stage performs.     *)
(* illegal: an instruction the decoder finds illegal or leaves to the      *)
(* emulator.  rd 0: no destination, or x0.                                 *)
(***************************************************************************)
Insn(fus) ==
  [kind : {"op", "mem", "branch", "illegal"}, fu : fus, rd : Regs \cup {0},
   srcs : SUBSET Regs]

(***************************************************************************)
(* A configuration: the length of the pipeline, whether units work in      *)
(* parallel, the stages of each unit; the instructions of the program and  *)
(* how many are dispatched between two entries.                            *)
(***************************************************************************)
ASSUME InorderAssumption ==
  /\ \A k \in DOMAIN Configs : LET c == Configs[k] IN
       /\ c.num_cpu_stages \in {5, 6} /\ c.enable_parallel_fu \in BOOLEAN
       /\ DOMAIN c.stages \subseteq Units
       /\ \A f \in DOMAIN c.stages : c.stages[f] \in Nat \ {0}
       /\ FU_FPU_ALU \in DOMAIN c.stages => c.stages[FU_FPU_ALU] = 1
       /\ Slow \subseteq DOMAIN c.stages
       /\ c.insns \subseteq Insn(DOMAIN c.stages)
       /\ c.max_id \in Nat \ {0}
  /\ QueueSize \in Nat \ {0}
  /\ PoolSize \in Nat \ {0}
  /\ Regs \subseteq Nat \ {0}
  /\ IntRegs \cap FpRegs = {}

VARIABLES
  config,           \* the name of the configuration, read at the start
  phase,            \* the stage the cycle calls next
  pcgen,            \* on: has_data; id: its latch, 0 until it has one
  fetch,            \* done: fetch_cpu_stage_exec was called
  decode,           \* done: operands read and destination locked
  fu,               \* the stages of the functional units
  memory, commit,   \* the instruction in the stage, or 0
  accessed,         \* memory.stage_exec_done
  ex_to_mem_queue,  \* dispatch numbers, in program order
  latch,            \* insn_latch_pool, by dispatch number
  pool,             \* the latches that are allocated
  busy,             \* registers with a FALSE int_reg_status/fp_reg_status
  fwd_latch,        \* bus -> the instruction whose result it carries, or 0
  reg,              \* the register files
  exception,        \* the instruction of the pending exception, or 0
  pending,          \* the instruction that set the emulator's
                    \* pending_exception and pending_tval last, or 0
  skip_fetch_cycle,
  ins_dispatch_id,
  asserts,          \* FALSE once a sim_assert has failed
  latest,           \* history: the last issued writer of each register
  committed,        \* history: instructions that were committed
  squashed          \* history: instructions on a path not taken

vars == <<config, phase, pcgen, fetch, decode, fu, memory, commit, accessed,
          ex_to_mem_queue, latch, pool, busy, fwd_latch, reg, exception,
          pending, skip_fetch_cycle, ins_dispatch_id, asserts, latest,
          committed, squashed>>

NumCpuStages == Configs[config].num_cpu_stages

EnableParallelFu == Configs[config].enable_parallel_fu

Stages == Configs[config].stages

Fus == DOMAIN Stages

\* The stages of the functional units.
Pos == DOMAIN fu

Insns == Configs[config].insns

MaxId == Configs[config].max_id

history == <<latest, committed, squashed>>

Ids == 1 .. MaxId

NoInsn == [kind |-> "op", fu |-> FU_ALU, rd |-> 0, srcs |-> {}]

(***************************************************************************)
(* read: the source registers with a TRUE read_rsN.  right: history, the   *)
(* operands read so far are the ones the program means.                    *)
(***************************************************************************)
NoLatch ==
  [ins |-> NoInsn, is_decoded |-> FALSE, read |-> {}, right |-> TRUE,
   keep_dest_busy |-> FALSE, data_fwd_done |-> FALSE]

NoPcgen == [on |-> FALSE, id |-> 0]

NoFetch == [id |-> 0, done |-> FALSE]

NoDecode == [id |-> 0, done |-> FALSE]

NoFu == [id |-> 0, done |-> FALSE, fin |-> FALSE]

NoFwd == [b \in Buses |-> 0]

Init ==
  /\ config \in DOMAIN Configs
  /\ phase = "commit"
  /\ pcgen = [on |-> TRUE, id |-> 0]
  /\ fetch = NoFetch
  /\ decode = NoDecode
  /\ fu = [p \in UNION {{f} \X (0 .. Stages[f] - 1) : f \in Fus} |-> NoFu]
  /\ memory = 0
  /\ commit = 0
  /\ accessed = FALSE
  /\ ex_to_mem_queue = <<>>
  /\ latch = [n \in Ids |-> NoLatch]
  /\ pool = {}
  /\ busy = {}
  /\ fwd_latch = NoFwd
  /\ reg = [r \in Regs |-> 0]
  /\ exception = 0
  /\ pending = 0
  /\ skip_fetch_cycle = FALSE
  /\ ins_dispatch_id = 0
  /\ asserts = TRUE
  /\ latest = [r \in Regs |-> 0]
  /\ committed = {}
  /\ squashed = {}

(***************************************************************************)
(* The emulator takes over and later enters the simulation again: the core *)
(* is reset, the register files start from what was committed.             *)
(***************************************************************************)
in_core_reset ==
  /\ phase' = "commit"
  /\ pcgen' = [on |-> TRUE, id |-> 0]
  /\ fetch' = NoFetch
  /\ decode' = NoDecode
  /\ fu' = [p \in Pos |-> NoFu]
  /\ memory' = 0
  /\ commit' = 0
  /\ accessed' = FALSE
  /\ ex_to_mem_queue' = <<>>
  /\ latch' = [n \in Ids |-> NoLatch]
  /\ pool' = {}
  /\ busy' = {}
  /\ fwd_latch' = NoFwd
  /\ reg' = [r \in Regs |-> 0]
  /\ exception' = 0
  /\ pending' = 0
  /\ skip_fetch_cycle' = FALSE
  /\ ins_dispatch_id' = 0
  /\ latest' = [r \in Regs |-> 0]
  /\ committed' = {}
  /\ squashed' = {}
  /\ UNCHANGED <<config, asserts>>

Ins(n) == latch[n].ins

InFus == {fu[p].id : p \in Pos} \ {0}

-----------------------------------------------------------------------------
(***************************************************************************)
(* Commit: always takes its instruction, so that memory always finds it    *)
(* empty.                                                                  *)
(***************************************************************************)
Drained ==
  /\ ~pcgen.on
  /\ fetch.id = 0 /\ decode.id = 0 /\ memory = 0 /\ commit = 0
  /\ InFus = {}

Leaving == phase = "commit" /\ exception # 0 /\ Drained

CommitNothing ==
  /\ phase = "commit" /\ ~Leaving
  /\ commit = 0
  /\ phase' = "memory"
  /\ UNCHANGED <<config, accessed, pending, fetch, pcgen, decode, fu,
                 memory, commit, ex_to_mem_queue, latch, pool, busy,
                 fwd_latch, reg, exception, skip_fetch_cycle,
                 ins_dispatch_id, asserts, history>>

in_core_commit ==
  /\ phase = "commit" /\ ~Leaving
  /\ commit # 0
  /\ LET rd == Ins(commit).rd
     IN /\ reg' = IF rd = 0 THEN reg ELSE [reg EXCEPT ![rd] = commit]
        /\ busy' = IF latch[commit].keep_dest_busy THEN busy ELSE busy \ {rd}
  /\ pool' = pool \ {commit}
  /\ latch' = [latch EXCEPT ![commit] = NoLatch]
  /\ committed' = committed \cup {commit}
  /\ commit' = 0
  /\ phase' = "memory"
  /\ UNCHANGED <<config, accessed, pending, fetch, pcgen, decode, fu,
                 memory, ex_to_mem_queue, fwd_latch, exception,
                 skip_fetch_cycle, ins_dispatch_id, asserts, latest,
                 squashed>>

\* The timer or the instruction count ends the simulation after a commit.
CommitTimeout ==
  /\ phase = "commit" /\ ~Leaving
  /\ commit # 0
  /\ in_core_reset

\* An exception is pending and the pipeline is drained.
Leave ==
  /\ Leaving
  /\ in_core_reset

-----------------------------------------------------------------------------
(***************************************************************************)
(* Memory.                                                                 *)
(***************************************************************************)
MemoryNothing ==
  /\ phase = "memory"
  /\ memory = 0
  /\ phase' = "execute"
  /\ UNCHANGED <<config, accessed, pending, fetch, pcgen, decode, fu,
                 memory, commit, ex_to_mem_queue, latch, pool, busy,
                 fwd_latch, reg, exception, skip_fetch_cycle,
                 ins_dispatch_id, asserts, history>>

\* The access takes longer.
MemoryWait ==
  /\ phase = "memory"
  /\ memory # 0
  /\ Ins(memory).kind = "mem"
  /\ accessed' = TRUE
  /\ phase' = "execute"
  /\ UNCHANGED <<config, pending, fetch, pcgen, decode, fu, memory,
                 commit, ex_to_mem_queue, latch, pool, busy, fwd_latch,
                 reg, exception, skip_fetch_cycle, ins_dispatch_id,
                 asserts, history>>

\* Mutant: forwards although a younger instruction writes the register.
MemoryForward_Locked(fwd) ==
  IF Ins(memory).rd # 0
  THEN [fwd EXCEPT ![MemBus] = memory]
  ELSE fwd

\* The result goes to the forwarding bus of the memory stage.
MemoryForward(fwd) ==
  IF Ins(memory).rd # 0 /\ ~latch[memory].keep_dest_busy
  THEN [fwd EXCEPT ![MemBus] = memory]
  ELSE fwd

MemoryPass ==
  /\ phase = "memory"
  /\ memory # 0
  /\ fwd_latch' = MemoryForward(fwd_latch)
  /\ commit' = memory
  /\ memory' = 0
  /\ accessed' = FALSE
  /\ phase' = "execute"
  /\ UNCHANGED <<config, pending, fetch, pcgen, decode, fu,
                 ex_to_mem_queue, latch, pool, busy, reg, exception,
                 skip_fetch_cycle, ins_dispatch_id, asserts, history>>

\* The MMU refuses the access: everything younger is dropped.
MemoryFault ==
  /\ phase = "memory"
  /\ memory # 0
  /\ Ins(memory).kind = "mem"
  /\ ~accessed
  /\ exception' = memory
  /\ pending' = memory
  /\ accessed' = FALSE
  /\ pcgen' = NoPcgen
  /\ fetch' = NoFetch
  /\ decode' = NoDecode
  /\ fu' = [p \in Pos |-> NoFu]
  /\ memory' = 0
  /\ phase' = "execute"
  /\ UNCHANGED <<config, commit, ex_to_mem_queue, latch, pool, busy,
                 fwd_latch, reg, skip_fetch_cycle, ins_dispatch_id,
                 asserts, history>>

\* The registers flush_fu_stage makes valid again.
FlushedDests == {Ins(n).rd : n \in InFus}

\* A mispredicted branch: flush_speculated_cpu_state, then as MemoryPass.
Mispredict ==
  /\ phase = "memory"
  /\ memory # 0
  /\ Ins(memory).kind = "branch"
  /\ pcgen' = [on |-> TRUE, id |-> 0]
  /\ fetch' = NoFetch
  /\ decode' = NoDecode
  /\ fu' = [p \in Pos |-> NoFu]
  /\ busy' = busy \ FlushedDests
  /\ ex_to_mem_queue' = <<>>
  /\ fwd_latch' = MemoryForward(NoFwd)
  /\ skip_fetch_cycle' = TRUE
  /\ exception' = 0
  /\ pool' = {memory}
  /\ latch' = [n \in Ids |-> IF n = memory THEN latch[n] ELSE NoLatch]
  /\ commit' = memory
  /\ memory' = 0
  /\ accessed' = FALSE
  /\ latest' = [r \in Regs |-> IF r = Ins(memory).rd THEN memory ELSE reg[r]]
  /\ squashed' = squashed \cup (memory + 1 .. ins_dispatch_id)
  /\ phase' = "execute"
  /\ UNCHANGED <<config, pending, reg, ins_dispatch_id, asserts, committed>>

-----------------------------------------------------------------------------
(***************************************************************************)
(* Execute: every stage of every unit, the last stage of a unit first.     *)
(* slow holds the stages whose latency is over in this cycle.              *)
(***************************************************************************)
Last(p) == p[2] = Stages[p[1]] - 1

After(p) == <<p[1], p[2] + 1>>

Before(p) == <<p[1], p[2] - 1>>

Finished(p, slow) ==
  fu[p].id # 0 /\ (fu[p].fin \/ p[1] \notin Slow \/ p \in slow)

\* Mutant: the youngest instruction goes to memory.
Pushes_Last(n) ==
  /\ memory = 0
  /\ ex_to_mem_queue # <<>>
  /\ ex_to_mem_queue[Len(ex_to_mem_queue)] = n

\* push_insn_from_ex_to_mem
Pushes(n) ==
  /\ memory = 0
  /\ ex_to_mem_queue # <<>>
  /\ Head(ex_to_mem_queue) = n

Leaves(slow) ==
  LET L[p \in Pos] ==
        /\ Finished(p, slow)
        /\ IF Last(p) THEN Pushes(fu[p].id)
           ELSE fu[After(p)].id = 0 \/ L[After(p)]
  IN L

\* fwd_data_from_ex_to_decode
Forwards(n) ==
  /\ ~latch[n].data_fwd_done
  /\ Ins(n).kind # "mem"
  /\ ~latch[n].keep_dest_busy
  /\ Ins(n).rd # 0

\* exec_insn_and_invalidate_rd
Invalidated(p) ==
  IF fu[p].id # 0 /\ ~fu[p].done THEN {Ins(fu[p].id).rd} \ {0} ELSE {}

FuStep(p, slow, leaves) ==
  IF p[2] > 0 /\ leaves[Before(p)]
  THEN [id |-> fu[Before(p)].id, done |-> TRUE, fin |-> FALSE]
  ELSE IF fu[p].id = 0 \/ leaves[p]
  THEN NoFu
  ELSE [id |-> fu[p].id, done |-> TRUE, fin |-> Finished(p, slow)]

in_core_execute_all(slow) ==
  /\ phase = "execute"
  /\ LET leaves == Leaves(slow)
         sent == {fu[p].id : p \in {q \in Pos : Last(q) /\ Finished(q, slow)}}
         forwarded == {n \in sent : Forwards(n)}
         pushed == {n \in sent : Pushes(n)}
     IN /\ busy' = busy \cup UNION {Invalidated(p) : p \in Pos}
        /\ fwd_latch' =
             [b \in Buses |->
                IF b \in Fus /\ fu[<<b, Stages[b] - 1>>].id \in forwarded
                THEN fu[<<b, Stages[b] - 1>>].id ELSE fwd_latch[b]]
        /\ fu' = [p \in Pos |-> FuStep(p, slow, leaves)]
        /\ memory' = IF pushed = {} THEN memory ELSE CHOOSE n \in pushed : TRUE
        /\ ex_to_mem_queue' =
             IF pushed = {} THEN ex_to_mem_queue ELSE Tail(ex_to_mem_queue)
        /\ latch' =
             [n \in Ids |->
                IF n \in pushed THEN [latch[n] EXCEPT !.data_fwd_done = FALSE]
                ELSE IF n \in forwarded
                THEN [latch[n] EXCEPT !.data_fwd_done = TRUE]
                ELSE latch[n]]
  /\ phase' = "decode"
  /\ UNCHANGED <<config, accessed, pending, fetch, pcgen, decode, commit,
                 pool, reg, exception, skip_fetch_cycle, ins_dispatch_id,
                 asserts, history>>

Waiting == {p \in Pos : p[1] \in Slow /\ fu[p].id # 0 /\ ~fu[p].fin}

Execute == \E slow \in SUBSET Waiting : in_core_execute_all(slow)

-----------------------------------------------------------------------------
(***************************************************************************)
(* Decode.                                                                 *)
(***************************************************************************)
AfterDecode == IF NumCpuStages = 5 THEN "pcgen" ELSE "fetch"

DecodeNothing ==
  /\ phase = "decode"
  /\ decode.id = 0
  /\ fwd_latch' = NoFwd
  /\ phase' = AfterDecode
  /\ UNCHANGED <<config, accessed, pending, fetch, pcgen, decode, fu,
                 memory, commit, ex_to_mem_queue, latch, pool, busy, reg,
                 exception, skip_fetch_cycle, ins_dispatch_id, asserts,
                 history>>

\* Mutant: the instruction in fetch survives the exception.
DecodeException_KeepFetch(ins) ==
  /\ phase = "decode"
  /\ decode.id # 0
  /\ ~latch[decode.id].is_decoded
  /\ ins.kind = "illegal"
  /\ latch' = [latch EXCEPT ![decode.id].ins = ins]
  /\ exception' = decode.id
  /\ pcgen' = NoPcgen
  /\ decode' = NoDecode
  /\ fwd_latch' = NoFwd
  /\ phase' = AfterDecode
  /\ UNCHANGED <<config, accessed, pending, fetch, fu, memory, commit,
                 ex_to_mem_queue, pool, busy, reg, skip_fetch_cycle,
                 ins_dispatch_id, asserts, history>>

\* The decoder finds an exception: nothing younger is fetched.
DecodeException(ins) ==
  /\ phase = "decode"
  /\ decode.id # 0
  /\ ~latch[decode.id].is_decoded
  /\ ins.kind = "illegal"
  /\ latch' = [latch EXCEPT ![decode.id].ins = ins]
  /\ exception' = decode.id
  /\ pcgen' = NoPcgen
  /\ fetch' = NoFetch
  /\ decode' = NoDecode
  /\ fwd_latch' = NoFwd
  /\ phase' = AfterDecode
  /\ UNCHANGED <<config, accessed, pending, fu, memory, commit,
                 ex_to_mem_queue, pool, busy, reg, skip_fetch_cycle,
                 ins_dispatch_id, asserts, history>>

\* read_int_operand, read_fp_operand: the buses are searched in order.
Carrying(r) == {b \in Buses : fwd_latch[b] # 0 /\ Ins(fwd_latch[b]).rd = r}

Available(r) == r \notin busy \/ Carrying(r) # {}

Operand(r) ==
  IF r \notin busy THEN reg[r]
  ELSE fwd_latch[CHOOSE b \in Carrying(r) : \A c \in Carrying(r) : b <= c]

\* set_waw_lock_int_dest, set_waw_lock_fp_dest: the stages searched.
Lockable(rd) ==
  LET units == IF rd \in FpRegs THEN {FU_FPU_ALU, FU_FPU_FMA}
               ELSE {FU_ALU, FU_MUL, FU_DIV, FU_FPU_ALU}
  IN {commit, memory} \cup {fu[p].id : p \in {q \in Pos : q[1] \in units}}

WawLocked(rd) ==
  IF rd \in busy THEN {n \in Lockable(rd) \ {0} : Ins(n).rd = rd} ELSE {}

\* execute_stage_busy, target_fu_pipelined: without parallel units at most
\* one unit is busy, the one execute_stage_busy finds.
BusyFus == {f \in Fus : \E p \in Pos : p[1] = f /\ fu[p].id # 0}

\* Mutant: whether the unit is pipelined matters even when all are idle.
Accepts_Pipelined(f) ==
  /\ EnableParallelFu \/ (Stages[f] > 1 /\ BusyFus \subseteq {f})
  /\ fu[<<f, 0>>].id = 0

Accepts(f) ==
  /\ \/ EnableParallelFu
     \/ BusyFus = {}
     \/ Stages[f] > 1 /\ BusyFus = {f}
  /\ fu[<<f, 0>>].id = 0

\* ras: the return address stack redirects the front end.
in_core_decode(ins, ras) ==
  /\ phase = "decode"
  /\ decode.id # 0
  /\ LET n == decode.id
         e == latch[n]
         fresh == {r \in ins.srcs \ e.read : Available(r)}
         ready == decode.done \/ ins.srcs = e.read \cup fresh
         issued == ready /\ Accepts(ins.fu)
         locked == IF ready /\ ~decode.done THEN WawLocked(ins.rd) ELSE {}
         now == [e EXCEPT !.ins = ins, !.is_decoded = TRUE,
                   !.read = @ \cup fresh,
                   !.right = @ /\ \A r \in fresh : Operand(r) = latest[r]]
     IN /\ IF e.is_decoded THEN ins = e.ins /\ ~ras
           ELSE ins.kind # "illegal" /\ (ras => ins.kind = "branch")
        /\ pcgen' = IF ras THEN [on |-> TRUE, id |-> 0] ELSE pcgen
        /\ fetch' = IF ras THEN NoFetch ELSE fetch
        /\ skip_fetch_cycle' = (ras \/ skip_fetch_cycle)
        /\ pool' = IF ras THEN pool \ {pcgen.id, fetch.id} ELSE pool
        /\ squashed' = IF ras THEN squashed \cup (n + 1 .. ins_dispatch_id)
                       ELSE squashed
        /\ latch' = [m \in Ids |->
                       IF m = n THEN now
                       ELSE IF m \in locked
                       THEN [latch[m] EXCEPT !.keep_dest_busy = TRUE]
                       ELSE latch[m]]
        /\ IF issued
           THEN /\ fu' = [fu EXCEPT ![<<ins.fu, 0>>].id = n]
                /\ ex_to_mem_queue' = Append(ex_to_mem_queue, n)
                /\ asserts' = (asserts /\ Len(ex_to_mem_queue) < QueueSize)
                /\ decode' = NoDecode
                /\ latest' = IF ins.rd = 0 THEN latest
                             ELSE [latest EXCEPT ![ins.rd] = n]
           ELSE /\ decode' = [decode EXCEPT !.done = ready]
                /\ UNCHANGED <<fu, ex_to_mem_queue, asserts, latest>>
  /\ fwd_latch' = NoFwd
  /\ phase' = AfterDecode
  /\ UNCHANGED <<config, accessed, pending, memory, commit, busy, reg,
                 exception, ins_dispatch_id, committed>>

-----------------------------------------------------------------------------
(***************************************************************************)
(* Fetch.                                                                  *)
(***************************************************************************)
AfterFetch == IF NumCpuStages = 5 THEN "commit" ELSE "pcgen"

back == <<fu, memory, commit, accessed, ex_to_mem_queue, latch, busy,
          fwd_latch, reg, asserts, history>>

\* There is nothing to fetch, the access takes longer or decode is busy.
FetchNothing ==
  /\ phase = "fetch"
  /\ fetch' = [fetch EXCEPT !.done = fetch.id # 0]
  /\ phase' = AfterFetch
  /\ UNCHANGED <<config, pcgen, decode, pool, exception, pending,
                 skip_fetch_cycle, ins_dispatch_id, back>>

FetchFault ==
  /\ phase = "fetch"
  /\ fetch.id # 0 /\ ~fetch.done
  /\ pcgen' = NoPcgen
  /\ exception' = fetch.id
  /\ pending' = fetch.id
  /\ fetch' = NoFetch
  /\ phase' = AfterFetch
  /\ UNCHANGED <<config, decode, pool, skip_fetch_cycle, ins_dispatch_id,
                 back>>

FetchPass ==
  /\ phase = "fetch"
  /\ fetch.id # 0
  /\ decode.id = 0
  /\ fetch' = NoFetch
  /\ decode' = [NoDecode EXCEPT !.id = fetch.id]
  /\ phase' = AfterFetch
  /\ UNCHANGED <<config, pcgen, pool, exception, pending,
                 skip_fetch_cycle, ins_dispatch_id, back>>

-----------------------------------------------------------------------------
(***************************************************************************)
(* PC generation.                                                          *)
(***************************************************************************)
AfterPcgen == IF NumCpuStages = 5 THEN "fetch" ELSE "commit"

\* Off, or at the bound of the model.
PcgenNothing ==
  /\ phase = "pcgen"
  /\ pcgen.on => pcgen.id = 0 /\ ~skip_fetch_cycle /\ ins_dispatch_id = MaxId
  /\ phase' = AfterPcgen
  /\ UNCHANGED <<config, pcgen, fetch, decode, pool, exception, pending,
                 skip_fetch_cycle, ins_dispatch_id, back>>

PcgenSkip ==
  /\ phase = "pcgen"
  /\ pcgen.on /\ pcgen.id = 0 /\ skip_fetch_cycle
  /\ skip_fetch_cycle' = FALSE
  /\ phase' = AfterPcgen
  /\ UNCHANGED <<config, pcgen, fetch, decode, pool, exception, pending,
                 ins_dispatch_id, back>>

in_core_pcgen ==
  /\ phase = "pcgen"
  /\ pcgen.on
  /\ pcgen.id = 0 => ~skip_fetch_cycle /\ ins_dispatch_id < MaxId
  /\ LET n == IF pcgen.id = 0 THEN ins_dispatch_id + 1 ELSE pcgen.id
     IN /\ ins_dispatch_id' = IF pcgen.id = 0 THEN n ELSE ins_dispatch_id
        /\ pool' = pool \cup {n}
        /\ asserts' = (asserts
                         /\ (pcgen.id = 0 => Cardinality(pool) < PoolSize))
        /\ IF fetch.id = 0
           THEN /\ fetch' = [NoFetch EXCEPT !.id = n]
                /\ pcgen' = [pcgen EXCEPT !.id = 0]
           ELSE /\ pcgen' = [pcgen EXCEPT !.id = n]
                /\ UNCHANGED fetch
  /\ phase' = AfterPcgen
  /\ UNCHANGED <<config, accessed, pending, decode, fu, memory, commit,
                 ex_to_mem_queue, latch, busy, fwd_latch, reg, exception,
                 skip_fetch_cycle, history>>

-----------------------------------------------------------------------------
Next ==
  \/ CommitNothing \/ in_core_commit \/ CommitTimeout \/ Leave
  \/ MemoryNothing \/ MemoryWait \/ MemoryPass \/ MemoryFault \/ Mispredict
  \/ Execute
  \/ DecodeNothing
  \/ \E ins \in Insns : DecodeException(ins)
  \/ \E ins \in Insns, ras \in BOOLEAN : in_core_decode(ins, ras)
  \/ FetchNothing \/ FetchFault \/ FetchPass
  \/ PcgenNothing \/ PcgenSkip \/ in_core_pcgen

Spec == Init /\ [][Next]_vars

(***************************************************************************)
(* The simulation loop never stops, and every latency is finite.           *)
(***************************************************************************)
FairSpec ==
  /\ Spec
  /\ WF_vars(Next)
  /\ SF_vars(MemoryPass)
  /\ \A f \in Slow : SF_vars(\E slow \in SUBSET Waiting :
       /\ \A p \in Waiting : p[1] = f => p \in slow
       /\ in_core_execute_all(slow))

-----------------------------------------------------------------------------
(***************************************************************************)
(* Every variable of the core has its type; no register number 0 in busy:  *)
(* int_reg_status[0] stays TRUE.                                           *)
(***************************************************************************)
TypeOK ==
  /\ phase \in {"commit", "memory", "execute", "decode", "fetch", "pcgen"}
  /\ pcgen \in [on : BOOLEAN, id : 0 .. MaxId]
  /\ fetch \in [id : 0 .. MaxId, done : BOOLEAN]
  /\ decode \in [id : 0 .. MaxId, done : BOOLEAN]
  /\ fu \in [Pos -> [id : 0 .. MaxId, done : BOOLEAN, fin : BOOLEAN]]
  /\ {memory, commit, exception, pending, ins_dispatch_id} \subseteq 0 .. MaxId
  /\ accessed \in BOOLEAN
  /\ ex_to_mem_queue \in Seq(Ids)
  /\ \A n \in Ids : latch[n].ins \in Insns \cup {NoInsn}
  /\ pool \cup committed \cup squashed \subseteq Ids
  /\ busy \subseteq Regs
  /\ fwd_latch \in [Buses -> 0 .. MaxId]
  /\ reg \in [Regs -> 0 .. MaxId]
  /\ latest \in [Regs -> 0 .. MaxId]
  /\ skip_fetch_cycle \in BOOLEAN
  /\ asserts \in BOOLEAN

(***************************************************************************)
(* Every operand that an instruction has read is the result of the last    *)
(* older instruction that writes the register, whether it came from the    *)
(* register file, from a functional unit or from memory.                   *)
(***************************************************************************)
OperandsCorrect == \A n \in Ids : latch[n].right

(***************************************************************************)
(* A register is invalid only as long as an instruction in flight will     *)
(* make it valid: when keep_dest_busy keeps a commit from doing so, "there *)
(* is following instruction writing to the same rd" (in_core_commit).  A   *)
(* drained core is about to leave, and is reset when it is entered again.  *)
(***************************************************************************)
InFlight ==
  ({memory, commit} \cup InFus
     \cup (IF decode.done THEN {decode.id} ELSE {})) \ {0}

BusyHasWriter ==
  ~Drained =>
    \A r \in busy :
      \E n \in InFlight : Ins(n).rd = r /\ ~latch[n].keep_dest_busy

(***************************************************************************)
(* Instructions are committed in program order, each once, whatever unit   *)
(* finishes first: an instruction older than a committed one was committed *)
(* or is on a path not taken.  On the way neither the selection queue nor  *)
(* the latch pool overflows (the sim_asserts of in_core_decode and         *)
(* insn_latch_allocate).                                                   *)
(***************************************************************************)
CommitsInOrder ==
  /\ asserts
  /\ committed \cap squashed = {}
  /\ \A m \in committed : \A n \in 1 .. m : n \in committed \cup squashed

(***************************************************************************)
(* Exceptions are precise: the core leaves the simulation for an exception *)
(* of the path taken, when all older instructions and no younger ones were *)
(* committed; the cause and address the emulator raises for a refused      *)
(* fetch, load or store are those of this very access.                     *)
(***************************************************************************)
PreciseExit ==
  Leaving =>
    /\ exception \notin squashed
    /\ committed = (1 .. exception - 1) \ squashed
    /\ Ins(exception).kind # "illegal" => pending = exception

(***************************************************************************)
(* Decode never waits for ever, for an operand, a unit or a free stage:    *)
(* again and again it is empty or its instruction is another.              *)
(***************************************************************************)
DecodeProceeds ==
  \/ []<>(decode.id = 0)
  \/ []<><<decode'.id # decode.id>>_vars
=============================================================================
