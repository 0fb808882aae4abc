# A TLA+ model of PIM-NDP-Sim

PIM-NDP-Sim is MARSS-RISCV, a cycle-level simulator of RISC-V systems on top of
the TinyEMU emulator, extended with AiM: processing-in-memory instructions that
travel through the simulated pipeline to a DRAM that computes. Paths below are
relative to `src/` of the repository, except `tools/` and `configs/`.

## 1. The system

The emulator runs a guest. When the guest asks for it (a CSR write) it hands
control to a simulated core, which runs the same instructions cycle by cycle on
the same architectural state, until an instruction it leaves to the emulator, an
exception, or the end of a budget returns control.

| Part | State | Operations |
| --- | --- | --- |
| Circular queue (`riscvsim/utils/circular_queue.c`) | `front`, `rear` | enqueue, dequeue, reset, set rear |
| Memory controller (`memory_hierarchy/memory_controller.c`) | three stage queues, `mem_request_queue` | create, clock, signal, invalidate, reset |
| DRAM front end (`memory_hierarchy/dram.c`) | the active request, its latency | send, clock, four completion callbacks |
| DRAMsim3 (`DRAMsim3/src`, `dramsim_wrapper.cpp`) | transaction and command queues, banks, refresh | add, issue, refresh, answer |
| AiMulator wrapper (`aimulator_wrapper.cpp`) | callback map, retry queue | split, send, retry, tick |
| Out-of-order core (`core/ooo*.c`) | ROB, rename table, issue queue, units | one function per stage, rollback, commit |
| Load/store queue and unit (`core/ooo_lsu.c`) | LSQ, LSU | process queue (twice a cycle), run unit |
| In-order core (`core/inorder*.c`, `utils/cpu_latches.c`) | stages, forwarding, register status, latch pool | one function per stage, flush, drain |
| Branch predictor (`bpu/*.c`, handlers in `core/riscv_sim_cpu.c`) | BTB, RAS, BHT, GHT, PHT | probe, target, add, update, flush |
| Caches (`memory_hierarchy/cache.c`, `utils/evict_policy.c`) | tags, dirty bits, PLRU bits | read, write, evict, flush |
| Decoder and execution (`riscvsim/decoder`) | an instruction latch | decode, execute, commit |
| Interpreter (`riscv_cpu_template.h`, `riscv_cpu.c`) | registers, CSRs, trap state | execute, trap, interrupt, wfi |
| CPU control (`core/riscv_sim_cpu.c`, `utils/sim_exception.c`) | mode, exit cause | start, stop, exit, resume |
| Floating point (`softfp*.h`, `softfp.c`) | none | arithmetic, comparison, conversion |
| Address path (`riscv_cpu.c`, `temu_mem_map_wrapper.c`, `iomem.c`, `simplefb.c`) | TLBs, `data_guest_paddr`, dirty bits | walk, read, write, flush, refresh |
| Interrupt controller, timer (`riscv_machine.c`, `temu.c`) | pending, served, `timecmp` | raise, claim, complete, sleep |
| Block device (`virtio.c`, `temu.c`, `block_net.c`) | virtqueue, cached blocks, clusters | request, answer, load, evict, prefetch |
| Other devices, configuration, statistics, tools | | |

How they interact. `virt_machine_run` sets the timer interrupt, sleeps or calls
the interpreter with a budget of cycles; the interpreter takes interrupts and, in
simulation mode, calls the core. A cycle of a core calls the memory controller's
clock and then the stages from commit back to fetch. Fetch and the load/store unit
create requests in their stage queue and in the global queue; when a cache lookup
is over the stage *signals* and its requests may start; the DRAM serves the front
of the global queue and a callback, matched by *address*, decrements the stage's
counter, on which the stage waits. A mispredicted branch rolls the core back and
invalidates the requests of fetch. A core accesses memory through the emulator's
TLBs, which also tell it the physical address to charge its caches with.

What is hard. There are no threads: everything is a function called once per
simulated cycle, or a callback. The difficulty is that each call advances one part
of a pipeline whose other parts hold indices into the same reused slots, that
latencies decide which of many orders of calls happens, and that a rollback, an
exception or an exit has to clean up after all of them. The hazards are listed in
`PROJECT.json` at the lines where they bite.

## 2. Modules

| Module | Models | State and actions |
| --- | --- | --- |
| `BoundedFifo` | specification of a queue | a sequence; put, take, clear, cut back |
| `CircularQueue` | `circular_queue.c` | operators with the names of the C functions |
| `QueueUser` | a queue as the ROB and the LSQ use it | `entries`, `q`; one action per use |
| `MemoryController` | `memory_controller.c`, callbacks of `dram.c` | operators on stage queues and on the request queue |
| `MemSystem` | controller, DRAM front end, `oo_core_fetch`, `oo_core_lsu` and what flushes them | one action for each way a call of a stage can end |
| `DramController` | DRAMsim3: one channel, with `dramsim_wrapper.cpp` or `cpu.cc` as host | a record for the controller, times as cycles to go; one action per call of the host and per clock |
| `AimWrapper` | `aimulator_wrapper.cpp` | callback map, retry queue; the AiMulator accepts, refuses and answers at will |
| `OooCore` | renaming, issue, rollback and commit | ROB, rename table, issue queue, units; values are dispatch numbers |
| `LoadStoreQueue` | LSQ and LSU with the stage order of `oo_core_run` | two circular queues, the unit, the emulator's `pending_exception` |
| `InorderCore` | `inorder*.c`, `cpu_latches.c` | stages, forwarding buses, register status, selection queue, latch pool |
| `EvictPolicy` | `evict_policy.c` | operators |
| `Cache` | `cache.c`, and how `memory_hierarchy.c` connects two levels | tags, dirty and PLRU bits, and which copies hold the last store |
| `BranchPredictor` | BTB and the fetch, decode and execute handlers | a window of instructions, the BTB, two programs at the same addresses |
| `ReturnStack` | `ras.c` | the array and the two indices; push, pop, flush |
| `DirectionPredictor` | `bht.c`, `adaptive_predictor.c` | tables, the branches in flight; fetch, execute, flush |
| `Words` | machine arithmetic: sign extension, shifts, division, high products | operators |
| `EmulatorIsa` | `glue(riscv_cpu_interp_x, XLEN)`, `riscv_cpu_fp_template.h` | `EmuStep`: a function of hart state and instruction |
| `SimulatorIsa` | decode, execute and commit of a simulated core | `SimStep`, likewise |
| `IsaLockstep` | both from the same state | the instruction, the two results |
| `SoftFp` | `softfp_template.h`, `softfp_template_icvt.h` | operators, for any width |
| `FpUnit` | `softfp.c`'s instances, with IEEE 754 as the reference | an operation, its operands, rounding mode, result and flags |
| `Privilege` | the privilege stack: `raise_exception2`, `handle_mret`, `handle_sret` | operators on `mstatus` |
| `Hart` | interpreter loop, handover to a core, interrupts, `wfi`, timer | budget, pc, trap CSRs, mode; one action per step of the loop |
| `Mmu` | page walk, TLBs, slow paths, `temu_mem_map_wrapper.c`, dirty bits | TLBs, page table, dirty sets; one action per access or CSR write |
| `Plic` | interrupt controller | operators |
| `BlockFile` | block device on a file (`temu.c`) | operators: `ro`, `rw`, `snapshot` |
| `BlockNet` | block device over HTTP (`block_net.c`) | operators: lookup, eviction, loading, prefetching |
| `VirtioBlock` | virtqueue and block device of `virtio.c`, with a driver | rings, request in progress, disk, PLIC; an action per handler |

`MC*` modules give values to the constants; `*_proofs` modules hold theorems.
Components with no common state are checked in one run: an MC module has a
variable `part`, chosen in the initial state, that says which of them the behaviour
runs, and a property of a part is stated for the behaviours of that part.

Actions keep the names of the C functions where one action is one function; where
a function has several outcomes, each is an action (`LsuLookup`, `LsuWait`,
`LsuComplete`), and a `phase` variable runs the stages in the order of the code.
An instruction, a register value or a program counter is a small number. A cache
or memory latency is any number of cycles. `PROJECT.json` maps every definition
to the lines it stands for.

Operators with a suffix, `cq_full_NoWrap` for instance, are mutants: what the
definition after them would be with a plausible bug. Each property is listed in
`PROJECT.json` with a mutant that violates it.

## 3. Runs

### `structures`: array structures of a core
- Queue, four slots, which give every relative position of the two indices: it
  implements a FIFO (`ImplementsFifo`).
- Load/store queue: four ROB and three LSQ slots, so that the LSQ fills first and
  `cq_full` is exact for both; five instructions of a loop whose store can be in the ROB twice with one program
  counter. Accesses are made once and in program order (`AccessesInOrder`), stores
  only when nothing older is left (`StoresNotSpeculative`), and the LSQ drains
  (`LsqDrains`). Fairness: the loop of `oo_core_run` never stops (`WF(Next)`), every
  access ends (`SF(LsuDone)`), units finish (`SF(Exec)`).
- Caches: all eight combinations of second level or not, write-back or
  write-through, allocation on writes or not; an instruction cache of two sets, a
  two-way data cache of one set, a second level of one line, and four lines of
  memory, so that every fill evicts. Fetches cross a line with half of their bytes
  on each side, data accesses are aligned or have more bytes in the second line.
  Every load finds the last store (`LoadsServed`); an access looks up every line of
  its bytes, and no other if half of them or more are in the first line
  (`LooksUpWhatItAsks`; the other case is in section 5).

### `memory`, `mem_aim_full`, `aim_order`: memory
- Controller: bursts of two bytes; one or two cycles of lookup and of DRAM latency,
  so that every order of "lookup over" and "request served" occurs; a queue of four
  requests, which AiM reads can fill, so that the abort happens too. Counters are
  right (`CurSizeCounts`), no request is lost (`NoLostRequest`), and neither the
  load/store unit nor fetch waits for ever (`LsuProgress`, `FetchServed`), unless a
  burst is asked for again while an earlier request for it is queued, and the
  answer to the earlier one leaves the later one with nobody to signal it
  (`Blocked`; section 5). An access may miss the caches at any time.
  Fairness: `WF(Next)`, and a fetch stopped by an exception is followed by an exit
  (`SF(SimExit)`): the exception reaches the top of the ROB or is rolled back.
- DRAMsim3: two ranks of a bank, two-entry queues, timing parameters in the order of
  the shipped devices; the shipped setting, one with rank queues, a unified queue
  and dual command issue, and one that closes pages. It meets no state in
  which it ends the program (`DramNeverAborts`), refreshes in time
  (`RefreshedInTime`), answers every access in bounded time (`AccessReturns`), and no
  write overtakes an earlier read of its address (`ReadsBeforeWrite`). The host of
  `cpu.cc`, which never waits, makes at most three offers. Time needs no
  fairness: it is in the state, relative to now.
- AiMulator wrapper: reads, writes and AiM commands of one bus word; an access is
  over when each of its transactions was answered, as long as none is refused
  (`AccessTimed`).
- `mem_aim_full` (violation): an AiM read is released when it is sent and again
  when it is served, so AiM reads can fill the queue, and an assertion stops the
  simulator.
- `aim_order` (violation): new transactions overtake refused ones, against the
  comment of the wrapper.

### `ooo`: out-of-order core
Three ROB slots, four instructions: slots are reused, with a wrap-around, between
the renaming of an instruction and its rollback. The rename table is right
(`RatCorrect`), operands are (`OperandsCorrect`), rollbacks leave nothing behind
(`NothingLeftBehind`), the assertions hold, and every instruction leaves the ROB
(`RobDrains`), unless a hint, `c.lui` of `x0`, stands at its top: the code marks
nothing ready that has no destination and is neither a branch nor an access
(section 5). Fairness: an instruction with its operands is issued, one in a unit
completes, a ready one at the top commits.

### `inorder`, `inorder_waw_flush`, `inorder_fp_loads`: in-order core
- `inorder`: five and six stages, units that exclude one another and units that work
  in parallel (`enable_parallel_fu`, a compile-time default), two integer registers
  and a floating-point one. Commits are in order, operands are the last writes,
  exceptions precise and reported with their own cause, and decode never waits for
  ever. Fairness: memory answers (`SF(MemoryPass)`), and a unit's latency ends.
- `inorder_waw_flush` (violation): with two ALU stages, a writer in decode that is
  flushed leaves its lock on an older writer, and the register stays invalid.
- `inorder_fp_loads` (violation): a floating-point load waiting in the ALU is not
  locked by a younger writer of its register.

### `program`: what is done with instructions
- Branch target buffer: two programs at the same four addresses, one set of two
  ways, up to three instructions in flight; flush on a context switch. Whatever is
  predicted, the program's instructions are committed, and the assertion of the
  branch handler holds (`CommitsProgram`).
- Return address stack: three slots, up to seven calls: overflow, underflow and
  reuse (`LatestCallsKept`).
- Direction predictors: eight configurations: bimodal, the four two-level schemes,
  gshare and gselect, with tables in which branches have entries of their own, share
  them or take them over from one another. Up to three branches, also instances of
  the same one, are in flight between the prediction and the update; a misprediction
  flushes the younger ones. A branch that its history determines is in the end
  predicted right for ever, unless its outcomes are again and again counted in
  another counter than its predictions are read from (`Learns`). That excuse is not
  given to a branch that is never taken, to a bimodal predictor, or where all the
  branches of a history always go the same way. No fairness: a branch that is no
  longer fetched is no longer mispredicted.
- Instruction set: one instruction, from every start state, by the emulator and by
  a core. Words have 8 bits, a "32-bit" quantity 4, so that the values at which
  carries, signs and divisions change all occur; memory ends at 16, so accesses of
  every size also fault; every opcode, with legal and illegal function codes. One
  step is enough: two runs that agree on each step agree on the stream. They leave
  the same state (`LegalAgree`) and refuse the same encodings (`IllegalAgree`),
  apart from the differences the properties name and section 5 lists.
- Floating point: words of 8 bits with 2 of mantissa, to and from 13 bits with 6:
  every mantissa, exponents at both ends of the format and around 1, both signs, all
  rounding modes. Results and flags are those of IEEE 754, computed from the exact
  value (`ResultsCorrect`). The code takes its widths from macros; nothing in it
  depends on a particular one.

### `machine`, `mmu_mprv`, `disk_stale`: the emulated machine
- Hart: a main program at supervisor or machine level, handlers at the others, a
  budget of two cycles, at most one instruction in a block after the
  budget. Each instruction is executed once (`EachInsnOnce`), traps restore what they
  saved (`TrapsRestore`), sleep loses no wakeup (`SleepsIdle`), a timer
  interrupt that stays enabled is taken (`TimerTaken`). Fairness: the loops of the
  host, of the core and of the interpreter go on; nothing is assumed of what the
  guest executes.
- MMU: a page table of two levels of two entries, TLBs of two, indexed by a mask as
  in the code; pages of code, data,
  frame buffer and a device; the guest edits the table, changes SUM and flushes. The TLBs
  say what a walk would say (`TlbCurrent`), the caches are charged with the page of
  the data (`PaddrCharged`), what was drawn is shown (`ScreenCurrent`).
- Disk: three blocks of two clusters, room for one in the cache, two prefetched; a
  ring of two descriptors with indices modulo four, so that both wrap. Requests are
  answered once and in order (`CompletesInOrder`), with the last data written
  (`ReadsLastWrite`), and none is forgotten (`RequestsComplete`). Fairness: the server
  answers, and the driver notifies and serves interrupts.
- `mmu_mprv` (violation): a trap inside machine mode changes MPP, and with MPRV set
  the privilege of loads and stores, without a flush of the TLBs.
- `disk_stale` (violation): a read that starts in a cluster that was not written and
  reaches into one that was returns the old data of the image.

The bounds (`MaxId`, `MaxCalls`, `MaxInFlight`, `MaxFlushes`, `MaxOffers`,
`MaxAsked`, `MaxCycles`, `MaxBlock`) are constants with these names, in guards.
At `MaxId` a core goes on with what it holds, and leaving the simulation starts the
numbers again. `MaxLate` and `MaxAccess` are the bounds the properties claim.
Deadlock is checked in every run. A property "the queue drains" says that again
and again the queue is empty or its front moves.

## 4. Proofs

Checked by TLAPS for every value of the constants that satisfies the named
assumptions.

- `QueueUser_proofs`, for every size (`MaxSizeAssumption`): `TypeCorrect`;
  `FullExactAlways`, that `cq_full` is exact unless the size is 2; `Refinement`,
  that the queue implements `BoundedFifo`. The type invariant, in which both
  indices are slots or both are -1, is inductive. The refinement maps the slots
  from `front` to `rear` to a sequence; the lemmas `EnqueueEffect`,
  `DequeueEffect` and `RollbackEffect` say how an operation changes the number of
  elements and the slot of each one.
- `CircularQueue_proofs`, for every size: what `cq_enqueue`, `cq_dequeue` and
  `cq_set_rear` do to the set of slots in use, and that they keep the entries in
  the order of the numbers the user gives them (`InOrder`), so that the front is
  the oldest. The proofs about users of the queue rest on these lemmas.
- `OooCore_proofs`, for every size of the ROB and of the issue queue, every number
  of registers and every program (`OooAssumption`) in which an instruction that
  decode marks as an exception has no destination (`ExceptionsHaveNoDest`; the
  illegal atomic that has one is in section 5): `RatCorrectAlways`,
  `OperandsCorrectAlways`, `NothingLeftBehindAlways`, `AssertionsHoldAlways`.
  `RatCorrect` is not inductive, since a rollback puts back the slot number that a
  dropped instruction has kept in `old_pdest`, which may have been reused. The
  invariant `Renaming` therefore speaks of every slot number that is kept, in the
  rename table, in `prs1` and in `old_pdest`: it is that of the last writer before
  its holder, or that writer has left and the slot is free or holds a younger
  instruction. `QueueInv` gives slots in use the order of dispatch, from which
  `CommittedMeans` and `InRobMeans` show that the comparisons of indices in
  `rob_entry_committed` decide just this. The lemmas on `Renaming` are about any
  set of slots and array of entries, one for each way the ROB changes (`Push`,
  `Pop`, `Cut`, `Update`); the lemma of an action applies one of them.
- `MemSystem_proofs`, for all sets of accesses and latencies and every queue size
  (`MemSystemAssumption`): `TypeCorrect`, `ServedIsRemoved`, `OneAccessAlways`,
  `CountsCorrect`. The inductive invariant is the conjunction of the four:
  `cur_size` is a count only because a stage queue is empty when an access starts,
  and this is so only because completion and flush reset it. One lemma per action.
  Then `NothingLost`: if no line holds both code and data (`CodeApartFromData`; the
  other case is in section 5), `NoLostRequest`. That is not inductive: it counts the
  write the DRAM is busy with, which has called back already. The invariant
  `LostInv` counts the requests whose callback is still to come (`Comes`), for every
  address and type, and says which accesses the entries of each stage belong to, so
  that what a rollback invalidates by address is never awaited by the load/store
  unit. A callback takes one entry off the stage queues for the request it takes off
  `Comes` (`ReleasesSuffice`), dequeuing shifts the others (`TailComes`), and an access
  adds as many of one as of the other (`AddComes`).
- `LoadStoreQueue_proofs`, for every size of the ROB and of the LSQ, every number of
  commit ports (`LsqAssumption`) and every program with one instruction at a program
  counter (`OneInsnPerPc`): `StoresNotSpeculativeAlways`, `AccessesInOrderAlways`.
  The code only compares the program counter of the store at the front of the LSQ
  with that of the top of the ROB, and a store may be in the ROB twice. The
  invariant says that both queues are in program order (`Orders`) and that the LSQ
  holds exactly the memory instructions that are not finished (`Linked`), so that the
  front is the oldest; that what is finished was accessed once and after all that is
  older (`Finished`); that only the front has been sent to the unit (`Behind`,
  `FrontInv`); and that a finished store is at the top of the ROB and commits before
  the queue is looked at again (`StoresInv`).
- `FrontEnd_proofs`, the return address stack and the branch target buffer. For
  every size of the stack and number of calls: `TypeCorrect`, `LatestCallsAlways`.
  `LatestCallsKept` says that the calls below the top are the latest; it is not
  inductive without `FillAboveTop`, that the slot to fill is the one above the top,
  since a push writes there. For every program, pipeline depth and shape of the
  buffer (`BranchAssumption`: a conditional branch or a direct jump has one
  target), with `FlushOnSwitch`: `CommitsProgramAlways`. `CommitsProgram` is about
  the next commit only; the invariant `ChainInv` says that the pipeline is a path:
  each latch is where its predecessor went on, the oldest is at `arch_pc`, and
  fetch goes on after the youngest. `BtbInv` says that an entry of the buffer is a
  branch of the current address space with a target of that branch, which a
  context switch without a flush would break.
- `Hart_proofs`, for every delegation, set of home privileges and budget
  (`HartAssumption`): `EachInsnOnceAlways`, `TrapsRestoreAlways`,
  `SleepsIdleAlways`. `HandoverInv` ties the program counter a core resumes at to
  what the hart has executed; `SleepInv` adds to `SleepsIdle` that a hart asleep is
  with the host, not in the interpreter loop or in a core; `TrapInv` says what `mstatus` holds of the
  interrupted privilege and enable bit for each level of nesting, one conjunct for
  what S level has saved (`SavedByS`) and one for M level (`SavedByM`).
- `Mmu_proofs`, for every memory map, number of TLB entries, page table and set of
  edits of the guest (`MmuAssumption`: a table has `Fan` entries, and an entry
  without permissions points to a table): `ScreenCurrentAlways`; `TlbCurrentAlways`,
  if the guest does not use MPRV (`NoMprv`; the other case is the run `mmu_mprv`);
  `PaddrChargedAlways`, if there is no PIM memory and a TLB has an even number of entries
  (`EvenTlb`; both other cases are in section 5). `ScreenCurrent` is not inductive: a store that
  hits the write TLB sets no dirty bit. The invariant `MmuInv` adds that a page of the
  frame buffer in the write TLB is marked dirty (`FbMarked`), which the refresh keeps
  by invalidating the entries of what it draws. `TlbCurrent` holds through accesses
  because a walk only adds A and D bits (`Grows`), and what a walk said before it says
  again and marks nothing (`WalkSays`); it holds through traps, returns and writes of
  `mstatus` and `satp` because each of them either flushes or keeps all that
  `get_phys_addr` reads (`ConfigStep`). `PaddrCharged` rests on the entry of the
  first page surviving the access to the second (`NeighbourIdx`): the index is the
  page number masked with the number of entries less one, which keeps the lowest bit
  of the page number if the number of entries is even.

Only model-checked: everything else. Liveness (`LsuProgress`,
`FetchServed`, `LsqDrains`, `RobDrains`, `DecodeProceeds`, `TimerTaken`, `Learns`,
`RequestsComplete`) is out of the prover's reach, and so are the modules with
recursive operators or bitwise ones (`Cache`, `DirectionPredictor`, the instruction
set and floating point). The in-order core, the block device, DRAMsim3 and the
AiMulator wrapper have no proofs yet.

## 5. Findings and known disagreements

The six violation runs state what an assertion or a comment of the code says;
`PROJECT.json` quotes them under `findings`. The passing runs hold for inputs that
exclude the following cases, in which the model, like the code, does something
else. Each shows as a counterexample when the constants are changed as said.

| Where | What happens | To see it |
| --- | --- | --- |
| `circular_queue.c:113` | with two slots, `cq_full` is TRUE with one free slot | `structures` with `MaxSize = 2`: `FullIffAllSlotsUsed` |
| `memory_controller.c:371` | a rollback that flushes fetch drops the load/store unit's request for the same line, and the unit waits for ever | `memory` with `Parts = {"controller"}`, `DataAccesses <- DataAndCode`, `AimAccesses <- NoAim`: `NoLostRequest` |
| `memory_controller.c:206`, `dram.c:186` | a line is asked for again while an earlier read of it is queued (its first fetch was flushed); the answer to the earlier read releases the entry of the later one while its lookup goes on, so that the stage does not wait and never signals; the later request stays at the front of the queue for ever | `LsuProgress`, `FetchServed` with `Blocked == FALSE` |
| `dram.c:186` | the late answer to a flushed read completes the new fetch of its line | follows from matching by address |
| `dram.c:321` | the load/store unit waits for an AiM read only until it is sent | by `ClockSend`; the cause of `mem_aim_full` |
| `riscv_isa_decoder.c:982` | an illegal atomic has a destination but is not renamed; rolling it back restores a mapping it never saved | `ooo` with `Insns <- WithIllegalAtomic`: `RatCorrect`, and alone `AssertionsHold` |
| `ooo_backend.c:283`, `:348` | `c.lui` of `x0` (`riscv_isa_decoder.c:278`) has no destination and is neither a branch nor an access: nothing marks its ROB entry ready, and the core stands still | `RobDrains` without its last disjunct |
| `ooo_lsu.c:116` | a younger load that faults replaces the cause and address of an older one that has yet to commit | `RaisesOwnFault` of `LoadStoreQueue` |
| `riscv_sim_cpu.c:168` | without the flush on a context switch (the default, and what the shipped configurations say) a target of another address space fails the assertion | `program` with `Code <- SamePlaces`, `NumPcs <- 3`, `FlushOnSwitch <- FALSE`: `CommitsProgram` |
| `riscv_sim_cpu.c:75` | likewise an instruction that is no branch is redirected, and nothing corrects it | the same with `Code <- BranchHere` |
| `adaptive_predictor.c:283` | with several instances of a branch in flight, or entries that another branch takes over, a prediction is read from one counter and its outcome counted in another; a branch that alternates may be mispredicted for ever | `Learns` without its second disjunct |
| `cache.c:146` | an access with more than half of its bytes in the second line looks up a third one | `LooksUpWhatItAsks` with the second conjunct of `Exact` for every access |
| `riscv_cpu.c:475`, `:597` | an access to a PIM page that misses the TLB does not set `data_guest_paddr`; the caches are charged with the address of the access before (the comment in `temu_mem_map_wrapper.c:141` says the lookup fills it) | `machine` with a `"pim"` page in `Map`: `PaddrCharged` |
| `sim_params.c:453` | any number of TLB entries is accepted, and the index is masked with that number less one; if it is odd the mask drops the lowest bit, neighbouring pages share an entry, the second part of an access across two pages evicts the entry of the first, and the access is charged with an address computed from the entry of the second page | `machine` with `TlbSize <- 1`: `PaddrCharged` |
| `virtio.c:1103` | the buffer of an asynchronous write is freed when the request returns, and used when the block arrives | `machine` with `FreedBuffer = {"kept", "reused"}`: `ReadsLastWrite` |
| `dram_system.cc:138`, `dramsim_wrapper.cpp:109` | the wrapper adds a transaction without asking whether it will be accepted, and the assertion that it was fails | `memory` with `Parts = {"dram"}`, `DramAccesses <- LineWrites`, `DramHosts = {"wrapper"}`: `AlwaysAccepted` |
| `refresh.cc:31` | with `RANK_LEVEL_SIMULTANEOUS` the loop over the ranks ends after the first | `refresh` of `Setting`: `RefreshedInTime` |
| `refresh.cc` | with `BANK_LEVEL_STAGGERED` banks are refreshed late | likewise |
| `controller.cc:112`, `bankstate.cc:75` | with self refresh a rank is sent a command its state cannot take | `sref` of `Setting`: `DramNeverAborts` |
| `command_queue.cc:131` | `rank_q_empty` is cleared and never set again, so that no rank idles into self refresh after its first command | by `DramController` |
| `aimulator_wrapper.cpp:154` | `<=` sends one transaction more than the access has parts | by `SendPart` |
| `aimulator_wrapper.cpp:172` | an AiM command that is refused leaves the map empty: latency 0, which `dram.c` asserts against; a second entry of its key is erased with it, and its callback fails an assertion | `AccessTimed` of `AimWrapper` without `~refuses` |

Instructions that a simulated core executes differently from the emulator; the
properties of `IsaLockstep` name each class.

| Instruction | Simulated core |
| --- | --- |
| `jalr` | keeps bit 0 of the target |
| `divw`, `divuw`, `remw`, `remuw` | divide whole registers |
| `fmv.s.x` | does not mark the floating-point state dirty |
| shifts by an immediate | illegal codes are tested on an immediate that is still 0 |
| `OP`, `OP-32`, `OP-IMM-32` with an invalid function | write 0 |
| branches with function 2 or 3 | are taken |
| `c.fsd`, `c.fldsp`, `c.fsdsp` with the unit off | execute |
| `FSTORE` with an invalid width | does nothing |
| fused operations with an invalid format | write 0 |
| arithmetic with an invalid rounding mode or sub-function | is not refused |
| AiM loads and stores | four bytes instead of eight; loads return 0 |

In both, software floating point does not raise *invalid* for
`fma(0, inf, qNaN)`, as RISC-V asks. Floating-point flags are written when an
instruction executes, also on a wrong path.

A virtio block request of an unknown type is never given back (`virtio.c:1111`);
the driver of the model makes such requests and does not wait for them.

Read, but not modelled: reading the UART's IIR clears `uart_rx_pending`
(`riscv_machine.c:187`); `temu.c` hands characters to the UART and to the virtio
console; a reset of a virtio device does not cancel a request in progress.

## 6. Not modelled

The mapped lines are about 12 % of the 124,685 lines under `src/`, because most of
these are not the simulator: DRAMsim3's bundled headers (`ext/`: formatting,
JSON, test framework) are 42,000, Ramulator 15,000, the user-mode network stack
`slirp` 10,000. Of the simulator's cores, memory hierarchy, predictors,
interpreter and floating point most of the control is mapped.

- Ramulator and the AiMulator (a submodule): a set of latencies, or arbitrary
  answers. Of DRAMsim3: hybrid memory cubes, several channels, bank groups,
  thermal model, statistics and traces.
- `slirp`, `fs_net.c`, `fs_disk.c`, `fs.c` and the virtio network, 9p, console and
  input devices; UART and HTIF: devices of the emulated machine with which the
  simulated cores and their memory share no state.
- Device tree, JSON, configuration and image loading: run once, before the start.
- Statistics, trace and log, which have no influence on a simulation; the table
  that turns instructions into strings.
- Page-walk delays: their calls are commented out in `riscv_cpu.c`.
- `sonicboom*.c`, `aim_buffer.c`, `aimulator_wrapper_old.cpp`: not built.
- `block_net.c` reads the block size from the image's description and does not
  require it to be a cluster (4 KB) or more (`block_net.c:463`); `BlockNet` assumes
  it, as the copy of a block into a cluster does.
- The assertion `a1 < b` in the bitwise `divrem_u` of a format without a type of
  twice its width (`softfp_template.h:571`): `SoftFp` divides as the other variant,
  `a / b` in that type, does.
- Issue ports and the stages of the units of the out-of-order core: `OooCore` lets
  any ready instruction finish at any time.
- `tools/pim_function.c`: a library for guest programs.
