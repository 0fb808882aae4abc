-------------------------------- MODULE Hart --------------------------------
(***************************************************************************)
(* How instructions come to be executed: virt_machine_run calls the        *)
(* interpreter with a budget of cycles, which takes interrupts, hands the  *)
(* hart to the simulated core and gets it back for what that core cannot   *)
(* do (src/riscv_cpu_template.h, src/riscv_cpu.c, src/temu.c, the timer of *)
(* src/riscv_machine.c).  The simulated core is seen from outside: it      *)
(* commits instructions in order until it leaves with a cause.             *)
(*                                                                         *)
(* The guest is a main program at privilege home and, at S and at M level, *)
(* a trap handler, which ends in sret or mret.  A place in the code is     *)
(* <<"main", o>>, o being how far it is ahead of what was executed (0 when *)
(* every instruction before it was executed once), or <<"S", 0>> or        *)
(* <<"M", 0>> for somewhere in a handler.                                  *)
(***************************************************************************)
EXTENDS Integers, Privilege

CONSTANTS
  Budget,      \* MAX_EXEC_CYCLE
  MaxBlock,    \* instructions executed in a block after the budget is used up
  Homes,       \* privileges of the main program
  Delegations  \* values of mideleg

ASSUME HartAssumption == Homes \subseteq Privs

\* In the order of their bits in mip.  SEIP stands for SEIP and MEIP, which
\* plic_update_mip sets and clears together; MEIP cannot be enabled.
Irqs == {"MTIP", "SEIP"}

VARIABLES
  at,             \* "host", "select", "enter", "sim", "loop", "block", "end"
  n_cycles,
  pc,
  sepc, mepc,
  priv, mstatus,
  mie, mip, mideleg, medeleg,
  power_down_flag,
  simulation, return_to_sim,
  due,            \* timecmp <= rtc_get_time
  found,          \* the instruction at pc is a complex one, as the core found
  asserts,        \* FALSE once a sim_assert has failed
  home, home_ie   \* of the main program: privilege, interrupts enabled

loop_vars == <<at, n_cycles, found>>

csr_vars == <<mie, mip, mideleg, medeleg>>

sim_vars == <<simulation, return_to_sim, asserts>>

trap_vars == <<pc, sepc, mepc, priv, mstatus>>

guest == <<home, home_ie>>

vars == <<loop_vars, csr_vars, sim_vars, trap_vars, guest, power_down_flag, due>>

Main(o) == <<"main", o>>

Handler(p) == <<IF p = PRV_S THEN "S" ELSE "M", 0>>

InMain == pc[1] = "main"

Init ==
  /\ at = "host" /\ n_cycles = 0 /\ found = FALSE
  /\ home \in Homes /\ home_ie = FALSE
  /\ pc = Main(0) /\ sepc = Main(0) /\ mepc = Main(0)
  /\ priv = home /\ mstatus = {}
  /\ mie = {} /\ mip = {}
  /\ mideleg \in Delegations /\ medeleg \in BOOLEAN
  /\ power_down_flag = FALSE
  /\ simulation = FALSE /\ return_to_sim = FALSE
  /\ due = FALSE /\ asserts = TRUE

-----------------------------------------------------------------------------
(***************************************************************************)
(* raise_exception2.                                                       *)
(***************************************************************************)
RaiseException(deleg) ==
  /\ mstatus' = TrapMstatus(mstatus, priv, deleg)
  /\ priv' = IF deleg THEN PRV_S ELSE PRV_M
  /\ pc' = Handler(priv')
  /\ sepc' = IF deleg THEN pc ELSE sepc
  /\ mepc' = IF deleg THEN mepc ELSE pc

PendingIrqs ==
  LET pending == mip \cap mie
      all == Irqs \ mideleg
  IN  CASE priv = PRV_M -> pending \cap OnlyIf("MIE" \in mstatus, all)
        [] priv = PRV_S -> pending \cap (all \cup OnlyIf("SIE" \in mstatus, mideleg))
        [] priv = PRV_U -> pending

raise_interrupt ==
  /\ PendingIrqs # {}
  /\ LET irq == IF "MTIP" \in PendingIrqs THEN "MTIP" ELSE "SEIP"
     IN  RaiseException(priv <= PRV_S /\ irq \in mideleg)

\* Both places that check: the interrupt counts for one cycle.
Interrupt ==
  /\ raise_interrupt
  /\ n_cycles' = n_cycles - 1
  /\ at' = "end"
  /\ found' = FALSE
  /\ UNCHANGED <<csr_vars, sim_vars, guest, power_down_flag, due>>

-----------------------------------------------------------------------------
(***************************************************************************)
(* riscv_cpu_set_mip.                                                      *)
(***************************************************************************)
\* Mutant: only the timer wakes the hart.
set_mip_TimerWakes(irq) ==
  /\ mip' = mip \cup {irq}
  /\ power_down_flag' = (power_down_flag /\ irq # "MTIP")

set_mip(irq) ==
  /\ mip' = mip \cup {irq}
  /\ power_down_flag' = (power_down_flag /\ mip' \cap mie = {})

\* Mutant: a sleeping hart is left to the devices.
get_sleep_duration_Awake ==
  IF "MTIP" \notin mip /\ due /\ ~power_down_flag THEN set_mip("MTIP")
  ELSE UNCHANGED <<mip, power_down_flag>>

\* riscv_machine_get_sleep_duration
get_sleep_duration ==
  IF "MTIP" \notin mip /\ due THEN set_mip("MTIP")
  ELSE UNCHANGED <<mip, power_down_flag>>

(***************************************************************************)
(* virt_machine_run, then riscv_machine_interp.                            *)
(***************************************************************************)
HostTimer ==
  /\ at = "host"
  /\ get_sleep_duration
  /\ at' = "select"
  /\ UNCHANGED <<n_cycles, found, mie, mideleg, medeleg, sim_vars, trap_vars,
                 guest, due>>

\* A device that was waited for may raise its interrupt.
HostSelect ==
  /\ at = "select"
  /\ \/ UNCHANGED <<mip, power_down_flag>>
     \/ set_mip("SEIP")
  /\ n_cycles' = Budget
  /\ at' = "end"
  /\ UNCHANGED <<found, mie, mideleg, medeleg, sim_vars, trap_vars, guest, due>>

\* riscv_cpu_interp64: until the hart sleeps or the budget is used up.
Interp ==
  /\ at = "end"
  /\ at' = IF ~power_down_flag /\ n_cycles > 0 THEN "enter" ELSE "host"
  /\ UNCHANGED <<n_cycles, found, csr_vars, sim_vars, trap_vars, guest,
                 power_down_flag, due>>

\* The clock goes on, whatever runs.
Tick ==
  /\ ~due
  /\ due' = TRUE
  /\ UNCHANGED <<loop_vars, csr_vars, sim_vars, trap_vars, guest,
                 power_down_flag>>

\* riscv_cpu_interp_x64 up to the simulation or the main loop.
Enter ==
  /\ at = "enter"
  /\ \/ Interrupt
     \/ /\ PendingIrqs = {}
        /\ at' = IF simulation THEN "sim" ELSE "loop"
        /\ UNCHANGED <<n_cycles, found, csr_vars, sim_vars, trap_vars, guest,
                       power_down_flag, due>>

-----------------------------------------------------------------------------
(***************************************************************************)
(* An instruction that only computes, loads or stores.  A store to a       *)
(* device may raise or lower its interrupt; one to the CLINT sets timecmp. *)
(***************************************************************************)
NextPc == IF InMain THEN Main(pc[2]) ELSE pc   \* one further, one more executed

Effects ==
  \/ UNCHANGED <<mip, power_down_flag, due>>
  \/ set_mip("SEIP") /\ UNCHANGED due
  \/ mip' = mip \ {"SEIP"} /\ UNCHANGED <<power_down_flag, due>>
  \/ /\ priv = PRV_M
     /\ mip' = mip \ {"MTIP"}
     /\ due' \in BOOLEAN
     /\ UNCHANGED power_down_flag

(***************************************************************************)
(* The simulated core.  Commit decrements n_cycles and leaves with a       *)
(* timeout at 0, unless the instruction count it was to simulate is        *)
(* reached.  The emulator goes on where sim_exception_set says.            *)
(***************************************************************************)
\* Mutant: it goes on at the instruction that was committed.
ResumePc_Committed == IF InMain THEN Main(pc[2] - 1) ELSE pc

ResumePc == NextPc

SimCommit ==
  /\ at = "sim"
  /\ Effects
  /\ \/ \* the next instruction is committed too
        /\ n_cycles > 1
        /\ n_cycles' = n_cycles - 1
        /\ pc' = NextPc
        /\ UNCHANGED <<at, simulation>>
     \/ \* SIM_TEMU_TIMEOUT_EXCEPTION
        /\ n_cycles = 1
        /\ n_cycles' = 0
        /\ pc' = ResumePc
        /\ at' = "loop"
        /\ UNCHANGED simulation
     \/ \* SIM_ICOUNT_COMPLETE_EXCEPTION, and riscv_sim_cpu_stop
        /\ pc' = ResumePc
        /\ simulation' = FALSE
        /\ at' = "loop"
        /\ UNCHANGED n_cycles
  /\ UNCHANGED <<found, mie, mideleg, medeleg, return_to_sim, asserts, sepc,
                 mepc, priv, mstatus, guest>>

\* SIM_COMPLEX_OPCODE_EXCEPTION
SimComplex ==
  /\ at = "sim"
  /\ return_to_sim' = TRUE
  /\ found' = TRUE
  /\ at' = "loop"
  /\ UNCHANGED <<n_cycles, csr_vars, simulation, asserts, trap_vars, guest,
                 power_down_flag, due>>

\* SIM_ILLEGAL_OPCODE_EXCEPTION and SIM_MMU_EXCEPTION; also an instruction the
\* interpreter refuses (which has counted it already), and ecall.
Exception(cycles) ==
  /\ InMain
  /\ RaiseException(priv <= PRV_S /\ medeleg)
  /\ n_cycles' = n_cycles - cycles
  /\ at' = "end"
  /\ found' = FALSE
  /\ UNCHANGED <<csr_vars, sim_vars, guest, power_down_flag, due>>

SimException == at = "sim" /\ Exception(1)

-----------------------------------------------------------------------------
(***************************************************************************)
(* The top of the main loop: budget and interrupts, between blocks only.   *)
(***************************************************************************)
LoopTop ==
  /\ at = "loop"
  /\ \/ /\ n_cycles <= 0
        /\ at' = "end"
        /\ UNCHANGED <<n_cycles, found, csr_vars, sim_vars, trap_vars, guest,
                       power_down_flag, due>>
     \/ n_cycles > 0 /\ Interrupt
     \/ /\ n_cycles > 0 /\ PendingIrqs = {}
        /\ at' = "block"
        /\ UNCHANGED <<n_cycles, found, csr_vars, sim_vars, trap_vars, guest,
                       power_down_flag, due>>

\* jump_insn: back to the simulation, or on, in the block or at its end.
JumpInsn ==
  IF return_to_sim
  THEN return_to_sim' = FALSE /\ at' = "end" /\ UNCHANGED asserts
  ELSE /\ asserts' = (asserts /\ ~simulation)
       /\ \/ at' = "loop"
          \/ at' = "block" /\ n_cycles > -MaxBlock
       /\ UNCHANGED return_to_sim

Plain ==
  /\ at = "block" /\ ~found
  /\ Effects
  /\ n_cycles' = n_cycles - 1
  /\ pc' = NextPc
  /\ JumpInsn
  /\ UNCHANGED <<found, mie, mideleg, medeleg, simulation, sepc, mepc, priv,
                 mstatus, guest>>

Refused == at = "block" /\ ~found /\ Exception(2)

Ecall == at = "block" /\ Exception(2)

(***************************************************************************)
(* csrrw, csrrs and csrrc on mstatus or sstatus (the interrupt enable of   *)
(* the current level), mie or sie, and sip.                                *)
(***************************************************************************)
CsrInsn(Write) ==
  /\ at = "block" /\ priv # PRV_U
  /\ n_cycles' = n_cycles - 1
  /\ pc' = NextPc
  /\ Write
  /\ found' = FALSE
  /\ JumpInsn
  /\ UNCHANGED <<mideleg, medeleg, simulation, sepc, mepc, priv, home,
                 power_down_flag, due>>

WriteStatus(on) ==
  /\ InMain     \* a handler leaves its interrupts disabled
  /\ mstatus' = IF on THEN mstatus \cup {IE(priv)} ELSE mstatus \ {IE(priv)}
  /\ home_ie' = on
  /\ UNCHANGED <<mie, mip>>

WriteIe(val) ==
  /\ mie' = IF priv = PRV_M THEN Masked(mie, val, Irqs) ELSE Masked(mie, val, mideleg)
  /\ UNCHANGED <<mip, mstatus, home_ie>>

WriteSip(val) ==
  /\ mip' = Masked(mip, val, mideleg)
  /\ UNCHANGED <<mie, mstatus, home_ie>>

Csr ==
  \/ \E on \in BOOLEAN : CsrInsn(WriteStatus(on))
  \/ \E val \in SUBSET Irqs : CsrInsn(WriteIe(val))
  \/ \E val \in SUBSET Irqs : CsrInsn(WriteSip(val))

\* wfi sleeps unless an enabled interrupt is pending, and counts as executed.
Wfi ==
  /\ at = "block" /\ priv # PRV_U /\ InMain
  /\ n_cycles' = n_cycles - 1
  /\ pc' = NextPc
  /\ found' = FALSE
  /\ IF mip \cap mie = {}
     THEN /\ power_down_flag' = TRUE /\ at' = "end"
          /\ UNCHANGED <<return_to_sim, asserts>>
     ELSE UNCHANGED power_down_flag /\ JumpInsn
  /\ UNCHANGED <<csr_vars, simulation, sepc, mepc, priv, mstatus, guest, due>>

\* handle_sret and handle_mret, at the end of a handler
Xret ==
  /\ at = "block" /\ ~InMain
  /\ IF pc = Handler(PRV_S)
     THEN mstatus' = SretMstatus(mstatus) /\ priv' = Spp(mstatus) /\ pc' = sepc
     ELSE mstatus' = MretMstatus(mstatus) /\ priv' = Mpp(mstatus) /\ pc' = mepc
  /\ n_cycles' = n_cycles - 1
  /\ at' = "end"
  /\ found' = FALSE
  /\ UNCHANGED <<csr_vars, sim_vars, sepc, mepc, guest, power_down_flag, due>>

\* csrrs of 0x800 and 0x801: riscv_sim_cpu_start and riscv_sim_cpu_stop
SimStartStop ==
  /\ at = "block"
  /\ n_cycles' = n_cycles - 1
  /\ pc' = NextPc
  /\ simulation' \in BOOLEAN
  /\ at' = "end"
  /\ found' = FALSE
  /\ UNCHANGED <<csr_vars, return_to_sim, asserts, sepc, mepc, priv, mstatus,
                 guest, power_down_flag, due>>

System == Ecall \/ Csr \/ Wfi \/ Xret \/ SimStartStop

-----------------------------------------------------------------------------
Host == HostTimer \/ HostSelect \/ Interp \/ Enter \/ LoopTop

Core == SimCommit \/ SimComplex \/ SimException

Next == Host \/ Tick \/ Core \/ Plain \/ Refused \/ System

Spec == Init /\ [][Next]_vars

\* virt_machine_run, the simulated core and the interpreter go on; nothing is
\* assumed of what the guest executes.
FairSpec ==
  Spec /\ WF_vars(Host) /\ WF_vars(Core) /\ WF_vars(Plain \/ Refused \/ System)

-----------------------------------------------------------------------------
(***************************************************************************)
(* Whatever moves the program between the interpreter and the simulated    *)
(* core (a complex instruction, the cycle budget, the instruction count,   *)
(* traps), each of its instructions is executed once, and no sim_assert of *)
(* the handover fails.                                                     *)
(***************************************************************************)
EachInsnOnce ==
  /\ asserts
  /\ InMain => pc = Main(0)
  /\ pc = Handler(PRV_S) => sepc = Main(0)
  /\ pc = Handler(PRV_M) => \/ mepc = Main(0)
                            \/ mepc = Handler(PRV_S) /\ sepc = Main(0)

(***************************************************************************)
(* A trap is transparent: when the main program goes on after it, it does  *)
(* so with its privilege and its interrupt enable, also when the handler   *)
(* at S level was interrupted by one at M level.                           *)
(***************************************************************************)
TrapsRestore ==
  InMain => /\ priv = home
            /\ home # PRV_U => (home_ie <=> IE(home) \in mstatus)

(***************************************************************************)
(* No wakeup is lost: a hart that sleeps in wfi has no pending interrupt   *)
(* that is enabled, whenever it became pending.                            *)
(***************************************************************************)
SleepsIdle == power_down_flag => mip \cap mie = {}

(***************************************************************************)
(* A timer interrupt that is due, and stays enabled, is taken, by a hart   *)
(* that runs in either mode or sleeps.                                     *)
(***************************************************************************)
TimerWaits ==
  /\ due /\ "MTIP" \in mie
  /\ priv # PRV_M \/ "MIE" \in mstatus

TimerTaken == []<>~TimerWaits
=============================================================================
