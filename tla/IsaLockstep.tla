---------------------------- MODULE IsaLockstep ----------------------------
(***************************************************************************)
(* One instruction stream, executed by the emulator and by a simulated     *)
(* core from the same hart state.  A program moves between the two at any  *)
(* instruction (the simulation commands, the cycle budget, every complex   *)
(* instruction), so what it computes is well defined only where they       *)
(* agree.  One step from every start state is compared: two runs that      *)
(* agree on each of their steps agree on the whole stream.                 *)
(***************************************************************************)
EXTENDS SimulatorIsa

CONSTANTS Insns,         \* the instructions the stream is drawn from
          StartStates    \* the hart states it starts in

VARIABLES emu,    \* the hart state the emulator left
          sim,    \* the hart state the simulated core left
          insn,   \* the instruction they executed last
          before  \* the hart state they executed it in

vars == <<emu, sim, insn, before>>

NoInsn == [op |-> "none", f3 |-> 0, f4 |-> 0, f5 |-> 0, f7 |-> 0,
           rd |-> 0, rs1 |-> 0, rs2 |-> 0, rs3 |-> 0, imm |-> 0]

Init ==
  /\ emu \in StartStates
  /\ sim = emu
  /\ before = emu
  /\ insn = NoInsn

\* A trap ends the step in both: the handler's instructions come next.
Execute(i) ==
  /\ insn' = i
  /\ before' = emu
  /\ emu' = EmuStep(emu, i)
  /\ sim' = SimStep(emu, i)

Next ==
  /\ insn = NoInsn
  /\ \E i \in Insns : Execute(i)

Spec == Init /\ [][Next]_vars

-----------------------------------------------------------------------------
\* The AiM instructions are executed differently on purpose: the emulator
\* moves eight bytes, the simulated core four, and its loads return 0.
IsAim(i) ==
  \/ i.op = "AIM_CUSTOM_1"
  \/ i.op = "LOAD" /\ i.f3 = 7
  \/ i.op = "STORE" /\ i.f3 >= 4
  \/ i.op = "FLOAD" /\ i.f3 \notin {2, 3}

\* Legal instructions on which the simulated core departs from the emulator.
\* jalr keeps bit 0 of its target; the divisions of OP-32 use the whole
\* registers; fmv.s.x does not mark the FP state dirty.
OddJalr(s, i) == i.op = "JALR" /\ ULong(s.x[i.rs1] + i.imm) % 2 = 1

IsInt32(v) == v = Sext(WLEN, v)
WideDivision(s, i) ==
  LET a == s.x[i.rs1]  b == s.x[i.rs2]
  IN  /\ i.op = "OP_32" /\ i.f7 = 1 /\ i.rd # 0
      /\ CASE i.f3 = 4 -> ~IsInt32(a) \/ ~IsInt32(b)
                          \/ (Long(a) = -(2^(WLEN - 1)) /\ Long(b) = -1)
           [] i.f3 = 6 -> ~IsInt32(a) \/ ~IsInt32(b)
           [] i.f3 \in {5, 7} -> a >= 2^WLEN \/ b >= 2^WLEN
           [] OTHER -> FALSE

CleanMove(s, i) == i.op = "F_ARITH" /\ i.f5 = 30 /\ s.fs # 3

\* Encodings the emulator refuses and the simulated core executes.
Unrefused(s, i) ==
  \/ i.op \in {"OP_IMM", "OP_IMM_32"} /\ i.f3 \in {1, 5}
  \/ i.op = "OP_IMM_32" /\ i.f3 \notin {0, 1, 5}
  \/ i.op = "OP" /\ i.f7 = 32 /\ i.f3 \notin {0, 5}
  \/ i.op = "OP_32" /\ i.f3 \notin {0, 5}
  \/ i.op = "BRANCH" /\ i.f3 \in {2, 3}
  \/ i.op = "FSTORE" /\ i.f3 \notin {2, 3} /\ s.fs # 0
  \/ i.op = "C0" /\ i.f3 = 5 /\ s.fs = 0
  \/ i.op = "C2" /\ i.f3 \in {1, 5} /\ s.fs = 0
  \/ i.op \in {"FMADD", "FMSUB", "FNMSUB", "FNMADD"} /\ i.f4 \notin {0, 1} /\ s.fs # 0
  \/ i.op = "F_ARITH" /\ s.fs # 0 /\ i.f4 \in {0, 1}
       /\ \/ i.f5 \in {0, 1, 2, 3, 8, 11, 24, 26} /\ i.f3 \in {5, 6}
          \/ i.f5 = 11 /\ i.rs2 # 0
          \/ i.f5 \in {4, 20} /\ i.f3 > 2
          \/ i.f5 \in {5, 28} /\ i.f3 > 1
          \/ i.f5 \in {24, 26} /\ i.rs2 > 3
          \/ i.f5 = 8 /\ i.rs2 # 1 - i.f4

\* An instruction the interpreter accepts leaves the hart in the same state
\* (registers, FP status, reservation, memory, pc and trap) when the simulated
\* core decodes, executes and commits it, apart from the three cases above.
LegalAgree ==
  emu.trap # "illegal" /\ ~IsAim(insn) =>
    emu = sim \/ OddJalr(before, insn) \/ WideDivision(before, insn) \/ CleanMove(before, insn)

\* What the interpreter refuses as illegal the simulated core refuses too,
\* apart from the encodings its decoder does not check.
IllegalAgree ==
  emu.trap = "illegal" /\ ~IsAim(insn) => sim = emu \/ Unrefused(before, insn)

=============================================================================
