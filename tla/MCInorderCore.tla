--------------------------- MODULE MCInorderCore ----------------------------
(***************************************************************************)
(* Units and instructions for model checking: two integer registers and a  *)
(* floating-point one.                                                     *)
(***************************************************************************)
EXTENDS InorderCore, TLC

\* As configured in riscv64_inorder_soc.cfg, with a shorter FMA pipeline.
ThreeUnits == FU_ALU :> 1 @@ FU_MUL :> 1 @@ FU_FPU_FMA :> 2

TwoUnits == FU_ALU :> 1 @@ FU_MUL :> 1

TwoStageAlu == FU_ALU :> 2 @@ FU_MUL :> 1

Insn4(kind, fu_type, rd, srcs) ==
  [kind |-> kind, fu |-> fu_type, rd |-> rd, srcs |-> srcs]

IntInsns ==
  {Insn4("op", FU_ALU, 1, {2}),
   Insn4("op", FU_MUL, 1, {1, 2}),
   Insn4("mem", FU_ALU, 2, {1}),
   Insn4("branch", FU_ALU, 1, {}),
   Insn4("branch", FU_ALU, 0, {2}),
   Insn4("illegal", FU_ALU, 0, {})}

MixedInsns ==
  (IntInsns \ {Insn4("branch", FU_ALU, 1, {})})
    \cup {Insn4("op", FU_FPU_FMA, 3, {3})}

\* Few instructions, of which longer sequences are explored.
FpInsns ==
  {Insn4("op", FU_FPU_FMA, 3, {3}),
   Insn4("mem", FU_ALU, 0, {3}),
   Insn4("branch", FU_ALU, 0, {2})}

\* README, section 5: floating-point loads.
FpLoads == {Insn4("op", FU_FPU_FMA, 3, {3}), Insn4("mem", FU_ALU, 3, {})}

Core(num, parallel, stages, insns, max_id) ==
  [num_cpu_stages |-> num, enable_parallel_fu |-> parallel, stages |-> stages,
   insns |-> insns, max_id |-> max_id]

Cores ==
  "fpu" :> Core(5, FALSE, ThreeUnits, MixedInsns, 4)
    @@ "fpu_long" :> Core(5, FALSE, ThreeUnits, FpInsns, 5)
    @@ "six" :> Core(6, FALSE, TwoUnits, IntInsns, 4)
    @@ "parallel" :> Core(5, TRUE, TwoUnits, IntInsns, 5)
    @@ "six_parallel" :> Core(6, TRUE, TwoUnits, IntInsns, 4)

CoreWithFpLoads == "fp_loads" :> Core(5, FALSE, ThreeUnits, FpLoads, 4)

CoreWithLongAlu == "long_alu" :> Core(5, FALSE, TwoStageAlu, IntInsns, 7)
=============================================================================
