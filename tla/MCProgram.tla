----------------------------- MODULE MCProgram ------------------------------
(***************************************************************************)
(* What is done with instructions, for model checking: branch prediction   *)
(* (the return address stack, the branch target buffer with the handlers   *)
(* that drive it, and the direction predictors), the instruction set as    *)
(* the emulator and as a simulated core execute it, and floating-point     *)
(* arithmetic.  They share no state: a behaviour runs one of them.         *)
(***************************************************************************)
EXTENDS ReturnStack, TLC

VARIABLES part    \* the part that runs
VARIABLES space, btb, mru, window, pc, arch_pc, asserts
VARIABLES config, bht, ght, pht, known, inflight, at, flushes
VARIABLES emu, sim, insn, before
VARIABLES op, args, rm, out

btb_vars == <<space, btb, mru, window, pc, arch_pc, asserts>>
direction_vars == <<config, bht, ght, pht, known, inflight, at, flushes>>
isa_vars == <<emu, sim, insn, before>>
fp_vars == <<op, args, rm, out>>

-----------------------------------------------------------------------------
TwoAddrs == {1, 2}

Plain == [kind |-> "plain", targets |-> {}]

Cond(t) == [kind |-> "cond", targets |-> {t}]

Jump(t) == [kind |-> "jump", targets |-> {t}]

Ret(T) == [kind |-> "ret", targets |-> T]

(***************************************************************************)
(* A loop that ends in a return, and another program at its addresses.     *)
(***************************************************************************)
TwoPrograms ==
  "a" :> <<Plain, Cond(1), Cond(4), Ret({1, 2})>>
    @@ "b" :> <<Cond(3), Plain, Jump(1), Plain>>

\* README, section 5: another target, and no branch, at the same address.
SamePlaces ==
  "a" :> <<Cond(3), Jump(1), Jump(1)>> @@ "b" :> <<Cond(2), Jump(1), Jump(1)>>

BranchHere ==
  "a" :> <<Jump(3), Jump(1), Jump(1)>> @@ "b" :> <<Plain, Jump(1), Jump(1)>>

B == INSTANCE BranchPredictor WITH
       Policy <- "bit_plru", NumPcs <- 4, Spaces <- {"a", "b"}, Code <- TwoPrograms,
       BtbSets <- 1, BtbWays <- 2, HasRas <- TRUE, FlushOnSwitch <- TRUE, MaxInFlight <- 3

-----------------------------------------------------------------------------
Adaptive(ght_size, pht_size, alias, pattern) ==
  [scheme |-> "adaptive", bht_size |-> 1, ght_size |-> ght_size,
   pht_size |-> pht_size, hreg_bits |-> 2, alias |-> alias, pattern |-> pattern]

\* An error check that never fires, and loops that hardly ever end and share
\* a counter.
Biased == 2 :> <<1>> @@ 4 :> <<0>> @@ 6 :> <<1>>

Bimodal ==
  [scheme |-> "bimodal", bht_size |-> 4, ght_size |-> 1, pht_size |-> 1,
   hreg_bits |-> 0, alias |-> "none", pattern |-> Biased]

\* Two loops, in different entries of tables of size 2.
Apart == 2 :> <<1, 1, 0, 0>> @@ 4 :> <<1, 0>>

\* A loop and an error check that take over each other's entries.
TakeOver == 2 :> <<1, 1, 0>> @@ 6 :> <<0>>

\* Different histories for different outcomes, in one set of counters.
Compatible == 2 :> <<1, 0>> @@ 6 :> <<1>>

\* Never and always taken, in different entries of a table of size 2.
ShortApart == 2 :> <<0>> @@ 4 :> <<1>>

\* Always taken, with one history and one set of counters.
Together == 2 :> <<1>> @@ 6 :> <<1>>

Predictors ==
  {Bimodal,
   Adaptive(2, 2, "none", Apart),      \* PAp
   Adaptive(2, 2, "none", TakeOver),   \* PAp
   Adaptive(4, 1, "none", Compatible), \* PAg
   Adaptive(1, 2, "none", ShortApart), \* GAp
   Adaptive(1, 2, "none", TakeOver),   \* GAp
   Adaptive(1, 1, "xor", Together),    \* gshare
   Adaptive(1, 1, "and", Together)}    \* gselect

Addresses == {2, 4, 6}

D == INSTANCE DirectionPredictor WITH
       Configs <- Predictors, MaxInFlight <- 3, MaxFlushes <- 1, window <- inflight

-----------------------------------------------------------------------------
(***************************************************************************)
(* Words of eight bits: a 32-bit quantity has four, a byte one.  The       *)
(* registers hold the values at which carries, signs and divisions change  *)
(* their result; memory ends at address 16, so that accesses of every size *)
(* also fault.                                                             *)
(***************************************************************************)
Corners == {0, 1, 17, 127, 128, 255}

HartState(v, w, st, frm, res, fill) ==
  [pc |-> 40, x |-> (0 :> 0) @@ (1 :> v) @@ (2 :> w) @@ (8 :> v) @@ (9 :> w),
   f |-> (0 :> 9) @@ (1 :> 200) @@ (2 :> 129) @@ (8 :> 9) @@ (9 :> 200),
   fs |-> st, frm |-> frm, load_res |-> res,
   mem |-> [k \in 0 .. 15 |-> ((k + fill) % 3) % 2],
   fpu |-> <<>>, trap |-> "none"]

MCStartStates ==
  {HartState(v, w, 1, 3, 7, 0) : v \in Corners, w \in Corners}
    \cup {HartState(v, w, st, frm, res, fill) :
            v \in {1, 8}, w \in {3, 15}, st \in {0, 3}, frm \in {0, 2}, res \in {1, 8}, fill \in {1}}

I(opcode, f3, rd, rs1, rs2, imm) ==
  [op |-> opcode, f3 |-> f3, f4 |-> 0, f5 |-> 0, f7 |-> 0,
   rd |-> rd, rs1 |-> rs1, rs2 |-> rs2, rs3 |-> 0, imm |-> imm]

Imms == {-32, -3, -1, 0, 1, 2, 5, 8, 17, 21, 31}
F3 == 0 .. 7

Arithmetic ==
  {I(o, f3, rd, 1, 0, imm) : o \in {"OP_IMM", "OP_IMM_32"}, f3 \in F3, rd \in {0, 2}, imm \in Imms}
    \cup {[I(o, f3, rd, 1, 2, 0) EXCEPT !.f7 = f7] :
            o \in {"OP", "OP_32"}, f3 \in F3, rd \in {0, 1}, f7 \in {0, 1, 2, 32}}
    \cup {I(o, 0, rd, 0, 0, imm) : o \in {"LUI", "AUIPC", "JAL"}, rd \in {0, 1}, imm \in {-8, 16}}
    \cup {I("JALR", 0, rd, 1, 0, imm) : rd \in {0, 1}, imm \in {-1, 0, 4}}
    \cup {I("BRANCH", f3, 0, 1, 2, imm) : f3 \in F3, imm \in {-8, 12}}

Memory ==
  {I(o, f3, rd, 1, 2, imm) :
     o \in {"LOAD", "STORE", "FLOAD", "FSTORE", "AIM_CUSTOM_1"}, f3 \in F3, rd \in {0, 2}, imm \in {-1, 0, 2}}
    \cup {[I("ATOMIC", f3, rd, 1, rs2, 0) EXCEPT !.f5 = f5] :
            f3 \in {1, 2, 3}, rd \in {0, 2}, rs2 \in {0, 2}, f5 \in {0, 1, 2, 3, 4, 5, 8, 12, 16, 20, 24, 28}}
    \cup {I("MISC_MEM", f3, 0, 0, 0, 0) : f3 \in F3} \cup {I("UNUSED", 0, 1, 1, 1, 0)}

Float ==
  {[I(o, f3, 1, 0, 2, 0) EXCEPT !.f4 = f4, !.rs3 = 1] :
     o \in {"FMADD", "FMSUB", "FNMSUB", "FNMADD"}, f3 \in F3, f4 \in 0 .. 3}
    \cup {[I("F_ARITH", f3, rd, 1, rs2, 0) EXCEPT !.f4 = f4, !.f5 = f5] :
            f3 \in {0, 2, 5, 7}, rd \in {0, 2}, rs2 \in {0, 1, 9}, f4 \in 0 .. 2,
            f5 \in {0, 3, 4, 5, 7, 8, 11, 20, 24, 26, 28, 30}}

Compressed ==
  {I("C0", f3, rd, 8, 0, imm) : f3 \in F3, rd \in {8, 9}, imm \in {0, 2}}
    \cup {I("C1", f3, rd, 8, 0, imm) : f3 \in F3 \ {4}, rd \in {0, 1, 2}, imm \in {-4, 0, 3}}
    \cup {[I("C1", 4, 8, 8, rs2, imm) EXCEPT !.f4 = f4, !.f5 = f5] :
            rs2 \in {9}, imm \in {1, 7}, f4 \in 0 .. 3, f5 \in F3}
    \cup {[I("C2", f3, rd, 0, rs2, imm) EXCEPT !.f4 = f4] :
            f3 \in F3, rd \in {0, 1, 2}, rs2 \in {0, 2}, imm \in {0, 3}, f4 \in {0, 1}}

MCInsns == Arithmetic \cup Memory \cup Float \cup Compressed

X == INSTANCE IsaLockstep WITH
       XLEN <- 8, MemSize <- 16, Insns <- MCInsns, StartStates <- MCStartStates

-----------------------------------------------------------------------------
\* Every mantissa of two bits, with the exponents at both ends of a format of
\* eight bits and around 1; the sign of the others is bit 7.
McLefts == {4 * exp + k : exp \in {0, 1, 14, 15, 17, 30, 31}, k \in 0 .. 3}
McRights == McLefts \cup {128 + p : p \in McLefts}
McFactors == {3, 4, 59, 122, 128, 129, 252}
McAddends == {0, 2, 5, 59, 123, 125, 129, 134, 188, 228, 252}

F == INSTANCE FpUnit WITH
       F_SIZE <- 8, MANT_SIZE <- 2, HasLong <- TRUE, ICVT_SIZE <- 8, WideSize <- 13,
       WideMant <- 6, Lefts <- McLefts, Rights <- McRights, Factors <- McFactors,
       Addends <- McAddends

ASSUME PartsAssumption ==
  /\ B!PolicyAssumption /\ B!BranchAssumption /\ D!PredictorAssumption
  /\ F!FormatAssumption /\ F!WideAssumption

-----------------------------------------------------------------------------
\* The value of the variables of a part that does not run.
Off == "off"

PInit ==
  /\ part \in {"ras", "btb", "direction", "isa", "fp"}
  /\ Init
  /\ IF part = "btb" THEN B!Init
     ELSE /\ space = Off /\ btb = Off /\ mru = Off /\ window = Off /\ pc = Off
          /\ arch_pc = Off /\ asserts = Off
  /\ IF part = "direction" THEN D!Init
     ELSE /\ config = Off /\ bht = Off /\ ght = Off /\ pht = Off /\ known = Off
          /\ inflight = Off /\ at = Off /\ flushes = Off
  /\ IF part = "isa" THEN X!Init ELSE emu = Off /\ sim = Off /\ insn = Off /\ before = Off
  /\ IF part = "fp" THEN F!Init ELSE op = Off /\ args = Off /\ rm = Off /\ out = Off

RasRuns == part = "ras" /\ UNCHANGED <<part, btb_vars, direction_vars, isa_vars, fp_vars>>

BtbRuns == part = "btb" /\ UNCHANGED <<part, vars, direction_vars, isa_vars, fp_vars>>

DirectionRuns == part = "direction" /\ UNCHANGED <<part, vars, btb_vars, isa_vars, fp_vars>>

IsaRuns == part = "isa" /\ UNCHANGED <<part, vars, btb_vars, direction_vars, fp_vars>>

FpRuns == part = "fp" /\ UNCHANGED <<part, vars, btb_vars, direction_vars, isa_vars>>

\* One instruction, or one operation, is executed.
Executed ==
  /\ \/ part = "isa" /\ insn.op # "none"
     \/ part = "fp" /\ op # "idle"
  /\ UNCHANGED <<part, vars, btb_vars, direction_vars, isa_vars, fp_vars>>

PNext ==
  \/ RasRuns /\ Next
  \/ BtbRuns /\ B!Next
  \/ DirectionRuns /\ D!Next
  \/ IsaRuns /\ X!Next
  \/ FpRuns /\ F!Next
  \/ Executed

PSpec == PInit /\ [][PNext]_<<part, vars, btb_vars, direction_vars, isa_vars, fp_vars>>

-----------------------------------------------------------------------------
\* BranchPredictor: what is committed is the path of the program, whatever
\* the branch handlers predicted.
CommitsProgram == part = "btb" => B!CommitsProgram

\* DirectionPredictor: a predictable branch is mispredicted only finitely
\* often, unless its outcomes are counted elsewhere than predictions are read.
Learns ==
  \A b \in Addresses :
    \/ <>[][~(DirectionRuns /\ D!Mispredicts(b))]_direction_vars
    \/ []<><<DirectionRuns /\ D!CountsElsewhere(b) /\ ~D!Steady(b)>>_direction_vars

\* IsaLockstep: the simulated core executes legal instructions as the
\* emulator does, but for the listed ones.
LegalAgree == part = "isa" => X!LegalAgree

\* IsaLockstep: it refuses what the emulator refuses, but for the listed ones.
IllegalAgree == part = "isa" => X!IllegalAgree

\* FpUnit: every operation returns what IEEE 754 defines, and its flags.
ResultsCorrect == part = "fp" => F!ResultsCorrect
=============================================================================
