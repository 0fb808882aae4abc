---------------------------- MODULE EmulatorIsa ----------------------------
(***************************************************************************)
(* What the emulator's interpreter loop does with one instruction          *)
(* (riscv_cpu_template.h, riscv_cpu_fp_template.h), on RV64 with F and D.  *)
(*                                                                         *)
(* An instruction is a record of its decoded fields.  The immediate is the *)
(* signed number the encoding stands for; a shift instruction takes its    *)
(* amount from the low bits of it and SraBit, bit 10 of the encoding, from *)
(* the next but one.  A compressed instruction  *)
(* has op "C0", "C1" or "C2"; its register fields are already the          *)
(* registers 8.. that a three-bit field names.  f4 holds the two-bit       *)
(* function of C1, the bit 12 of C2 and the format of an FP instruction,   *)
(* f5 the three-bit function of C1 and the upper five bits of funct7 of    *)
(* atomic and FP instructions.                                             *)
(*                                                                         *)
(* A hart state is a record [pc, x, f, fs, frm, load_res, mem, fpu, trap]. *)
(* What softfp computes is not interpreted: fpu records which function was *)
(* called on which operands with which rounding mode, and where its result *)
(* goes.                                                                   *)
(***************************************************************************)
EXTENDS Words, TLC

Illegal == -1                      \* goto illegal_insn
SraBit == 2 * XLEN                 \* bit 0x400 of a shift immediate
ImmBits(imm) == imm % (8 * XLEN)   \* the encoded immediate of a shift

Fault(s, cause) == [s EXCEPT !.trap = cause]

\* NEXT_INSN, C_NEXT_INSN and JUMP_INSN.
Advance(s, len) == [s EXCEPT !.pc = ULong(@ + len)]
Jump(s, target) == [s EXCEPT !.pc = ULong(target)]

SetX(s, rd, v) == IF rd = 0 THEN s ELSE [s EXCEPT !.x[rd] = v]

WriteRd(s, rd, v, len) ==
  IF v = Illegal THEN Fault(s, "illegal") ELSE Advance(SetX(s, rd, v), len)

(***************************************************************************)
(* Integer arithmetic.                                                     *)
(***************************************************************************)
Div(n, a, b) ==
  LET sa == Signed(n, a)  sb == Signed(n, b)
  IN  ULong(IF sb = 0 THEN -1
            ELSE IF sa = -(2^(n - 1)) /\ sb = -1 THEN sa ELSE Quotient(sa, sb))

Divu(n, a, b) ==
  LET ua == a % 2^n  ub == b % 2^n IN IF ub = 0 THEN 2^n - 1 ELSE ua \div ub

Rem(n, a, b) ==
  LET sa == Signed(n, a)  sb == Signed(n, b)
  IN  ULong(IF sb = 0 THEN sa
            ELSE IF sa = -(2^(n - 1)) /\ sb = -1 THEN 0 ELSE Remainder(sa, sb))

Remu(n, a, b) ==
  LET ua == a % 2^n  ub == b % 2^n IN IF ub = 0 THEN ua ELSE ua % ub

Mulh(a, b) == ULong((Long(a) * Long(b)) \div 2^XLEN)
Mulhsu(a, b) == ULong((Long(a) * b) \div 2^XLEN)
Mulhu(a, b) == ULong((a * b) \div 2^XLEN)

OpImm(f3, a, imm) ==
  LET e == ImmBits(imm)  sh == e % XLEN  i == ULong(imm)
  IN  CASE f3 = 0 -> ULong(a + imm)
        [] f3 = 1 -> IF e - sh # 0 THEN Illegal ELSE Shl(a, sh)
        [] f3 = 2 -> Bool(Long(a) < imm)
        [] f3 = 3 -> Bool(a < i)
        [] f3 = 4 -> a ^^ i
        [] f3 = 5 -> IF (e - sh) \notin {0, SraBit} THEN Illegal
                     ELSE IF e & SraBit # 0 THEN Sar(XLEN, a, sh) ELSE Shr(a, sh)
        [] f3 = 6 -> a | i
        [] f3 = 7 -> a & i

OpImm32(f3, a, imm) ==
  LET e == ImmBits(imm)  sh == e % WLEN
  IN  CASE f3 = 0 -> Sext(WLEN, a + imm)
        [] f3 = 1 -> IF e - sh # 0 THEN Illegal ELSE Sext(WLEN, Shl(a, sh))
        [] f3 = 5 -> IF (e - sh) \notin {0, SraBit} THEN Illegal
                     ELSE IF e & SraBit # 0 THEN Sar(WLEN, a, sh)
                     ELSE Sext(WLEN, Shr(a % 2^WLEN, sh))
        [] OTHER  -> Illegal

Op(f3, f7, a, b) ==
  LET sh == b % XLEN
  IN  IF f7 = 1 THEN
        CASE f3 = 0 -> ULong(Long(a) * Long(b))
          [] f3 = 1 -> Mulh(a, b)
          [] f3 = 2 -> Mulhsu(a, b)
          [] f3 = 3 -> Mulhu(a, b)
          [] f3 = 4 -> Div(XLEN, a, b)
          [] f3 = 5 -> Divu(XLEN, a, b)
          [] f3 = 6 -> Rem(XLEN, a, b)
          [] f3 = 7 -> Remu(XLEN, a, b)
      ELSE IF f7 \notin {0, 32} THEN Illegal
      ELSE IF f7 = 0 THEN
        CASE f3 = 0 -> ULong(a + b)
          [] f3 = 1 -> Shl(a, sh)
          [] f3 = 2 -> Bool(Long(a) < Long(b))
          [] f3 = 3 -> Bool(a < b)
          [] f3 = 4 -> a ^^ b
          [] f3 = 5 -> Shr(a, sh)
          [] f3 = 6 -> a | b
          [] f3 = 7 -> a & b
      ELSE
        CASE f3 = 0 -> ULong(a - b)
          [] f3 = 5 -> Sar(XLEN, a, sh)
          [] OTHER  -> Illegal

Op32(f3, f7, a, b) ==
  LET sh == b % WLEN
  IN  IF f7 = 1 THEN
        CASE f3 = 0 -> Sext(WLEN, Signed(WLEN, a) * Signed(WLEN, b))
          [] f3 = 4 -> Div(WLEN, a, b)
          [] f3 = 5 -> Sext(WLEN, Divu(WLEN, a, b))
          [] f3 = 6 -> Rem(WLEN, a, b)
          [] f3 = 7 -> Sext(WLEN, Remu(WLEN, a, b))
          [] OTHER  -> Illegal
      ELSE IF f7 \notin {0, 32} THEN Illegal
      ELSE IF f7 = 0 THEN
        CASE f3 = 0 -> Sext(WLEN, a + b)
          [] f3 = 1 -> Sext(WLEN, Shl(a % 2^WLEN, sh))
          [] f3 = 5 -> Sext(WLEN, Shr(a % 2^WLEN, sh))
          [] OTHER  -> Illegal
      ELSE
        CASE f3 = 0 -> Sext(WLEN, a - b)
          [] f3 = 5 -> Sar(WLEN, a, sh)
          [] OTHER  -> Illegal

Branch(s, i) ==
  LET a == s.x[i.rs1]  b == s.x[i.rs2]
      less == CASE i.f3 \div 2 = 0 -> a = b
                [] i.f3 \div 2 = 2 -> Long(a) < Long(b)
                [] i.f3 \div 2 = 3 -> a < b
  IN  IF i.f3 \div 2 = 1 THEN Fault(s, "illegal")
      ELSE IF less # (i.f3 % 2 = 1) THEN Jump(s, s.pc + i.imm) ELSE Advance(s, 4)

(***************************************************************************)
(* Loads, stores and atomics.                                              *)
(***************************************************************************)
LoadX(s, rd, a, n, unsigned, len) ==
  IF ~InMem(a, n) THEN Fault(s, "mmu")
  ELSE LET v == Peek(s.mem, a, n)
       IN  WriteRd(s, rd, IF unsigned THEN v ELSE Sext(n * BYTE, v), len)

StoreX(s, a, n, v, len) ==
  IF ~InMem(a, n) THEN Fault(s, "mmu")
  ELSE Advance([s EXCEPT !.mem = Poke(@, a, n, v)], len)

\* F32_HIGH: a single-precision value in a register has all ones above it.
NanBox(n, v) == IF n = 4 THEN v | (2^XLEN - 2^WLEN) ELSE v

LoadF(s, rd, a, n, len) ==
  IF s.fs = 0 THEN Fault(s, "illegal")
  ELSE IF ~InMem(a, n) THEN Fault(s, "mmu")
  ELSE Advance([s EXCEPT !.f[rd] = NanBox(n, Peek(s.mem, a, n)), !.fs = 3], len)

StoreF(s, rs, a, n, len) ==
  IF s.fs = 0 THEN Fault(s, "illegal") ELSE StoreX(s, a, n, s.f[rs], len)

Load(s, i) ==
  LET a == ULong(s.x[i.rs1] + i.imm)
  IN  LoadX(s, i.rd, a, IF i.f3 = 7 THEN 8 ELSE 2^(i.f3 % 4), i.f3 \in {4, 5, 6}, 4)

Store(s, i) ==
  StoreX(s, ULong(s.x[i.rs1] + i.imm), IF i.f3 < 4 THEN 2^i.f3 ELSE 8, s.x[i.rs2], 4)

AmoFuncts == {0, 1, 4, 8, 12, 16, 20, 24, 28}

\* val2 of OP_A: what is written back for the old value v and operand w.
AmoValue(f5, n, v, w) ==
  LET bits == n * BYTE
      sv == Signed(bits, v)  sw == Signed(bits, w)
      uv == v % 2^bits       uw == w % 2^bits
  IN  CASE f5 = 1  -> w
        [] f5 = 0  -> Sext(bits, v + w)
        [] f5 = 4  -> Sext(bits, v ^^ w)
        [] f5 = 12 -> Sext(bits, v & w)
        [] f5 = 8  -> Sext(bits, v | w)
        [] f5 = 16 -> IF sv < sw THEN v ELSE w
        [] f5 = 20 -> IF sv > sw THEN v ELSE w
        [] f5 = 24 -> IF uv < uw THEN v ELSE w
        [] f5 = 28 -> IF uv > uw THEN v ELSE w

Atomic(s, i) ==
  LET a == s.x[i.rs1]
      n == 2^i.f3
      v == Sext(n * BYTE, Peek(s.mem, a, n))
  IN  IF i.f3 \notin {2, 3} \/ i.f5 \notin AmoFuncts \cup {2, 3}
         \/ (i.f5 = 2 /\ i.rs2 # 0) THEN Fault(s, "illegal")
      ELSE IF i.f5 = 3 /\ s.load_res # a THEN WriteRd(s, i.rd, 1, 4)
      ELSE IF ~InMem(a, n) THEN Fault(s, "mmu")
      ELSE IF i.f5 = 2 THEN WriteRd([s EXCEPT !.load_res = a], i.rd, v, 4)
      ELSE IF i.f5 = 3 THEN
             WriteRd([s EXCEPT !.mem = Poke(@, a, n, s.x[i.rs2])], i.rd, 0, 4)
      ELSE WriteRd([s EXCEPT !.mem = Poke(@, a, n, AmoValue(i.f5, n, v, s.x[i.rs2]))],
                   i.rd, v, 4)

\* Opcode 0x07: flw, fld and the AiM instructions that share it.
FLoad(s, i) ==
  LET a == ULong(s.x[i.rs1] + i.imm)
      done(t) == IF t.trap = "none" THEN [t EXCEPT !.fs = 3] ELSE t
  IN  CASE i.f3 \in {2, 3}    -> LoadF(s, i.rd, a, 2^i.f3, 4)
        [] i.f3 = 7           -> done(LoadX(s, 0, a, 8, FALSE, 4))
        [] i.f3 \in {4, 5, 6} -> done(StoreX(s, a, 8, s.x[i.rs2], 4))
        [] OTHER              -> Fault(s, "illegal")

FStore(s, i) ==
  IF s.fs = 0 \/ i.f3 \notin {2, 3} THEN Fault(s, "illegal")
  ELSE StoreF(s, i.rs2, ULong(s.x[i.rs1] + i.imm), 2^i.f3, 4)

\* Opcode 0x2b: the eight AiM commands, each a store of rs2.
AimCustom1(s, i) == StoreX(s, ULong(s.x[i.rs1] + i.imm), 8, s.x[i.rs2], 4)

(***************************************************************************)
(* Floating point.                                                         *)
(***************************************************************************)
\* FSIGN_MASK32 and FSIGN_MASK64 for an operand of n bytes.
FSign(n) == 2^(n * BYTE - 1)

GetInsnRm(s, rm) == IF rm = 7 THEN s.frm ELSE IF rm >= 5 THEN -1 ELSE rm

\* A call of softfp function fn: dest is "x" or "f".
FpCall(s, dest, rd, fn, n, args, rm) ==
  LET t == [s EXCEPT !.fpu = <<IF dest = "x" /\ rd = 0 THEN "flags" ELSE dest,
                               rd, fn, n, args, rm>>]
  IN  Advance(IF dest = "f" THEN [t EXCEPT !.fs = 3] ELSE t, 4)

FpWrite(s, rd, v) == Advance([s EXCEPT !.f[rd] = v, !.fs = 3], 4)

Fma(s, i) ==
  LET n == IF i.f4 = 0 THEN 4 ELSE 8
      rm == GetInsnRm(s, i.f3)
      neg1 == i.op \in {"FNMSUB", "FNMADD"}
      neg3 == i.op \in {"FMSUB", "FNMADD"}
      arg(v, neg) == IF neg THEN v ^^ FSign(n) ELSE v
  IN  IF s.fs = 0 \/ rm < 0 \/ i.f4 \notin {0, 1} THEN Fault(s, "illegal")
      ELSE FpCall(s, "f", i.rd, "fma", n,
                  <<arg(s.f[i.rs1], neg1), s.f[i.rs2], arg(s.f[i.rs3], neg3)>>, rm)

ArithFn == (0 :> "add") @@ (1 :> "sub") @@ (2 :> "mul") @@ (3 :> "div")
CmpFn == <<"le", "lt", "eq_quiet">>
MinMaxFn == <<"min", "max">>
CvtFn == <<"i32", "u32", "i64", "u64">>

FArith(s, i) ==
  LET n == IF i.f4 = 0 THEN 4 ELSE 8
      rm == GetInsnRm(s, i.f3)
      a == s.f[i.rs1]
      b == s.f[i.rs2]
      sign == FSign(n)
  IN  CASE s.fs = 0 \/ i.f4 \notin {0, 1} -> Fault(s, "illegal")
        [] i.f5 \in 0 .. 3 /\ rm >= 0 ->
             FpCall(s, "f", i.rd, ArithFn[i.f5], n, <<a, b>>, rm)
        [] i.f5 = 11 /\ rm >= 0 /\ i.rs2 = 0 ->
             FpCall(s, "f", i.rd, "sqrt", n, <<a>>, rm)
        [] i.f5 = 4 /\ i.f3 = 0 ->
             FpWrite(s, i.rd, (a - (a & sign)) | (b & sign))
        [] i.f5 = 4 /\ i.f3 = 1 ->
             FpWrite(s, i.rd, (a - (a & sign)) | ((b & sign) ^^ sign))
        [] i.f5 = 4 /\ i.f3 = 2 ->
             FpWrite(s, i.rd, a ^^ (b & sign))
        [] i.f5 = 5 /\ i.f3 \in {0, 1} ->
             FpCall(s, "f", i.rd, MinMaxFn[i.f3 + 1], n, <<a, b>>, 0)
        [] i.f5 = 24 /\ rm >= 0 /\ i.rs2 \in 0 .. 3 ->
             FpCall(s, "x", i.rd, CvtFn[i.rs2 + 1], n, <<a>>, rm)
        [] i.f5 = 20 /\ i.f3 \in 0 .. 2 ->
             FpCall(s, "x", i.rd, CmpFn[i.f3 + 1], n, <<a, b>>, 0)
        [] i.f5 = 26 /\ rm >= 0 /\ i.rs2 \in 0 .. 3 ->
             FpCall(s, "f", i.rd, CvtFn[i.rs2 + 1], n, <<s.x[i.rs1]>>, rm)
        [] i.f5 = 8 /\ rm >= 0 /\ i.rs2 = 1 - i.f4 ->
             FpCall(s, "f", i.rd, "cvt_sf", n, <<a>>, IF n = 4 THEN rm ELSE 0)
        [] i.f5 = 28 /\ i.rs2 = 0 /\ i.f3 = 0 ->
             WriteRd(s, i.rd, Sext(n * BYTE, a), 4)
        [] i.f5 = 28 /\ i.rs2 = 0 /\ i.f3 = 1 ->
             FpCall(s, "x", i.rd, "fclass", n, <<a>>, 0)
        [] i.f5 = 30 /\ i.rs2 = 0 /\ i.f3 = 0 ->
             FpWrite(s, i.rd, Sext(n * BYTE, s.x[i.rs1]))
        [] OTHER -> Fault(s, "illegal")

(***************************************************************************)
(* Compressed instructions.                                                *)
(***************************************************************************)
C0(s, i) ==
  LET a == ULong(s.x[i.rs1] + i.imm)
  IN  CASE i.f3 = 0 -> WriteRd(s, i.rd, IF i.imm = 0 THEN Illegal
                                        ELSE ULong(s.x[2] + i.imm), 2)
        [] i.f3 = 1 -> LoadF(s, i.rd, a, 8, 2)
        [] i.f3 = 2 -> LoadX(s, i.rd, a, 4, FALSE, 2)
        [] i.f3 = 3 -> LoadX(s, i.rd, a, 8, FALSE, 2)
        [] i.f3 = 5 -> StoreF(s, i.rd, a, 8, 2)
        [] i.f3 = 6 -> StoreX(s, a, 4, s.x[i.rd], 2)
        [] i.f3 = 7 -> StoreX(s, a, 8, s.x[i.rd], 2)
        [] OTHER    -> Fault(s, "illegal")

C1Alu(f5, a, b) ==
  CASE f5 = 0 -> ULong(a - b)
    [] f5 = 1 -> a ^^ b
    [] f5 = 2 -> a | b
    [] f5 = 3 -> a & b
    [] f5 = 4 -> Sext(WLEN, a - b)
    [] f5 = 5 -> Sext(WLEN, a + b)
    [] OTHER  -> Illegal

C1(s, i) ==
  LET a == s.x[i.rd]
      imm == ULong(i.imm)
  IN  CASE i.f3 = 0 -> WriteRd(s, i.rd, ULong(a + i.imm), 2)
        [] i.f3 = 1 -> WriteRd(s, i.rd, Sext(WLEN, a + i.imm), 2)
        [] i.f3 = 2 -> WriteRd(s, i.rd, imm, 2)
        [] i.f3 = 3 -> WriteRd(s, i.rd, IF i.rd # 2 THEN imm
                                        ELSE IF i.imm = 0 THEN Illegal
                                        ELSE ULong(a + i.imm), 2)
        [] i.f3 = 4 -> WriteRd(s, i.rd, CASE i.f4 = 0 -> Shr(a, i.imm)
                                          [] i.f4 = 1 -> Sar(XLEN, a, i.imm)
                                          [] i.f4 = 2 -> a & imm
                                          [] i.f4 = 3 -> C1Alu(i.f5, a, s.x[i.rs2]), 2)
        [] i.f3 = 5 -> Jump(s, s.pc + i.imm)
        [] i.f3 = 6 -> IF s.x[i.rs1] = 0 THEN Jump(s, s.pc + i.imm) ELSE Advance(s, 2)
        [] i.f3 = 7 -> IF s.x[i.rs1] # 0 THEN Jump(s, s.pc + i.imm) ELSE Advance(s, 2)

C2(s, i) ==
  LET a == ULong(s.x[2] + i.imm)
      link == ULong(s.pc + 2)
  IN  CASE i.f3 = 0 -> WriteRd(s, i.rd, Shl(s.x[i.rd], i.imm), 2)
        [] i.f3 = 1 -> LoadF(s, i.rd, a, 8, 2)
        [] i.f3 = 2 -> LoadX(s, i.rd, a, 4, FALSE, 2)
        [] i.f3 = 3 -> LoadX(s, i.rd, a, 8, FALSE, 2)
        [] i.f3 = 4 /\ i.f4 = 0 /\ i.rs2 = 0 ->
             IF i.rd = 0 THEN Fault(s, "illegal") ELSE Jump(s, Not1(s.x[i.rd]))
        [] i.f3 = 4 /\ i.f4 = 0 /\ i.rs2 # 0 -> WriteRd(s, i.rd, s.x[i.rs2], 2)
        [] i.f3 = 4 /\ i.f4 = 1 /\ i.rs2 = 0 ->
             IF i.rd = 0 THEN Fault(s, "breakpoint")
             ELSE SetX(Jump(s, Not1(s.x[i.rd])), 1, link)
        [] i.f3 = 4 /\ i.f4 = 1 /\ i.rs2 # 0 ->
             WriteRd(s, i.rd, ULong(s.x[i.rd] + s.x[i.rs2]), 2)
        [] i.f3 = 5 -> StoreF(s, i.rs2, a, 8, 2)
        [] i.f3 = 6 -> StoreX(s, a, 4, s.x[i.rs2], 2)
        [] i.f3 = 7 -> StoreX(s, a, 8, s.x[i.rs2], 2)

(***************************************************************************)
(* The switch on the opcode.  SYSTEM is left to the model of the           *)
(* privileged state; of MISC_MEM only the two fences exist.                *)
(***************************************************************************)
EmuStep(s, i) ==
  LET a == s.x[i.rs1]
  IN  CASE i.op = "OP_IMM"    -> WriteRd(s, i.rd, OpImm(i.f3, a, i.imm), 4)
        [] i.op = "OP_IMM_32" -> WriteRd(s, i.rd, OpImm32(i.f3, a, i.imm), 4)
        [] i.op = "OP"        -> WriteRd(s, i.rd, Op(i.f3, i.f7, a, s.x[i.rs2]), 4)
        [] i.op = "OP_32"     -> WriteRd(s, i.rd, Op32(i.f3, i.f7, a, s.x[i.rs2]), 4)
        [] i.op = "LUI"       -> WriteRd(s, i.rd, ULong(i.imm), 4)
        [] i.op = "AUIPC"     -> WriteRd(s, i.rd, ULong(s.pc + i.imm), 4)
        [] i.op = "JAL"       -> SetX(Jump(s, s.pc + i.imm), i.rd, ULong(s.pc + 4))
        [] i.op = "JALR"      -> SetX(Jump(s, Not1(ULong(a + i.imm))), i.rd, ULong(s.pc + 4))
        [] i.op = "BRANCH"    -> Branch(s, i)
        [] i.op = "LOAD"      -> Load(s, i)
        [] i.op = "STORE"     -> Store(s, i)
        [] i.op = "MISC_MEM"  -> IF i.f3 \in {0, 1} THEN Advance(s, 4) ELSE Fault(s, "illegal")
        [] i.op = "ATOMIC"    -> Atomic(s, i)
        [] i.op = "FLOAD"     -> FLoad(s, i)
        [] i.op = "FSTORE"    -> FStore(s, i)
        [] i.op \in {"FMADD", "FMSUB", "FNMSUB", "FNMADD"} -> Fma(s, i)
        [] i.op = "F_ARITH"   -> FArith(s, i)
        [] i.op = "AIM_CUSTOM_1" -> AimCustom1(s, i)
        [] i.op = "C0"        -> C0(s, i)
        [] i.op = "C1"        -> C1(s, i)
        [] i.op = "C2"        -> C2(s, i)
        [] OTHER              -> Fault(s, "illegal")
=============================================================================
