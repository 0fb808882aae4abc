---------------------------- MODULE SimulatorIsa ----------------------------
(***************************************************************************)
(* What the simulated cores do with one instruction: decode it             *)
(* (riscv_isa_decoder.c, fp_decode_template.h), read the operands the      *)
(* decoder asks for, execute it (riscv_isa_execute.c,                      *)
(* fp_execute_template.h), access memory (temu_mem_map_wrapper.c) and      *)
(* commit.  The instruction latch is zeroed when it is allocated, so an    *)
(* operand that is not read and a result that is not computed are 0.       *)
(* Instructions and hart states are those of EmulatorIsa.                  *)
(***************************************************************************)
EXTENDS EmulatorIsa, Sequences

(***************************************************************************)
(* Decode.  has is the set of flags the decoder raises: "dest" stands for  *)
(* has_dest, "load" for is_load, and so on.                                *)
(***************************************************************************)
Decoded(i, flags, bytes) ==
  [has |-> flags, bytes |-> bytes, exc |-> "none",
   rd |-> i.rd, rs1 |-> i.rs1, rs2 |-> i.rs2, rs3 |-> i.rs3, imm |-> i.imm]

Refused(i, cause) == [Decoded(i, {}, 0) EXCEPT !.exc = cause]

LoadInto(i, n) == Decoded(i, {"load", "dest", "src1"}, n)
StoreFrom(i, n) == Decoded(i, {"store", "src1", "src2"}, n)
FpLoadInto(i, n) ==
  Decoded(i, {"load", "fp_dest", "src1", "set_fs", IF n = 4 THEN "f32" ELSE "f64"}, n)
FpStoreFrom(i, n) == Decoded(i, {"store", "src1", "fp_src2"}, n)

DecodeQ0(fs, i) ==
  LET j == [i EXCEPT !.rs2 = i.rd]
  IN  CASE i.f3 = 0 /\ i.imm # 0 -> [Decoded(j, {"dest", "src1"}, 0) EXCEPT !.rs1 = 2]
        [] i.f3 = 1 /\ fs # 0    -> FpLoadInto(j, 8)
        [] i.f3 = 2              -> LoadInto(j, 4)
        [] i.f3 = 3              -> LoadInto(j, 8)
        [] i.f3 = 5              -> FpStoreFrom(j, 8)
        [] i.f3 = 6              -> StoreFrom(j, 4)
        [] i.f3 = 7              -> StoreFrom(j, 8)
        [] OTHER                 -> Refused(j, "illegal")

DecodeQ1(i) ==
  LET j == [i EXCEPT !.rs1 = i.rd]
  IN  CASE i.f3 \in {0, 1}     -> Decoded(j, {"dest", "src1"}, 0)
        [] i.f3 = 2            -> Decoded(j, {"dest"}, 0)
        [] i.f3 = 3 /\ i.rd = 2 ->
             IF i.imm = 0 THEN Refused(j, "illegal") ELSE Decoded(j, {"dest", "src1"}, 0)
        [] i.f3 = 3 /\ i.rd # 2 -> Decoded(j, IF i.rd # 0 THEN {"dest"} ELSE {}, 0)
        [] i.f3 = 4 /\ i.f4 < 3 -> Decoded(j, {"dest", "src1"}, 0)
        [] i.f3 = 4 /\ i.f4 = 3 ->
             IF i.f5 > 5 THEN Refused(j, "illegal") ELSE Decoded(j, {"dest", "src1", "src2"}, 0)
        [] i.f3 = 5            -> Decoded(j, {"uncond"}, 0)
        [] i.f3 \in {6, 7}     -> Decoded(i, {"cond", "src1"}, 0)

DecodeQ2(i) ==
  LET j == [i EXCEPT !.rs1 = i.rd]
      sp == [i EXCEPT !.rs1 = 2]
  IN  CASE i.f3 = 0 -> Decoded(j, {"dest", "src1"}, 0)
        [] i.f3 = 1 -> FpLoadInto(sp, 8)
        [] i.f3 = 2 -> LoadInto(sp, 4)
        [] i.f3 = 3 -> LoadInto(sp, 8)
        [] i.f3 = 4 /\ i.f4 = 0 /\ i.rs2 = 0 ->
             IF i.rd = 0 THEN Refused(j, "illegal") ELSE Decoded(j, {"uncond", "src1"}, 0)
        [] i.f3 = 4 /\ i.f4 = 0 /\ i.rs2 # 0 -> Decoded(j, {"dest", "src2"}, 0)
        [] i.f3 = 4 /\ i.f4 = 1 /\ i.rs2 = 0 ->
             IF i.rd = 0 THEN Refused(j, "complex")
             ELSE [Decoded(j, {"uncond", "dest", "src1"}, 0) EXCEPT !.rd = 1]
        [] i.f3 = 4 /\ i.f4 = 1 /\ i.rs2 # 0 -> Decoded(j, {"dest", "src1", "src2"}, 0)
        [] i.f3 = 5 -> FpStoreFrom(sp, 8)
        [] i.f3 = 6 -> StoreFrom(sp, 4)
        [] i.f3 = 7 -> StoreFrom(sp, 8)

\* chk_op_imm_exceptions reads the immediate of the latch, which is assigned
\* only after the check: it is still 0.
ChkOpImm(f3, latchImm, bits) ==
  LET e == ImmBits(latchImm)
  IN  \/ f3 = 1 /\ e - (e % bits) # 0
      \/ f3 = 5 /\ (e - (e % bits)) \notin {0, SraBit}

ChkOp(f7) == f7 \notin {0, 1, 32}

DecodeLoad(i) ==
  IF i.f3 = 7 THEN [LoadInto(i, 4) EXCEPT !.has = @ \cup {"aim"}]
  ELSE [LoadInto(i, 2^(i.f3 % 4)) EXCEPT
          !.has = @ \cup (IF i.f3 >= 4 THEN {"unsigned"} ELSE {})]

DecodeStore(i) ==
  IF i.f3 < 4 THEN StoreFrom(i, 2^i.f3)
  ELSE [StoreFrom(i, 4) EXCEPT !.has = @ \cup {"aim"}]

\* Mutant: lr with a second source register is accepted.
LaxAtomic(i) ==
  IF i.f3 \notin {2, 3} \/ i.f5 \notin AmoFuncts \cup {2, 3} THEN Refused(i, "illegal")
  ELSE Decoded(i, {"atomic", "dest", "src1"} \cup (IF i.f5 = 2 THEN {} ELSE {"src2"}), 8)

DecodeAtomic(i) ==
  IF i.f3 \notin {2, 3} \/ i.f5 \notin AmoFuncts \cup {2, 3}
     \/ (i.f5 = 2 /\ i.rs2 # 0) THEN Refused(i, "illegal")
  ELSE Decoded(i, {"atomic", "dest", "src1"} \cup (IF i.f5 = 2 THEN {} ELSE {"src2"}), 8)

\* A funct3 that is not flw or fld is taken for an AiM instruction.
DecodeFLoad(fs, i) ==
  CASE i.f3 \in {2, 3} -> IF fs = 0 THEN Refused(i, "illegal") ELSE FpLoadInto(i, 2^i.f3)
    [] i.f3 = 7        -> [LoadInto(i, 4) EXCEPT !.has = @ \cup {"aim"}]
    [] OTHER           -> [StoreFrom(i, 4) EXCEPT !.has = @ \cup {"aim"}]

DecodeFStore(fs, i) ==
  IF fs = 0 THEN Refused(i, "illegal")
  ELSE FpStoreFrom(i, IF i.f3 \in {2, 3} THEN 2^i.f3 ELSE 0)

DecodeFma(fs, rm, i) ==
  IF fs = 0 \/ rm < 0 THEN Refused(i, "illegal")
  ELSE Decoded(i, {"fp_dest", "fp_src1", "fp_src2", "fp_src3", "set_fs"}, 0)

DecodeFArith(fs, i) ==
  CASE fs = 0 \/ i.f4 \notin {0, 1}        -> Refused(i, "illegal")
    [] i.f5 \in {0, 1, 2, 3, 4, 5}         ->
         Decoded(i, {"set_fs", "fp_src1", "fp_src2", "fp_dest"}, 0)
    [] i.f5 \in {8, 11}                    -> Decoded(i, {"set_fs", "fp_src1", "fp_dest"}, 0)
    [] i.f5 = 24                           -> Decoded(i, {"fp_src1", "dest"}, 0)
    [] i.f5 = 20                           -> Decoded(i, {"fp_src1", "fp_src2", "dest"}, 0)
    [] i.f5 = 26                           -> Decoded(i, {"set_fs", "fp_dest", "src1"}, 0)
    [] i.f5 = 28 /\ i.rs2 = 0              -> Decoded(i, {"dest", "fp_src1"}, 0)
    [] i.f5 = 30 /\ i.rs2 = 0 /\ i.f3 = 0  -> Decoded(i, {"fp_dest", "src1"}, 0)
    [] OTHER                               -> Refused(i, "illegal")

DecodeAimCustom1(i) == Decoded(i, {"aim", "store", "src1", "dest"}, 4)

Decode(s, i) ==
  CASE i.op = "C0" -> DecodeQ0(s.fs, i)
    [] i.op = "C1" -> DecodeQ1(i)
    [] i.op = "C2" -> DecodeQ2(i)
    [] i.op = "LOAD" -> DecodeLoad(i)
    [] i.op \in {"OP_IMM", "OP_IMM_32"} ->
         IF ChkOpImm(i.f3, 0, IF i.op = "OP_IMM" THEN XLEN ELSE WLEN)
         THEN Refused(i, "illegal") ELSE Decoded(i, {"dest", "src1"}, 0)
    [] i.op \in {"OP", "OP_32"} ->
         IF ChkOp(i.f7) THEN Refused(i, "illegal") ELSE Decoded(i, {"dest", "src1", "src2"}, 0)
    [] i.op \in {"LUI", "AUIPC"} -> Decoded(i, {"dest"}, 0)
    [] i.op = "STORE" -> DecodeStore(i)
    [] i.op = "MISC_MEM" -> Refused(i, "complex")
    [] i.op = "JAL" -> Decoded(i, {"uncond", "dest"}, 0)
    [] i.op = "JALR" -> Decoded(i, {"uncond", "src1", "dest"}, 0)
    [] i.op = "BRANCH" -> Decoded(i, {"cond", "src1", "src2"}, 0)
    [] i.op = "ATOMIC" -> DecodeAtomic(i)
    [] i.op = "FLOAD" -> DecodeFLoad(s.fs, i)
    [] i.op = "FSTORE" -> DecodeFStore(s.fs, i)
    [] i.op \in {"FMADD", "FMSUB", "FNMSUB", "FNMADD"} ->
         DecodeFma(s.fs, GetInsnRm(s, i.f3), i)
    [] i.op = "F_ARITH" -> DecodeFArith(s.fs, i)
    [] i.op = "AIM_CUSTOM_1" -> DecodeAimCustom1(i)
    [] OTHER -> Refused(i, "illegal")

(***************************************************************************)
(* Execute.  The functions return the content of the latch's buffer.       *)
(***************************************************************************)
SimDiv(a, b) ==
  LET sa == Long(a)  sb == Long(b)
  IN  ULong(IF sb = 0 THEN -1
            ELSE IF sa = -(2^(XLEN - 1)) /\ sb = -1 THEN sa ELSE Quotient(sa, sb))
SimDivu(a, b) == IF b = 0 THEN ULong(-1) ELSE a \div b
SimRem(a, b) ==
  LET sa == Long(a)  sb == Long(b)
  IN  ULong(IF sb = 0 THEN sa
            ELSE IF sa = -(2^(XLEN - 1)) /\ sb = -1 THEN 0 ELSE Remainder(sa, sb))
SimRemu(a, b) == IF b = 0 THEN a ELSE a % b

SimMulh(a, b) == ULong((Long(a) * Long(b)) \div 2^XLEN)
SimMulhsu(a, b) == ULong((Long(a) * b) \div 2^XLEN)
SimMulhu(a, b) == ULong((a * b) \div 2^XLEN)

ExecuteOpImm(f3, a, imm) ==
  LET sh == ImmBits(imm) % XLEN  i == ULong(imm)
  IN  CASE f3 = 0 -> ULong(a + imm)
        [] f3 = 1 -> Shl(a, sh)
        [] f3 = 2 -> Bool(Long(a) < imm)
        [] f3 = 3 -> Bool(a < i)
        [] f3 = 4 -> a ^^ i
        [] f3 = 5 -> IF ImmBits(imm) & SraBit # 0 THEN Sar(XLEN, a, sh) ELSE Shr(a, sh)
        [] f3 = 6 -> a | i
        [] f3 = 7 -> a & i

ExecuteOpImm32(f3, a, imm) ==
  LET sh == ImmBits(imm) % WLEN
  IN  CASE f3 = 0 -> Sext(WLEN, a + imm)
        [] f3 = 1 -> Sext(WLEN, Shl(a, sh))
        [] f3 = 5 -> IF ImmBits(imm) & SraBit # 0 THEN Sar(WLEN, a, sh)
                     ELSE Sext(WLEN, Shr(a % 2^WLEN, sh))
        [] OTHER  -> 0

ExecuteOp(f3, f7, a, b) ==
  LET sh == b % XLEN
  IN  CASE f7 = 1 /\ f3 = 0  -> ULong(Long(a) * Long(b))
        [] f7 = 1 /\ f3 = 1  -> SimMulh(a, b)
        [] f7 = 1 /\ f3 = 2  -> SimMulhsu(a, b)
        [] f7 = 1 /\ f3 = 3  -> SimMulhu(a, b)
        [] f7 = 1 /\ f3 = 4  -> SimDiv(a, b)
        [] f7 = 1 /\ f3 = 5  -> SimDivu(a, b)
        [] f7 = 1 /\ f3 = 6  -> SimRem(a, b)
        [] f7 = 1 /\ f3 = 7  -> SimRemu(a, b)
        [] f7 = 0 /\ f3 = 0  -> ULong(a + b)
        [] f7 = 32 /\ f3 = 0 -> ULong(a - b)
        [] f7 = 0 /\ f3 = 1  -> Shl(a, sh)
        [] f7 = 0 /\ f3 = 2  -> Bool(Long(a) < Long(b))
        [] f7 = 0 /\ f3 = 3  -> Bool(a < b)
        [] f7 = 0 /\ f3 = 4  -> a ^^ b
        [] f7 = 0 /\ f3 = 5  -> Shr(a, sh)
        [] f7 = 32 /\ f3 = 5 -> Sar(XLEN, a, sh)
        [] f7 = 0 /\ f3 = 6  -> a | b
        [] f7 = 0 /\ f3 = 7  -> a & b
        [] OTHER             -> 0

\* The four divisions work on the whole registers.
ExecuteOp32(f3, f7, a, b) ==
  LET sh == b % WLEN
  IN  CASE f7 = 1 /\ f3 = 0  -> Sext(WLEN, Signed(WLEN, a) * Signed(WLEN, b))
        [] f7 = 1 /\ f3 = 4  -> SimDiv(a, b)
        [] f7 = 1 /\ f3 = 5  -> Sext(WLEN, SimDivu(a, b))
        [] f7 = 1 /\ f3 = 6  -> SimRem(a, b)
        [] f7 = 1 /\ f3 = 7  -> Sext(WLEN, SimRemu(a, b))
        [] f7 = 0 /\ f3 = 0  -> Sext(WLEN, a + b)
        [] f7 = 32 /\ f3 = 0 -> Sext(WLEN, a - b)
        [] f7 = 0 /\ f3 = 1  -> Sext(WLEN, Shl(a % 2^WLEN, sh))
        [] f7 = 0 /\ f3 = 5  -> Sext(WLEN, Shr(a % 2^WLEN, sh))
        [] f7 = 32 /\ f3 = 5 -> Sar(WLEN, a, sh)
        [] OTHER             -> 0

\* Mutant: bltu and bgeu compare signed numbers.
SignedBranchCond(f3, a, b) ==
  CASE f3 \div 2 = 0 -> (a = b) # (f3 % 2 = 1)
    [] f3 \div 2 = 1 -> TRUE
    [] OTHER         -> (Long(a) < Long(b)) # (f3 % 2 = 1)

\* cond starts as -1, so an encoding without a comparison is taken.
BranchCond(f3, a, b) ==
  CASE f3 \div 2 = 0 -> (a = b) # (f3 % 2 = 1)
    [] f3 \div 2 = 2 -> (Long(a) < Long(b)) # (f3 % 2 = 1)
    [] f3 \div 2 = 3 -> (a < b) # (f3 % 2 = 1)
    [] OTHER         -> TRUE

ExecuteQ1(d, i, a, b) ==
  CASE i.f3 = 0            -> ULong(a + d.imm)
    [] i.f3 = 1            -> Sext(WLEN, a + d.imm)
    [] i.f3 = 2            -> ULong(d.imm)
    [] i.f3 = 3            -> IF d.rd = 2 THEN ULong(a + d.imm) ELSE ULong(d.imm)
    [] i.f3 = 4 /\ i.f4 = 0 -> Shr(a, d.imm)
    [] i.f3 = 4 /\ i.f4 = 1 -> Sar(XLEN, a, d.imm)
    [] i.f3 = 4 /\ i.f4 = 2 -> a & ULong(d.imm)
    [] i.f3 = 4 /\ i.f4 = 3 -> (CASE i.f5 = 0 -> ULong(a - b)
                                  [] i.f5 = 1 -> a ^^ b
                                  [] i.f5 = 2 -> a | b
                                  [] i.f5 = 3 -> a & b
                                  [] i.f5 = 4 -> Sext(WLEN, a - b)
                                  [] i.f5 = 5 -> Sext(WLEN, a + b))
    [] OTHER               -> 0

ExecuteQ2(d, i, pc, a, b) ==
  CASE i.f3 = 0                            -> Shl(a, d.imm)
    [] i.f3 = 4 /\ i.f4 = 0 /\ d.rs2 # 0   -> b
    [] i.f3 = 4 /\ i.f4 = 1 /\ d.rs2 = 0   -> ULong(pc + 2)
    [] i.f3 = 4 /\ i.f4 = 1 /\ d.rs2 # 0   -> ULong(a + b)
    [] OTHER                               -> 0

\* mem_addr of the latch.
MemAddr(d, i, a) == IF i.op = "ATOMIC" THEN a ELSE ULong(a + d.imm)

\* target of the latch: jalr does not clear the low bit, c.jr and c.jalr do.
Target(d, i, pc, a) ==
  CASE i.op = "JALR" -> ULong(a + d.imm)
    [] i.op = "C2"   -> Not1(a)
    [] OTHER         -> ULong(pc + d.imm)

Taken(d, i, a, b) ==
  \/ "uncond" \in d.has
  \/ "cond" \in d.has /\ CASE i.op = "BRANCH"            -> BranchCond(i.f3, a, b)
                           [] i.op = "C1" /\ i.f3 = 6    -> a = 0
                           [] i.op = "C1" /\ i.f3 = 7    -> a # 0

\* A softfp call <<fn, bytes, operands, rm>>, or <<>> when none is made.
ExecuteFma(i, rm, a, b, c) ==
  LET n == IF i.f4 = 0 THEN 4 ELSE 8
      flip(v) == v ^^ FSign(n)
      args == CASE i.op = "FMADD"  -> <<a, b, c>>
                [] i.op = "FMSUB"  -> <<a, b, flip(c)>>
                [] i.op = "FNMSUB" -> <<flip(a), b, c>>
                [] i.op = "FNMADD" -> <<flip(a), b, flip(c)>>
  IN  IF i.f4 \in {0, 1} THEN <<"fma", n, args, rm>> ELSE <<>>

FArithCall(i, rm, a, b) ==
  LET n == IF i.f4 = 0 THEN 4 ELSE 8
  IN  CASE i.f5 \in 0 .. 3                  -> <<ArithFn[i.f5], n, <<a, b>>, rm>>
        [] i.f5 = 11                        -> <<"sqrt", n, <<a>>, rm>>
        [] i.f5 = 5 /\ rm \in {0, 1}        -> <<MinMaxFn[rm + 1], n, <<a, b>>, 0>>
        [] i.f5 \in {24, 26} /\ i.rs2 < 4   -> <<CvtFn[i.rs2 + 1], n, <<a>>, rm>>
        [] i.f5 = 20 /\ rm \in 0 .. 2       -> <<CmpFn[rm + 1], n, <<a, b>>, 0>>
        [] i.f5 = 8 /\ i.rs2 = 1 - i.f4     -> <<"cvt_sf", n, <<a>>, IF n = 4 THEN rm ELSE 0>>
        [] i.f5 = 28 /\ rm = 1              -> <<"fclass", n, <<a>>, 0>>
        [] OTHER                            -> <<>>

FArithBuffer(i, rm, a, b) ==
  LET n == IF i.f4 = 0 THEN 4 ELSE 8
      sign == FSign(n)
  IN  CASE i.f5 = 4 /\ rm = 0  -> (a - (a & sign)) | (b & sign)
        [] i.f5 = 4 /\ rm = 1  -> (a - (a & sign)) | ((b & sign) ^^ sign)
        [] i.f5 = 4 /\ rm = 2  -> a ^^ (b & sign)
        [] i.f5 = 28 /\ rm = 0 -> Sext(n * BYTE, a)
        [] i.f5 = 30           -> Sext(n * BYTE, a)
        [] OTHER               -> 0

Buffer(s, d, i, a, b) ==
  CASE i.op = "OP_IMM"    -> ExecuteOpImm(i.f3, a, d.imm)
    [] i.op = "OP_IMM_32" -> ExecuteOpImm32(i.f3, a, d.imm)
    [] i.op = "OP"        -> ExecuteOp(i.f3, i.f7, a, b)
    [] i.op = "OP_32"     -> ExecuteOp32(i.f3, i.f7, a, b)
    [] i.op = "LUI"       -> ULong(d.imm)
    [] i.op = "AUIPC"     -> ULong(s.pc + d.imm)
    [] i.op \in {"JAL", "JALR"} -> ULong(s.pc + 4)
    [] i.op = "F_ARITH"   -> FArithBuffer(i, GetInsnRm(s, i.f3), a, b)
    [] i.op = "C0"        -> IF i.f3 = 0 THEN ULong(a + d.imm) ELSE 0
    [] i.op = "C1"        -> ExecuteQ1(d, i, a, b)
    [] i.op = "C2"        -> ExecuteQ2(d, i, s.pc, a, b)
    [] OTHER              -> 0

FpuCall(s, i, a, b, c) ==
  LET rm == GetInsnRm(s, i.f3)
  IN  CASE i.op \in {"FMADD", "FMSUB", "FNMSUB", "FNMADD"} -> ExecuteFma(i, rm, a, b, c)
        [] i.op = "F_ARITH" -> FArithCall(i, rm, a, b)
        [] OTHER -> <<>>

(***************************************************************************)
(* The memory stage.  It returns the state after the access and the        *)
(* buffer; a faulting access leaves both alone.                            *)
(***************************************************************************)
SimAmoValue(f5, n, v, w) ==
  LET bits == n * BYTE
      less == Signed(bits, v) < Signed(bits, w)
      more == Signed(bits, v) > Signed(bits, w)
      lessu == v % 2^bits < w % 2^bits
      moreu == v % 2^bits > w % 2^bits
  IN  CASE f5 = 0  -> Sext(bits, v + w)
        [] f5 = 4  -> Sext(bits, v ^^ w)
        [] f5 = 12 -> Sext(bits, v & w)
        [] f5 = 8  -> Sext(bits, v | w)
        [] OTHER   -> IF \/ f5 = 16 /\ less
                         \/ f5 = 20 /\ more
                         \/ f5 = 24 /\ lessu
                         \/ f5 = 28 /\ moreu
                      THEN v ELSE w

MemFault(s) == [state |-> Fault(s, "mmu"), buffer |-> 0]

ExecAtomic(s, i, a, w) ==
  LET n == 2^i.f3
      v == Sext(n * BYTE, Peek(s.mem, a, n))
  IN  IF i.f5 = 3 /\ s.load_res # a THEN [state |-> s, buffer |-> 1]
      ELSE IF ~InMem(a, n) THEN MemFault(s)
      ELSE CASE i.f5 = 2 -> [state |-> [s EXCEPT !.load_res = a], buffer |-> v]
             [] i.f5 = 3 -> [state |-> [s EXCEPT !.mem = Poke(@, a, n, w)], buffer |-> 0]
             [] OTHER    -> [state |-> [s EXCEPT !.mem =
                                          Poke(@, a, n, SimAmoValue(i.f5, n, v, w))],
                             buffer |-> v]

\* An AiM load reads memory and then discards what it read.
ExecLoadStore(s, d, i, a, w) ==
  LET n == d.bytes
      v == Peek(s.mem, a, n)
  IN  IF "atomic" \in d.has THEN ExecAtomic(s, i, a, w)
      ELSE IF n > 0 /\ ~InMem(a, n) THEN MemFault(s)
      ELSE IF "store" \in d.has
           THEN [state |-> [s EXCEPT !.mem = Poke(@, a, n, w)], buffer |-> 0]
      ELSE [state |-> s,
            buffer |-> CASE "aim" \in d.has      -> 0
                         [] "unsigned" \in d.has -> v
                         [] OTHER                -> Sext(n * BYTE, v)]

(***************************************************************************)
(* Commit: update_arch_reg_int, update_arch_reg_fp and the next pc.        *)
(***************************************************************************)
UpdateArchRegFp(s, d, v) ==
  LET boxed == IF "f32" \in d.has THEN NanBox(4, v) ELSE v
  IN  [s EXCEPT !.f[d.rd] = boxed, !.fs = IF "set_fs" \in d.has THEN 3 ELSE @]

UpdateArchReg(s, d, v, call) ==
  LET dest == IF "fp_dest" \in d.has THEN "f" ELSE IF d.rd = 0 THEN "flags" ELSE "x"
  IN  IF call # <<>> THEN
        [s EXCEPT !.fpu = <<dest, d.rd>> \o call,
                  !.fs = IF dest = "f" /\ "set_fs" \in d.has THEN 3 ELSE @]
      ELSE IF "dest" \in d.has THEN SetX(s, d.rd, v)
      ELSE IF "fp_dest" \in d.has THEN UpdateArchRegFp(s, d, v)
      ELSE s

Operand(s, d, int, fp, r) ==
  IF int \in d.has THEN s.x[r] ELSE IF fp \in d.has THEN s.f[r] ELSE 0

\* An instruction the decoder calls complex is given back to the emulator.
SimStep(s, i) ==
  LET d == Decode(s, i)
      a == Operand(s, d, "src1", "fp_src1", d.rs1)
      b == Operand(s, d, "src2", "fp_src2", d.rs2)
      c == Operand(s, d, "none", "fp_src3", d.rs3)
      isMem == d.has \cap {"load", "store", "atomic"} # {}
      m == IF isMem THEN ExecLoadStore(s, d, i, MemAddr(d, i, a), b)
           ELSE [state |-> s, buffer |-> Buffer(s, d, i, a, b)]
      len == IF i.op \in {"C0", "C1", "C2"} THEN 2 ELSE 4
      committed == UpdateArchReg(m.state, d, m.buffer, FpuCall(s, i, a, b, c))
  IN  CASE d.exc = "illegal"         -> Fault(s, "illegal")
        [] d.exc = "complex"         -> EmuStep(s, i)
        [] m.state.trap # "none"     -> m.state
        [] Taken(d, i, a, b)         -> Jump(committed, Target(d, i, s.pc, a))
        [] OTHER                     -> Advance(committed, len)
=============================================================================
