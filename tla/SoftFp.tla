------------------------------- MODULE SoftFp -------------------------------
(***************************************************************************)
(* The floating point library both the emulator and the simulator compute  *)
(* with (softfp_template.h, softfp_template_icvt.h), for any size of the   *)
(* format.  A word is a number below 2^F_SIZE; an operation returns its    *)
(* word and the exception flags it raises.                                 *)
(***************************************************************************)
EXTENDS Integers, FiniteSets

CONSTANTS
  F_SIZE, MANT_SIZE,
  HasLong,      \* F_ULONG is defined: the compiler has a double word
  ICVT_SIZE     \* size of the integers converted from and to

EXP_SIZE == F_SIZE - 1 - MANT_SIZE
EXP_MASK == 2^EXP_SIZE - 1
MANT_MASK == 2^MANT_SIZE - 1
SIGN_MASK == 2^(F_SIZE - 1)
IMANT_SIZE == F_SIZE - 2
RND_SIZE == IMANT_SIZE - MANT_SIZE
F_QNAN == EXP_MASK * 2^MANT_SIZE + 2^(MANT_SIZE - 1)

\* A signaling NaN needs two bits of mantissa; add_sf needs room for three bits
\* below the mantissa and for a carry.
FormatAssumption == MANT_SIZE \in Nat /\ MANT_SIZE >= 2 /\ RND_SIZE \in Nat /\ RND_SIZE >= 4

Modes == {"RNE", "RTZ", "RDN", "RUP", "RMM"}
NV == "invalid"
DZ == "divide by zero"
OF == "overflow"
UF == "underflow"
NX == "inexact"

Word(n) == n % 2^F_SIZE
Shr(a, n) == a \div 2^n
Bit(c) == IF c THEN 1 ELSE 0
\* a |= 1 when c holds
Sticky(a, c) == IF c /\ a % 2 = 0 THEN a + 1 ELSE a
BitLen(a) == CHOOSE n \in 0 .. 31 : a < 2^n /\ (n = 0 \/ a >= 2^(n - 1))
clz(a) == F_SIZE - BitLen(a)

SignOf(a) == Shr(a, F_SIZE - 1)
ExpOf(a) == Shr(a, MANT_SIZE) % 2^EXP_SIZE
MantOf(a) == a % 2^MANT_SIZE
Magnitude(a) == a % SIGN_MASK
Xor(s, t) == (s + t) % 2

Result(r, flags) == [r |-> r, flags |-> flags]
Flag(c, f) == IF c THEN {f} ELSE {}

pack_sf(sign, exp, mant) == sign * SIGN_MASK + exp * 2^MANT_SIZE + (mant % 2^MANT_SIZE)

rshift_rnd(a, d) ==
  IF d = 0 THEN a
  ELSE IF d >= F_SIZE THEN Bit(a # 0)
  ELSE Sticky(Shr(a, d), a % 2^d # 0)

Addend(sign, rm) ==
  CASE rm \in {"RNE", "RMM"} -> 2^(RND_SIZE - 1)
    [] rm = "RTZ" -> 0
    [] rm = "RDN" -> IF sign = 1 THEN 2^RND_SIZE - 1 ELSE 0
    [] rm = "RUP" -> IF sign = 0 THEN 2^RND_SIZE - 1 ELSE 0

\* Mutant: a tie is rounded away from zero in every mode to nearest.
RoundMant_NoEven(mant, addend, rm) == Shr(Word(mant + addend), RND_SIZE)

RoundMant(mant, addend, rm) ==
  LET r == Shr(Word(mant + addend), RND_SIZE)
  IN  IF rm = "RNE" /\ mant % 2^RND_SIZE = 2^(RND_SIZE - 1) THEN r - (r % 2) ELSE r

IsSubnormal(exp, mant, addend) ==
  exp < 0 \/ (exp = 0 /\ Word(mant + addend) < SIGN_MASK)

round_pack_sf(sign, exp, mant, rm) ==
  LET addend == Addend(sign, rm)
      low == exp <= 0
      shifted == IF low THEN rshift_rnd(mant, 1 - exp) ELSE mant
      rnd_bits == shifted % 2^RND_SIZE
      m == RoundMant(shifted, addend, rm)
      e == (IF low THEN 1 ELSE exp) + Shr(m, MANT_SIZE + 1)
      over == m > MANT_MASK /\ e >= EXP_MASK
      flags == Flag(IsSubnormal(exp, mant, addend) /\ rnd_bits # 0, UF)
                 \cup Flag(rnd_bits # 0, NX)
  IN  IF m <= MANT_MASK THEN Result(pack_sf(sign, 0, m), flags)
      ELSE IF ~over THEN Result(pack_sf(sign, e, m), flags)
      ELSE Result(IF addend = 0 THEN pack_sf(sign, EXP_MASK - 1, MANT_MASK)
                  ELSE pack_sf(sign, EXP_MASK, 0), flags \cup {OF, NX})

\* "assert" is what a failed assertion of the library returns.
normalize_sf(sign, exp, mant, rm) ==
  LET shift == clz(mant) - 1
  IN  IF shift < 0 THEN Result(0, {"assert"})
      ELSE round_pack_sf(sign, exp - shift, mant * 2^shift, rm)

normalize2_sf(sign, exp, m1, m0, rm) ==
  LET shift == (IF m1 = 0 THEN F_SIZE + clz(m0) ELSE clz(m1)) - 1
      high == IF shift = 0 THEN Sticky(m1, m0 # 0)
              ELSE IF shift < F_SIZE
              THEN Sticky(Word(m1 * 2^shift) + Shr(m0, F_SIZE - shift),
                          Word(m0 * 2^shift) # 0)
              ELSE Word(m0 * 2^(shift - F_SIZE))
  IN  IF shift < 0 THEN Result(0, {"assert"})
      ELSE round_pack_sf(sign, exp - shift, high, rm)

isnan_sf(a) == ExpOf(a) = EXP_MASK /\ MantOf(a) # 0
issignan_sf(a) == isnan_sf(a) /\ MantOf(a) < 2^(MANT_SIZE - 1)
IsInf(a) == ExpOf(a) = EXP_MASK /\ MantOf(a) = 0
IsZero(a) == Magnitude(a) = 0
Nan(args) == Result(F_QNAN, Flag(\E a \in args : issignan_sf(a), NV))
Invalid == Result(F_QNAN, {NV})

-----------------------------------------------------------------------------
(* Addition *)

add_sf(a0, b0, rm) ==
  LET swap == Magnitude(a0) < Magnitude(b0)
      a == IF swap THEN b0 ELSE a0
      b == IF swap THEN a0 ELSE b0
      Exp(x) == IF ExpOf(x) = 0 THEN 1 ELSE ExpOf(x)
      Mant(x) == 8 * (MantOf(x) + (IF ExpOf(x) = 0 THEN 0 ELSE 2^MANT_SIZE))
      bm == rshift_rnd(Mant(b), Exp(a) - Exp(b))
      same == SignOf(a) = SignOf(b)
      m == IF same THEN Mant(a) + bm ELSE Mant(a) - bm
      sign == IF ~same /\ m = 0 THEN Bit(rm = "RDN") ELSE SignOf(a)
  IN  IF isnan_sf(a) THEN Nan({a, b})
      ELSE IF IsInf(a) THEN IF IsInf(b) /\ ~same THEN Invalid ELSE Result(a, {})
      ELSE normalize_sf(sign, Exp(a) + RND_SIZE - 3, m, rm)

sub_sf(a, b, rm) == add_sf(a, Word(b + SIGN_MASK), rm)

-----------------------------------------------------------------------------
(* Multiplication and fused multiply-add *)

\* normalize_subnormal_sf, and the implicit bit of the others
Shift(a) == MANT_SIZE - (F_SIZE - 1 - clz(MantOf(a)))
NormExp(a) == IF ExpOf(a) = 0 THEN 1 - Shift(a) ELSE ExpOf(a)
NormMant(a) == IF ExpOf(a) = 0 THEN MantOf(a) * 2^Shift(a) ELSE MantOf(a) + 2^MANT_SIZE

\* The product of two words, as <<high, low>>; by half words without F_ULONG.
mul_u(a, b) ==
  LET h == 2^(F_SIZE \div 2)
      r00 == (a % h) * (b % h)
      r01 == (a % h) * (b \div h)
      r10 == (a \div h) * (b % h)
      r11 == (a \div h) * (b \div h)
      c1 == (r00 \div h) + (r01 % h) + (r10 % h)
      c2 == (c1 \div h) + (r01 \div h) + (r10 \div h) + (r11 % h)
      c3 == (c2 \div h) + (r11 \div h)
  IN  IF HasLong THEN <<Shr(a * b, F_SIZE), Word(a * b)>>
      ELSE <<(c3 % h) * h + (c2 % h), (c1 % h) * h + (r00 % h)>>

mul_sf(a, b, rm) ==
  LET sign == Xor(SignOf(a), SignOf(b))
      exp == NormExp(a) + NormExp(b) - 2^(EXP_SIZE - 1) + 2
      p == mul_u(NormMant(a) * 2^RND_SIZE, NormMant(b) * 2^(RND_SIZE + 1))
  IN  IF isnan_sf(a) \/ isnan_sf(b) THEN Nan({a, b})
      ELSE IF IsInf(a) \/ IsInf(b)
      THEN IF IsZero(a) \/ IsZero(b) THEN Invalid ELSE Result(pack_sf(sign, EXP_MASK, 0), {})
      ELSE IF IsZero(a) \/ IsZero(b) THEN Result(pack_sf(sign, 0, 0), {})
      ELSE normalize_sf(sign, exp, Sticky(p[1], p[2] # 0), rm)

Term(sign, exp, high, low) == [sign |-> sign, exp |-> exp, m1 |-> high, m0 |-> low]

\* The product, with its top bit at F_SIZE - 3.
Product(a, b) ==
  LET p == mul_u(NormMant(a) * 2^RND_SIZE, NormMant(b) * 2^RND_SIZE)
      exp == NormExp(a) + NormExp(b) - 2^(EXP_SIZE - 1) + 3
      sign == Xor(SignOf(a), SignOf(b))
  IN  IF p[1] < 2^(F_SIZE - 3)
      THEN Term(sign, exp - 1, 2 * p[1] + Shr(p[2], F_SIZE - 1), Word(2 * p[2]))
      ELSE Term(sign, exp, p[1], p[2])

\* The smaller term moved right, keeping a sticky bit.
Aligned(t, shift) ==
  IF shift >= 2 * F_SIZE THEN [t EXCEPT !.m1 = 0, !.m0 = Bit(t.m0 # 0 \/ t.m1 # 0)]
  ELSE IF shift >= F_SIZE + 1
  THEN [t EXCEPT !.m1 = 0, !.m0 = rshift_rnd(t.m1, shift - F_SIZE)]
  ELSE IF shift = F_SIZE THEN [t EXCEPT !.m1 = 0, !.m0 = Sticky(t.m1, t.m0 # 0)]
  ELSE IF shift # 0
  THEN [t EXCEPT !.m1 = Shr(t.m1, shift),
                 !.m0 = Sticky(Word(t.m1 * 2^(F_SIZE - shift)) + Shr(t.m0, shift),
                               t.m0 % 2^shift # 0)]
  ELSE t

AddTerms(r, c, rm) ==
  LET m0 == Word(r.m0 + c.m0)
      d0 == Word(r.m0 - c.m0)
      d1 == Word(r.m1 - c.m1 - Bit(d0 > r.m0))
  IN  IF r.sign = c.sign
      THEN normalize2_sf(r.sign, r.exp, Word(r.m1 + c.m1 + Bit(m0 < c.m0)), m0, rm)
      ELSE normalize2_sf(IF d0 = 0 /\ d1 = 0 THEN Bit(rm = "RDN") ELSE r.sign,
                         r.exp, d1, d0, rm)

fma_sf(a, b, c, rm) ==
  LET sign == Xor(SignOf(a), SignOf(b))
      p == Product(a, b)
      t == Term(SignOf(c), NormExp(c) + 1, NormMant(c) * 2^(RND_SIZE - 1), 0)
      larger == p.exp > t.exp \/ (p.exp = t.exp /\ p.m1 >= t.m1)
      big == IF larger THEN p ELSE t
      small == IF larger THEN t ELSE p
  IN  IF \E x \in {a, b, c} : isnan_sf(x) THEN Nan({a, b, c})
      ELSE IF IsInf(a) \/ IsInf(b) \/ IsInf(c)
      THEN IF \/ IsInf(a) /\ IsZero(b)
              \/ IsInf(b) /\ IsZero(a)
              \/ (IsInf(a) \/ IsInf(b)) /\ IsInf(c) /\ sign # SignOf(c)
           THEN Invalid
           ELSE Result(pack_sf(IF IsInf(c) THEN SignOf(c) ELSE sign, EXP_MASK, 0), {})
      ELSE IF IsZero(a) \/ IsZero(b)
      THEN Result(IF ~IsZero(c) THEN c
                  ELSE pack_sf(IF SignOf(c) # sign THEN Bit(rm = "RDN") ELSE sign, 0, 0), {})
      ELSE IF IsZero(c) THEN normalize_sf(sign, p.exp, Sticky(p.m1, p.m0 # 0), rm)
      ELSE AddTerms(big, Aligned(small, big.exp - small.exp), rm)

-----------------------------------------------------------------------------
(* Division and square root *)

\* One bit of the quotient a round without F_ULONG.
\*
RECURSIVE DivLoop(_, _, _, _)
DivLoop(a1, a0, b, i) ==
  LET top == 2 * a1 + Shr(a0, F_SIZE - 1)
  IN  IF i = 0 THEN <<a0, a1>>
      ELSE IF top >= b THEN DivLoop(top - b, Word(2 * a0) + 1, b, i - 1)
      ELSE DivLoop(top, Word(2 * a0), b, i - 1)

\* <<quotient, remainder>>
divrem_u(a1, a0, b) ==
  LET a == a1 * 2^F_SIZE + a0
  IN  IF HasLong THEN <<Word(a \div b), a % b>> ELSE DivLoop(a1, a0, b, F_SIZE)

div_sf(a, b, rm) ==
  LET sign == Xor(SignOf(a), SignOf(b))
      exp == NormExp(a) - NormExp(b) + 2^(EXP_SIZE - 1) - 1
      q == divrem_u(NormMant(a), 0, 4 * NormMant(b))
  IN  IF isnan_sf(a) \/ isnan_sf(b) THEN Nan({a, b})
      ELSE IF IsInf(a)
      THEN IF IsInf(b) THEN Invalid ELSE Result(pack_sf(sign, EXP_MASK, 0), {})
      ELSE IF IsInf(b) THEN Result(pack_sf(sign, 0, 0), {})
      ELSE IF IsZero(b)
      THEN IF IsZero(a) THEN Invalid ELSE Result(pack_sf(sign, EXP_MASK, 0), {DZ})
      ELSE IF IsZero(a) THEN Result(pack_sf(sign, 0, 0), {})
      ELSE normalize_sf(sign, exp, Sticky(q[1], q[2] # 0), rm)

\* Newton's iteration from above.
\*
RECURSIVE Newton(_, _, _)
Newton(a1, a0, s) ==
  LET u == IF HasLong THEN ((a1 * 2^F_SIZE + a0) \div s + s) \div 2
           ELSE Word(divrem_u(a1, a0, s)[1] + s) \div 2
  IN  IF u >= s THEN s ELSE Newton(a1, a0, u)

\* <<root, inexact>>
sqrtrem_u(a1, a0) ==
  LET l == IF a1 # 0 THEN 2 * F_SIZE - clz(a1 - 1) ELSE F_SIZE - clz(a0 - 1)
      s == Newton(a1, a0, 2^((l + 1) \div 2))
  IN  IF a1 = 0 /\ a0 = 0 THEN <<0, FALSE>> ELSE <<s, mul_u(s, s) # <<a1, a0>>>>

sqrt_sf(a, rm) ==
  LET unbiased == NormExp(a) - (EXP_MASK \div 2)
      odd == unbiased % 2
      exp == ((unbiased - odd) \div 2) + (EXP_MASK \div 2)
      root == sqrtrem_u(NormMant(a) * 2^odd * 2^(F_SIZE - 4 - MANT_SIZE), 0)
  IN  IF isnan_sf(a) THEN Nan({a})
      ELSE IF IsZero(a) THEN Result(a, {})
      ELSE IF SignOf(a) = 1 THEN Invalid
      ELSE IF IsInf(a) THEN Result(a, {})
      ELSE normalize_sf(0, exp, Sticky(root[1], root[2]), rm)

-----------------------------------------------------------------------------
(* Comparisons *)

min_max_nan_sf(a, b) ==
  Result(IF ~isnan_sf(a) THEN a ELSE IF ~isnan_sf(b) THEN b ELSE F_QNAN,
         Flag(issignan_sf(a) \/ issignan_sf(b), NV))

FirstIsLess(a, b) ==
  IF SignOf(a) # SignOf(b) THEN SignOf(a) = 1
  ELSE IF SignOf(a) = 0 THEN a < b ELSE ~(a < b)

min_sf(a, b) ==
  IF isnan_sf(a) \/ isnan_sf(b) THEN min_max_nan_sf(a, b)
  ELSE Result(IF FirstIsLess(a, b) THEN a ELSE b, {})

max_sf(a, b) ==
  IF isnan_sf(a) \/ isnan_sf(b) THEN min_max_nan_sf(a, b)
  ELSE Result(IF FirstIsLess(a, b) THEN b ELSE a, {})

eq_quiet_sf(a, b) ==
  IF isnan_sf(a) \/ isnan_sf(b)
  THEN Result(0, Flag(issignan_sf(a) \/ issignan_sf(b), NV))
  ELSE Result(Bit(a = b \/ (IsZero(a) /\ IsZero(b))), {})

le_sf(a, b) ==
  IF isnan_sf(a) \/ isnan_sf(b) THEN Result(0, {NV})
  ELSE Result(Bit(IF SignOf(a) # SignOf(b)
                  THEN SignOf(a) = 1 \/ (IsZero(a) /\ IsZero(b))
                  ELSE IF SignOf(a) = 1 THEN a >= b ELSE a <= b), {})

lt_sf(a, b) ==
  IF isnan_sf(a) \/ isnan_sf(b) THEN Result(0, {NV})
  ELSE Result(Bit(IF SignOf(a) # SignOf(b)
                  THEN SignOf(a) = 1 /\ ~(IsZero(a) /\ IsZero(b))
                  ELSE IF SignOf(a) = 1 THEN a > b ELSE a < b), {})

fclass_sf(a) ==
  [ sign |-> IF isnan_sf(a) THEN 0 ELSE SignOf(a),
    class |-> IF ExpOf(a) = EXP_MASK
              THEN IF MantOf(a) = 0 THEN "infinity"
                   ELSE IF MantOf(a) >= 2^(MANT_SIZE - 1) THEN "quiet NaN" ELSE "signaling NaN"
              ELSE IF ExpOf(a) # 0 THEN "normal"
              ELSE IF MantOf(a) = 0 THEN "zero" ELSE "subnormal" ]

-----------------------------------------------------------------------------
(* Conversions from and to integers *)

\* r_max
IntMax(sign, unsigned) ==
  IF unsigned THEN IF sign = 1 THEN 0 ELSE 2^ICVT_SIZE - 1
  ELSE 2^(ICVT_SIZE - 1) - Bit(sign = 0)

cvt_sf_i(a, rm, unsigned) ==
  LET sign == IF isnan_sf(a) THEN 0 ELSE SignOf(a)
      mant == (MantOf(a) + (IF ExpOf(a) = 0 THEN 0 ELSE 2^MANT_SIZE)) * 2^RND_SIZE
      exp == (IF ExpOf(a) = 0 THEN 1 ELSE ExpOf(a)) - (EXP_MASK \div 2) - MANT_SIZE
      max == IntMax(sign, unsigned)
      shifted == rshift_rnd(mant, -exp)
      r == IF exp >= 0 THEN Shr(mant, RND_SIZE) * 2^exp
           ELSE RoundMant(shifted, Addend(sign, rm), rm)
      over == (exp >= 0 /\ exp > ICVT_SIZE - 1 - MANT_SIZE) \/ r > max
      value == IF over THEN max ELSE IF sign = 1 THEN (2^ICVT_SIZE - r) % 2^ICVT_SIZE ELSE r
  IN  Result(value,
             IF over THEN {NV} ELSE Flag(exp < 0 /\ shifted % 2^RND_SIZE # 0, NX))

\* a is the word of an integer of ICVT_SIZE bits.
cvt_i_sf(a, rm, unsigned) ==
  LET neg == ~unsigned /\ a >= 2^(ICVT_SIZE - 1)
      r == IF neg THEN 2^ICVT_SIZE - a ELSE a
      l == BitLen(r) - (F_SIZE - 1)
      exp == (EXP_MASK \div 2) + F_SIZE - 2
  IN  IF l > 0 THEN normalize_sf(Bit(neg), exp + l, Sticky(Shr(r, l), r % 2^l # 0), rm)
      ELSE normalize_sf(Bit(neg), exp, r, rm)
=============================================================================
