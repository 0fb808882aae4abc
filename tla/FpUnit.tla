------------------------------- MODULE FpUnit -------------------------------
(***************************************************************************)
(* A floating point operation of the guest, computed by the library of     *)
(* SoftFp in the single format (F_SIZE, MANT_SIZE), with the conversions   *)
(* from and to the double one (WideSize, WideMant), and what IEEE 754 says *)
(* of it.  The exact result is a number (n / d) * 2^e, or the square root  *)
(* of one.                                                                 *)
(***************************************************************************)
EXTENDS SoftFp

CONSTANTS WideSize, WideMant, Lefts, Rights, Factors, Addends

W == INSTANCE SoftFp WITH F_SIZE <- WideSize, MANT_SIZE <- WideMant

\* The build of the library for a compiler without a double word.
H == INSTANCE SoftFp WITH HasLong <- FALSE

\* The wide format holds every single word exactly, its subnormals are below
\* every single one, and its mantissa is no shorter than a word of the single
\* format less its two top bits.
WideAssumption ==
  /\ WideMant >= IMANT_SIZE
  /\ 2^(W!EXP_SIZE - 1) > 2^(EXP_SIZE - 1) + MANT_SIZE + 2

VARIABLES op, args, rm, out
vars == <<op, args, rm, out>>

Words == 0 .. 2^F_SIZE - 1
Ints == 0 .. 2^ICVT_SIZE - 1

-----------------------------------------------------------------------------
(* Conversions between the formats *)

cvt_sf32_sf(a) ==
  LET exp == NormExp(a) - (EXP_MASK \div 2) + (W!EXP_MASK \div 2)
  IN  IF isnan_sf(a) THEN Result(W!F_QNAN, Flag(issignan_sf(a), NV))
      ELSE IF IsInf(a) THEN Result(W!pack_sf(SignOf(a), W!EXP_MASK, 0), {})
      ELSE IF IsZero(a) THEN Result(W!pack_sf(SignOf(a), 0, 0), {})
      ELSE Result(W!pack_sf(SignOf(a), exp, NormMant(a) * 2^(WideMant - MANT_SIZE)), {})

\* The mantissa of a subnormal word is not normalised with its exponent.
cvt_sf_sf32(a, mode) ==
  LET mant == W!MantOf(a) + (IF W!ExpOf(a) = 0 THEN 0 ELSE 2^WideMant)
      exp == W!NormExp(a) - (W!EXP_MASK \div 2) + (EXP_MASK \div 2)
  IN  IF W!isnan_sf(a) THEN Result(F_QNAN, Flag(W!issignan_sf(a), NV))
      ELSE IF W!IsInf(a) THEN Result(pack_sf(W!SignOf(a), EXP_MASK, 0), {})
      ELSE IF W!IsZero(a) THEN Result(pack_sf(W!SignOf(a), 0, 0), {})
      ELSE normalize_sf(W!SignOf(a), exp, W!rshift_rnd(mant, WideMant - IMANT_SIZE), mode)

-----------------------------------------------------------------------------
(* The operations, and the operands each is given *)

Do(o, mode, r) == op' = o /\ rm' = mode /\ out' = r

Add == \E b \in Rights, m \in Modes :
         Do("add", m, add_sf(args[1], b, m)) /\ args' = <<args[1], b>>
Sub == \E b \in Factors, m \in Modes :
         Do("sub", m, sub_sf(args[1], b, m)) /\ args' = <<args[1], b>>
Mul == \E b \in Rights, m \in Modes : \E r \in {mul_sf(args[1], b, m), H!mul_sf(args[1], b, m)} :
         Do("mul", m, r) /\ args' = <<args[1], b>>
Div == \E b \in Rights, m \in Modes : \E r \in {div_sf(args[1], b, m), H!div_sf(args[1], b, m)} :
         Do("div", m, r) /\ args' = <<args[1], b>>
Fma == \E b \in Factors, c \in Addends, m \in Modes :
         \E r \in {fma_sf(args[1], b, c, m), H!fma_sf(args[1], b, c, m)} :
           Do("fma", m, r) /\ args' = <<args[1], b, c>>
Sqrt == \E s \in {0, 1}, m \in Modes :
          LET a == Word(args[1] + s * SIGN_MASK)
          IN  \E r \in {sqrt_sf(a, m), H!sqrt_sf(a, m)} : Do("sqrt", m, r) /\ args' = <<a>>
Compare == \E b \in Rights :
  /\ Do("compare", "RNE",
        [ min |-> min_sf(args[1], b), max |-> max_sf(args[1], b),
          eq |-> eq_quiet_sf(args[1], b), le |-> le_sf(args[1], b),
          lt |-> lt_sf(args[1], b), class |-> fclass_sf(b) ])
  /\ args' = <<args[1], b>>
ToInt == \E s \in {0, 1}, u \in BOOLEAN, m \in Modes :
  LET a == Word(args[1] + s * SIGN_MASK)
  IN  Do("to int", m, cvt_sf_i(a, m, u)) /\ args' = <<a, Bit(u)>>
FromInt == \E i \in Ints, u \in BOOLEAN, m \in Modes :
  /\ args[1] = 0
  /\ Do("from int", m, cvt_i_sf(i, m, u)) /\ args' = <<i, Bit(u)>>
Widen == \E s \in {0, 1} :
  LET a == Word(args[1] + s * SIGN_MASK)
  IN  Do("widen", "RNE", cvt_sf32_sf(a)) /\ args' = <<a>>
Narrow == \E b \in 0 .. 2^WideSize - 1, m \in Modes :
  /\ args[1] = 0
  /\ Do("narrow", m, cvt_sf_sf32(b, m)) /\ args' = <<b>>

Init == op = "idle" /\ args \in {<<a>> : a \in Lefts} /\ rm = "RNE" /\ out = Result(0, {})

Next ==
  /\ op = "idle"
  /\ \/ Add \/ Sub \/ Mul \/ Div \/ Fma \/ Sqrt \/ Compare
     \/ ToInt \/ FromInt \/ Widen \/ Narrow

Spec == Init /\ [][Next]_vars

-----------------------------------------------------------------------------
(* Exact arithmetic *)

Order(p, q) == IF p < q THEN -1 ELSE IF p = q THEN 0 ELSE 1

\* p * 2^s against q, both numbers brought to the same number of bits
OrderShifted(p, s, q) ==
  LET d == BitLen(q) - BitLen(p)
  IN  IF p = 0 \/ q = 0 THEN Order(p, q)
      ELSE IF s # d THEN Order(s, d)
      ELSE IF d >= 0 THEN Order(p * 2^d, q) ELSE Order(p, q * 2^(-d))

Real(n, d, e) == [n |-> n, d |-> d, e |-> e, root |-> FALSE]
Root(n, e) == [n |-> n, d |-> 1, e |-> e, root |-> TRUE]

\* x against m * 2^k
Against(x, m, k) ==
  IF x.root THEN OrderShifted(x.n, x.e - 2 * k, m * m)
  ELSE OrderShifted(x.n, x.e - k, m * x.d)

\* The significand and exponent of a word that is not special.
Sig(p) == MantOf(p) + (IF ExpOf(p) = 0 THEN 0 ELSE 2^MANT_SIZE)
Scale(p) == (IF ExpOf(p) = 0 THEN 1 ELSE ExpOf(p)) - (2^(EXP_SIZE - 1) - 1) - MANT_SIZE
ValueOf(p) == Real(Sig(p), 1, Scale(p))

Infinity == EXP_MASK * 2^MANT_SIZE
Finite(p) == Magnitude(p) < Infinity

\* The magnitudes are ordered as their words, and Infinity stands for the
\* first power of two that is too large.
AgainstWord(x, p) == Against(x, Sig(p), Scale(p))
AgainstMiddle(x, p) == Against(x, 2 * Sig(p) + 1, Scale(p) - 1)

Down(x, p) == p < Infinity /\ AgainstWord(x, p) >= 0
                /\ (p = Infinity - 1 \/ AgainstWord(x, p + 1) < 0)
Up(x, p) == \/ p = Infinity /\ AgainstWord(x, p - 1) > 0
            \/ /\ p < Infinity /\ AgainstWord(x, p) <= 0
               /\ p = 0 \/ AgainstWord(x, p - 1) > 0
Near(x, p, away) ==
  /\ p = 0 \/ LET o == AgainstMiddle(x, p - 1)
              IN  o > 0 \/ (o = 0 /\ (away \/ p % 2 = 0))
  /\ p = Infinity \/ LET o == AgainstMiddle(x, p)
                     IN  o < 0 \/ (o = 0 /\ ~away /\ p % 2 = 0)

Direction(sign, mode) ==
  CASE mode = "RNE" -> "even"
    [] mode = "RMM" -> "away"
    [] mode = "RTZ" -> "down"
    [] mode = "RDN" -> IF sign = 1 THEN "up" ELSE "down"
    [] mode = "RUP" -> IF sign = 0 THEN "up" ELSE "down"

RoundsTo(x, p, dir) ==
  CASE dir = "down" -> Down(x, p)
    [] dir = "up" -> Up(x, p)
    [] dir = "even" -> Near(x, p, FALSE)
    [] dir = "away" -> Near(x, p, TRUE)

\* Rounded to the precision of the format, with an exponent below its least,
\* x stays under the least normal number.
Tiny(x, dir) ==
  LET u == 2 - 2^(EXP_SIZE - 1) - MANT_SIZE
  IN  CASE dir = "down" -> Against(x, 2^MANT_SIZE, u) < 0
        [] dir = "up" -> Against(x, 2 * 2^MANT_SIZE - 1, u - 1) <= 0
        [] OTHER -> Against(x, 4 * 2^MANT_SIZE - 1, u - 2) < 0

RoundingFlags(x, p, dir) ==
  LET inexact == p = Infinity \/ AgainstWord(x, p) # 0
  IN  Flag(inexact, NX)
        \cup Flag(inexact /\ Tiny(x, dir), UF)
        \cup Flag(p = Infinity \/ AgainstWord(x, Infinity) >= 0, OF)

\* n1 * 2^e1, with a sign, plus n2 * 2^e2.  A term more than Far bits below the
\* other is brought to that distance: it is as far from any word, or middle of
\* two, as it was.
Far == 20
SumOf(s1, n1, e1, s2, n2, e2) ==
  LET f1 == IF n2 # 0 /\ e1 < e2 - Far THEN e2 - Far ELSE e1
      f2 == IF n1 # 0 /\ e2 < e1 - Far THEN e1 - Far ELSE e2
      e == IF n1 = 0 THEN f2 ELSE IF n2 = 0 \/ f1 < f2 THEN f1 ELSE f2
      v1 == IF n1 = 0 THEN 0 ELSE (IF s1 = 1 THEN -n1 ELSE n1) * 2^(f1 - e)
      v2 == IF n2 = 0 THEN 0 ELSE (IF s2 = 1 THEN -n2 ELSE n2) * 2^(f2 - e)
  IN  [v |-> v1 + v2, e |-> e]

-----------------------------------------------------------------------------
(* What IEEE 754 asks of each operation *)

Special(word, flags) == [kind |-> "special", r |-> word, flags |-> flags]
Exact(sign, x) == [kind |-> "exact", sign |-> sign, x |-> x]
Signed(sign, p) == sign * SIGN_MASK + p

\* The sum of two terms, either of them a product of finite words.
ExactSum(s1, n1, e1, s2, n2, e2, mode) ==
  LET sum == SumOf(s1, n1, e1, s2, n2, e2)
      v == sum.v
  IN  IF v # 0 THEN Exact(Bit(v < 0), Real(IF v < 0 THEN -v ELSE v, 1, sum.e))
      ELSE Special(Signed(IF s1 = s2 THEN s1 ELSE Bit(mode = "RDN"), 0), {})

WantSum(a, b, mode) ==
  IF IsInf(a) /\ IsInf(b) /\ SignOf(a) # SignOf(b) THEN Special(F_QNAN, {NV})
  ELSE IF IsInf(a) THEN Special(a, {})
  ELSE IF IsInf(b) THEN Special(b, {})
  ELSE ExactSum(SignOf(a), Sig(a), Scale(a), SignOf(b), Sig(b), Scale(b), mode)

WantFma(a, b, c, mode) ==
  LET s == Xor(SignOf(a), SignOf(b))
  IN  IF \/ IsInf(a) /\ IsZero(b)
         \/ IsZero(a) /\ IsInf(b)
         \/ (IsInf(a) \/ IsInf(b)) /\ IsInf(c) /\ s # SignOf(c)
      THEN Special(F_QNAN, {NV})
      ELSE IF IsInf(a) \/ IsInf(b) THEN Special(Signed(s, Infinity), {})
      ELSE IF IsInf(c) THEN Special(c, {})
      ELSE ExactSum(s, Sig(a) * Sig(b), Scale(a) + Scale(b), SignOf(c), Sig(c), Scale(c), mode)

WantMul(a, b) ==
  LET s == Xor(SignOf(a), SignOf(b))
  IN  IF (IsInf(a) /\ IsZero(b)) \/ (IsZero(a) /\ IsInf(b)) THEN Special(F_QNAN, {NV})
      ELSE IF IsInf(a) \/ IsInf(b) THEN Special(Signed(s, Infinity), {})
      ELSE Exact(s, Real(Sig(a) * Sig(b), 1, Scale(a) + Scale(b)))

WantDiv(a, b) ==
  LET s == Xor(SignOf(a), SignOf(b))
  IN  IF (IsInf(a) /\ IsInf(b)) \/ (IsZero(a) /\ IsZero(b)) THEN Special(F_QNAN, {NV})
      ELSE IF IsInf(a) THEN Special(Signed(s, Infinity), {})
      ELSE IF IsInf(b) THEN Special(Signed(s, 0), {})
      ELSE IF IsZero(b) THEN Special(Signed(s, Infinity), {DZ})
      ELSE Exact(s, Real(Sig(a), Sig(b), Scale(a) - Scale(b)))

WantSqrt(a) ==
  IF IsZero(a) THEN Special(a, {})
  ELSE IF SignOf(a) = 1 THEN Special(F_QNAN, {NV})
  ELSE IF IsInf(a) THEN Special(a, {})
  ELSE Exact(0, Root(Sig(a), Scale(a)))

WantFromInt(i, unsigned) ==
  LET neg == ~unsigned /\ i >= 2^(ICVT_SIZE - 1)
  IN  Exact(Bit(neg), Real(IF neg THEN 2^ICVT_SIZE - i ELSE i, 1, 0))

WantNarrow(a) ==
  LET sig == W!MantOf(a) + (IF W!ExpOf(a) = 0 THEN 0 ELSE 2^WideMant)
      e == (IF W!ExpOf(a) = 0 THEN 1 ELSE W!ExpOf(a)) - (2^(W!EXP_SIZE - 1) - 1) - WideMant
  IN  IF W!IsInf(a) THEN Special(Signed(W!SignOf(a), Infinity), {})
      ELSE Exact(W!SignOf(a), Real(sig, 1, e))

Negated(a) == Word(a + SIGN_MASK)

Want ==
  LET a == args[1] b == args[2]
  IN  IF op = "narrow" /\ W!isnan_sf(a) THEN Special(F_QNAN, Flag(W!issignan_sf(a), NV))
      ELSE IF op = "narrow" THEN WantNarrow(a)
      ELSE IF op = "from int" THEN WantFromInt(a, b = 1)
      ELSE IF \E i \in DOMAIN args : isnan_sf(args[i])
      THEN Special(F_QNAN, Flag(\E i \in DOMAIN args : issignan_sf(args[i]), NV))
      ELSE CASE op = "add" -> WantSum(a, b, rm)
             [] op = "sub" -> WantSum(a, Negated(b), rm)
             [] op = "mul" -> WantMul(a, b)
             [] op = "div" -> WantDiv(a, b)
             [] op = "fma" -> WantFma(a, b, args[3], rm)
             [] op = "sqrt" -> WantSqrt(a)

Arithmetic == {"add", "sub", "mul", "div", "fma", "sqrt", "from int", "narrow"}

\* The real a word stands for, with its sign; an infinity is beyond the others.
SignedOrder(a, b) ==
  LET s == IF SignOf(a) = 1 THEN -1 ELSE 1
  IN  IF IsZero(a) /\ IsZero(b) THEN 0
      ELSE IF SignOf(a) # SignOf(b) THEN s
      ELSE s * AgainstWord(ValueOf(Magnitude(a)), Magnitude(b))

\* a rounded to an integer, its size
IntegerOf(a, i, dir) ==
  LET x == ValueOf(Magnitude(a))
      odd == i % 2 = 1
  IN  CASE dir = "down" -> Against(x, i, 0) >= 0 /\ Against(x, i + 1, 0) < 0
        [] dir = "up" -> Against(x, i, 0) <= 0 /\ (i = 0 \/ Against(x, i - 1, 0) > 0)
        [] OTHER ->
             /\ i = 0 \/ LET o == Against(x, 2 * i - 1, -1)
                         IN  o > 0 \/ (o = 0 /\ (dir = "away" \/ ~odd))
             /\ LET o == Against(x, 2 * i + 1, -1)
                IN  o < 0 \/ (o = 0 /\ dir = "even" /\ ~odd)

ToIntRight ==
  LET a == args[1]
      unsigned == args[2] = 1
      neg == SignOf(a) = 1 /\ ~isnan_sf(a)
      least == IF unsigned THEN 0 ELSE 2^(ICVT_SIZE - 1)    \* its size
      most == IF unsigned THEN 2^ICVT_SIZE - 1 ELSE 2^(ICVT_SIZE - 1) - 1
      max == IF neg THEN least ELSE most
      dir == Direction(SignOf(a), rm)
      fits == Finite(a) /\ \E i \in 0 .. max : IntegerOf(a, i, dir)
      size == IF neg THEN (2^ICVT_SIZE - out.r) % 2^ICVT_SIZE ELSE out.r
      exact == Against(ValueOf(Magnitude(a)), size, 0) = 0
  IN  IF fits
      THEN IntegerOf(a, size, dir) /\ size <= max /\ out.flags = Flag(~exact, NX)
      ELSE out = Result(max, {NV})

ClassRight(a) ==
  LET p == Magnitude(a)
      least == AgainstWord(ValueOf(p), 2^MANT_SIZE) >= 0
  IN  out.class = [ sign |-> IF isnan_sf(a) THEN 0 ELSE SignOf(a),
                    class |-> IF issignan_sf(a) THEN "signaling NaN"
                              ELSE IF p > Infinity THEN "quiet NaN"
                              ELSE IF p = Infinity THEN "infinity"
                              ELSE IF p = 0 THEN "zero"
                              ELSE IF least THEN "normal" ELSE "subnormal" ]

CompareRight ==
  LET a == args[1]
      b == args[2]
      nan == isnan_sf(a) \/ isnan_sf(b)
      signaling == issignan_sf(a) \/ issignan_sf(b)
      o == SignedOrder(a, b)
      other == IF isnan_sf(a) THEN IF isnan_sf(b) THEN F_QNAN ELSE b ELSE a
      first == o < 0 \/ (o = 0 /\ SignOf(a) = 1)     \* a may be the minimum
  IN  /\ ClassRight(b)
      /\ IF nan
         THEN /\ out.min = Result(other, Flag(signaling, NV)) /\ out.max = out.min
              /\ out.eq = Result(0, Flag(signaling, NV))
              /\ out.le = Result(0, {NV}) /\ out.lt = Result(0, {NV})
         ELSE /\ out.eq = Result(Bit(o = 0), {})
              /\ out.le = Result(Bit(o <= 0), {})
              /\ out.lt = Result(Bit(o < 0), {})
              /\ out.min = Result(IF first THEN a ELSE b, {})
              /\ out.max = Result(IF first THEN b ELSE a, {})

\* A single word survives the way to the double format and back.
WidenRight ==
  LET a == args[1]
      back == cvt_sf_sf32(out.r, "RTZ")
  IN  IF isnan_sf(a) THEN out = Result(W!F_QNAN, Flag(issignan_sf(a), NV))
      ELSE out.flags = {} /\ back = Result(a, {})

-----------------------------------------------------------------------------
(* Properties *)

\* The result is the exact one rounded once, or a special word.
RoundedOnce ==
  /\ op \in Arithmetic =>
       LET want == Want
           p == Magnitude(out.r)
       IN  IF want.kind = "special" THEN out.r = want.r
           ELSE /\ SignOf(out.r) = want.sign
                /\ p <= Infinity
                /\ RoundsTo(want.x, p, Direction(want.sign, rm))
  /\ op = "to int" => ToIntRight
  /\ op = "compare" => CompareRight
  /\ op = "widen" => WidenRight

\* What the operation adds to fflags.
FlagsRaised ==
  op \in Arithmetic =>
    LET want == Want
    IN  out.flags = IF want.kind = "special" THEN want.flags
                    ELSE RoundingFlags(want.x, Magnitude(out.r), Direction(want.sign, rm))

\* Every operation returns what IEEE 754 defines: the exact result rounded once,
\* in the direction of the rounding mode, to the nearest word or to the even
\* one of two; the special words as it lists them.  Its flags are inexact when
\* the result is not the exact one, underflow when it is also tiny after
\* rounding, overflow when it is beyond the format, invalid and divide by zero
\* for the operands that have no result.  No assertion of the library fails.
ResultsCorrect == RoundedOnce /\ FlagsRaised
=============================================================================
