------------------------------- MODULE Words -------------------------------
(***************************************************************************)
(* The C integer types the instruction semantics of the emulator and of    *)
(* the simulated cores are written in.  target_ulong is XLEN bits wide (64 *)
(* in the build, smaller in a model) and every narrower type scales with   *)
(* it: uint32_t is XLEN/2 bits, uint8_t is XLEN/8 bits.  A value of        *)
(* target_ulong is a natural number below 2^XLEN; memory is a function     *)
(* from byte addresses to bytes, little endian.                            *)
(***************************************************************************)
EXTENDS Integers, Bitwise, FiniteSetsExt

CONSTANTS XLEN, MemSize

WLEN == XLEN \div 2
BYTE == XLEN \div 8

ULong(v) == v % 2^XLEN

\* The value of v converted to a signed type of n bits.
Signed(n, v) ==
  LET u == v % 2^n IN IF u >= 2^(n - 1) THEN u - 2^n ELSE u

Long(v) == Signed(XLEN, v)

\* (intN_t)v stored into a target_ulong.
Sext(n, v) == ULong(Signed(n, v))

Not1(v) == v - (v % 2)        \* v & ~1
Bool(b) == IF b THEN 1 ELSE 0

\* Division of C truncates towards zero.
Magnitude(v) == IF v < 0 THEN -v ELSE v
Quotient(a, b) ==
  LET q == Magnitude(a) \div Magnitude(b) IN IF (a < 0) = (b < 0) THEN q ELSE -q
Remainder(a, b) == a - b * Quotient(a, b)

Shl(v, n) == ULong(v * 2^n)
Shr(v, n) == v \div 2^n
Sar(len, v, n) == ULong(Signed(len, v) \div 2^n)

\* target_read_u* and target_write_u*: n bytes at a, or a fault.
InMem(a, n) == a + n <= MemSize
Peek(m, a, n) ==
  MapThenSumSet(LAMBDA k : m[a + k] * 2^(BYTE * k), 0 .. n - 1)
Poke(m, a, n, v) ==
  [k \in DOMAIN m |-> IF k \in a .. a + n - 1
                      THEN (v \div 2^(BYTE * (k - a))) % 2^BYTE ELSE m[k]]
=============================================================================
