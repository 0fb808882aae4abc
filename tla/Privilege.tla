------------------------------ MODULE Privilege ------------------------------
(***************************************************************************)
(* Privilege levels and mstatus of the emulated hart (src/riscv_cpu.c,     *)
(* src/riscv_cpu_priv.h).  mstatus is the set of its bits that are 1; the  *)
(* two bits of MPP are MPP0 and MPP1.  FS is kept in a variable of its own *)
(* by the code and is left out, as are the two XL fields.                  *)
(***************************************************************************)
EXTENDS Naturals

PRV_U == 0

PRV_S == 1

PRV_M == 3

Privs == {PRV_U, PRV_S, PRV_M}

SSTATUS_MASK == {"UIE", "SIE", "UPIE", "SPIE", "SPP", "SUM", "MXR"}

MSTATUS_MASK ==
  SSTATUS_MASK \cup {"MIE", "MPIE", "MPP0", "MPP1", "MPRV"}

\* Bit p of mstatus enables the interrupts of privilege p.
IE(p) == IF p = PRV_U THEN "UIE" ELSE IF p = PRV_S THEN "SIE" ELSE "MIE"

OnlyIf(b, bits) == IF b THEN bits ELSE {}

Spp(ms) == IF "SPP" \in ms THEN PRV_S ELSE PRV_U

Mpp(ms) ==
  (IF "MPP0" \in ms THEN 1 ELSE 0) + (IF "MPP1" \in ms THEN 2 ELSE 0)

MppBits(p) == OnlyIf(p % 2 = 1, {"MPP0"}) \cup OnlyIf(p \div 2 = 1, {"MPP1"})

\* A masked write: the bits outside mask keep their value.
Masked(old, val, mask) == (old \ mask) \cup (val \cap mask)

(***************************************************************************)
(* raise_exception2: mstatus of a trap taken at priv, delegated or not.    *)
(***************************************************************************)
TrapMstatus(ms, priv, deleg) ==
  IF deleg
  THEN (ms \ {"SPIE", "SPP", "SIE"})
         \cup OnlyIf(IE(priv) \in ms, {"SPIE"})
         \cup OnlyIf(priv = PRV_S, {"SPP"})
  ELSE (ms \ {"MPIE", "MPP0", "MPP1", "MIE"})
         \cup OnlyIf(IE(priv) \in ms, {"MPIE"})
         \cup MppBits(priv)

\* handle_sret
SretMstatus(ms) ==
  (((ms \ {IE(Spp(ms))}) \cup OnlyIf("SPIE" \in ms, {IE(Spp(ms))}))
     \cup {"SPIE"}) \ {"SPP"}

\* Mutant: the previous interrupt enable is not restored.
MretMstatus_NoPie(ms) == (ms \cup {"MPIE"}) \ {"MPP0", "MPP1"}

\* handle_mret
MretMstatus(ms) ==
  (((ms \ {IE(Mpp(ms))}) \cup OnlyIf("MPIE" \in ms, {IE(Mpp(ms))}))
     \cup {"MPIE"}) \ {"MPP0", "MPP1"}

\* set_mstatus: the value written, and whether it flushes the TLBs.
set_mstatus(ms, val) == Masked(ms, val, MSTATUS_MASK)

Differ(ms, val, bits) == (ms \cap bits) # (val \cap bits)

MstatusFlushes(ms, val) ==
  \/ Differ(ms, val, {"MPRV", "SUM", "MXR"})
  \/ "MPRV" \in ms /\ Differ(ms, val, {"MPP0", "MPP1"})
=============================================================================
