----------------------------- MODULE MCOooCore ------------------------------
(***************************************************************************)
(* Instructions for model checking: two registers, so that an operand can  *)
(* come from another register than the destination, a link register, and   *)
(* the instruction without destination that is never ready.                *)
(***************************************************************************)
EXTENDS OooCore

Legal ==
  {[kind |-> "alu", rd |-> 1, rs |-> 1],
   [kind |-> "load", rd |-> 2, rs |-> 1],
   [kind |-> "branch", rd |-> 0, rs |-> 2],
   [kind |-> "branch", rd |-> 1, rs |-> 0],
   [kind |-> "complex", rd |-> 0, rs |-> 0],
   [kind |-> "hint", rd |-> 0, rs |-> 0]}

\* README, section 5.
WithIllegalAtomic ==
  {[kind |-> "alu", rd |-> 1, rs |-> 1],
   [kind |-> "branch", rd |-> 0, rs |-> 0],
   [kind |-> "illegal", rd |-> 1, rs |-> 0]}
=============================================================================
