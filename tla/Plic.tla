-------------------------------- MODULE Plic --------------------------------
(***************************************************************************)
(* The interrupt controller of src/riscv_machine.c.  Its state is a record *)
(* [pending, served] of sets of interrupt numbers; SEIP and MEIP of mip    *)
(* are set exactly while Signals, as plic_update_mip ends every operation. *)
(***************************************************************************)
EXTENDS Integers, FiniteSetsExt

PlicInit == [pending |-> {}, served |-> {}]

\* plic_update_mip
Signals(p) == p.pending \ p.served # {}

\* Mutant: a device that is being served is not listened to.
plic_set_irq_NotServed(p, irq, state) ==
  IF state /\ irq \notin p.served
  THEN [p EXCEPT !.pending = @ \cup {irq}]
  ELSE [p EXCEPT !.pending = @ \ {irq}]

plic_set_irq(p, irq, state) ==
  IF state THEN [p EXCEPT !.pending = @ \cup {irq}]
  ELSE [p EXCEPT !.pending = @ \ {irq}]

\* plic_read of the claim register: the lowest interrupt, 0 when there is none
plic_claimed(p) == IF Signals(p) THEN Min(p.pending \ p.served) ELSE 0

plic_claim(p) ==
  IF Signals(p) THEN [p EXCEPT !.served = @ \cup {plic_claimed(p)}] ELSE p

\* plic_write of the same register
plic_complete(p, irq) == [p EXCEPT !.served = @ \ {irq}]
=============================================================================
