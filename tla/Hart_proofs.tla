---------------------------- MODULE Hart_proofs ----------------------------
(***************************************************************************)
(* Hart for every budget, every length of a block, every set of home       *)
(* privileges and every delegation: the handover between the interpreter   *)
(* and the simulated core executes each instruction once, traps are        *)
(* transparent, and no wakeup is lost.                                     *)
(***************************************************************************)
EXTENDS Hart, TLAPS

-----------------------------------------------------------------------------
(* The inductive invariants *)

\* The interpreter executes an instruction in simulation mode only when the
\* core has asked for it, and then hands the hart back after this one.
HandoverInv ==
  /\ asserts = TRUE
  /\ return_to_sim \in BOOLEAN /\ simulation \in BOOLEAN
  /\ at = "block" \/ (at = "loop" /\ n_cycles > 0) => ~simulation \/ return_to_sim

\* A hart that sleeps is with the host.
SleepInv ==
  /\ power_down_flag \in BOOLEAN
  /\ power_down_flag => at \in {"host", "select", "end"} /\ mip \cap mie = {}

\* What the handler at S level returns to.
SavedByS ==
  /\ home # PRV_M
  /\ sepc = Main(0)
  /\ Spp(mstatus) = home
  /\ home # PRV_U => (home_ie <=> "SPIE" \in mstatus)
  /\ "SIE" \notin mstatus

\* What the handler at M level returns to: the main program, or the handler at
\* S level, with its interrupts disabled.
SavedByM ==
  /\ "MIE" \notin mstatus
  /\ \/ /\ mepc = Main(0)
        /\ Mpp(mstatus) = home
        /\ home # PRV_U => (home_ie <=> "MPIE" \in mstatus)
     \/ /\ mepc = Handler(PRV_S)
        /\ Mpp(mstatus) = PRV_S
        /\ "MPIE" \notin mstatus
        /\ SavedByS

TrapInv ==
  /\ home \in Privs /\ home_ie \in BOOLEAN
  /\ \/ /\ pc = Main(0)
        /\ priv = home
        /\ home # PRV_U => (home_ie <=> IE(home) \in mstatus)
     \/ /\ pc = Handler(PRV_S)
        /\ priv = PRV_S
        /\ SavedByS
     \/ /\ pc = Handler(PRV_M)
        /\ priv = PRV_M
        /\ SavedByM

-----------------------------------------------------------------------------
(***************************************************************************)
(* The handover: LoopTop, Enter and the core leave to the main loop only   *)
(* with the simulation off, the budget used up or return_to_sim set.       *)
(***************************************************************************)
LEMMA HandoverStep == HandoverInv /\ [Next]_vars => HandoverInv'
<1> SUFFICES ASSUME HandoverInv, [Next]_vars PROVE HandoverInv'
  BY Zenon
<1> USE DEF HandoverInv, loop_vars, csr_vars, sim_vars, trap_vars, guest
<1>1. CASE HostTimer
  BY <1>1, Zenon DEF HostTimer
<1>2. CASE HostSelect
  BY <1>2, Zenon DEF HostSelect
<1>3. CASE Interp
  BY <1>3, Zenon DEF Interp
<1>4. CASE Enter
  <2>1. CASE Interrupt
    BY <2>1, Zenon DEF Interrupt
  <2>2. CASE ~Interrupt
    <3>1. /\ at' = IF simulation THEN "sim" ELSE "loop"
          /\ UNCHANGED <<n_cycles, sim_vars>>
      BY <1>4, <2>2, Zenon DEF Enter
    <3>2. CASE simulation
      BY <3>1, <3>2, Zenon
    <3>3. CASE ~simulation
      BY <3>1, <3>3, Zenon
    <3>4. QED
      BY <3>2, <3>3, Zenon
  <2>3. QED
    BY <2>1, <2>2, Zenon
<1>5. CASE LoopTop
  <2>1. CASE Interrupt
    BY <2>1, Zenon DEF Interrupt
  <2>2. CASE at' = "end" /\ UNCHANGED sim_vars
    BY <2>2, Zenon
  <2>3. CASE n_cycles > 0 /\ UNCHANGED <<n_cycles, sim_vars>>
    BY <1>5, <2>3, Zenon DEF LoopTop
  <2>4. QED
    BY <1>5, <2>1, <2>2, <2>3, Zenon DEF LoopTop
<1>6. CASE Tick
  BY <1>6, Zenon DEF Tick
<1>7. CASE SimCommit
  <2>1. CASE at' = at
    BY <1>7, <2>1, Zenon DEF SimCommit
  <2>2. CASE n_cycles' = 0 /\ UNCHANGED simulation
    BY <1>7, <2>2 DEF SimCommit
  <2>3. CASE simulation' = FALSE
    BY <1>7, <2>3, Zenon DEF SimCommit
  <2>4. QED
    BY <1>7, <2>1, <2>2, <2>3, Zenon DEF SimCommit
<1>8. CASE SimComplex
  BY <1>8, Zenon DEF SimComplex
<1>9. CASE SimException
  BY <1>9, Zenon DEF SimException, Exception
<1>10. CASE Plain
  BY <1>10, Zenon DEF Plain, JumpInsn
<1>11. CASE Refused
  BY <1>11, Zenon DEF Refused, Exception
<1>12. CASE Ecall
  BY <1>12, Zenon DEF Ecall, Exception
<1>13. CASE Csr
  <2>1. at = "block" /\ JumpInsn /\ UNCHANGED simulation
    BY <1>13, Zenon DEF Csr, CsrInsn
  <2>2. QED
    BY <2>1, Zenon DEF JumpInsn
<1>14. CASE Wfi
  BY <1>14, Zenon DEF Wfi, JumpInsn
<1>15. CASE Xret
  BY <1>15, Zenon DEF Xret
<1>16. CASE SimStartStop
  BY <1>16, Zenon DEF SimStartStop
<1>17. CASE UNCHANGED vars
  BY <1>17, Zenon DEF vars
<1>18. QED
  BY <1>1, <1>2, <1>3, <1>4, <1>5, <1>6, <1>7, <1>8, <1>9, <1>10, <1>11, <1>12,
     <1>13, <1>14, <1>15, <1>16, <1>17, Zenon
  DEF Next, Host, Core, System

(***************************************************************************)
(* Sleep: what makes an interrupt pending wakes the hart, and what enables *)
(* one is executed by a hart that is awake.                                *)
(***************************************************************************)
LEMMA SleepStep == SleepInv /\ [Next]_vars => SleepInv'
<1> SUFFICES ASSUME SleepInv, [Next]_vars PROVE SleepInv'
  BY Zenon
<1> USE DEF SleepInv, loop_vars, csr_vars, sim_vars, trap_vars, guest
<1>1. CASE HostTimer
  BY <1>1, Zenon DEF HostTimer, get_sleep_duration, set_mip
<1>2. CASE HostSelect
  <2>1. CASE UNCHANGED <<mip, power_down_flag>>
    BY <1>2, <2>1, Zenon DEF HostSelect
  <2>2. CASE set_mip("SEIP")
    BY <1>2, <2>2, Zenon DEF HostSelect, set_mip
  <2>3. QED
    BY <1>2, <2>1, <2>2, Zenon DEF HostSelect
<1>3. CASE Interp
  BY <1>3, Zenon DEF Interp
<1>4. CASE Enter
  BY <1>4 DEF Enter, Interrupt
<1>5. CASE LoopTop
  BY <1>5 DEF LoopTop, Interrupt
<1>6. CASE Tick
  BY <1>6, Zenon DEF Tick
<1>7. CASE SimCommit
  BY <1>7 DEF SimCommit, Effects, set_mip
<1>8. CASE SimComplex
  BY <1>8, Zenon DEF SimComplex
<1>9. CASE SimException
  BY <1>9, Zenon DEF SimException, Exception
<1>10. CASE Plain
  BY <1>10 DEF Plain, Effects, set_mip
<1>11. CASE Refused
  BY <1>11, Zenon DEF Refused, Exception
<1>12. CASE Ecall
  BY <1>12, Zenon DEF Ecall, Exception
<1>13. CASE Csr
  BY <1>13 DEF Csr, CsrInsn, WriteIe, WriteSip, WriteStatus
<1>14. CASE Wfi
  BY <1>14, Zenon DEF Wfi
<1>15. CASE Xret
  BY <1>15, Zenon DEF Xret
<1>16. CASE SimStartStop
  BY <1>16, Zenon DEF SimStartStop
<1>17. CASE UNCHANGED vars
  BY <1>17, Zenon DEF vars
<1>18. QED
  BY <1>1, <1>2, <1>3, <1>4, <1>5, <1>6, <1>7, <1>8, <1>9, <1>10, <1>11, <1>12,
     <1>13, <1>14, <1>15, <1>16, <1>17, Zenon
  DEF Next, Host, Core, System

-----------------------------------------------------------------------------
(* The bits of mstatus *)

\* raise_exception2 to M level saves the privilege and its enable bit, and
\* leaves alone what S level has saved.
LEMMA TrapToM ==
  ASSUME NEW ms, NEW p \in Privs
  PROVE  LET t == TrapMstatus(ms, p, FALSE)
         IN  /\ Mpp(t) = p
             /\ "MIE" \notin t
             /\ "MPIE" \in t <=> IE(p) \in ms
             /\ \A b \in {"SIE", "SPIE", "SPP"} : b \in t <=> b \in ms
<1>1. CASE p = PRV_U
  BY <1>1 DEF TrapMstatus, Mpp, MppBits, OnlyIf, IE, PRV_U, PRV_S, PRV_M
<1>2. CASE p = PRV_S
  BY <1>2 DEF TrapMstatus, Mpp, MppBits, OnlyIf, IE, PRV_U, PRV_S, PRV_M
<1>3. CASE p = PRV_M
  BY <1>3 DEF TrapMstatus, Mpp, MppBits, OnlyIf, IE, PRV_U, PRV_S, PRV_M
<1>4. QED
  BY <1>1, <1>2, <1>3, Zenon DEF Privs

\* raise_exception2 to S level, which has one bit for the privilege.
LEMMA TrapToS ==
  ASSUME NEW ms, NEW p \in {PRV_U, PRV_S}
  PROVE  LET t == TrapMstatus(ms, p, TRUE)
         IN  /\ Spp(t) = p
             /\ "SIE" \notin t
             /\ "SPIE" \in t <=> IE(p) \in ms
  BY Zenon DEF TrapMstatus, Spp, OnlyIf, IE, PRV_U, PRV_S, PRV_M

\* handle_mret restores the enable bit of the privilege it returns to.
LEMMA MretRestores ==
  ASSUME NEW ms, Mpp(ms) \in Privs
  PROVE  LET t == MretMstatus(ms)
         IN  /\ IE(Mpp(ms)) \in t <=> "MPIE" \in ms
             /\ \A b \in {"SPIE", "SPP"} : b \in t <=> b \in ms
  BY Zenon DEF MretMstatus, OnlyIf, IE, Privs, PRV_U, PRV_S, PRV_M

\* handle_sret likewise.
LEMMA SretRestores ==
  ASSUME NEW ms
  PROVE  IE(Spp(ms)) \in SretMstatus(ms) <=> "SPIE" \in ms
  BY Zenon DEF SretMstatus, Spp, OnlyIf, IE, PRV_U, PRV_S, PRV_M

-----------------------------------------------------------------------------
(* Traps *)

\* A trap from the main program, at either level, or one to M level from the
\* handler at S level.
LEMMA RaiseKeeps ==
  ASSUME TrapInv, NEW deleg \in BOOLEAN, RaiseException(deleg), UNCHANGED guest,
         \/ pc = Main(0) /\ (deleg => priv <= PRV_S)
         \/ pc = Handler(PRV_S) /\ ~deleg
  PROVE  TrapInv'
<1> USE DEF guest
<1>0. home \in Privs /\ home_ie \in BOOLEAN
  BY Zenon DEF TrapInv
<1>1. CASE pc = Main(0) /\ deleg
  <2>1. priv = home /\ (home # PRV_U => (home_ie <=> IE(home) \in mstatus))
    BY <1>1, Zenon DEF TrapInv, Main, Handler, PRV_S, PRV_M
  <2>2. home \in {PRV_U, PRV_S}
    BY <1>0, <1>1, <2>1 DEF Privs, PRV_U, PRV_S, PRV_M
  <2>3. /\ mstatus' = TrapMstatus(mstatus, home, TRUE)
        /\ pc' = Handler(PRV_S) /\ priv' = PRV_S /\ sepc' = Main(0)
    BY <1>1, <2>1, Zenon DEF RaiseException
  <2>4. SavedByS'
    <3>1. /\ Spp(mstatus') = home /\ "SIE" \notin mstatus'
          /\ "SPIE" \in mstatus' <=> IE(home) \in mstatus
      BY <2>2, <2>3, TrapToS, Zenon
    <3>2. home # PRV_M
      BY <2>2 DEF PRV_U, PRV_S, PRV_M
    <3>3. QED
      BY <2>1, <2>3, <3>1, <3>2, Zenon DEF SavedByS, Main, Spp
  <2>5. QED
    BY <1>0, <2>3, <2>4, Zenon DEF TrapInv, Handler
<1>2. CASE pc = Main(0) /\ ~deleg
  <2>1. priv = home /\ (home # PRV_U => (home_ie <=> IE(home) \in mstatus))
    BY <1>2, Zenon DEF TrapInv, Main, Handler, PRV_S, PRV_M
  <2>2. /\ mstatus' = TrapMstatus(mstatus, home, FALSE)
        /\ pc' = Handler(PRV_M) /\ priv' = PRV_M /\ mepc' = Main(0)
    BY <1>2, <2>1, Zenon DEF RaiseException
  <2>3. /\ Mpp(mstatus') = home /\ "MIE" \notin mstatus'
        /\ "MPIE" \in mstatus' <=> IE(home) \in mstatus
    BY <1>0, <2>2, TrapToM, Zenon
  <2>4. SavedByM'
    BY <2>1, <2>2, <2>3, Zenon DEF SavedByM, Main, Mpp
  <2>5. QED
    BY <1>0, <2>2, <2>4, Zenon DEF TrapInv, Handler
<1>3. CASE pc = Handler(PRV_S) /\ ~deleg
  <2>1. priv = PRV_S /\ SavedByS
    BY <1>3 DEF TrapInv, Main, Handler, PRV_S, PRV_M
  <2>2. /\ mstatus' = TrapMstatus(mstatus, PRV_S, FALSE)
        /\ pc' = Handler(PRV_M) /\ priv' = PRV_M
        /\ mepc' = Handler(PRV_S) /\ sepc' = sepc
    BY <1>3, <2>1, Zenon DEF RaiseException
  <2>3. /\ Mpp(mstatus') = PRV_S /\ "MIE" \notin mstatus'
        /\ "MPIE" \in mstatus' <=> "SIE" \in mstatus
        /\ \A b \in {"SIE", "SPIE", "SPP"} : b \in mstatus' <=> b \in mstatus
    <3>1. PRV_S \in Privs /\ IE(PRV_S) = "SIE"
      BY DEF IE, Privs, PRV_U, PRV_S, PRV_M
    <3>2. LET t == TrapMstatus(mstatus, PRV_S, FALSE)
          IN  /\ Mpp(t) = PRV_S
              /\ "MIE" \notin t
              /\ "MPIE" \in t <=> IE(PRV_S) \in mstatus
              /\ \A b \in {"SIE", "SPIE", "SPP"} : b \in t <=> b \in mstatus
      BY <3>1, TrapToM, Zenon
    <3>3. QED
      BY <2>2, <3>1, <3>2, Zenon
  <2>4. SavedByS'
    BY <2>1, <2>2, <2>3, Zenon DEF SavedByS, Spp, Main
  <2>5. SavedByM'
    BY <2>1, <2>2, <2>3, <2>4, Zenon DEF SavedByM, SavedByS, Handler, Mpp
  <2>6. QED
    BY <1>0, <2>2, <2>5, Zenon DEF TrapInv, Handler
<1>4. QED
  BY <1>1, <1>2, <1>3, Zenon

\* An interrupt is not taken in the handler at M level, and not delegated in
\* the one at S level: their interrupts are disabled.
LEMMA InterruptKeeps ==
  ASSUME TrapInv, raise_interrupt, UNCHANGED guest
  PROVE  TrapInv'
<1> DEFINE irq == IF "MTIP" \in PendingIrqs THEN "MTIP" ELSE "SEIP"
           deleg == priv <= PRV_S /\ irq \in mideleg
<1>1. PendingIrqs # {} /\ RaiseException(deleg) /\ deleg \in BOOLEAN
  BY Zenon DEF raise_interrupt
<1>2. CASE pc = Main(0)
  BY <1>1, <1>2, RaiseKeeps, Zenon
<1>3. CASE pc = Handler(PRV_S)
  <2>1. priv = PRV_S /\ "SIE" \notin mstatus
    BY <1>3 DEF TrapInv, SavedByS, Main, Handler, PRV_S, PRV_M
  <2>2. PendingIrqs \subseteq Irqs \ mideleg
    BY <2>1 DEF PendingIrqs, OnlyIf, PRV_U, PRV_S, PRV_M
  <2>3. irq \notin mideleg
    BY <1>1, <2>2, Zenon DEF Irqs
  <2>4. QED
    BY <1>1, <1>3, <2>3, RaiseKeeps, Zenon
<1>4. CASE pc = Handler(PRV_M)
  <2>1. priv = PRV_M /\ "MIE" \notin mstatus
    BY <1>4 DEF TrapInv, SavedByM, Main, Handler, PRV_S, PRV_M
  <2>2. PendingIrqs = {}
    BY <2>1 DEF PendingIrqs, OnlyIf, PRV_U, PRV_S, PRV_M
  <2>3. QED
    BY <1>1, <2>2, Zenon
<1>5. QED
  BY <1>2, <1>3, <1>4, Zenon DEF TrapInv

\* An exception is one of the main program; it is delegated or not.
LEMMA ExceptionKeeps ==
  ASSUME TrapInv, NEW n, Exception(n)
  PROVE  TrapInv'
<1>1. pc = Main(0)
  BY DEF Exception, InMain, TrapInv, Main, Handler, PRV_S, PRV_M
<1> DEFINE deleg == priv <= PRV_S /\ medeleg
<1>2. RaiseException(deleg) /\ deleg \in BOOLEAN /\ UNCHANGED guest
  BY Zenon DEF Exception
<1>3. QED
  BY <1>1, <1>2, RaiseKeeps, Zenon

\* A return restores what the trap has saved.
LEMMA XretKeeps ==
  ASSUME TrapInv, Xret
  PROVE  TrapInv'
<1>0. home \in Privs /\ home_ie \in BOOLEAN /\ UNCHANGED <<sepc, mepc, home, home_ie>>
  BY Zenon DEF TrapInv, Xret, guest
<1>1. CASE pc = Handler(PRV_S)
  <2>1. SavedByS
    BY <1>1 DEF TrapInv, Main, Handler, PRV_S, PRV_M
  <2>2. mstatus' = SretMstatus(mstatus) /\ priv' = home /\ pc' = Main(0)
    BY <1>1, <2>1, Zenon DEF Xret, SavedByS
  <2>3. IE(home) \in mstatus' <=> "SPIE" \in mstatus
    BY <2>1, <2>2, SretRestores, Zenon DEF SavedByS
  <2>4. QED
    BY <1>0, <2>1, <2>2, <2>3, Zenon DEF TrapInv, SavedByS, Main, IE
<1>2. CASE pc = Handler(PRV_M)
  <2>1. SavedByM
    BY <1>2 DEF TrapInv, Main, Handler, PRV_S, PRV_M
  <2>2. mstatus' = MretMstatus(mstatus) /\ priv' = Mpp(mstatus) /\ pc' = mepc
    BY <1>2 DEF Xret, Handler, PRV_S, PRV_M
  <2>3. CASE mepc = Main(0)
    <3>1. Mpp(mstatus) = home /\ (home # PRV_U => (home_ie <=> "MPIE" \in mstatus))
      BY <2>1, <2>3, Zenon DEF SavedByM, Main, Handler, PRV_S
    <3>2. IE(home) \in mstatus' <=> "MPIE" \in mstatus
      BY <1>0, <2>2, <3>1, MretRestores, Zenon
    <3>3. QED
      BY <1>0, <2>2, <2>3, <3>1, <3>2, Zenon DEF TrapInv, Main, IE
  <2>4. CASE mepc = Handler(PRV_S)
    <3>1. Mpp(mstatus) = PRV_S /\ "MPIE" \notin mstatus /\ SavedByS
      BY <2>1, <2>4, Zenon DEF SavedByM, Main, Handler, PRV_S
    <3>2. /\ "SIE" \notin mstatus'
          /\ \A b \in {"SPIE", "SPP"} : b \in mstatus' <=> b \in mstatus
      BY <2>2, <3>1, MretRestores DEF IE, Privs, PRV_U, PRV_S, PRV_M
    <3>3. SavedByS'
      BY <1>0, <3>1, <3>2, Zenon DEF SavedByS, Spp, Main
    <3>4. QED
      BY <1>0, <2>2, <2>4, <3>1, <3>3, Zenon DEF TrapInv, Handler
  <2>5. QED
    BY <2>1, <2>3, <2>4, Zenon DEF SavedByM
<1>3. QED
  BY <1>1, <1>2 DEF Xret, TrapInv, InMain, Main

\* What neither traps nor returns leaves the trap state alone, and goes on in
\* the main program or in the handler it is in.
LEMMA QuietKeeps ==
  ASSUME TrapInv, pc' = NextPc, UNCHANGED <<sepc, mepc, priv, mstatus, home, home_ie>>
  PROVE  TrapInv'
<1>1. pc' = pc
  <2>1. CASE pc = Main(0)
    BY <2>1, Zenon DEF NextPc, Main
  <2>2. CASE pc # Main(0)
    BY <2>2 DEF NextPc, TrapInv, InMain, Main, Handler, PRV_S, PRV_M
  <2>3. QED
    BY <2>1, <2>2, Zenon
<1>2. QED
  BY <1>1, Zenon DEF TrapInv, SavedByS, SavedByM, Main, Handler, IE, Spp, Mpp

\* A step that changes nothing the invariant mentions.
LEMMA SameKeeps ==
  ASSUME TrapInv, UNCHANGED <<trap_vars, guest>>
  PROVE  TrapInv'
  BY Zenon DEF TrapInv, SavedByS, SavedByM, Main, Handler, IE, Spp, Mpp, trap_vars, guest

\* The main program enables or disables its interrupts.
LEMMA StatusKeeps ==
  ASSUME TrapInv, NEW on \in BOOLEAN, CsrInsn(WriteStatus(on))
  PROVE  TrapInv'
<1>1. /\ pc = Main(0) /\ priv = home /\ home # PRV_U
      /\ pc' = pc /\ UNCHANGED <<priv, home>> /\ home_ie' = on
  BY DEF CsrInsn, WriteStatus, NextPc, TrapInv, InMain, Main, Handler, PRV_S, PRV_M
<1>2. IE(home) \in mstatus' <=> on
  BY <1>1, Zenon DEF CsrInsn, WriteStatus
<1>3. QED
  BY <1>1, <1>2, Zenon DEF TrapInv, Main, IE

\* Every step keeps what a trap has saved.
LEMMA TrapStep == TrapInv /\ [Next]_vars => TrapInv'
<1> SUFFICES ASSUME TrapInv, [Next]_vars PROVE TrapInv'
  BY Zenon
<1>1. CASE HostTimer \/ HostSelect \/ Interp \/ Tick \/ SimComplex \/ UNCHANGED vars
  BY <1>1, SameKeeps, Zenon DEF HostTimer, HostSelect, Interp, Tick, SimComplex, vars
<1>2. CASE Interrupt
  BY <1>2, InterruptKeeps, Zenon DEF Interrupt
<1>3. CASE Enter
  BY <1>2, <1>3, SameKeeps, Zenon DEF Enter
<1>4. CASE LoopTop
  BY <1>2, <1>4, SameKeeps, Zenon DEF LoopTop
<1>5. CASE SimCommit
  BY <1>5, QuietKeeps, Zenon DEF SimCommit, ResumePc, guest
<1>6. CASE SimException \/ Refused \/ Ecall
  BY <1>6, ExceptionKeeps, Zenon DEF SimException, Refused, Ecall
<1>7. CASE Plain
  BY <1>7, QuietKeeps, Zenon DEF Plain, guest
<1>8. CASE Csr
  <2>1. CASE \E on \in BOOLEAN : CsrInsn(WriteStatus(on))
    BY <2>1, StatusKeeps, Zenon
  <2>2. CASE \E val \in SUBSET Irqs : CsrInsn(WriteIe(val))
    BY <2>2, QuietKeeps, Zenon DEF CsrInsn, WriteIe
  <2>3. CASE \E val \in SUBSET Irqs : CsrInsn(WriteSip(val))
    BY <2>3, QuietKeeps, Zenon DEF CsrInsn, WriteSip
  <2>4. QED
    BY <1>8, <2>1, <2>2, <2>3, Zenon DEF Csr
<1>9. CASE Wfi
  BY <1>9, QuietKeeps, Zenon DEF Wfi, guest
<1>10. CASE Xret
  BY <1>10, XretKeeps, Zenon
<1>11. CASE SimStartStop
  BY <1>11, QuietKeeps, Zenon DEF SimStartStop, guest
<1>12. QED
  BY <1>1, <1>3, <1>4, <1>5, <1>6, <1>7, <1>8, <1>9, <1>10, <1>11, Zenon
  DEF Next, Host, Core, System

-----------------------------------------------------------------------------
\* Whatever moves the program between the interpreter and the simulated core,
\* each of its instructions is executed once and no assertion of the handover
\* fails (riscv_cpu_interp, riscv_sim_cpu_start and the exits of a core).
THEOREM EachInsnOnceAlways == Spec => []EachInsnOnce
<1>1. Init => HandoverInv /\ TrapInv
  BY HartAssumption, Zenon DEF Init, HandoverInv, TrapInv
<1>2. HandoverInv /\ TrapInv => EachInsnOnce
  BY DEF HandoverInv, TrapInv, SavedByS, SavedByM, EachInsnOnce, InMain, Main, Handler,
         PRV_S, PRV_M
<1>3. QED
  BY <1>1, <1>2, HandoverStep, TrapStep, PTL DEF Spec

\* When the main program goes on after a trap it does so with its privilege and
\* its interrupt enable (raise_exception2, handle_sret, handle_mret).
THEOREM TrapsRestoreAlways == Spec => []TrapsRestore
<1>1. Init => TrapInv
  BY HartAssumption, Zenon DEF Init, TrapInv
<1>2. TrapInv => TrapsRestore
  BY DEF TrapInv, TrapsRestore, InMain, Main, Handler, PRV_S, PRV_M
<1>3. QED
  BY <1>1, <1>2, TrapStep, PTL DEF Spec

\* A hart that sleeps in wfi has no enabled interrupt pending
\* (riscv_cpu_set_mip wakes it).
THEOREM SleepsIdleAlways == Spec => []SleepsIdle
<1>1. Init => SleepInv
  BY Zenon DEF Init, SleepInv
<1>2. SleepInv => SleepsIdle
  BY Zenon DEF SleepInv, SleepsIdle
<1>3. QED
  BY <1>1, <1>2, SleepStep, PTL DEF Spec
=============================================================================
