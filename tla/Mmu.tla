--------------------------------- MODULE Mmu ---------------------------------
(***************************************************************************)
(* Address translation of the emulated hart: the page walk, the three      *)
(* software TLBs, the fast and slow paths of loads, stores and fetches     *)
(* (src/riscv_cpu.c, src/riscv_cpu_priv.h), the instructions that must     *)
(* flush the TLBs, and the dirty bits of the frame buffer (src/iomem.c).   *)
(*                                                                         *)
(* Addresses are page numbers.  Page tables have two levels of Fan entries *)
(* and are memory of their own.  MemMap maps the physical pages to "ram",   *)
(* "fb" (RAM with dirty bits), "pim" or "dev"; others are unmapped.        *)
(***************************************************************************)
EXTENDS Integers, Sequences, Privilege

CONSTANTS
  Fan,          \* entries of a page table
  TlbSize,      \* sim_params->tlb_size
  MemMap,        \* the memory map: kinds of physical pages
  Tables,       \* the guest's page tables at reset: 0 is the root
  Edits,        \* changes to them, <<table, index, entry>>, the guest may make
  MstatusBits   \* bits of mstatus the guest uses

VARIABLES
  priv,         \* current privilege
  mstatus,
  satp,         \* TRUE when translation is on
  mm,           \* memory and what the access functions leave behind, see MmInit
  edited,       \* a page table changed since the TLBs were last flushed
  charged       \* the last access left the address it was made to

vars == <<priv, mstatus, satp, mm, edited, charged>>

VPages == 0 .. Fan * Fan - 1

Accesses == {"r", "w", "x"}

(***************************************************************************)
(* A TLB is indexed by (addr >> PG_SHIFT) & (TLB_SIZE - 1).  An index is   *)
(* written as the set of its bits; tlb_size is at most MaxTlbSize.         *)
(***************************************************************************)
MaxTlbSize == 2048

Powers == {1, 2, 4, 8, 16, 32, 64, 128, 256, 512, 1024}

Bits(n) == {p \in Powers : (n \div p) % 2 = 1}

Slots == SUBSET Bits(TlbSize - 1)

Idx(v) == Bits(v) \cap Bits(TlbSize - 1)

Invalid == [v |-> -1, page |-> -1]

Kind(page) == IF page \in DOMAIN MemMap THEN MemMap[page] ELSE "none"

PimBase == CHOOSE p \in DOMAIN MemMap :
             MemMap[p] = "pim" /\ \A q \in DOMAIN MemMap : MemMap[q] = "pim" => p <= q

\* mem_addend is pr->phys_mem + (paddr - pr->addr) - addr: the page again.
MmInit ==
  [pt |-> Tables,
   tlb |-> [a \in Accesses |-> [i \in Slots |-> Invalid]],
   is_device_io |-> FALSE,
   is_pim_access |-> FALSE,
   data_guest_paddr |-> 0,
   fault |-> FALSE,       \* the last access raised an exception
   reached |-> -1,        \* physical page the last access's address is in
   dirty |-> {},          \* dirty_bits
   written |-> {}]        \* frame buffer pages changed since the last refresh

Flushed(m) == [m EXCEPT !.tlb = MmInit.tlb]

\* What an access leaves behind is read right after it, or never.
Settled(m) ==
  [m EXCEPT !.is_device_io = FALSE, !.is_pim_access = FALSE,
            !.data_guest_paddr = 0, !.fault = FALSE, !.reached = -1]

Init ==
  /\ priv = PRV_M
  /\ mstatus = {}
  /\ satp = FALSE
  /\ mm = MmInit
  /\ edited = FALSE
  /\ charged = TRUE

-----------------------------------------------------------------------------
(***************************************************************************)
(* get_phys_addr.  A page table entry is [v, xwr, u, ad, ppn] with xwr and *)
(* ad sets of flags; ppn is a table when xwr is empty.                     *)
(***************************************************************************)
EffectivePriv(access) ==
  IF "MPRV" \in mstatus /\ access # "x" THEN Mpp(mstatus) ELSE priv

Index(v, level) == IF level = 0 THEN v \div Fan ELSE v % Fan

Permits(pte, p, access) ==
  /\ ~("w" \in pte.xwr /\ "r" \notin pte.xwr)
  /\ IF p = PRV_S THEN pte.u => "SUM" \in mstatus ELSE pte.u
  /\ \/ access \in pte.xwr
     \/ access = "r" /\ "x" \in pte.xwr /\ "MXR" \in mstatus

\* A leaf of the first level maps Fan pages.
Mapped(pte, v, level) ==
  IF level = 0 THEN (pte.ppn \div Fan) * Fan + (v % Fan) ELSE pte.ppn

\* Marks(access): the bits of an entry that an access sets.
Marks(access) == IF access = "w" THEN {"a", "d"} ELSE {"a"}

NoPage(pt) == [fault |-> TRUE, page |-> -1, pt |-> pt]

\* Where the loop over the levels stops: an entry that is valid and has no
\* permissions points to a table of the second level.
LastLevel(pt, v) ==
  LET pte == pt[0][Index(v, 0)] IN IF pte.v /\ pte.xwr = {} THEN 1 ELSE 0

TableAt(pt, v, level) == IF level = 0 THEN 0 ELSE pt[0][Index(v, 0)].ppn

Walk(pt, v, access, p) ==
  LET l == LastLevel(pt, v)
      t == TableAt(pt, v, l)
      i == Index(v, l)
      pte == pt[t][i]
  IN  IF ~pte.v \/ pte.xwr = {} \/ ~Permits(pte, p, access) THEN NoPage(pt)
      ELSE [fault |-> FALSE, page |-> Mapped(pte, v, l),
            pt |-> [pt EXCEPT ![t][i].ad = @ \cup Marks(access)]]

get_phys_addr(pt, v, access) ==
  LET p == EffectivePriv(access)
  IN  IF p = PRV_M \/ ~satp
      THEN [fault |-> FALSE, page |-> v, pt |-> pt]
      ELSE Walk(pt, v, access, p)

-----------------------------------------------------------------------------
(***************************************************************************)
(* The slow path of an aligned access, and of a fetch.                     *)
(***************************************************************************)
Filled(m, v, access, page) ==
  [m EXCEPT !.tlb[access][Idx(v)] = [v |-> v, page |-> page]]

\* phys_mem_set_dirty_bit, and the store itself.
Touched(m, access, page) ==
  IF access = "w" /\ Kind(page) = "fb"
  THEN [m EXCEPT !.dirty = @ \cup {page}] ELSE m

Slow(m, v, access) ==
  LET g == get_phys_addr(m.pt, v, access)
      k == Kind(g.page)
      n == [m EXCEPT !.pt = g.pt, !.reached = g.page]
  IN  IF g.fault \/ (access = "x" /\ k \notin {"ram", "fb"})
      THEN [m EXCEPT !.pt = g.pt, !.fault = TRUE]
      ELSE CASE k \in {"ram", "fb"} ->
                  Touched(Filled(n, v, access, g.page), access, g.page)
             [] k = "pim" ->
                  [Filled(n, v, access, g.page) EXCEPT
                     !.data_guest_paddr = g.page - PimBase,
                     !.is_pim_access = TRUE]
             [] k = "dev" ->
                  [n EXCEPT !.is_device_io = TRUE, !.data_guest_paddr = g.page]
             [] k = "none" -> n

(***************************************************************************)
(* The fast path, target_read_u and target_write_u, of an aligned access.  *)
(***************************************************************************)
Charged(m, v, access) ==
  LET e == m.tlb[access][Idx(v)]
  IN  IF m.fault \/ m.is_device_io \/ m.is_pim_access THEN m
      ELSE [m EXCEPT !.data_guest_paddr = e.page + (v - e.v)]

Reset(m) == [m EXCEPT !.is_device_io = FALSE, !.is_pim_access = FALSE]

Stored(m, access) ==
  IF access = "w" /\ ~m.fault /\ Kind(m.reached) = "fb"
  THEN [m EXCEPT !.written = @ \cup {m.reached}] ELSE m

Aligned(m, v, access) ==
  LET e == m.tlb[access][Idx(v)]
      n == IF e.v = v THEN [Reset(m) EXCEPT !.reached = e.page]
           ELSE Slow(Reset(m), v, access)
  IN  Stored(Charged(n, v, access), access)

\* Mutant: the address of the last part stays.
Unaligned_LastPart(m, v, w, access) ==
  LET first == Aligned(Reset(m), v, access)
      last == Aligned(first, w, access)
  IN  IF first.fault THEN first ELSE [last EXCEPT !.reached = first.reached]

(***************************************************************************)
(* An unaligned access always takes the slow path, which makes aligned     *)
(* accesses of its parts: the last of them may be in the next page.        *)
(***************************************************************************)
Unaligned(m, v, w, access) ==
  LET first == Aligned(Reset(m), v, access)
      last == Aligned(first, w, access)
  IN  IF first.fault THEN first
      ELSE Charged([last EXCEPT !.reached = first.reached], v, access)

\* The address left behind, when the data is in RAM or in PIM memory.
ChargedRight(m) ==
  (/\ ~m.fault /\ ~m.is_device_io
   /\ Kind(m.reached) \in {"ram", "fb", "pim"})
  => m.data_guest_paddr = m.reached

Access(v, w, access) ==
  /\ w \in {v, v + 1} \cap VPages
  /\ \E m \in {Unaligned(mm, v, w, access)}
               \cup (IF v = w THEN {Aligned(mm, v, access)} ELSE {}) :
       /\ mm' = Settled(m)
       /\ charged' = ChargedRight(m)
  /\ UNCHANGED <<priv, mstatus, satp, edited>>

\* target_read_insn_u16
Fetch(v) ==
  /\ mm' = IF mm.tlb["x"][Idx(v)].v = v THEN mm ELSE Settled(Slow(mm, v, "x"))
  /\ UNCHANGED <<priv, mstatus, satp, edited, charged>>

-----------------------------------------------------------------------------
(***************************************************************************)
(* What changes the translation.                                           *)
(***************************************************************************)
\* The guest changes an entry of a page table, by a store of its own.
EditPte(t, i, pte) ==
  /\ mm.pt[t][i] # pte
  /\ mm' = [mm EXCEPT !.pt[t][i] = pte]
  /\ edited' = TRUE
  /\ UNCHANGED <<priv, mstatus, satp, charged>>

\* sfence.vma, with or without an address: tlb_flush_vaddr flushes all.
Sfence ==
  /\ priv # PRV_U
  /\ mm' = Flushed(mm)
  /\ edited' = FALSE
  /\ UNCHANGED <<priv, mstatus, satp, charged>>

\* csr_write of satp
WriteSatp ==
  /\ priv # PRV_U
  /\ satp' = ~satp
  /\ mm' = Flushed(mm)
  /\ edited' = FALSE
  /\ UNCHANGED <<priv, mstatus, charged>>

\* csr_write of mstatus and, with the mask of sstatus, of sstatus
WriteStatus(val) ==
  /\ priv # PRV_U
  /\ LET new == IF priv = PRV_M THEN val ELSE Masked(mstatus, val, SSTATUS_MASK)
         flush == MstatusFlushes(mstatus, new)
     IN  /\ mstatus' = set_mstatus(mstatus, new)
         /\ mm' = IF flush THEN Flushed(mm) ELSE mm
         /\ edited' = (edited /\ ~flush)
  /\ UNCHANGED <<priv, satp, charged>>

\* Mutant: only the modes with translation are thought to need a flush.
SetPriv_NotM(p) ==
  /\ priv' = p
  /\ mm' = IF priv # p /\ p # PRV_M THEN Flushed(mm) ELSE mm
  /\ edited' = (edited /\ ~(priv # p /\ p # PRV_M))

\* set_priv
SetPriv(p) ==
  /\ priv' = p
  /\ mm' = IF priv # p THEN Flushed(mm) ELSE mm
  /\ edited' = (edited /\ priv = p)

\* raise_exception2; medeleg is any.
Trap ==
  \E deleg \in BOOLEAN :
    /\ deleg => priv # PRV_M
    /\ mstatus' = TrapMstatus(mstatus, priv, deleg) \cap MstatusBits
    /\ SetPriv(IF deleg THEN PRV_S ELSE PRV_M)
    /\ UNCHANGED <<satp, charged>>

Sret ==
  /\ priv # PRV_U
  /\ mstatus' = SretMstatus(mstatus) \cap MstatusBits
  /\ SetPriv(Spp(mstatus))
  /\ UNCHANGED <<satp, charged>>

Mret ==
  /\ priv = PRV_M
  /\ mstatus' = MretMstatus(mstatus) \cap MstatusBits
  /\ SetPriv(Mpp(mstatus))
  /\ UNCHANGED <<satp, charged>>

-----------------------------------------------------------------------------
(***************************************************************************)
(* The frame buffer: simplefb_refresh draws the pages of                   *)
(* default_get_dirty_bits, which flushes the write TLB entries of the      *)
(* range when there are any.  A device writes to it by                     *)
(* phys_mem_get_ram_ptr, which sets the bit as the slow path does.         *)
(***************************************************************************)
\* Mutant: the write TLB is not flushed.
GetDirtyBits_NoFlush(m) == [m EXCEPT !.dirty = {}, !.written = @ \ m.dirty]

flush_tlb_write_range_ram(m) ==
  [m EXCEPT !.tlb["w"] =
     [i \in DOMAIN @ |->
        IF @[i].v # -1 /\ Kind(@[i].page) = "fb" THEN Invalid ELSE @[i]]]

GetDirtyBits(m) ==
  [IF m.dirty = {} THEN m ELSE flush_tlb_write_range_ram(m)
     EXCEPT !.dirty = {}, !.written = @ \ m.dirty]

Refresh ==
  /\ mm' = GetDirtyBits(mm)
  /\ UNCHANGED <<priv, mstatus, satp, edited, charged>>

phys_mem_get_ram_ptr(page) ==
  /\ Kind(page) = "fb"
  /\ mm' = Settled(Stored(Touched([mm EXCEPT !.reached = page], "w", page), "w"))
  /\ UNCHANGED <<priv, mstatus, satp, edited, charged>>

-----------------------------------------------------------------------------
Next ==
  \/ \E v, w \in VPages, access \in {"r", "w"} : Access(v, w, access)
  \/ \E v \in VPages : Fetch(v)
  \/ \E e \in Edits : EditPte(e[1], e[2], e[3])
  \/ Sfence
  \/ WriteSatp
  \/ \E val \in SUBSET MstatusBits : WriteStatus(val)
  \/ Trap
  \/ Sret
  \/ Mret
  \/ Refresh
  \/ \E page \in DOMAIN MemMap : phys_mem_get_ram_ptr(page)

Spec == Init /\ [][Next]_vars

-----------------------------------------------------------------------------
(***************************************************************************)
(* "flush the TLBs if change of MMU config" (set_mstatus): as long as the  *)
(* guest has not edited a page table behind its back, every TLB entry says *)
(* what a walk would say now, at the privilege and with the SUM, MXR and   *)
(* MPRV of now, and an entry to write has its page marked dirty.           *)
(***************************************************************************)
TlbCurrent ==
  ~edited =>
    \A a \in Accesses : \A i \in DOMAIN mm.tlb[a] :
      LET e == mm.tlb[a][i]
          g == get_phys_addr(mm.pt, e.v, a)
      IN  e.v # -1 => ~g.fault /\ g.page = e.page /\ g.pt = mm.pt

(***************************************************************************)
(* "TLB lookup in target_read/write functions will fill this variable with *)
(* the guest data physical address for this memory access" (src/riscvsim/  *)
(* memory_hierarchy/temu_mem_map_wrapper.c): what the simulated memory     *)
(* hierarchy is charged with after a load or a store of RAM or of PIM      *)
(* memory is the page the data is in, on a hit, after a miss, and when the *)
(* access is split across two pages.                                       *)
(***************************************************************************)
PaddrCharged == charged

(***************************************************************************)
(* What was written to the frame buffer is drawn by the next refresh,      *)
(* although a store that hits the write TLB does not touch the dirty bits. *)
(***************************************************************************)
ScreenCurrent == mm.written \subseteq mm.dirty
=============================================================================
