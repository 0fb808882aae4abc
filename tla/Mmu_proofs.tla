----------------------------- MODULE Mmu_proofs -----------------------------
(***************************************************************************)
(* Address translation for every memory map, size of the TLBs and page     *)
(* table: a TLB entry agrees with the page table as long as the guest does *)
(* not use MPRV, the caches are charged with the page of the data as long  *)
(* as there is no PIM memory and an even number of TLB entries, and the    *)
(* screen shows what was written.                                          *)
(***************************************************************************)
EXTENDS Mmu, TLAPS

Pte == [v : BOOLEAN, xwr : SUBSET Accesses, u : BOOLEAN,
        ad : SUBSET {"a", "d"}, ppn : Nat]

\* A page table entry of the guest that can be followed.
PteOK(pte) == pte \in Pte /\ (pte.v /\ pte.xwr = {} => pte.ppn \in DOMAIN Tables)

PtOK(pt) ==
  /\ pt \in [DOMAIN Tables -> [0 .. Fan - 1 -> Pte]]
  /\ \A t \in DOMAIN Tables, i \in 0 .. Fan - 1 : PteOK(pt[t][i])

(***************************************************************************)
(* The page tables of the guest can be walked: a table has Fan entries,    *)
(* and an entry without permissions points to a table.  The guest's edits  *)
(* keep it so.  MemMap names the kinds of the physical pages.              *)
(***************************************************************************)
MmuAssumption ==
  /\ Fan \in Nat \ {0} /\ TlbSize \in 1 .. MaxTlbSize
  /\ DOMAIN MemMap \subseteq Nat
  /\ \A p \in DOMAIN MemMap : MemMap[p] \in {"ram", "fb", "pim", "dev"}
  /\ 0 \in DOMAIN Tables /\ PtOK(Tables)
  /\ \A e \in Edits :
       e[1] \in DOMAIN Tables /\ e[2] \in 0 .. Fan - 1 /\ PteOK(e[3])

EvenTlb == TlbSize % 2 = 0

MmFields ==
  {"pt", "tlb", "is_device_io", "is_pim_access", "data_guest_paddr",
   "fault", "reached", "dirty", "written"}

TlbOK(tlb) == DOMAIN tlb = Accesses /\ \A a \in Accesses : DOMAIN tlb[a] = Slots

MmOK(m) == DOMAIN m = MmFields /\ TlbOK(m.tlb) /\ PtOK(m.pt)

-----------------------------------------------------------------------------
(* The page walk *)

\* The index of a walk at a level is an index of a table.
LEMMA IndexOK ==
  ASSUME MmuAssumption, NEW v \in VPages, NEW l
  PROVE  Index(v, l) \in 0 .. Fan - 1
<1>1. Fan \in Nat /\ Fan > 0 /\ v \in Nat /\ v < Fan * Fan
  BY SMT DEF MmuAssumption, VPages
<1>2. v % Fan \in 0 .. Fan - 1
  BY <1>1, SMT
<1>3. v \div Fan \in Nat /\ v = Fan * (v \div Fan) + (v % Fan)
  BY <1>1, SMT
<1>4. v \div Fan < Fan
  <2>1. SUFFICES ASSUME v \div Fan >= Fan PROVE FALSE
    BY <1>1, <1>3, SMT
  <2>2. Fan * (v \div Fan) >= Fan * Fan
    BY <2>1, <1>1, <1>3, SMT
  <2> QED
    BY <2>2, <1>1, <1>2, <1>3, SMT
<1> QED
  BY <1>1, <1>2, <1>3, <1>4, SMT DEF Index

\* The index of a page is a slot of a TLB.
LEMMA IdxOK ==
  ASSUME MmuAssumption, NEW v \in VPages
  PROVE  Idx(v) \in Slots
  BY Zenon DEF Idx, Slots

\* Table pt2 is pt with some more entries marked as accessed or dirty.
Grows(pt, pt2) ==
  /\ PtOK(pt2)
  /\ \A t \in DOMAIN Tables, i \in 0 .. Fan - 1 :
       /\ pt2[t][i].v = pt[t][i].v
       /\ pt2[t][i].xwr = pt[t][i].xwr
       /\ pt2[t][i].u = pt[t][i].u
       /\ pt2[t][i].ppn = pt[t][i].ppn
       /\ pt[t][i].ad \subseteq pt2[t][i].ad

Marked(pt, t, i, a) == [pt EXCEPT ![t][i].ad = @ \cup Marks(a)]

\* Only the marks of one entry change.
MarksOne(pt, pt2, t, i, a) ==
  /\ pt2 \in [DOMAIN Tables -> [0 .. Fan - 1 -> Pte]]
  /\ pt2[t][i] = [pt[t][i] EXCEPT !.ad = pt[t][i].ad \cup Marks(a)]
  /\ \A s \in DOMAIN Tables, j \in 0 .. Fan - 1 : s # t \/ j # i => pt2[s][j] = pt[s][j]

\* Setting the A and D bits of an entry changes that entry only.
LEMMA MarkedEntry ==
  ASSUME NEW pt, PtOK(pt), NEW t \in DOMAIN Tables, NEW i \in 0 .. Fan - 1, NEW a
  PROVE  MarksOne(pt, Marked(pt, t, i, a), t, i, a)
<1> DEFINE pte == [pt[t][i] EXCEPT !.ad = pt[t][i].ad \cup Marks(a)]
<1>1. Marks(a) \subseteq {"a", "d"}
  BY Zenon DEF Marks
<1>2. pt \in [DOMAIN Tables -> [0 .. Fan - 1 -> Pte]]
  BY DEF PtOK
<1>3. pt[t][i] \in Pte
  BY <1>2, Zenon
<1>4. pte \in Pte
  <2> DEFINE e == pt[t][i]
  <2>1. e \in Pte /\ e.ad \cup Marks(a) \in SUBSET {"a", "d"}
    BY <1>1, <1>3, SMT DEF Pte
  <2>2. pte = [e EXCEPT !.ad = e.ad \cup Marks(a)]
    BY Zenon
  <2> HIDE DEF e, pte
  <2> QED
    BY <2>1, <2>2, SMT DEF Pte
<1>5. Marked(pt, t, i, a) = [pt EXCEPT ![t] = [pt[t] EXCEPT ![i] = pte]]
  BY Zenon DEF Marked
<1> HIDE DEF pte
<1>6. pt[t] \in [0 .. Fan - 1 -> Pte]
  BY <1>2, Zenon
<1>7. [pt[t] EXCEPT ![i] = pte] \in [0 .. Fan - 1 -> Pte]
  BY <1>4, <1>6, Zenon
<1>8. [pt EXCEPT ![t] = [pt[t] EXCEPT ![i] = pte]] \in [DOMAIN Tables -> [0 .. Fan - 1 -> Pte]]
  BY <1>2, <1>7, Zenon
<1>9. [pt EXCEPT ![t] = [pt[t] EXCEPT ![i] = pte]][t][i] = pte
  BY <1>2, <1>6, Zenon
<1>10. \A s \in DOMAIN Tables, j \in 0 .. Fan - 1 :
         s # t \/ j # i => [pt EXCEPT ![t] = [pt[t] EXCEPT ![i] = pte]][s][j] = pt[s][j]
  BY <1>2, <1>6, Zenon
<1> DEFINE pt2 == [pt EXCEPT ![t] = [pt[t] EXCEPT ![i] = pte]]
<1>11. /\ pt2 \in [DOMAIN Tables -> [0 .. Fan - 1 -> Pte]]
       /\ pt2[t][i] = pte
       /\ \A s \in DOMAIN Tables, j \in 0 .. Fan - 1 : s # t \/ j # i => pt2[s][j] = pt[s][j]
       /\ Marked(pt, t, i, a) = pt2
  BY <1>5, <1>8, <1>9, <1>10, Zenon
<1>12. pte = [pt[t][i] EXCEPT !.ad = pt[t][i].ad \cup Marks(a)]
  BY Zenon DEF pte
<1> HIDE DEF pt2
<1>13. MarksOne(pt, pt2, t, i, a)
  BY <1>11, <1>12, Zenon DEF MarksOne
<1> QED
  BY <1>11, <1>13, Zenon

\* Setting the A and D bits of an entry leaves what the entries say.
LEMMA MarkGrows ==
  ASSUME NEW pt, PtOK(pt), NEW t \in DOMAIN Tables, NEW i \in 0 .. Fan - 1, NEW a
  PROVE  Grows(pt, Marked(pt, t, i, a))
<1> DEFINE pt2 == Marked(pt, t, i, a)
<1>0. MarksOne(pt, pt2, t, i, a)
  BY MarkedEntry, Zenon
<1> HIDE DEF pt2
<1>1. /\ pt2 \in [DOMAIN Tables -> [0 .. Fan - 1 -> Pte]]
      /\ pt2[t][i] = [pt[t][i] EXCEPT !.ad = pt[t][i].ad \cup Marks(a)]
      /\ \A s \in DOMAIN Tables, j \in 0 .. Fan - 1 : s # t \/ j # i => pt2[s][j] = pt[s][j]
  BY <1>0, Zenon DEF MarksOne
<1>2. pt[t][i] \in Pte
  BY Zenon DEF PtOK
<1>3. /\ pt2[t][i].v = pt[t][i].v
      /\ pt2[t][i].xwr = pt[t][i].xwr
      /\ pt2[t][i].u = pt[t][i].u
      /\ pt2[t][i].ppn = pt[t][i].ppn
      /\ pt[t][i].ad \subseteq pt2[t][i].ad
  <2> DEFINE e == pt[t][i]
             e2 == pt2[t][i]
  <2>1. e \in Pte /\ e2 = [e EXCEPT !.ad = e.ad \cup Marks(a)]
    BY <1>1, <1>2, Zenon
  <2> SUFFICES e2.v = e.v /\ e2.xwr = e.xwr /\ e2.u = e.u /\ e2.ppn = e.ppn
                 /\ e.ad \subseteq e2.ad
    OBVIOUS
  <2> HIDE DEF e, e2
  <2> QED
    BY <2>1, SMT DEF Pte
<1>4. \A s \in DOMAIN Tables, j \in 0 .. Fan - 1 :
       /\ pt2[s][j].v = pt[s][j].v
       /\ pt2[s][j].xwr = pt[s][j].xwr
       /\ pt2[s][j].u = pt[s][j].u
       /\ pt2[s][j].ppn = pt[s][j].ppn
       /\ pt[s][j].ad \subseteq pt2[s][j].ad
  <2> SUFFICES ASSUME NEW s \in DOMAIN Tables, NEW j \in 0 .. Fan - 1
               PROVE  /\ pt2[s][j].v = pt[s][j].v
                      /\ pt2[s][j].xwr = pt[s][j].xwr
                      /\ pt2[s][j].u = pt[s][j].u
                      /\ pt2[s][j].ppn = pt[s][j].ppn
                      /\ pt[s][j].ad \subseteq pt2[s][j].ad
    OBVIOUS
  <2>1. CASE s = t /\ j = i
    BY <1>3, <2>1, Zenon
  <2>2. CASE s # t \/ j # i
    <3>1. pt2[s][j] = pt[s][j]
      BY <1>1, <2>2, Zenon
    <3> QED
      BY <3>1, Zenon
  <2> QED
    BY <2>1, <2>2, Zenon
<1>5. \A s \in DOMAIN Tables, j \in 0 .. Fan - 1 : PteOK(pt2[s][j])
  <2> SUFFICES ASSUME NEW s \in DOMAIN Tables, NEW j \in 0 .. Fan - 1
               PROVE  PteOK(pt2[s][j])
    OBVIOUS
  <2>1. PteOK(pt[s][j])
    BY Zenon DEF PtOK
  <2>2. pt2 \in [DOMAIN Tables -> [0 .. Fan - 1 -> Pte]]
    BY <1>1, Zenon
  <2>3. pt2[s] \in [0 .. Fan - 1 -> Pte]
    BY <2>2, Zenon
  <2>4. pt2[s][j] \in Pte
    BY <2>3, Zenon
  <2> QED
    BY <1>4, <2>1, <2>4, Zenon DEF PteOK
<1>6. PtOK(pt2)
  BY <1>1, <1>5, Zenon DEF PtOK
<1>7. Grows(pt, pt2)
  BY <1>4, <1>6, Zenon DEF Grows
<1> QED
  BY <1>7, Zenon DEF pt2

\* The entry at which the loop of get_phys_addr stops is in a table of the guest.
LEMMA PlaceOK ==
  ASSUME MmuAssumption, NEW pt, PtOK(pt), NEW v \in VPages
  PROVE  /\ TableAt(pt, v, LastLevel(pt, v)) \in DOMAIN Tables
         /\ Index(v, LastLevel(pt, v)) \in 0 .. Fan - 1
<1>1. Index(v, LastLevel(pt, v)) \in 0 .. Fan - 1 /\ Index(v, 0) \in 0 .. Fan - 1
  BY IndexOK, Zenon
<1>2. 0 \in DOMAIN Tables
  BY Zenon DEF MmuAssumption
<1>3. PteOK(pt[0][Index(v, 0)])
  BY <1>1, <1>2, Zenon DEF PtOK
<1> HIDE DEF MmuAssumption
<1> QED
  BY <1>1, <1>2, <1>3, SMT DEF TableAt, LastLevel, PteOK

\* Marks do not change where the loop stops.
LEMMA PlaceKept ==
  ASSUME MmuAssumption, NEW pt, PtOK(pt), NEW pt2, Grows(pt, pt2), NEW v \in VPages
  PROVE  /\ LastLevel(pt2, v) = LastLevel(pt, v)
         /\ TableAt(pt2, v, LastLevel(pt2, v)) = TableAt(pt, v, LastLevel(pt, v))
<1>1. Index(v, 0) \in 0 .. Fan - 1
  BY IndexOK, Zenon
<1>2. 0 \in DOMAIN Tables
  BY Zenon DEF MmuAssumption
<1>3. /\ pt2[0][Index(v, 0)].v = pt[0][Index(v, 0)].v
      /\ pt2[0][Index(v, 0)].xwr = pt[0][Index(v, 0)].xwr
      /\ pt2[0][Index(v, 0)].ppn = pt[0][Index(v, 0)].ppn
  BY <1>1, <1>2, Zenon DEF Grows
<1>4. LastLevel(pt2, v) = LastLevel(pt, v)
  BY <1>3, Zenon DEF LastLevel
<1> QED
  BY <1>3, <1>4, Zenon DEF TableAt

\* A walk that stops at a leaf that permits the access.
Ends(pt, v, a, p) ==
  LET pte == pt[TableAt(pt, v, LastLevel(pt, v))][Index(v, LastLevel(pt, v))]
  IN  pte.v /\ pte.xwr # {} /\ Permits(pte, p, a)

Page(pt, v) ==
  Mapped(pt[TableAt(pt, v, LastLevel(pt, v))][Index(v, LastLevel(pt, v))],
         v, LastLevel(pt, v))

\* get_phys_addr's loop, in terms of the entry at which it stops.
LEMMA WalkResult ==
  ASSUME NEW pt, NEW v, NEW a, NEW p
  PROVE  Walk(pt, v, a, p) =
           IF Ends(pt, v, a, p)
           THEN [fault |-> FALSE, page |-> Page(pt, v),
                 pt |-> Marked(pt, TableAt(pt, v, LastLevel(pt, v)),
                               Index(v, LastLevel(pt, v)), a)]
           ELSE [fault |-> TRUE, page |-> -1, pt |-> pt]
  BY Zenon DEF Walk, Ends, Page, Marked, NoPage

\* After a mark the bits of the access are set.
LEMMA MarkMarks ==
  ASSUME NEW pt, PtOK(pt), NEW t \in DOMAIN Tables, NEW i \in 0 .. Fan - 1, NEW a
  PROVE  Marks(a) \subseteq Marked(pt, t, i, a)[t][i].ad
<1> DEFINE e == pt[t][i]
           e2 == Marked(pt, t, i, a)[t][i]
<1>1. e \in Pte
  BY Zenon DEF PtOK
<1>0. MarksOne(pt, Marked(pt, t, i, a), t, i, a)
  BY MarkedEntry, Zenon
<1>2. e2 = [e EXCEPT !.ad = e.ad \cup Marks(a)]
  BY <1>0, Zenon DEF MarksOne
<1> HIDE DEF e, e2
<1>3. e2.ad = e.ad \cup Marks(a)
  BY <1>1, <1>2, SMT DEF Pte
<1> QED
  BY <1>3, Zenon DEF e2

\* Marking an entry again does nothing.
LEMMA MarkAgain ==
  ASSUME NEW pt, PtOK(pt), NEW t \in DOMAIN Tables, NEW i \in 0 .. Fan - 1, NEW a,
         Marks(a) \subseteq pt[t][i].ad
  PROVE  Marked(pt, t, i, a) = pt
<1> DEFINE e == pt[t][i]
           pt2 == Marked(pt, t, i, a)
<1>0. MarksOne(pt, pt2, t, i, a)
  BY MarkedEntry, Zenon
<1> HIDE DEF pt2
<1>1. /\ pt \in [DOMAIN Tables -> [0 .. Fan - 1 -> Pte]]
      /\ pt2 \in [DOMAIN Tables -> [0 .. Fan - 1 -> Pte]]
  BY <1>0, Zenon DEF PtOK, MarksOne
<1>2. e \in Pte
  BY <1>1, Zenon
<1>3. pt2[t][i] = [e EXCEPT !.ad = e.ad \cup Marks(a)]
  BY <1>0, Zenon DEF MarksOne
<1>4. e.ad \cup Marks(a) = e.ad
  BY Zenon
<1>5. [e EXCEPT !.ad = e.ad] = e
  <2> HIDE DEF e
  <2> QED
    BY <1>2, SMT DEF Pte
<1>6. pt2[t][i] = pt[t][i]
  BY <1>3, <1>4, <1>5, Zenon
<1>7. \A s \in DOMAIN Tables, j \in 0 .. Fan - 1 : pt2[s][j] = pt[s][j]
  BY <1>0, <1>6, Zenon DEF MarksOne
<1>8. \A s \in DOMAIN Tables : pt2[s] = pt[s]
  <2> SUFFICES ASSUME NEW s \in DOMAIN Tables PROVE pt2[s] = pt[s]
    OBVIOUS
  <2> DEFINE f == pt[s]
             g == pt2[s]
             D == 0 .. Fan - 1
  <2>1. f \in [D -> Pte] /\ g \in [D -> Pte] /\ \A j \in D : g[j] = f[j]
    BY <1>1, <1>7, Zenon
  <2> HIDE DEF f, g, D
  <2>2. g = f
    BY <2>1, SMT
  <2> QED
    BY <2>2, Zenon DEF f, g
<1>9. pt2 = pt
  BY <1>1, <1>8, SMT
<1> QED
  BY <1>9, Zenon DEF pt2

\* Marks change neither whether an access is permitted nor the page.
LEMMA EndsKept ==
  ASSUME MmuAssumption, NEW pt, PtOK(pt), NEW pt2, Grows(pt, pt2), NEW v \in VPages,
         NEW a, NEW p
  PROVE  (Ends(pt2, v, a, p) <=> Ends(pt, v, a, p)) /\ Page(pt2, v) = Page(pt, v)
<1> DEFINE l == LastLevel(pt, v)
           t == TableAt(pt, v, l)
           i == Index(v, l)
<1>1. LastLevel(pt2, v) = l /\ TableAt(pt2, v, LastLevel(pt2, v)) = t
  BY PlaceKept, Zenon
<1>2. t \in DOMAIN Tables /\ i \in 0 .. Fan - 1
  BY PlaceOK, Zenon
<1>3. /\ pt2[t][i].v = pt[t][i].v
      /\ pt2[t][i].xwr = pt[t][i].xwr
      /\ pt2[t][i].u = pt[t][i].u
      /\ pt2[t][i].ppn = pt[t][i].ppn
  BY <1>2, Zenon DEF Grows
<1> HIDE DEF l, t, i
<1>4. Permits(pt2[t][i], p, a) <=> Permits(pt[t][i], p, a)
  BY <1>3, Zenon DEF Permits
<1>5. Mapped(pt2[t][i], v, l) = Mapped(pt[t][i], v, l)
  BY <1>3, Zenon DEF Mapped
<1>6. Ends(pt, v, a, p) <=> (pt[t][i].v /\ pt[t][i].xwr # {} /\ Permits(pt[t][i], p, a))
  BY Zenon DEF Ends, l, t, i
<1>7. Ends(pt2, v, a, p) <=> (pt2[t][i].v /\ pt2[t][i].xwr # {} /\ Permits(pt2[t][i], p, a))
  BY <1>1, Zenon DEF Ends, i
<1>8. Page(pt, v) = Mapped(pt[t][i], v, l) /\ Page(pt2, v) = Mapped(pt2[t][i], v, l)
  BY <1>1, Zenon DEF Page, l, t, i
<1> QED
  BY <1>3, <1>4, <1>5, <1>6, <1>7, <1>8, Zenon

\* A walk marks at most one entry.
LEMMA WalkGrows ==
  ASSUME MmuAssumption, NEW pt, PtOK(pt), NEW v \in VPages, NEW a, NEW p
  PROVE  Grows(pt, Walk(pt, v, a, p).pt)
<1>1. CASE Ends(pt, v, a, p)
  <2>1. Walk(pt, v, a, p).pt =
          Marked(pt, TableAt(pt, v, LastLevel(pt, v)), Index(v, LastLevel(pt, v)), a)
    BY <1>1, WalkResult, Zenon
  <2>2. Grows(pt, Marked(pt, TableAt(pt, v, LastLevel(pt, v)),
                         Index(v, LastLevel(pt, v)), a))
    BY PlaceOK, MarkGrows, Zenon
  <2> QED
    BY <2>1, <2>2, Zenon
<1>2. CASE ~Ends(pt, v, a, p)
  <2>1. Walk(pt, v, a, p).pt = pt
    BY <1>2, WalkResult, Zenon
  <2>2. Grows(pt, pt)
    BY Zenon DEF Grows
  <2> QED
    BY <2>1, <2>2, Zenon
<1> QED
  BY <1>1, <1>2, Zenon

\* What a walk of pt finds without marking anything, pt grown says too.
Says(pt, v, a, p, page) == Walk(pt, v, a, p) = [fault |-> FALSE, page |-> page, pt |-> pt]

\* A walk writes no entry exactly when the bits of the access are set.
LEMMA SaysIff ==
  ASSUME MmuAssumption, NEW pt, PtOK(pt), NEW v \in VPages, NEW a, NEW p, NEW page
  PROVE  Says(pt, v, a, p, page)
           <=> /\ Ends(pt, v, a, p) /\ page = Page(pt, v)
               /\ Marks(a) \subseteq
                    pt[TableAt(pt, v, LastLevel(pt, v))][Index(v, LastLevel(pt, v))].ad
<1> DEFINE l == LastLevel(pt, v)
           t == TableAt(pt, v, l)
           i == Index(v, l)
<1>1. t \in DOMAIN Tables /\ i \in 0 .. Fan - 1
  BY PlaceOK, Zenon
<1>2. Walk(pt, v, a, p) = IF Ends(pt, v, a, p)
           THEN [fault |-> FALSE, page |-> Page(pt, v), pt |-> Marked(pt, t, i, a)]
           ELSE [fault |-> TRUE, page |-> -1, pt |-> pt]
  BY WalkResult, Zenon
<1> SUFFICES Says(pt, v, a, p, page)
              <=> Ends(pt, v, a, p) /\ page = Page(pt, v) /\ Marks(a) \subseteq pt[t][i].ad
  OBVIOUS
<1> HIDE DEF l, t, i
<1>3. ASSUME Says(pt, v, a, p, page)
      PROVE  Ends(pt, v, a, p) /\ page = Page(pt, v) /\ Marks(a) \subseteq pt[t][i].ad
  <2> DEFINE w == Walk(pt, v, a, p)
  <2>0. ~w.fault /\ w.page = page /\ w.pt = pt
    BY <1>3, SMT DEF Says
  <2> HIDE DEF w
  <2>1. Ends(pt, v, a, p)
    BY <2>0, <1>2, SMT DEF w
  <2>2. w.page = Page(pt, v) /\ w.pt = Marked(pt, t, i, a)
    BY <2>1, <1>2, SMT DEF w
  <2>3. Marked(pt, t, i, a) = pt /\ page = Page(pt, v)
    BY <2>0, <2>2, Zenon
  <2>4. Marks(a) \subseteq Marked(pt, t, i, a)[t][i].ad
    BY <1>1, MarkMarks, Zenon
  <2> QED
    BY <2>1, <2>3, <2>4, Zenon
<1>4. ASSUME Ends(pt, v, a, p), page = Page(pt, v), Marks(a) \subseteq pt[t][i].ad
      PROVE  Says(pt, v, a, p, page)
  <2>1. Marked(pt, t, i, a) = pt
    BY <1>1, <1>4, MarkAgain, Zenon
  <2> QED
    BY <2>1, <1>2, <1>4, Zenon DEF Says
<1> QED
  BY <1>3, <1>4, Zenon

\* A walk that finds a page and writes nothing does so after more marks.
LEMMA SaysKept ==
  ASSUME MmuAssumption, NEW pt, PtOK(pt), NEW pt2, Grows(pt, pt2), NEW v \in VPages,
         NEW a, NEW p, NEW page, Says(pt, v, a, p, page)
  PROVE  Says(pt2, v, a, p, page)
<1> DEFINE l == LastLevel(pt, v)
           t == TableAt(pt, v, l)
           i == Index(v, l)
<1>1. t \in DOMAIN Tables /\ i \in 0 .. Fan - 1
  BY PlaceOK, Zenon
<1>2. Ends(pt, v, a, p) /\ page = Page(pt, v) /\ Marks(a) \subseteq pt[t][i].ad
  BY SaysIff, Zenon
<1>3. LastLevel(pt2, v) = l /\ TableAt(pt2, v, LastLevel(pt2, v)) = t
  BY PlaceKept, Zenon
<1>4. PtOK(pt2)
  BY Zenon DEF Grows
<1>5. Ends(pt2, v, a, p) /\ page = Page(pt2, v)
  BY <1>2, EndsKept, Zenon
<1> HIDE DEF t, l
<1>6. Marks(a) \subseteq pt2[t][i].ad
  <2>1. pt[t][i].ad \subseteq pt2[t][i].ad
    BY <1>1, Zenon DEF Grows
  <2> QED
    BY <1>2, <2>1, Zenon
<1>7. Marks(a) \subseteq pt2[TableAt(pt2, v, LastLevel(pt2, v))][Index(v, LastLevel(pt2, v))].ad
  BY <1>3, <1>6, Zenon
<1> QED
  BY <1>4, <1>5, <1>7, SaysIff, Zenon

\* Walking again finds the same page and marks nothing.
LEMMA WalkSays ==
  ASSUME MmuAssumption, NEW pt, PtOK(pt), NEW v \in VPages, NEW a, NEW p,
         ~Walk(pt, v, a, p).fault
  PROVE  Says(Walk(pt, v, a, p).pt, v, a, p, Walk(pt, v, a, p).page)
<1> DEFINE l == LastLevel(pt, v)
           t == TableAt(pt, v, l)
           i == Index(v, l)
           pt2 == Marked(pt, t, i, a)
<1>1. t \in DOMAIN Tables /\ i \in 0 .. Fan - 1
  BY PlaceOK, Zenon
<1>2. Walk(pt, v, a, p) = IF Ends(pt, v, a, p)
           THEN [fault |-> FALSE, page |-> Page(pt, v), pt |-> pt2]
           ELSE [fault |-> TRUE, page |-> -1, pt |-> pt]
  BY WalkResult, Zenon
<1>3. Grows(pt, pt2)
  BY <1>1, MarkGrows, Zenon
<1>4. Marks(a) \subseteq pt2[t][i].ad
  BY <1>1, MarkMarks, Zenon
<1> HIDE DEF pt2
<1>5. LastLevel(pt2, v) = l /\ TableAt(pt2, v, LastLevel(pt2, v)) = t
  BY <1>3, PlaceKept, Zenon
<1>6. PtOK(pt2)
  BY <1>3, Zenon DEF Grows
<1> HIDE DEF t, l
<1>7. Ends(pt, v, a, p)
  BY <1>2, SMT
<1>8. Walk(pt, v, a, p).pt = pt2 /\ Walk(pt, v, a, p).page = Page(pt, v)
  BY <1>2, <1>7, SMT
<1>9. Ends(pt2, v, a, p) /\ Page(pt, v) = Page(pt2, v)
  BY <1>3, <1>7, EndsKept, Zenon
<1>10. Marks(a) \subseteq pt2[TableAt(pt2, v, LastLevel(pt2, v))][Index(v, LastLevel(pt2, v))].ad
  BY <1>4, <1>5, Zenon
<1>11. Says(pt2, v, a, p, Page(pt, v))
  BY <1>6, <1>9, <1>10, SaysIff, Zenon
<1> QED
  BY <1>8, <1>11, Zenon

\* The same of get_phys_addr, which walks only when translation is on.
Agrees(pt, v, a, page) ==
  get_phys_addr(pt, v, a) = [fault |-> FALSE, page |-> page, pt |-> pt]

\* get_phys_addr changes nothing but marks.
LEMMA AddrGrows ==
  ASSUME MmuAssumption, NEW pt, PtOK(pt), NEW v \in VPages, NEW a
  PROVE  Grows(pt, get_phys_addr(pt, v, a).pt)
<1>1. CASE EffectivePriv(a) = PRV_M \/ ~satp
  <2>1. get_phys_addr(pt, v, a) = [fault |-> FALSE, page |-> v, pt |-> pt]
    BY <1>1, Zenon DEF get_phys_addr
  <2>2. get_phys_addr(pt, v, a).pt = pt
    BY <2>1, SMT
  <2>3. Grows(pt, pt)
    BY Zenon DEF Grows
  <2> QED
    BY <2>2, <2>3, Zenon
<1>2. CASE ~(EffectivePriv(a) = PRV_M \/ ~satp)
  <2>1. get_phys_addr(pt, v, a) = Walk(pt, v, a, EffectivePriv(a))
    BY <1>2, Zenon DEF get_phys_addr
  <2>2. Grows(pt, Walk(pt, v, a, EffectivePriv(a)).pt)
    BY WalkGrows, Zenon
  <2> QED
    BY <2>1, <2>2, Zenon
<1> QED
  BY <1>1, <1>2, Zenon

\* What get_phys_addr says without writing, it says after more marks.
LEMMA AddrKept ==
  ASSUME MmuAssumption, NEW pt, PtOK(pt), NEW pt2, Grows(pt, pt2), NEW v \in VPages,
         NEW a, NEW page, Agrees(pt, v, a, page)
  PROVE  Agrees(pt2, v, a, page)
<1>1. CASE EffectivePriv(a) = PRV_M \/ ~satp
  <2>1. get_phys_addr(pt, v, a) = [fault |-> FALSE, page |-> v, pt |-> pt]
    BY <1>1, Zenon DEF get_phys_addr
  <2>2. get_phys_addr(pt, v, a).page = v /\ get_phys_addr(pt, v, a).page = page
    BY <2>1, SMT DEF Agrees
  <2>3. get_phys_addr(pt2, v, a) = [fault |-> FALSE, page |-> v, pt |-> pt2]
    BY <1>1, Zenon DEF get_phys_addr
  <2> QED
    BY <2>2, <2>3, Zenon DEF Agrees
<1>2. CASE ~(EffectivePriv(a) = PRV_M \/ ~satp)
  <2>1. /\ get_phys_addr(pt, v, a) = Walk(pt, v, a, EffectivePriv(a))
        /\ get_phys_addr(pt2, v, a) = Walk(pt2, v, a, EffectivePriv(a))
    BY <1>2, Zenon DEF get_phys_addr
  <2>2. Says(pt, v, a, EffectivePriv(a), page)
    BY <2>1, Zenon DEF Says, Agrees
  <2>3. Says(pt2, v, a, EffectivePriv(a), page)
    BY <2>2, SaysKept, Zenon
  <2> QED
    BY <2>1, <2>3, Zenon DEF Says, Agrees
<1> QED
  BY <1>1, <1>2, Zenon

\* Asked again, get_phys_addr says the same and writes nothing.
LEMMA AddrAgrees ==
  ASSUME MmuAssumption, NEW pt, PtOK(pt), NEW v \in VPages, NEW a,
         ~get_phys_addr(pt, v, a).fault
  PROVE  Agrees(get_phys_addr(pt, v, a).pt, v, a, get_phys_addr(pt, v, a).page)
<1> DEFINE g == get_phys_addr(pt, v, a)
<1>1. CASE EffectivePriv(a) = PRV_M \/ ~satp
  <2>1. g = [fault |-> FALSE, page |-> v, pt |-> pt]
    BY <1>1, Zenon DEF get_phys_addr
  <2>2. g.page = v /\ g.pt = pt
    BY <2>1, SMT
  <2>3. Agrees(pt, v, a, v)
    BY <2>1, Zenon DEF Agrees
  <2> HIDE DEF g
  <2>4. Agrees(g.pt, v, a, g.page)
    BY <2>2, <2>3, Zenon
  <2> QED
    BY <2>4, Zenon DEF g
<1>2. CASE ~(EffectivePriv(a) = PRV_M \/ ~satp)
  <2> DEFINE w == Walk(pt, v, a, EffectivePriv(a))
  <2>1. g = w
    BY <1>2, Zenon DEF get_phys_addr
  <2>2. Says(w.pt, v, a, EffectivePriv(a), w.page)
    BY <2>1, WalkSays, Zenon
  <2>3. Agrees(w.pt, v, a, w.page)
    BY <1>2, <2>2, Zenon DEF Says, Agrees, get_phys_addr
  <2> HIDE DEF g, w
  <2>4. Agrees(g.pt, v, a, g.page)
    BY <2>1, <2>3, Zenon
  <2> QED
    BY <2>4, Zenon DEF g
<1> QED
  BY <1>1, <1>2, Zenon

-----------------------------------------------------------------------------
(* What an aligned access does to the TLBs and the dirty bits *)

InMemory == {"ram", "fb", "pim"}

\* The TLBs of n are those of m with an entry for what g says of v.
FilledWith(m, n, v, a, page) ==
  /\ n.tlb[a][Idx(v)].v = v /\ n.tlb[a][Idx(v)].page = page
  /\ \A b \in Accesses, i \in Slots :
       b # a \/ i # Idx(v) => n.tlb[b][i] = m.tlb[b][i]

TlbStep(m, n, v, a) ==
  LET g == get_phys_addr(m.pt, v, a)
  IN  \/ /\ n.tlb = m.tlb /\ n.dirty = m.dirty
         /\ n.pt = m.pt \/ n.pt = g.pt
      \/ /\ ~g.fault /\ n.pt = g.pt /\ Kind(g.page) \in InMemory
         /\ FilledWith(m, n, v, a, g.page)
         /\ m.dirty \subseteq n.dirty
         /\ a = "w" /\ Kind(g.page) = "fb" => g.page \in n.dirty

\* The kinds of a physical page.
LEMMA KindOK ==
  ASSUME MmuAssumption, NEW page
  PROVE  Kind(page) \in {"ram", "fb", "pim", "dev", "none"}
  BY Zenon DEF MmuAssumption, Kind

\* What leaves the memory alone.
Same(m, n) ==
  /\ DOMAIN n = MmFields
  /\ n.pt = m.pt /\ n.tlb = m.tlb /\ n.dirty = m.dirty /\ n.written = m.written

\* The start of an access clears the two flags and nothing else.
LEMMA ResetSame ==
  ASSUME NEW m, DOMAIN m = MmFields
  PROVE  /\ Same(m, Reset(m)) /\ Reset(m).fault = m.fault
         /\ Reset(m).is_device_io = FALSE /\ Reset(m).is_pim_access = FALSE
  BY Zenon DEF MmFields, Same, Reset

\* Reading what an access left behind leaves the memory alone.
LEMMA SettledSame ==
  ASSUME NEW m, DOMAIN m = MmFields
  PROVE  Same(m, Settled(m)) /\ ~Settled(m).is_pim_access
  BY Zenon DEF MmFields, Same, Settled

ChargeResult(m, n, v, a) ==
  /\ Same(m, n)
  /\ n.fault = m.fault /\ n.is_device_io = m.is_device_io
  /\ n.is_pim_access = m.is_pim_access /\ n.reached = m.reached
  /\ ~m.fault /\ ~m.is_device_io /\ ~m.is_pim_access =>
       n.data_guest_paddr = m.tlb[a][Idx(v)].page + (v - m.tlb[a][Idx(v)].v)

\* What target_read_u and target_write_u leave for the memory hierarchy.
LEMMA ChargedSame ==
  ASSUME NEW m, DOMAIN m = MmFields, NEW v, NEW a
  PROVE  ChargeResult(m, Charged(m, v, a), v, a)
  BY Zenon DEF MmFields, Same, Charged, ChargeResult

FillResult(m, n, v, a, page) ==
  /\ MmOK(n) /\ FilledWith(m, n, v, a, page)
  /\ n.pt = m.pt /\ n.dirty = m.dirty /\ n.written = m.written
  /\ n.fault = m.fault /\ n.is_device_io = m.is_device_io
  /\ n.is_pim_access = m.is_pim_access /\ n.reached = m.reached

\* A fill changes one entry of one TLB.
LEMMA FilledFields ==
  ASSUME MmuAssumption, NEW m, MmOK(m), NEW v \in VPages, NEW a \in Accesses, NEW page
  PROVE  FillResult(m, Filled(m, v, a, page), v, a, page)
<1> DEFINE e == [v |-> v, page |-> page]
           n == Filled(m, v, a, page)
           row == [m.tlb[a] EXCEPT ![Idx(v)] = e]
           tlb == [m.tlb EXCEPT ![a] = row]
<1>1. e.v = v /\ e.page = page
  BY Zenon
<1>2. n = [m EXCEPT !.tlb = tlb]
  BY Zenon DEF Filled
<1>3. Idx(v) \in Slots
  BY IdxOK, Zenon
<1>4. DOMAIN m.tlb = Accesses /\ \A b \in Accesses : DOMAIN m.tlb[b] = Slots
  BY Zenon DEF MmOK, TlbOK
<1>5. DOMAIN m = MmFields /\ PtOK(m.pt)
  BY Zenon DEF MmOK
<1> HIDE DEF e
<1>6. DOMAIN row = Slots /\ row[Idx(v)] = e
       /\ \A i \in Slots : i # Idx(v) => row[i] = m.tlb[a][i]
  BY <1>3, <1>4, Zenon
<1> HIDE DEF row
<1>7. DOMAIN tlb = Accesses /\ tlb[a] = row
       /\ \A b \in Accesses : b # a => tlb[b] = m.tlb[b]
  BY <1>4, Zenon
<1> HIDE DEF tlb, n
<1>8. /\ DOMAIN n = MmFields /\ n.tlb = tlb
      /\ n.pt = m.pt /\ n.dirty = m.dirty /\ n.written = m.written
      /\ n.fault = m.fault /\ n.is_device_io = m.is_device_io
      /\ n.is_pim_access = m.is_pim_access /\ n.reached = m.reached
  BY <1>2, <1>5, Zenon DEF MmFields
<1>9. TlbOK(n.tlb)
  BY <1>4, <1>6, <1>7, <1>8, Zenon DEF TlbOK
<1>10. MmOK(n)
  BY <1>5, <1>8, <1>9, Zenon DEF MmOK
<1>11. n.tlb[a][Idx(v)].v = v /\ n.tlb[a][Idx(v)].page = page
  BY <1>1, <1>6, <1>7, <1>8, Zenon
<1>12. \A b \in Accesses, i \in Slots :
         b # a \/ i # Idx(v) => n.tlb[b][i] = m.tlb[b][i]
  <2> SUFFICES ASSUME NEW b \in Accesses, NEW i \in Slots, b # a \/ i # Idx(v)
               PROVE  n.tlb[b][i] = m.tlb[b][i]
    OBVIOUS
  <2>1. CASE b = a
    BY <2>1, <1>6, <1>7, <1>8, Zenon
  <2>2. CASE b # a
    BY <2>2, <1>7, <1>8, Zenon
  <2> QED
    BY <2>1, <2>2, Zenon
<1>13. FilledWith(m, n, v, a, page)
  BY <1>11, <1>12, Zenon DEF FilledWith
<1> QED
  BY <1>8, <1>10, <1>13, Zenon DEF n, FillResult

HasPim == \E p \in DOMAIN MemMap : MemMap[p] = "pim"

\* What an access leaves: the TLBs took a step, and have the page it reached.
AccessResult(m, n, v, a) ==
  /\ MmOK(n) /\ TlbStep(m, n, v, a)
  /\ ~n.fault /\ Kind(n.reached) \in {"ram", "fb"} =>
       n.tlb[a][Idx(v)].v = v /\ n.tlb[a][Idx(v)].page = n.reached
  /\ n.is_pim_access => HasPim

\* target_read_slow, target_write_slow and target_read_insn_slow: a page of memory
\* is put into the TLB, with its dirty bit set before a store.
LEMMA SlowResult ==
  ASSUME MmuAssumption, NEW m, MmOK(m), ~m.is_pim_access,
         NEW v \in VPages, NEW a \in Accesses
  PROVE  AccessResult(m, Slow(m, v, a), v, a) /\ Slow(m, v, a).written = m.written
<1> DEFINE g == get_phys_addr(m.pt, v, a)
           k == Kind(g.page)
           n0 == [m EXCEPT !.pt = g.pt, !.reached = g.page]
           f == Filled(n0, v, a, g.page)
           n == Slow(m, v, a)
<1>1. PtOK(m.pt) /\ TlbOK(m.tlb) /\ DOMAIN m = MmFields
  BY Zenon DEF MmOK
<1>2. PtOK(g.pt)
  BY <1>1, AddrGrows, Zenon DEF Grows
<1>3. k \in {"ram", "fb", "pim", "dev", "none"}
  BY KindOK, Zenon
<1>4. /\ g.fault \/ (a = "x" /\ k \notin {"ram", "fb"}) =>
           n = [m EXCEPT !.pt = g.pt, !.fault = TRUE]
      /\ ~(g.fault \/ (a = "x" /\ k \notin {"ram", "fb"})) =>
           /\ k \in {"ram", "fb"} => n = Touched(f, a, g.page)
           /\ k = "pim" => n = [f EXCEPT !.data_guest_paddr = g.page - PimBase,
                                         !.is_pim_access = TRUE]
           /\ k = "dev" => n = [n0 EXCEPT !.is_device_io = TRUE,
                                          !.data_guest_paddr = g.page]
           /\ k = "none" => n = n0
  BY <1>3, Zenon DEF Slow
<1>5. TlbStep(m, n, v, a) <=>
         \/ /\ n.tlb = m.tlb /\ n.dirty = m.dirty
            /\ n.pt = m.pt \/ n.pt = g.pt
         \/ /\ ~g.fault /\ n.pt = g.pt /\ k \in InMemory
            /\ FilledWith(m, n, v, a, g.page)
            /\ m.dirty \subseteq n.dirty
            /\ a = "w" /\ k = "fb" => g.page \in n.dirty
  BY Zenon DEF TlbStep
<1> SUFFICES AccessResult(m, n, v, a) /\ n.written = m.written
  OBVIOUS
<1>k. k = Kind(g.page)
  OBVIOUS
<1> HIDE DEF n, g, k
<1>6. /\ DOMAIN n0 = MmFields
      /\ n0.pt = g.pt /\ n0.tlb = m.tlb /\ n0.dirty = m.dirty
      /\ n0.written = m.written /\ n0.fault = m.fault
      /\ n0.is_pim_access = m.is_pim_access /\ n0.reached = g.page
  BY <1>1, Zenon DEF MmFields
<1>7. MmOK(n0)
  BY <1>1, <1>2, <1>6, Zenon DEF MmOK
<1> HIDE DEF n0
<1>8. /\ MmOK(f) /\ FilledWith(n0, f, v, a, g.page)
      /\ f.pt = n0.pt /\ f.dirty = n0.dirty /\ f.written = n0.written
      /\ f.fault = n0.fault
      /\ f.is_pim_access = n0.is_pim_access /\ f.reached = n0.reached
  <2>1. FillResult(n0, f, v, a, g.page)
    BY <1>7, FilledFields, Zenon
  <2> QED
    BY <2>1, Zenon DEF FillResult
<1> HIDE DEF f
<1>9. FilledWith(m, f, v, a, g.page) /\ DOMAIN f = MmFields
  BY <1>6, <1>8, Zenon DEF FilledWith, MmOK
<1>10. CASE g.fault \/ (a = "x" /\ k \notin {"ram", "fb"})
  <2>1. /\ DOMAIN n = MmFields /\ n.pt = g.pt /\ n.tlb = m.tlb /\ n.dirty = m.dirty
        /\ n.written = m.written /\ n.fault = TRUE
        /\ n.is_pim_access = m.is_pim_access
    BY <1>1, <1>4, <1>10, Zenon DEF MmFields
  <2>2. MmOK(n)
    BY <1>1, <1>2, <2>1, Zenon DEF MmOK
  <2>3. TlbStep(m, n, v, a)
    BY <1>5, <2>1, Zenon
  <2> QED
    BY <2>1, <2>2, <2>3, Zenon DEF AccessResult
<1>11. CASE ~(g.fault \/ (a = "x" /\ k \notin {"ram", "fb"})) /\ k \in {"ram", "fb"}
  <2>1. n = Touched(f, a, g.page)
    BY <1>4, <1>11, Zenon
  <2>2. /\ DOMAIN n = MmFields /\ n.pt = f.pt /\ n.tlb = f.tlb
        /\ n.written = f.written /\ n.fault = f.fault
        /\ n.is_pim_access = f.is_pim_access /\ n.reached = f.reached
        /\ f.dirty \subseteq n.dirty
        /\ a = "w" /\ k = "fb" => g.page \in n.dirty
    BY <1>9, <1>k, <2>1, Zenon DEF Touched, MmFields
  <2>3. MmOK(n)
    BY <1>8, <2>2, Zenon DEF MmOK
  <2>4. FilledWith(m, n, v, a, g.page)
    BY <1>9, <2>2, Zenon DEF FilledWith
  <2>5. TlbStep(m, n, v, a)
    BY <1>5, <1>6, <1>8, <1>11, <2>2, <2>4, Zenon DEF InMemory
  <2>6. n.tlb[a][Idx(v)].v = v /\ n.tlb[a][Idx(v)].page = n.reached
    BY <1>6, <1>8, <2>2, <2>4, Zenon DEF FilledWith
  <2> QED
    BY <1>6, <1>8, <2>2, <2>3, <2>5, <2>6, Zenon DEF AccessResult
<1>12. CASE ~(g.fault \/ (a = "x" /\ k \notin {"ram", "fb"})) /\ k = "pim"
  <2>1. n = [f EXCEPT !.data_guest_paddr = g.page - PimBase, !.is_pim_access = TRUE]
    BY <1>4, <1>12, Zenon
  <2>2. /\ DOMAIN n = MmFields /\ n.pt = f.pt /\ n.tlb = f.tlb
        /\ n.written = f.written /\ n.fault = f.fault
        /\ n.reached = f.reached /\ n.dirty = f.dirty
    BY <1>9, <2>1, Zenon DEF MmFields
  <2>3. MmOK(n)
    BY <1>8, <2>2, Zenon DEF MmOK
  <2>4. FilledWith(m, n, v, a, g.page)
    BY <1>9, <2>2, Zenon DEF FilledWith
  <2>5. TlbStep(m, n, v, a)
    BY <1>5, <1>6, <1>8, <1>12, <2>2, <2>4, Zenon DEF InMemory
  <2>6. n.tlb[a][Idx(v)].v = v /\ n.tlb[a][Idx(v)].page = n.reached
    BY <1>6, <1>8, <2>2, <2>4, Zenon DEF FilledWith
  <2>7. HasPim
    BY <1>12, <1>k, Zenon DEF Kind, HasPim
  <2> QED
    BY <1>6, <1>8, <2>2, <2>3, <2>5, <2>6, <2>7, Zenon DEF AccessResult
<1>13. CASE ~(g.fault \/ (a = "x" /\ k \notin {"ram", "fb"})) /\ k \in {"dev", "none"}
  <2>1. /\ DOMAIN n = MmFields /\ n.pt = n0.pt /\ n.tlb = n0.tlb /\ n.dirty = n0.dirty
        /\ n.written = n0.written /\ n.fault = n0.fault
        /\ n.is_pim_access = n0.is_pim_access /\ n.reached = n0.reached
    <3>1. CASE k = "dev"
      <4>1. n = [n0 EXCEPT !.is_device_io = TRUE, !.data_guest_paddr = g.page]
        BY <1>4, <1>13, <3>1, Zenon
      <4> QED
        BY <1>6, <4>1, Zenon DEF MmFields
    <3>2. CASE k = "none"
      BY <1>4, <1>6, <1>13, <3>2, Zenon
    <3> QED
      BY <1>13, <3>1, <3>2, Zenon
  <2>2. MmOK(n)
    BY <1>7, <2>1, Zenon DEF MmOK
  <2>3. TlbStep(m, n, v, a)
    BY <1>5, <1>6, <2>1, Zenon
  <2>4. Kind(n.reached) \notin {"ram", "fb"}
    BY <1>6, <1>13, <1>k, <2>1, Zenon
  <2> QED
    BY <1>6, <2>1, <2>2, <2>3, <2>4, Zenon DEF AccessResult
<1> QED
  BY <1>3, <1>10, <1>11, <1>12, <1>13, Zenon

\* The result of an access that starts from the same memory.
LEMMA ResultFrom ==
  ASSUME NEW m, NEW m2, Same(m, m2), NEW n, NEW v, NEW a, AccessResult(m2, n, v, a)
  PROVE  AccessResult(m, n, v, a)
  BY Zenon DEF Same, AccessResult, TlbStep, FilledWith

\* What the rest of an access changes is none of this.
Finishes(m, n) ==
  /\ DOMAIN n = MmFields
  /\ n.pt = m.pt /\ n.tlb = m.tlb /\ n.dirty = m.dirty
  /\ n.fault = m.fault /\ n.reached = m.reached /\ n.is_pim_access = m.is_pim_access

\* The rest of an access leaves the result of the lookup.
LEMMA ResultTo ==
  ASSUME NEW m, NEW c, NEW v, NEW a, AccessResult(m, c, v, a), NEW n, Finishes(c, n)
  PROVE  AccessResult(m, n, v, a)
<1>1. MmOK(n)
  BY Zenon DEF Finishes, AccessResult, MmOK
<1>2. TlbStep(m, n, v, a)
  BY Zenon DEF Finishes, AccessResult, TlbStep, FilledWith
<1> QED
  BY <1>1, <1>2, Zenon DEF Finishes, AccessResult

\* The store itself.
LEMMA StoredFields ==
  ASSUME NEW m, DOMAIN m = MmFields, NEW a
  PROVE  LET n == Stored(m, a) IN
         /\ Finishes(m, n) /\ n.is_device_io = m.is_device_io
         /\ n.data_guest_paddr = m.data_guest_paddr
         /\ \/ n.written = m.written
            \/ /\ a = "w" /\ ~m.fault /\ Kind(m.reached) = "fb"
               /\ n.written = m.written \cup {m.reached}
  BY Zenon DEF Stored, Finishes, MmFields

\* The address that Charged leaves.
ChargedWith(n, v, a) ==
  ~n.fault /\ ~n.is_device_io /\ ~n.is_pim_access =>
    n.data_guest_paddr = n.tlb[a][Idx(v)].page + (v - n.tlb[a][Idx(v)].v)

AlignedResult(m, n, v, a) ==
  /\ AccessResult(m, n, v, a)
  /\ \/ n.written = m.written
     \/ /\ a = "w" /\ ~n.fault /\ Kind(n.reached) = "fb"
        /\ n.written = m.written \cup {n.reached}
  /\ ChargedWith(n, v, a)
  /\ m.tlb[a][Idx(v)].v = v => n.tlb = m.tlb

\* An aligned access, on a hit and after a miss.
LEMMA AlignedLemma ==
  ASSUME MmuAssumption, NEW m, MmOK(m), NEW v \in VPages, NEW a \in Accesses
  PROVE  AlignedResult(m, Aligned(m, v, a), v, a)
<1> DEFINE r == Reset(m)
           e == m.tlb[a][Idx(v)]
           c == IF e.v = v THEN [Reset(m) EXCEPT !.reached = e.page] ELSE Slow(r, v, a)
           k == Charged(c, v, a)
           n == Stored(k, a)
<1>0. n = Aligned(m, v, a)
  BY Zenon DEF Aligned
<1>1. DOMAIN m = MmFields /\ TlbOK(m.tlb) /\ PtOK(m.pt)
  BY Zenon DEF MmOK
<1>2. Same(m, r) /\ ~r.is_pim_access /\ r.fault = m.fault
  BY <1>1, ResetSame, Zenon
<1>3. MmOK(r)
  BY <1>1, <1>2, Zenon DEF MmOK, Same
<1>4. /\ AccessResult(m, c, v, a) /\ c.written = m.written
      /\ e.v = v => c.tlb = m.tlb
  <2>1. CASE e.v = v
    <3>1. c = [r EXCEPT !.reached = e.page]
      BY <2>1, Zenon
    <3> HIDE DEF c, r
    <3>2. DOMAIN r = MmFields
      BY <1>2, Zenon DEF Same
    <3>3. /\ DOMAIN c = MmFields /\ c.pt = r.pt /\ c.tlb = r.tlb /\ c.dirty = r.dirty
          /\ c.written = r.written /\ c.fault = r.fault
          /\ c.is_pim_access = r.is_pim_access /\ c.reached = e.page
      BY <3>1, <3>2, Zenon DEF MmFields
    <3>4. /\ c.pt = m.pt /\ c.tlb = m.tlb /\ c.dirty = m.dirty /\ c.written = m.written
      BY <1>2, <3>3, Zenon DEF Same
    <3>5. MmOK(c)
      BY <1>1, <3>3, <3>4, Zenon DEF MmOK
    <3>6. TlbStep(m, c, v, a)
      BY <3>4, Zenon DEF TlbStep
    <3>7. c.tlb[a][Idx(v)].v = v /\ c.tlb[a][Idx(v)].page = c.reached
      BY <2>1, <3>3, <3>4, Zenon
    <3> QED
      BY <1>2, <3>3, <3>4, <3>5, <3>6, <3>7, Zenon DEF AccessResult
  <2>2. CASE e.v # v
    <3>1. c = Slow(r, v, a)
      BY <2>2, Zenon
    <3> HIDE DEF c, r
    <3>2. AccessResult(r, Slow(r, v, a), v, a) /\ Slow(r, v, a).written = r.written
      BY <1>2, <1>3, SlowResult, Zenon
    <3>3. AccessResult(r, c, v, a) /\ c.written = r.written
      BY <3>1, <3>2, Zenon
    <3>4. AccessResult(m, c, v, a)
      BY <1>2, <3>3, ResultFrom, Zenon
    <3> QED
      BY <1>2, <2>2, <3>3, <3>4, Zenon DEF Same
  <2> QED
    BY <2>1, <2>2, Zenon
<1> HIDE DEF c, r
<1>5. DOMAIN c = MmFields
  BY <1>4, Zenon DEF AccessResult, MmOK
<1>6. /\ Same(c, k)
      /\ k.fault = c.fault /\ k.is_device_io = c.is_device_io
      /\ k.is_pim_access = c.is_pim_access /\ k.reached = c.reached
      /\ ~c.fault /\ ~c.is_device_io /\ ~c.is_pim_access =>
           k.data_guest_paddr = c.tlb[a][Idx(v)].page + (v - c.tlb[a][Idx(v)].v)
  <2>1. ChargeResult(c, k, v, a)
    BY <1>5, ChargedSame, Zenon
  <2> QED
    BY <2>1, Zenon DEF ChargeResult
<1> HIDE DEF k
<1>7. DOMAIN k = MmFields /\ k.tlb = c.tlb /\ k.written = m.written
  BY <1>4, <1>6, Zenon DEF Same
<1>8. AccessResult(m, k, v, a)
  <2>1. Finishes(c, k)
    BY <1>6, Zenon DEF Same, Finishes
  <2> QED
    BY <1>4, <2>1, ResultTo, Zenon
<1>9. /\ Finishes(k, n) /\ n.is_device_io = k.is_device_io
      /\ n.data_guest_paddr = k.data_guest_paddr
      /\ \/ n.written = k.written
         \/ /\ a = "w" /\ ~k.fault /\ Kind(k.reached) = "fb"
            /\ n.written = k.written \cup {k.reached}
  BY <1>7, StoredFields, Zenon
<1> HIDE DEF n
<1>10. AccessResult(m, n, v, a)
  BY <1>8, <1>9, ResultTo, Zenon
<1>11. ChargedWith(n, v, a)
  BY <1>6, <1>7, <1>9, Zenon DEF ChargedWith, Finishes
<1>12. AlignedResult(m, n, v, a)
  BY <1>4, <1>7, <1>9, <1>10, <1>11, Zenon DEF AlignedResult, Finishes
<1> QED
  BY <1>0, <1>12, Zenon

-----------------------------------------------------------------------------
(* The invariant of the TLBs *)

\* An entry is of a page of memory; a page of the frame buffer that the write
\* TLB has, or that was written, is marked dirty.
EntriesOK(m) ==
  \A a \in Accesses, i \in Slots :
    m.tlb[a][i].v # -1 =>
      m.tlb[a][i].v \in VPages /\ Kind(m.tlb[a][i].page) \in InMemory

FbMarked(m) ==
  \A i \in Slots :
    m.tlb["w"][i].v # -1 /\ Kind(m.tlb["w"][i].page) = "fb" =>
      m.tlb["w"][i].page \in m.dirty

GoodMm(m) ==
  MmOK(m) /\ EntriesOK(m) /\ FbMarked(m) /\ m.written \subseteq m.dirty

\* Every entry says what get_phys_addr says.
Current(m) ==
  \A a \in Accesses, i \in Slots :
    m.tlb[a][i].v # -1 => Agrees(m.pt, m.tlb[a][i].v, a, m.tlb[a][i].page)

\* An access puts only pages of memory into a TLB.
LEMMA StepEntries ==
  ASSUME MmuAssumption, NEW m, NEW n, NEW v \in VPages, NEW a \in Accesses,
         EntriesOK(m), TlbStep(m, n, v, a)
  PROVE  EntriesOK(n)
  BY Zenon DEF EntriesOK, TlbStep, FilledWith

\* An access puts a frame buffer page into the write TLB with its dirty bit set.
LEMMA StepMarked ==
  ASSUME MmuAssumption, NEW m, NEW n, NEW v \in VPages, NEW a \in Accesses,
         FbMarked(m), TlbStep(m, n, v, a)
  PROVE  FbMarked(n) /\ m.dirty \subseteq n.dirty
  BY Zenon DEF FbMarked, TlbStep, FilledWith, Accesses

\* The marks that a fill makes leave the other entries current, and the new entry
\* says what the walk said.
LEMMA StepCurrent ==
  ASSUME MmuAssumption, NEW m, MmOK(m), NEW n, NEW v \in VPages, NEW a \in Accesses,
         EntriesOK(m), Current(m), TlbStep(m, n, v, a)
  PROVE  Current(n)
<1> DEFINE g == get_phys_addr(m.pt, v, a)
<1>1. PtOK(m.pt)
  BY Zenon DEF MmOK
<1>2. Grows(m.pt, m.pt) /\ Grows(m.pt, g.pt)
  BY <1>1, AddrGrows, Zenon DEF Grows
<1>3. n.pt = m.pt \/ n.pt = g.pt
  BY Zenon DEF TlbStep
<1>4. Grows(m.pt, n.pt)
  BY <1>2, <1>3, Zenon
<1>5. \A b \in Accesses, i \in Slots :
        m.tlb[b][i].v # -1 => Agrees(n.pt, m.tlb[b][i].v, b, m.tlb[b][i].page)
  BY <1>1, <1>4, AddrKept, Zenon DEF Current, EntriesOK
<1>6. CASE n.tlb = m.tlb
  BY <1>5, <1>6, Zenon DEF Current
<1>7. CASE ~g.fault /\ n.pt = g.pt /\ FilledWith(m, n, v, a, g.page)
  <2>1. Agrees(g.pt, v, a, g.page)
    BY <1>1, <1>7, AddrAgrees, Zenon
  <2> HIDE DEF g
  <2>2. Agrees(n.pt, v, a, g.page)
    BY <2>1, <1>7, Zenon
  <2> SUFFICES ASSUME NEW b \in Accesses, NEW i \in Slots, n.tlb[b][i].v # -1
               PROVE  Agrees(n.pt, n.tlb[b][i].v, b, n.tlb[b][i].page)
    BY Zenon DEF Current
  <2>3. CASE b = a /\ i = Idx(v)
    BY <2>2, <2>3, <1>7, Zenon DEF FilledWith
  <2>4. CASE b # a \/ i # Idx(v)
    <3>1. n.tlb[b][i] = m.tlb[b][i]
      BY <2>4, <1>7, Zenon DEF FilledWith
    <3> QED
      BY <3>1, <1>5, Zenon
  <2> QED
    BY <2>3, <2>4, Zenon
<1> QED
  BY <1>6, <1>7, Zenon DEF TlbStep

\* An aligned access keeps the invariant of the TLBs: a store that hits writes to
\* a page that is marked.
LEMMA AlignedGood ==
  ASSUME MmuAssumption, NEW m, GoodMm(m), NEW v \in VPages, NEW a \in Accesses
  PROVE  GoodMm(Aligned(m, v, a)) /\ (Current(m) => Current(Aligned(m, v, a)))
<1> DEFINE n == Aligned(m, v, a)
<1>1. MmOK(m) /\ EntriesOK(m) /\ FbMarked(m) /\ m.written \subseteq m.dirty
  BY Zenon DEF GoodMm
<1>2. AlignedResult(m, n, v, a)
  BY <1>1, AlignedLemma, Zenon
<1> SUFFICES GoodMm(n) /\ (Current(m) => Current(n))
  OBVIOUS
<1> HIDE DEF n
<1>3. MmOK(n) /\ TlbStep(m, n, v, a)
  BY <1>2, Zenon DEF AlignedResult, AccessResult
<1>4. EntriesOK(n)
  BY <1>1, <1>3, StepEntries, Zenon
<1>5. FbMarked(n) /\ m.dirty \subseteq n.dirty
  BY <1>1, <1>3, StepMarked, Zenon
<1>6. Current(m) => Current(n)
  BY <1>1, <1>3, StepCurrent, Zenon
<1>7. n.written \subseteq n.dirty
  <2>1. CASE n.written = m.written
    BY <1>1, <1>5, <2>1, Zenon
  <2>2. CASE /\ a = "w" /\ ~n.fault /\ Kind(n.reached) = "fb"
             /\ n.written = m.written \cup {n.reached}
    <3>1. n.tlb["w"][Idx(v)].v = v /\ n.tlb["w"][Idx(v)].page = n.reached
      BY <1>2, <2>2, Zenon DEF AlignedResult, AccessResult
    <3>2. Idx(v) \in Slots
      BY IdxOK, Zenon
    <3>3. v # -1
      BY SMT DEF VPages
    <3>4. n.reached \in n.dirty
      BY <1>5, <2>2, <3>1, <3>2, <3>3, Zenon DEF FbMarked
    <3> QED
      BY <1>1, <1>5, <2>2, <3>4, Zenon
  <2> QED
    BY <1>2, <2>1, <2>2, Zenon DEF AlignedResult
<1> QED
  BY <1>1, <1>3, <1>4, <1>5, <1>6, <1>7, Zenon DEF GoodMm

\* The invariant is about the page tables, the TLBs and the dirty bits.
LEMMA SameGood ==
  ASSUME NEW m, NEW n, GoodMm(m), Same(m, n)
  PROVE  GoodMm(n) /\ (Current(m) => Current(n))
<1>1. MmOK(n)
  BY Zenon DEF GoodMm, MmOK, Same
<1>2. EntriesOK(n) /\ FbMarked(n) /\ n.written \subseteq n.dirty
  BY Zenon DEF GoodMm, EntriesOK, FbMarked, Same
<1> QED
  BY <1>1, <1>2, Zenon DEF GoodMm, Same, Current

\* A fetch that misses keeps the invariant.
LEMMA SlowGood ==
  ASSUME MmuAssumption, NEW m, GoodMm(m), ~m.is_pim_access,
         NEW v \in VPages, NEW a \in Accesses
  PROVE  GoodMm(Slow(m, v, a)) /\ (Current(m) => Current(Slow(m, v, a)))
<1> DEFINE n == Slow(m, v, a)
<1>1. MmOK(m) /\ EntriesOK(m) /\ FbMarked(m) /\ m.written \subseteq m.dirty
  BY Zenon DEF GoodMm
<1>2. AccessResult(m, n, v, a) /\ n.written = m.written
  BY <1>1, SlowResult, Zenon
<1> SUFFICES GoodMm(n) /\ (Current(m) => Current(n))
  OBVIOUS
<1> HIDE DEF n
<1>3. MmOK(n) /\ TlbStep(m, n, v, a)
  BY <1>2, Zenon DEF AccessResult
<1>4. EntriesOK(n)
  BY <1>1, <1>3, StepEntries, Zenon
<1>5. FbMarked(n) /\ m.dirty \subseteq n.dirty
  BY <1>1, <1>3, StepMarked, Zenon
<1>6. Current(m) => Current(n)
  BY <1>1, <1>3, StepCurrent, Zenon
<1> QED
  BY <1>1, <1>2, <1>3, <1>4, <1>5, <1>6, Zenon DEF GoodMm

\* The two parts of an unaligned access, and the address it leaves.
UnalignedParts(m, n, v, w, a) ==
  \E first, last, x :
    /\ AlignedResult(Reset(m), first, v, a) /\ GoodMm(first)
    /\ AlignedResult(first, last, w, a) /\ GoodMm(last)
    /\ Current(m) => Current(first) /\ Current(last)
    /\ DOMAIN x = MmFields /\ Same(last, x)
    /\ x.fault = last.fault /\ x.is_device_io = last.is_device_io
    /\ x.is_pim_access = last.is_pim_access /\ x.reached = first.reached
    /\ n = IF first.fault THEN first ELSE Charged(x, v, a)

\* An unaligned access is made of two aligned ones.
LEMMA UnalignedLemma ==
  ASSUME MmuAssumption, NEW m, GoodMm(m), NEW v \in VPages, NEW w \in VPages,
         NEW a \in Accesses
  PROVE  UnalignedParts(m, Unaligned(m, v, w, a), v, w, a)
<1> DEFINE r == Reset(m)
           first == Aligned(r, v, a)
           last == Aligned(first, w, a)
           x == [last EXCEPT !.reached = first.reached]
<1>0. Unaligned(m, v, w, a) = IF first.fault THEN first ELSE Charged(x, v, a)
  BY Zenon DEF Unaligned
<1>1. DOMAIN m = MmFields
  BY Zenon DEF GoodMm, MmOK
<1>2. Same(m, r)
  BY <1>1, ResetSame, Zenon
<1>3. GoodMm(r) /\ (Current(m) => Current(r)) /\ MmOK(r)
  BY <1>2, SameGood, Zenon DEF GoodMm
<1>a. r = Reset(m)
  OBVIOUS
<1> HIDE DEF r
<1>4. AlignedResult(r, first, v, a)
  BY <1>3, AlignedLemma, Zenon
<1>5. GoodMm(first) /\ (Current(r) => Current(first))
  BY <1>3, AlignedGood, Zenon
<1> HIDE DEF first
<1>6. MmOK(first)
  BY <1>5, Zenon DEF GoodMm
<1>7. AlignedResult(first, last, w, a)
  BY <1>6, AlignedLemma, Zenon
<1>8. GoodMm(last) /\ (Current(first) => Current(last))
  BY <1>5, AlignedGood, Zenon
<1> HIDE DEF last
<1>9. DOMAIN last = MmFields
  BY <1>8, Zenon DEF GoodMm, MmOK
<1>10. /\ DOMAIN x = MmFields /\ Same(last, x)
       /\ x.fault = last.fault /\ x.is_device_io = last.is_device_io
       /\ x.is_pim_access = last.is_pim_access /\ x.reached = first.reached
  BY <1>9, Zenon DEF MmFields, Same
<1> HIDE DEF x
<1> QED
  BY <1>a, <1>0, <1>3, <1>4, <1>5, <1>7, <1>8, <1>10, Zenon DEF UnalignedParts

\* An unaligned access keeps the invariant.
LEMMA UnalignedGood ==
  ASSUME MmuAssumption, NEW m, GoodMm(m), NEW v \in VPages, NEW w \in VPages,
         NEW a \in Accesses
  PROVE  /\ GoodMm(Unaligned(m, v, w, a))
         /\ Current(m) => Current(Unaligned(m, v, w, a))
<1> DEFINE n == Unaligned(m, v, w, a)
<1>1. UnalignedParts(m, n, v, w, a)
  BY UnalignedLemma, Zenon
<1> SUFFICES GoodMm(n) /\ (Current(m) => Current(n))
  OBVIOUS
<1> HIDE DEF n
<1>a. PICK first, last, x :
        /\ AlignedResult(Reset(m), first, v, a) /\ GoodMm(first)
        /\ AlignedResult(first, last, w, a) /\ GoodMm(last)
        /\ Current(m) => Current(first) /\ Current(last)
        /\ DOMAIN x = MmFields /\ Same(last, x)
        /\ x.fault = last.fault /\ x.is_device_io = last.is_device_io
        /\ x.is_pim_access = last.is_pim_access /\ x.reached = first.reached
        /\ n = IF first.fault THEN first ELSE Charged(x, v, a)
  BY <1>1, Zenon DEF UnalignedParts
<1>2. /\ GoodMm(first) /\ GoodMm(last)
      /\ Current(m) => Current(first) /\ Current(last)
      /\ DOMAIN x = MmFields /\ Same(last, x)
      /\ n = IF first.fault THEN first ELSE Charged(x, v, a)
  BY <1>a, Zenon
<1>3. CASE first.fault
  BY <1>2, <1>3, Zenon
<1>4. CASE ~first.fault
  <2>1. n = Charged(x, v, a)
    BY <1>2, <1>4, Zenon
  <2>2. GoodMm(x) /\ (Current(last) => Current(x))
    BY <1>2, SameGood, Zenon
  <2>3. Same(x, n)
    BY <1>2, <2>1, ChargedSame, Zenon DEF ChargeResult
  <2>4. GoodMm(n) /\ (Current(x) => Current(n))
    BY <2>2, <2>3, SameGood, Zenon
  <2> QED
    BY <1>2, <2>2, <2>4, Zenon
<1> QED
  BY <1>3, <1>4, Zenon

-----------------------------------------------------------------------------
(* The address left to the memory hierarchy *)

\* A page of memory is a number.
LEMMA ReachedNumber ==
  ASSUME MmuAssumption, NEW page, Kind(page) \in InMemory
  PROVE  page \in Nat
  BY Zenon DEF MmuAssumption, Kind, InMemory

\* Without PIM memory, memory is RAM.
LEMMA NoPimKind ==
  ASSUME ~HasPim, NEW page, Kind(page) \in InMemory
  PROVE  Kind(page) \in {"ram", "fb"}
  BY Zenon DEF HasPim, Kind, InMemory

\* The entry of the page reached gives its address.
LEMMA EntryRight ==
  ASSUME MmuAssumption, ~HasPim, NEW n, NEW v \in VPages, NEW a,
         ~n.is_pim_access, ChargedWith(n, v, a),
         ~n.fault /\ Kind(n.reached) \in {"ram", "fb"} =>
           n.tlb[a][Idx(v)].v = v /\ n.tlb[a][Idx(v)].page = n.reached
  PROVE  ChargedRight(n)
<1> SUFFICES ASSUME ~n.fault, ~n.is_device_io, Kind(n.reached) \in InMemory
             PROVE  n.data_guest_paddr = n.reached
  BY Zenon DEF ChargedRight, InMemory
<1>1. Kind(n.reached) \in {"ram", "fb"}
  BY NoPimKind, Zenon
<1>2. n.reached \in Nat
  BY ReachedNumber, Zenon
<1>3. n.data_guest_paddr = n.tlb[a][Idx(v)].page + (v - n.tlb[a][Idx(v)].v)
  BY Zenon DEF ChargedWith
<1>4. n.tlb[a][Idx(v)].v = v /\ n.tlb[a][Idx(v)].page = n.reached
  BY <1>1, Zenon
<1>5. n.data_guest_paddr = n.reached + (v - v)
  BY <1>3, <1>4, Zenon
<1>6. v \in Int
  BY SMT DEF VPages
<1> QED
  BY <1>2, <1>5, <1>6, SMT

\* An aligned access leaves the address it was made to.
LEMMA AlignedCharged ==
  ASSUME MmuAssumption, ~HasPim, NEW m, MmOK(m), NEW v \in VPages, NEW a \in Accesses
  PROVE  ChargedRight(Aligned(m, v, a))
<1> DEFINE n == Aligned(m, v, a)
<1>1. AlignedResult(m, n, v, a)
  BY AlignedLemma, Zenon
<1> SUFFICES ChargedRight(n)
  OBVIOUS
<1> HIDE DEF n
<1>2. /\ ~n.is_pim_access /\ ChargedWith(n, v, a)
      /\ ~n.fault /\ Kind(n.reached) \in {"ram", "fb"} =>
           n.tlb[a][Idx(v)].v = v /\ n.tlb[a][Idx(v)].page = n.reached
  BY <1>1, Zenon DEF AlignedResult, AccessResult
<1> QED
  BY <1>2, EntryRight, Zenon

\* Two neighbouring pages have different entries when the number of entries
\* is even: the mask keeps the bit in which they differ.
LEMMA NeighbourIdx ==
  ASSUME MmuAssumption, EvenTlb, NEW v \in Nat
  PROVE  Idx(v + 1) # Idx(v)
<1>1. \A n \in Nat : 1 \in Bits(n) <=> n % 2 = 1
  <2> SUFFICES ASSUME NEW n \in Nat PROVE 1 \in Bits(n) <=> n % 2 = 1
    OBVIOUS
  <2>1. n \div 1 = n
    BY SMT
  <2>2. 1 \in Powers
    BY SMT DEF Powers
  <2>3. 1 \in Bits(n) <=> (n \div 1) % 2 = 1
    BY <2>2, Zenon DEF Bits
  <2> QED
    BY <2>1, <2>3, Zenon
<1>2. TlbSize - 1 \in Nat /\ (TlbSize - 1) % 2 = 1
  BY SMT DEF MmuAssumption, EvenTlb
<1>3. 1 \in Bits(TlbSize - 1)
  BY <1>1, <1>2, Zenon
<1>4. v + 1 \in Nat /\ ~((v + 1) % 2 = 1 <=> v % 2 = 1)
  BY SMT
<1>5. ~(1 \in Bits(v + 1) <=> 1 \in Bits(v))
  BY <1>1, <1>4, Zenon
<1> QED
  BY <1>3, <1>5, Zenon DEF Idx

\* So does an unaligned one: its second part does not evict the entry of the first.
LEMMA UnalignedCharged ==
  ASSUME MmuAssumption, EvenTlb, ~HasPim, NEW m, GoodMm(m),
         NEW v \in VPages, NEW w \in VPages, w \in {v, v + 1}, NEW a \in Accesses
  PROVE  ChargedRight(Unaligned(m, v, w, a))
<1> DEFINE n == Unaligned(m, v, w, a)
<1>1. UnalignedParts(m, n, v, w, a)
  BY UnalignedLemma, Zenon
<1> SUFFICES ChargedRight(n)
  OBVIOUS
<1> HIDE DEF n
<1>2. PICK first, last, x :
        /\ AlignedResult(Reset(m), first, v, a) /\ AlignedResult(first, last, w, a)
        /\ DOMAIN x = MmFields /\ Same(last, x)
        /\ x.fault = last.fault /\ x.is_device_io = last.is_device_io
        /\ x.is_pim_access = last.is_pim_access /\ x.reached = first.reached
        /\ n = IF first.fault THEN first ELSE Charged(x, v, a)
  BY <1>1, Zenon DEF UnalignedParts
<1>3. CASE first.fault
  BY <1>2, <1>3, Zenon DEF ChargedRight
<1>4. CASE ~first.fault
  <2>1. n = Charged(x, v, a)
    BY <1>2, <1>4, Zenon
  <2>2. ChargeResult(x, n, v, a)
    BY <1>2, <2>1, ChargedSame, Zenon
  <2>3. n.tlb = last.tlb /\ n.reached = first.reached
    BY <1>2, <2>2, Zenon DEF ChargeResult, Same
  <2>4. ~last.is_pim_access
    BY <1>2, Zenon DEF AlignedResult, AccessResult
  <2>5. ~n.is_pim_access
    BY <1>2, <2>2, <2>4, Zenon DEF ChargeResult
  <2>6. ChargedWith(n, v, a)
    BY <2>2, Zenon DEF ChargeResult, ChargedWith, Same
  <2>7. ASSUME Kind(first.reached) \in {"ram", "fb"}
        PROVE  last.tlb[a][Idx(v)].v = v /\ last.tlb[a][Idx(v)].page = first.reached
    <3>1. first.tlb[a][Idx(v)].v = v /\ first.tlb[a][Idx(v)].page = first.reached
      BY <1>2, <1>4, <2>7, Zenon DEF AlignedResult, AccessResult
    <3>2. CASE last.tlb = first.tlb
      BY <3>1, <3>2, Zenon
    <3>3. CASE last.tlb # first.tlb
      <4>1. w # v
        BY <1>2, <3>1, <3>3, Zenon DEF AlignedResult
      <4>2. w = v + 1 /\ v \in Nat
        BY <4>1, SMT DEF VPages
      <4>3. Idx(w) # Idx(v)
        BY <4>2, NeighbourIdx, Zenon
      <4>4. TlbStep(first, last, w, a)
        BY <1>2, Zenon DEF AlignedResult, AccessResult
      <4>5. PICK page : FilledWith(first, last, w, a, page)
        BY <3>3, <4>4, Zenon DEF TlbStep
      <4>6. Idx(v) \in Slots
        BY IdxOK, Zenon
      <4>7. last.tlb[a][Idx(v)] = first.tlb[a][Idx(v)]
        BY <4>3, <4>5, <4>6, Zenon DEF FilledWith
      <4> QED
        BY <3>1, <4>7, Zenon
    <3> QED
      BY <3>2, <3>3, Zenon
  <2>8. ~n.fault /\ Kind(n.reached) \in {"ram", "fb"} =>
          n.tlb[a][Idx(v)].v = v /\ n.tlb[a][Idx(v)].page = n.reached
    BY <2>3, <2>7, Zenon
  <2> QED
    BY <2>5, <2>6, <2>8, EntryRight, Zenon
<1> QED
  BY <1>3, <1>4, Zenon

-----------------------------------------------------------------------------
(* The other changes of the memory *)

\* tlb_init: no entry is valid.
LEMMA InitGood ==
  ASSUME MmuAssumption
  PROVE  GoodMm(MmInit) /\ MmInit.is_pim_access = FALSE
         /\ TlbOK(MmInit.tlb) /\ \A a \in Accesses, i \in Slots : MmInit.tlb[a][i].v = -1
<1> DEFINE m == MmInit
<1>1. /\ DOMAIN m = MmFields /\ m.pt = Tables
      /\ m.tlb = [a \in Accesses |-> [i \in Slots |-> Invalid]]
      /\ m.is_pim_access = FALSE /\ m.dirty = {} /\ m.written = {}
  BY SMT DEF MmInit, MmFields
<1>2. Invalid.v = -1
  BY SMT DEF Invalid
<1> HIDE DEF m
<1>3. TlbOK(m.tlb) /\ \A a \in Accesses, i \in Slots : m.tlb[a][i] = Invalid
  <2>1. DOMAIN m.tlb = Accesses /\ \A a \in Accesses : m.tlb[a] = [i \in Slots |-> Invalid]
    BY <1>1, Zenon
  <2>2. \A a \in Accesses : DOMAIN m.tlb[a] = Slots /\ \A i \in Slots : m.tlb[a][i] = Invalid
    BY <2>1, Zenon
  <2> QED
    BY <2>1, <2>2, Zenon DEF TlbOK
<1>4. \A a \in Accesses, i \in Slots : m.tlb[a][i].v = -1
  BY <1>2, <1>3, Zenon
<1>5. MmOK(m)
  BY <1>1, <1>3, Zenon DEF MmOK, MmuAssumption
<1>6. EntriesOK(m)
  BY <1>4, Zenon DEF EntriesOK
<1>7. FbMarked(m)
  BY <1>4, Zenon DEF FbMarked, Accesses
<1> QED
  BY <1>1, <1>3, <1>4, <1>5, <1>6, <1>7, Zenon DEF GoodMm, m

\* tlb_flush_all: no entry is valid.
LEMMA FlushedGood ==
  ASSUME MmuAssumption, NEW m, GoodMm(m)
  PROVE  /\ GoodMm(Flushed(m)) /\ Flushed(m).is_pim_access = m.is_pim_access
         /\ \A a \in Accesses, i \in Slots : Flushed(m).tlb[a][i].v = -1
<1> DEFINE n == Flushed(m)
           tlb == MmInit.tlb
<1>1. TlbOK(tlb) /\ \A a \in Accesses, i \in Slots : tlb[a][i].v = -1
  BY InitGood, Zenon
<1>2. n = [m EXCEPT !.tlb = tlb]
  BY Zenon DEF Flushed
<1>3. DOMAIN m = MmFields /\ PtOK(m.pt) /\ m.written \subseteq m.dirty
  BY Zenon DEF GoodMm, MmOK
<1> SUFFICES /\ GoodMm(n) /\ n.is_pim_access = m.is_pim_access
             /\ \A a \in Accesses, i \in Slots : n.tlb[a][i].v = -1
  OBVIOUS
<1> HIDE DEF n, tlb
<1>4. /\ DOMAIN n = MmFields /\ n.tlb = tlb /\ n.pt = m.pt /\ n.dirty = m.dirty
      /\ n.written = m.written /\ n.is_pim_access = m.is_pim_access
  BY <1>2, <1>3, Zenon DEF MmFields
<1>5. \A a \in Accesses, i \in Slots : n.tlb[a][i].v = -1
  BY <1>1, <1>4, Zenon
<1>6. MmOK(n)
  BY <1>1, <1>3, <1>4, Zenon DEF MmOK
<1>7. EntriesOK(n)
  BY <1>5, Zenon DEF EntriesOK
<1>8. FbMarked(n)
  BY <1>5, Zenon DEF FbMarked, Accesses
<1> QED
  BY <1>3, <1>4, <1>5, <1>6, <1>7, <1>8, Zenon DEF GoodMm

Edited(m, t, i, pte) == [m EXCEPT !.pt[t][i] = pte]

\* The guest changes an entry of a page table.
LEMMA EditGood ==
  ASSUME MmuAssumption, NEW m, GoodMm(m), NEW t \in DOMAIN Tables, NEW i \in 0 .. Fan - 1,
         NEW pte, PteOK(pte)
  PROVE  /\ GoodMm(Edited(m, t, i, pte))
         /\ Edited(m, t, i, pte).is_pim_access = m.is_pim_access
<1> DEFINE n == Edited(m, t, i, pte)
           row == [m.pt[t] EXCEPT ![i] = pte]
           pt == [m.pt EXCEPT ![t] = row]
<1>1. n = [m EXCEPT !.pt = pt]
  BY Zenon DEF Edited
<1>2. DOMAIN m = MmFields /\ PtOK(m.pt) /\ TlbOK(m.tlb)
  BY Zenon DEF GoodMm, MmOK
<1>3. m.pt \in [DOMAIN Tables -> [0 .. Fan - 1 -> Pte]] /\ pte \in Pte
  BY <1>2, Zenon DEF PtOK, PteOK
<1>4. m.pt[t] \in [0 .. Fan - 1 -> Pte]
  BY <1>3, Zenon
<1>5. /\ row \in [0 .. Fan - 1 -> Pte] /\ row[i] = pte
      /\ \A j \in 0 .. Fan - 1 : j # i => row[j] = m.pt[t][j]
  BY <1>3, <1>4, Zenon
<1> HIDE DEF row
<1>6. /\ pt \in [DOMAIN Tables -> [0 .. Fan - 1 -> Pte]] /\ pt[t] = row
      /\ \A s \in DOMAIN Tables : s # t => pt[s] = m.pt[s]
  BY <1>3, <1>5, Zenon
<1> HIDE DEF pt
<1>7. \A s \in DOMAIN Tables, j \in 0 .. Fan - 1 : PteOK(pt[s][j])
  BY <1>2, <1>5, <1>6, Zenon DEF PtOK
<1>8. PtOK(pt)
  BY <1>6, <1>7, Zenon DEF PtOK
<1> SUFFICES GoodMm(n) /\ n.is_pim_access = m.is_pim_access
  OBVIOUS
<1> HIDE DEF n
<1>9. /\ DOMAIN n = MmFields /\ n.pt = pt /\ n.tlb = m.tlb /\ n.dirty = m.dirty
      /\ n.written = m.written /\ n.is_pim_access = m.is_pim_access
  BY <1>1, <1>2, Zenon DEF MmFields
<1>10. MmOK(n)
  BY <1>2, <1>8, <1>9, Zenon DEF MmOK
<1>11. EntriesOK(n) /\ FbMarked(n) /\ n.written \subseteq n.dirty
  BY <1>9, Zenon DEF EntriesOK, FbMarked, GoodMm
<1> QED
  BY <1>9, <1>10, <1>11, Zenon DEF GoodMm

\* The refresh clears the dirty bits, and the write TLB of what had them.
LEMMA RefreshGood ==
  ASSUME MmuAssumption, NEW m, GoodMm(m)
  PROVE  /\ GoodMm(GetDirtyBits(m)) /\ (Current(m) => Current(GetDirtyBits(m)))
         /\ GetDirtyBits(m).is_pim_access = m.is_pim_access
<1> DEFINE n == GetDirtyBits(m)
           f == IF m.dirty = {} THEN m ELSE flush_tlb_write_range_ram(m)
<1>1. n = [f EXCEPT !.dirty = {}, !.written = f.written \ m.dirty]
  BY Zenon DEF GetDirtyBits
<1>2. /\ DOMAIN m = MmFields /\ PtOK(m.pt) /\ TlbOK(m.tlb) /\ EntriesOK(m) /\ FbMarked(m)
      /\ m.written \subseteq m.dirty
  BY Zenon DEF GoodMm, MmOK
<1>3. Invalid.v = -1
  BY SMT DEF Invalid
<1>4. /\ DOMAIN f = MmFields /\ f.pt = m.pt /\ f.written = m.written
      /\ f.is_pim_access = m.is_pim_access /\ TlbOK(f.tlb)
      /\ \A a \in Accesses, i \in Slots : f.tlb[a][i] = m.tlb[a][i] \/ f.tlb[a][i].v = -1
      /\ \A i \in Slots : ~(f.tlb["w"][i].v # -1 /\ Kind(f.tlb["w"][i].page) = "fb")
  <2>1. CASE m.dirty = {}
    <3>1. f = m
      BY <2>1, Zenon
    <3>2. \A i \in Slots : ~(m.tlb["w"][i].v # -1 /\ Kind(m.tlb["w"][i].page) = "fb")
      BY <1>2, <2>1, Zenon DEF FbMarked
    <3> HIDE DEF f
    <3> QED
      BY <1>2, <3>1, <3>2, Zenon
  <2>2. CASE m.dirty # {}
    <3> DEFINE row == [i \in DOMAIN m.tlb["w"] |->
                         IF m.tlb["w"][i].v # -1 /\ Kind(m.tlb["w"][i].page) = "fb"
                         THEN Invalid ELSE m.tlb["w"][i]]
               tlb == [m.tlb EXCEPT !["w"] = row]
    <3>1. f = [m EXCEPT !.tlb = tlb]
      BY <2>2, Zenon DEF flush_tlb_write_range_ram
    <3>2. "w" \in Accesses /\ DOMAIN m.tlb = Accesses /\ DOMAIN m.tlb["w"] = Slots
           /\ \A a \in Accesses : DOMAIN m.tlb[a] = Slots
      BY <1>2, Zenon DEF TlbOK, Accesses
    <3>3. DOMAIN row = Slots
      BY <3>2, Zenon
    <3>4. \A i \in Slots :
            /\ row[i] = m.tlb["w"][i] \/ row[i].v = -1
            /\ ~(row[i].v # -1 /\ Kind(row[i].page) = "fb")
      <4> SUFFICES ASSUME NEW i \in Slots
                   PROVE  /\ row[i] = m.tlb["w"][i] \/ row[i].v = -1
                          /\ ~(row[i].v # -1 /\ Kind(row[i].page) = "fb")
        OBVIOUS
      <4>1. row[i] = IF m.tlb["w"][i].v # -1 /\ Kind(m.tlb["w"][i].page) = "fb"
                     THEN Invalid ELSE m.tlb["w"][i]
        BY <3>2, Zenon
      <4> HIDE DEF row
      <4> QED
        BY <1>3, <4>1, Zenon
    <3> HIDE DEF row, f
    <3>5. /\ DOMAIN tlb = Accesses /\ tlb["w"] = row
          /\ \A a \in Accesses : a # "w" => tlb[a] = m.tlb[a]
      BY <3>2, Zenon
    <3> HIDE DEF tlb
    <3>6. /\ DOMAIN f = MmFields /\ f.pt = m.pt /\ f.written = m.written
          /\ f.is_pim_access = m.is_pim_access /\ f.tlb = tlb
      BY <1>2, <3>1, Zenon DEF MmFields
    <3>7. TlbOK(f.tlb)
      BY <3>2, <3>3, <3>5, <3>6, Zenon DEF TlbOK
    <3>8. \A a \in Accesses, i \in Slots : tlb[a][i] = m.tlb[a][i] \/ tlb[a][i].v = -1
      BY <3>4, <3>5, Zenon
    <3>9. \A i \in Slots : ~(tlb["w"][i].v # -1 /\ Kind(tlb["w"][i].page) = "fb")
      BY <3>4, <3>5, Zenon
    <3> QED
      BY <3>6, <3>7, <3>8, <3>9, Zenon
  <2> QED
    BY <2>1, <2>2, Zenon
<1> SUFFICES GoodMm(n) /\ (Current(m) => Current(n)) /\ n.is_pim_access = m.is_pim_access
  OBVIOUS
<1> HIDE DEF n, f
<1>5. /\ DOMAIN n = MmFields /\ n.pt = m.pt /\ n.tlb = f.tlb /\ n.dirty = {}
      /\ n.written = f.written \ m.dirty /\ n.is_pim_access = m.is_pim_access
  BY <1>1, <1>4, Zenon DEF MmFields
<1>6. n.written \subseteq n.dirty
  BY <1>2, <1>4, <1>5, Zenon
<1>7. MmOK(n)
  BY <1>2, <1>4, <1>5, Zenon DEF MmOK
<1>8. EntriesOK(n)
  <2> SUFFICES ASSUME NEW a \in Accesses, NEW i \in Slots, n.tlb[a][i].v # -1
               PROVE  n.tlb[a][i].v \in VPages /\ Kind(n.tlb[a][i].page) \in InMemory
    BY Zenon DEF EntriesOK
  <2>1. n.tlb[a][i] = m.tlb[a][i]
    BY <1>4, <1>5, Zenon
  <2> QED
    BY <1>2, <2>1, Zenon DEF EntriesOK
<1>9. FbMarked(n)
  BY <1>4, <1>5, Zenon DEF FbMarked
<1>10. Current(m) => Current(n)
  <2> SUFFICES ASSUME Current(m), NEW a \in Accesses, NEW i \in Slots, n.tlb[a][i].v # -1
               PROVE  Agrees(n.pt, n.tlb[a][i].v, a, n.tlb[a][i].page)
    BY Zenon DEF Current
  <2>1. n.tlb[a][i] = m.tlb[a][i]
    BY <1>4, <1>5, Zenon
  <2>2. Agrees(m.pt, m.tlb[a][i].v, a, m.tlb[a][i].page)
    BY <2>1, Zenon DEF Current
  <2> QED
    BY <1>5, <2>1, <2>2, Zenon
<1> QED
  BY <1>5, <1>6, <1>7, <1>8, <1>9, <1>10, Zenon DEF GoodMm

\* A device writes to the frame buffer.
LEMMA DeviceWriteGood ==
  ASSUME MmuAssumption, NEW m, GoodMm(m), NEW page
  PROVE  LET n == Settled(Stored(Touched([m EXCEPT !.reached = page], "w", page), "w"))
         IN  GoodMm(n) /\ ~n.is_pim_access /\ (Current(m) => Current(n))
<1> DEFINE r == [m EXCEPT !.reached = page]
           t == Touched(r, "w", page)
           k == Stored(t, "w")
           n == Settled(k)
<1>1. DOMAIN m = MmFields
  BY Zenon DEF GoodMm, MmOK
<1>2. Same(m, r) /\ r.reached = page
  BY <1>1, Zenon DEF MmFields, Same
<1>3. GoodMm(r) /\ (Current(m) => Current(r))
  BY <1>2, SameGood, Zenon
<1> HIDE DEF r
<1>4. /\ DOMAIN t = MmFields /\ t.pt = r.pt /\ t.tlb = r.tlb /\ t.written = r.written
      /\ t.reached = page /\ r.dirty \subseteq t.dirty
      /\ Kind(page) = "fb" => page \in t.dirty
  BY <1>2, Zenon DEF Same, Touched, MmFields
<1> HIDE DEF t
<1>5. /\ Finishes(t, k)
      /\ \/ k.written = t.written
         \/ Kind(t.reached) = "fb" /\ k.written = t.written \cup {t.reached}
  BY <1>4, StoredFields, Zenon
<1> HIDE DEF k
<1>6. /\ DOMAIN k = MmFields /\ k.pt = r.pt /\ k.tlb = r.tlb /\ r.dirty \subseteq k.dirty
      /\ k.written \subseteq k.dirty
  <2>1. DOMAIN k = MmFields /\ k.pt = t.pt /\ k.tlb = t.tlb /\ k.dirty = t.dirty
    BY <1>5, Zenon DEF Finishes
  <2>2. r.written \subseteq r.dirty
    BY <1>3, Zenon DEF GoodMm
  <2> QED
    BY <1>4, <1>5, <2>1, <2>2, Zenon
<1>7. GoodMm(k)
  <2>1. MmOK(k)
    BY <1>3, <1>6, Zenon DEF GoodMm, MmOK
  <2>2. EntriesOK(k) /\ FbMarked(k)
    BY <1>3, <1>6, Zenon DEF GoodMm, EntriesOK, FbMarked
  <2> QED
    BY <1>6, <2>1, <2>2, Zenon DEF GoodMm
<1>8. Current(r) => Current(k)
  BY <1>6, Zenon DEF Current
<1>9. Same(k, n) /\ ~n.is_pim_access
  BY <1>6, SettledSame, Zenon
<1> HIDE DEF n
<1>10. GoodMm(n) /\ (Current(k) => Current(n))
  BY <1>7, <1>9, SameGood, Zenon
<1> QED
  BY <1>3, <1>8, <1>9, <1>10, Zenon DEF n, k, t, r

-----------------------------------------------------------------------------
(* Every step keeps the memory good *)

MmuInv == GoodMm(mm) /\ ~mm.is_pim_access

\* Reading what an access left behind keeps the invariant.
LEMMA SettledGood ==
  ASSUME NEW m, GoodMm(m)
  PROVE  /\ GoodMm(Settled(m)) /\ ~Settled(m).is_pim_access
         /\ Current(m) => Current(Settled(m))
<1>1. DOMAIN m = MmFields
  BY Zenon DEF GoodMm, MmOK
<1>2. Same(m, Settled(m)) /\ ~Settled(m).is_pim_access
  BY <1>1, SettledSame, Zenon
<1> QED
  BY <1>2, SameGood, Zenon

\* The result of a load or a store.
LEMMA AccessGood ==
  ASSUME MmuAssumption, GoodMm(mm), NEW v \in VPages, NEW w \in VPages,
         NEW a \in {"r", "w"}, Access(v, w, a)
  PROVE  \E m : /\ GoodMm(m) /\ (Current(mm) => Current(m))
                /\ mm' = Settled(m) /\ charged' = ChargedRight(m)
                /\ ~HasPim /\ EvenTlb => ChargedRight(m)
<1>0. a \in Accesses /\ MmOK(mm) /\ w \in {v, v + 1}
  BY Zenon DEF Accesses, GoodMm, Access
<1>1. PICK m : /\ m = Unaligned(mm, v, w, a) \/ m = Aligned(mm, v, a)
               /\ mm' = Settled(m) /\ charged' = ChargedRight(m)
  BY Zenon DEF Access
<1>2. CASE m = Unaligned(mm, v, w, a)
  <2>1. GoodMm(m) /\ (Current(mm) => Current(m))
    BY <1>0, <1>2, UnalignedGood, Zenon
  <2>2. ~HasPim /\ EvenTlb => ChargedRight(m)
    BY <1>0, <1>2, UnalignedCharged, Zenon
  <2> QED
    BY <1>1, <2>1, <2>2, Zenon
<1>3. CASE m = Aligned(mm, v, a)
  <2>1. GoodMm(m) /\ (Current(mm) => Current(m))
    BY <1>0, <1>3, AlignedGood, Zenon
  <2>2. ~HasPim => ChargedRight(m)
    BY <1>0, <1>3, AlignedCharged, Zenon
  <2> QED
    BY <1>1, <2>1, <2>2, Zenon
<1> QED
  BY <1>1, <1>2, <1>3, Zenon

\* Steps that leave the configuration of the MMU alone.
AccessStep ==
  \/ \E v, w \in VPages, access \in {"r", "w"} : Access(v, w, access)
  \/ \E v \in VPages : Fetch(v)
  \/ Refresh
  \/ \E page \in DOMAIN MemMap : phys_mem_get_ram_ptr(page)
  \/ UNCHANGED vars

\* Loads, stores, fetches, refreshes and device writes keep the invariant, and the
\* entries current.
LEMMA AccessStepGood ==
  ASSUME MmuAssumption, MmuInv, AccessStep
  PROVE  /\ GoodMm(mm') /\ ~mm'.is_pim_access /\ (Current(mm) => Current(mm'))
         /\ UNCHANGED <<priv, mstatus, satp, edited>>
<1>0. GoodMm(mm) /\ ~mm.is_pim_access
  BY Zenon DEF MmuInv
<1>1. ASSUME NEW v \in VPages, NEW w \in VPages, NEW a \in {"r", "w"}, Access(v, w, a)
      PROVE  GoodMm(mm') /\ ~mm'.is_pim_access /\ (Current(mm) => Current(mm'))
  <2>1. PICK m : GoodMm(m) /\ (Current(mm) => Current(m)) /\ mm' = Settled(m)
    BY <1>0, <1>1, AccessGood, Zenon
  <2> QED
    BY <2>1, SettledGood, Zenon
<1>2. ASSUME NEW v \in VPages, Fetch(v)
      PROVE  GoodMm(mm') /\ ~mm'.is_pim_access /\ (Current(mm) => Current(mm'))
  <2>0. "x" \in Accesses
    BY Zenon DEF Accesses
  <2>1. CASE mm' = mm
    BY <1>0, <2>1, Zenon
  <2>2. CASE mm' = Settled(Slow(mm, v, "x"))
    <3>1. GoodMm(Slow(mm, v, "x")) /\ (Current(mm) => Current(Slow(mm, v, "x")))
      BY <1>0, <2>0, SlowGood, Zenon
    <3> QED
      BY <2>2, <3>1, SettledGood, Zenon
  <2> QED
    BY <1>2, <2>1, <2>2, Zenon DEF Fetch
<1>3. CASE Refresh
  <2>1. mm' = GetDirtyBits(mm)
    BY <1>3, Zenon DEF Refresh
  <2>2. /\ GoodMm(GetDirtyBits(mm)) /\ (Current(mm) => Current(GetDirtyBits(mm)))
        /\ GetDirtyBits(mm).is_pim_access = mm.is_pim_access
    BY <1>0, RefreshGood, Zenon
  <2>3. UNCHANGED <<priv, mstatus, satp, edited>>
    BY <1>3, Zenon DEF Refresh
  <2> QED
    BY <1>0, <2>1, <2>2, <2>3, Zenon
<1>4. ASSUME NEW page \in DOMAIN MemMap, phys_mem_get_ram_ptr(page)
      PROVE  GoodMm(mm') /\ ~mm'.is_pim_access /\ (Current(mm) => Current(mm'))
  <2> DEFINE k == Stored(Touched([mm EXCEPT !.reached = page], "w", page), "w")
  <2>1. mm' = Settled(k)
    BY <1>4, Zenon DEF phys_mem_get_ram_ptr
  <2>2. GoodMm(Settled(k)) /\ ~Settled(k).is_pim_access /\ (Current(mm) => Current(Settled(k)))
    BY <1>0, DeviceWriteGood, Zenon
  <2> HIDE DEF k
  <2> QED
    BY <2>1, <2>2, Zenon
<1>5. CASE UNCHANGED vars
  BY <1>0, <1>5, Zenon DEF vars
<1>6. UNCHANGED <<priv, mstatus, satp, edited>>
  BY Zenon DEF AccessStep, Access, Fetch, Refresh, phys_mem_get_ram_ptr, vars
<1> QED
  BY <1>1, <1>2, <1>3, <1>4, <1>5, <1>6, Zenon DEF AccessStep

-----------------------------------------------------------------------------
(* What changes the configuration of the MMU flushes the TLBs *)

\* The configuration that get_phys_addr reads, as long as MPRV is not used.
ConfigKept ==
  /\ priv' = priv /\ satp' = satp
  /\ "MPRV" \notin mstatus /\ "MPRV" \notin mstatus'
  /\ "SUM" \in mstatus' <=> "SUM" \in mstatus
  /\ "MXR" \in mstatus' <=> "MXR" \in mstatus

\* Entries stay current while the configuration is kept.
LEMMA CurrentKept ==
  ASSUME ConfigKept, Current(mm')
  PROVE  Current(mm)'
<1>1. \A pte, p, a : Permits(pte, p, a)' <=> Permits(pte, p, a)
  BY Zenon DEF ConfigKept, Permits
<1>2. \A a : EffectivePriv(a)' = EffectivePriv(a)
  BY Zenon DEF ConfigKept, EffectivePriv
<1>3. \A pt, v, a, p : Walk(pt, v, a, p)' = Walk(pt, v, a, p)
  <2> SUFFICES ASSUME NEW pt, NEW v, NEW a, NEW p
               PROVE  Walk(pt, v, a, p)' = Walk(pt, v, a, p)
    BY Zenon
  <2> DEFINE l == LastLevel(pt, v)
             t == TableAt(pt, v, l)
             i == Index(v, l)
             pte == pt[t][i]
             leaf == [fault |-> FALSE, page |-> Mapped(pte, v, l),
                       pt |-> [pt EXCEPT ![t][i].ad = @ \cup Marks(a)]]
  <2>1. Walk(pt, v, a, p) =
          IF ~pte.v \/ pte.xwr = {} \/ ~Permits(pte, p, a) THEN NoPage(pt) ELSE leaf
    BY DEF Walk
  <2>2. Walk(pt, v, a, p)' =
          IF ~pte.v \/ pte.xwr = {} \/ ~Permits(pte, p, a)' THEN NoPage(pt) ELSE leaf
    BY DEF Walk
  <2>3. Permits(pte, p, a)' <=> Permits(pte, p, a)
    BY <1>1, Zenon
  <2> HIDE DEF pte, leaf
  <2> QED
    BY <2>1, <2>2, <2>3, Zenon
<1>4. \A pt, v, a : get_phys_addr(pt, v, a)' = get_phys_addr(pt, v, a)
  BY <1>2, <1>3, Zenon DEF get_phys_addr, ConfigKept
<1> QED
  BY <1>4, Zenon DEF Current, Agrees

\* GoodMm reads no variable but its argument.
LEMMA GoodPrime == GoodMm(mm') => GoodMm(mm)'
  BY Zenon DEF GoodMm

\* After a flush every entry is current, as none is valid.
LEMMA FlushedCurrent ==
  ASSUME MmuAssumption, GoodMm(mm), mm' = Flushed(mm)
  PROVE  GoodMm(mm') /\ (~mm.is_pim_access => ~mm'.is_pim_access) /\ Current(mm)'
<1>1. /\ GoodMm(Flushed(mm)) /\ Flushed(mm).is_pim_access = mm.is_pim_access
      /\ \A a \in Accesses, i \in Slots : Flushed(mm).tlb[a][i].v = -1
  BY FlushedGood, Zenon
<1>2. \A a \in Accesses, i \in Slots : mm'.tlb[a][i].v = -1
  BY <1>1, Zenon
<1>3. Current(mm)'
  BY <1>2, Zenon DEF Current
<1> QED
  BY <1>1, <1>3, Zenon

\* A trap and a return leave SUM and MXR alone.
Keeps(ms, new) == \A b \in {"SUM", "MXR", "MPRV"} : b \in new <=> b \in ms

\* raise_exception2 leaves SUM, MXR and MPRV alone.
LEMMA TrapKeeps ==
  ASSUME NEW ms, NEW p, NEW deleg
  PROVE  Keeps(ms, TrapMstatus(ms, p, deleg))
<1>1. IE(p) \in {"UIE", "SIE", "MIE"}
  BY Zenon DEF IE
<1>2. MppBits(p) \subseteq {"MPP0", "MPP1"}
  BY Zenon DEF MppBits, OnlyIf
<1> QED
  BY <1>1, <1>2, SMT DEF Keeps, TrapMstatus, OnlyIf

\* handle_sret and handle_mret leave SUM, MXR and MPRV alone.
LEMMA ReturnKeeps ==
  ASSUME NEW ms
  PROVE  Keeps(ms, SretMstatus(ms)) /\ Keeps(ms, MretMstatus(ms))
<1>1. IE(Spp(ms)) \in {"UIE", "SIE", "MIE"} /\ IE(Mpp(ms)) \in {"UIE", "SIE", "MIE"}
  BY Zenon DEF IE
<1> QED
  BY <1>1, SMT DEF Keeps, SretMstatus, MretMstatus, OnlyIf

TransInv ==
  MmuInv /\ mstatus \subseteq MstatusBits /\ (~edited => Current(mm))

NoMprv == "MPRV" \notin MstatusBits

\* A step of the configuration flushes the TLBs, or changes nothing they depend on.
ConfigStep ==
  \/ mm' = Flushed(mm)
  \/ mm' = mm /\ (edited' <=> edited) /\ priv' = priv /\ satp' = satp /\ Keeps(mstatus, mstatus')

\* Such a step keeps the entries current.
LEMMA ConfigStepKeeps ==
  ASSUME MmuAssumption, NoMprv, TransInv, ConfigStep, mstatus' \subseteq MstatusBits
  PROVE  TransInv'
<1>0. GoodMm(mm) /\ ~mm.is_pim_access /\ mstatus \subseteq MstatusBits /\ (~edited => Current(mm))
  BY Zenon DEF TransInv, MmuInv
<1>1. CASE mm' = Flushed(mm)
  <2>1. GoodMm(mm') /\ ~mm'.is_pim_access /\ Current(mm)'
    BY <1>0, <1>1, FlushedCurrent, Zenon
  <2>2. GoodMm(mm)'
    BY <2>1, GoodPrime, Zenon
  <2> QED
    BY <2>1, <2>2, Zenon DEF TransInv, MmuInv
<1>2. CASE mm' = mm /\ (edited' <=> edited) /\ priv' = priv /\ satp' = satp
           /\ Keeps(mstatus, mstatus')
  <2>1. ConfigKept
    BY <1>0, <1>2, Zenon DEF ConfigKept, Keeps, NoMprv
  <2>2. ~edited' => Current(mm)'
    BY <1>0, <1>2, <2>1, CurrentKept, Zenon
  <2>3. GoodMm(mm)' /\ ~mm'.is_pim_access
    BY <1>0, <1>2, GoodPrime, Zenon
  <2> QED
    BY <2>2, <2>3, Zenon DEF TransInv, MmuInv
<1> QED
  BY <1>1, <1>2, Zenon DEF ConfigStep

\* set_mstatus flushes when SUM, MXR or MPRV change.
LEMMA StatusStep ==
  ASSUME mstatus \subseteq MstatusBits, NEW val \in SUBSET MstatusBits, WriteStatus(val)
  PROVE  ConfigStep /\ mstatus' \subseteq MstatusBits
<1> DEFINE new == IF priv = PRV_M THEN val ELSE Masked(mstatus, val, SSTATUS_MASK)
           flush == MstatusFlushes(mstatus, new)
<1>1. /\ mstatus' = set_mstatus(mstatus, new)
      /\ mm' = (IF flush THEN Flushed(mm) ELSE mm)
      /\ edited' = (edited /\ ~flush)
      /\ priv' = priv /\ satp' = satp
  BY Zenon DEF WriteStatus
<1>2. new \subseteq MstatusBits
  BY Zenon DEF Masked
<1> HIDE DEF new
<1>3. mstatus' \subseteq MstatusBits
  BY <1>1, <1>2, Zenon DEF set_mstatus, Masked
<1>4. CASE flush
  BY <1>1, <1>3, <1>4, Zenon DEF ConfigStep
<1>5. CASE ~flush
  <2>1. \A b \in {"SUM", "MXR", "MPRV"} : b \in new <=> b \in mstatus
    BY <1>5, Zenon DEF MstatusFlushes, Differ
  <2>2. {"SUM", "MXR", "MPRV"} \subseteq MSTATUS_MASK
    BY Zenon DEF MSTATUS_MASK, SSTATUS_MASK
  <2>3. Keeps(mstatus, mstatus')
    BY <1>1, <2>1, <2>2, Zenon DEF Keeps, set_mstatus, Masked
  <2>4. mm' = mm /\ (edited' <=> edited)
    BY <1>1, <1>5, Zenon
  <2> QED
    BY <1>1, <1>3, <2>3, <2>4, Zenon DEF ConfigStep
<1> QED
  BY <1>4, <1>5, Zenon

\* set_priv, with the mstatus of a trap or of a return.
LEMMA PrivStep ==
  ASSUME mstatus \subseteq MstatusBits, NEW new, Keeps(mstatus, new),
         mstatus' = new \cap MstatusBits, satp' = satp, NEW p, SetPriv(p)
  PROVE  ConfigStep /\ mstatus' \subseteq MstatusBits
<1>1. Keeps(mstatus, mstatus') /\ mstatus' \subseteq MstatusBits
  BY Zenon DEF Keeps
<1>2. CASE priv # p
  BY <1>1, <1>2, Zenon DEF SetPriv, ConfigStep
<1>3. CASE priv = p
  BY <1>1, <1>3, Zenon DEF SetPriv, ConfigStep
<1> QED
  BY <1>2, <1>3, Zenon

\* EditPte keeps the invariant of the TLBs, if not the entries current.
LEMMA EditStep ==
  ASSUME MmuAssumption, GoodMm(mm), NEW e \in Edits, EditPte(e[1], e[2], e[3])
  PROVE  GoodMm(mm') /\ (~mm.is_pim_access => ~mm'.is_pim_access)
<1> DEFINE n == Edited(mm, e[1], e[2], e[3])
<1>1. e[1] \in DOMAIN Tables /\ e[2] \in 0 .. Fan - 1 /\ PteOK(e[3])
  BY Zenon DEF MmuAssumption
<1>2. mm' = n
  BY Zenon DEF EditPte, Edited
<1>3. GoodMm(n) /\ n.is_pim_access = mm.is_pim_access
  BY <1>1, EditGood, Zenon
<1> HIDE DEF n
<1> QED
  BY <1>2, <1>3, Zenon

\* The steps of Next.
LEMMA StepKinds ==
  ASSUME [Next]_vars
  PROVE  \/ AccessStep
         \/ \E e \in Edits : EditPte(e[1], e[2], e[3])
         \/ Sfence \/ WriteSatp
         \/ \E val \in SUBSET MstatusBits : WriteStatus(val)
         \/ Trap \/ Sret \/ Mret
  BY Zenon DEF Next, AccessStep

-----------------------------------------------------------------------------
(* The memory stays good *)

\* Every step keeps the invariant of the TLBs.
LEMMA MmuInvNext ==
  ASSUME MmuAssumption, MmuInv, [Next]_vars
  PROVE  MmuInv'
<1>0. GoodMm(mm) /\ ~mm.is_pim_access
  BY Zenon DEF MmuInv
<1> SUFFICES GoodMm(mm') /\ ~mm'.is_pim_access
  BY GoodPrime, Zenon DEF MmuInv
<1>1. CASE AccessStep
  BY <1>1, AccessStepGood, Zenon
<1>2. CASE \E e \in Edits : EditPte(e[1], e[2], e[3])
  BY <1>0, <1>2, EditStep, Zenon
<1>3. ASSUME mm' = Flushed(mm) \/ mm' = mm
      PROVE  GoodMm(mm') /\ ~mm'.is_pim_access
  BY <1>0, <1>3, FlushedCurrent, Zenon
<1>4. CASE Sfence
  BY <1>3, <1>4, Zenon DEF Sfence
<1>5. CASE WriteSatp
  BY <1>3, <1>5, Zenon DEF WriteSatp
<1>6. CASE \E val \in SUBSET MstatusBits : WriteStatus(val)
  BY <1>3, <1>6, Zenon DEF WriteStatus
<1>7. CASE Trap
  BY <1>3, <1>7, Zenon DEF Trap, SetPriv
<1>8. CASE Sret
  BY <1>3, <1>8, Zenon DEF Sret, SetPriv
<1>9. CASE Mret
  BY <1>3, <1>9, Zenon DEF Mret, SetPriv
<1> QED
  BY <1>1, <1>2, <1>4, <1>5, <1>6, <1>7, <1>8, <1>9, StepKinds, Zenon

(***************************************************************************)
(* What was written to the frame buffer is drawn by the next refresh, for  *)
(* every memory map, TLB size and page table: a store that hits the write  *)
(* TLB sets no dirty bit, but default_get_dirty_bits takes the entries of  *)
(* the frame buffer out of the write TLB whenever it clears the bits, so   *)
(* that an entry found there always has its page marked.                   *)
(***************************************************************************)
THEOREM ScreenCurrentAlways == MmuAssumption => (Spec => []ScreenCurrent)
<1> SUFFICES ASSUME MmuAssumption PROVE Spec => []ScreenCurrent
  OBVIOUS
<1>1. Init => MmuInv
  BY InitGood, Zenon DEF Init, MmuInv
<1>2. MmuInv /\ [Next]_vars => MmuInv'
  BY MmuInvNext, Zenon
<1>3. MmuInv => ScreenCurrent
  BY Zenon DEF MmuInv, GoodMm, ScreenCurrent
<1> QED
  BY <1>1, <1>2, <1>3, PTL DEF Spec

-----------------------------------------------------------------------------

ChargedInv == MmuInv /\ charged

(***************************************************************************)
(* The address that a load or a store leaves in data_guest_paddr is the    *)
(* page of the data, for every memory map without PIM memory and every     *)
(* even tlb_size that the parameters admit.  Both conditions are needed:   *)
(* an access to PIM memory that misses leaves an offset, and where the     *)
(* mask tlb_size - 1 drops the lowest bit, the second part of an access    *)
(* across two pages may evict the entry of the first.                      *)
(***************************************************************************)
THEOREM PaddrChargedAlways ==
  MmuAssumption /\ EvenTlb /\ ~HasPim => (Spec => []PaddrCharged)
<1> SUFFICES ASSUME MmuAssumption, EvenTlb, ~HasPim PROVE Spec => []PaddrCharged
  OBVIOUS
<1>1. Init => ChargedInv
  BY InitGood, Zenon DEF Init, MmuInv, ChargedInv
<1>2. ChargedInv /\ [Next]_vars => ChargedInv'
  <2> SUFFICES ASSUME ChargedInv, [Next]_vars PROVE ChargedInv'
    BY Zenon
  <2>0. MmuInv /\ charged /\ GoodMm(mm)
    BY Zenon DEF ChargedInv, MmuInv
  <2>1. MmuInv'
    BY <2>0, MmuInvNext, Zenon
  <2>2. ASSUME NEW v \in VPages, NEW w \in VPages, NEW a \in {"r", "w"}, Access(v, w, a)
        PROVE  charged'
    <3>1. PICK m : charged' = ChargedRight(m) /\ ChargedRight(m)
      BY <2>0, <2>2, AccessGood, Zenon
    <3> QED
      BY <3>1, Zenon
  <2>3. ASSUME charged' = charged PROVE charged'
    BY <2>0, <2>3, Zenon
  <2>4. charged'
    <3>1. CASE AccessStep
      BY <2>2, <2>3, <3>1, Zenon DEF AccessStep, Fetch, Refresh, phys_mem_get_ram_ptr, vars
    <3>2. CASE \E e \in Edits : EditPte(e[1], e[2], e[3])
      BY <2>3, <3>2, Zenon DEF EditPte
    <3>3. CASE Sfence \/ WriteSatp
      BY <2>3, <3>3, Zenon DEF Sfence, WriteSatp
    <3>4. CASE \E val \in SUBSET MstatusBits : WriteStatus(val)
      BY <2>3, <3>4, Zenon DEF WriteStatus
    <3>5. CASE Trap \/ Sret \/ Mret
      BY <2>3, <3>5, Zenon DEF Trap, Sret, Mret
    <3> QED
      BY <3>1, <3>2, <3>3, <3>4, <3>5, StepKinds, Zenon
  <2> QED
    BY <2>1, <2>4, Zenon DEF ChargedInv
<1>3. ChargedInv => PaddrCharged
  BY Zenon DEF ChargedInv, PaddrCharged
<1> QED
  BY <1>1, <1>2, <1>3, PTL DEF Spec

-----------------------------------------------------------------------------

\* Every step keeps the entries current, until the guest edits a page table.
LEMMA TransInvNext ==
  ASSUME MmuAssumption, NoMprv, TransInv, [Next]_vars
  PROVE  TransInv'
<1>0. MmuInv /\ GoodMm(mm) /\ mstatus \subseteq MstatusBits /\ (~edited => Current(mm))
  BY Zenon DEF TransInv, MmuInv
<1>m. MmuInv'
  BY <1>0, MmuInvNext, Zenon
<1>1. CASE AccessStep
  <2>1. /\ Current(mm) => Current(mm')
        /\ priv' = priv /\ mstatus' = mstatus /\ satp' = satp /\ edited' = edited
    BY <1>0, <1>1, AccessStepGood, Zenon
  <2>2. ConfigKept
    BY <1>0, <2>1, Zenon DEF ConfigKept, NoMprv
  <2>3. ~edited' => Current(mm)'
    BY <1>0, <2>1, <2>2, CurrentKept, Zenon
  <2> QED
    BY <1>0, <1>m, <2>1, <2>3, Zenon DEF TransInv
<1>2. CASE \E e \in Edits : EditPte(e[1], e[2], e[3])
  BY <1>0, <1>m, <1>2, Zenon DEF EditPte, TransInv
<1>3. CASE Sfence
  <2>1. mm' = Flushed(mm) /\ mstatus' = mstatus
    BY <1>3, Zenon DEF Sfence
  <2> QED
    BY <1>0, <2>1, ConfigStepKeeps, Zenon DEF ConfigStep
<1>4. CASE WriteSatp
  <2>1. mm' = Flushed(mm) /\ mstatus' = mstatus
    BY <1>4, Zenon DEF WriteSatp
  <2> QED
    BY <1>0, <2>1, ConfigStepKeeps, Zenon DEF ConfigStep
<1>5. CASE \E val \in SUBSET MstatusBits : WriteStatus(val)
  BY <1>0, <1>5, StatusStep, ConfigStepKeeps, Zenon
<1>6. CASE Trap
  <2>1. PICK deleg \in BOOLEAN :
          /\ mstatus' = TrapMstatus(mstatus, priv, deleg) \cap MstatusBits
          /\ SetPriv(IF deleg THEN PRV_S ELSE PRV_M) /\ satp' = satp
    BY <1>6, Zenon DEF Trap
  <2>2. Keeps(mstatus, TrapMstatus(mstatus, priv, deleg))
    BY TrapKeeps, Zenon
  <2>3. ConfigStep /\ mstatus' \subseteq MstatusBits
    BY <1>0, <2>1, <2>2, PrivStep, Zenon
  <2> QED
    BY <2>3, ConfigStepKeeps, Zenon
<1>7. CASE Sret
  <2>1. /\ mstatus' = SretMstatus(mstatus) \cap MstatusBits
        /\ SetPriv(Spp(mstatus)) /\ satp' = satp
    BY <1>7, Zenon DEF Sret
  <2>2. Keeps(mstatus, SretMstatus(mstatus))
    BY ReturnKeeps, Zenon
  <2>3. ConfigStep /\ mstatus' \subseteq MstatusBits
    BY <1>0, <2>1, <2>2, PrivStep, Zenon
  <2> QED
    BY <2>3, ConfigStepKeeps, Zenon
<1>8. CASE Mret
  <2>1. /\ mstatus' = MretMstatus(mstatus) \cap MstatusBits
        /\ SetPriv(Mpp(mstatus)) /\ satp' = satp
    BY <1>8, Zenon DEF Mret
  <2>2. Keeps(mstatus, MretMstatus(mstatus))
    BY ReturnKeeps, Zenon
  <2>3. ConfigStep /\ mstatus' \subseteq MstatusBits
    BY <1>0, <2>1, <2>2, PrivStep, Zenon
  <2> QED
    BY <2>3, ConfigStepKeeps, Zenon
<1> QED
  BY <1>1, <1>2, <1>3, <1>4, <1>5, <1>6, <1>7, <1>8, StepKinds, Zenon

\* The invariant is what TlbCurrent says.
LEMMA CurrentSays == TransInv => TlbCurrent
<1> SUFFICES ASSUME TransInv, ~edited, NEW a \in Accesses, NEW i \in DOMAIN mm.tlb[a],
                    mm.tlb[a][i].v # -1
             PROVE  LET g == get_phys_addr(mm.pt, mm.tlb[a][i].v, a)
                    IN  ~g.fault /\ g.page = mm.tlb[a][i].page /\ g.pt = mm.pt
  BY Zenon DEF TlbCurrent
<1> DEFINE g == get_phys_addr(mm.pt, mm.tlb[a][i].v, a)
<1>1. i \in Slots
  BY Zenon DEF TransInv, MmuInv, GoodMm, MmOK, TlbOK
<1>2. g = [fault |-> FALSE, page |-> mm.tlb[a][i].page, pt |-> mm.pt]
  BY <1>1, Zenon DEF TransInv, Current, Agrees
<1> HIDE DEF g
<1>3. ~g.fault /\ g.page = mm.tlb[a][i].page /\ g.pt = mm.pt
  BY <1>2, SMT
<1> QED
  BY <1>3, Zenon DEF g

(***************************************************************************)
(* Unless the guest has edited a page table since the last flush, every    *)
(* TLB entry says what a walk would say now, and a walk would write no A   *)
(* or D bit: for every set of tables, every TLB size and every sequence of *)
(* traps, returns and writes of satp, mstatus and sstatus, as long as the  *)
(* guest does not use MPRV.                                                *)
(***************************************************************************)
THEOREM TlbCurrentAlways == MmuAssumption /\ NoMprv => (Spec => []TlbCurrent)
<1> SUFFICES ASSUME MmuAssumption, NoMprv PROVE Spec => []TlbCurrent
  OBVIOUS
<1>1. Init => TransInv
  <2> SUFFICES ASSUME Init PROVE TransInv
    OBVIOUS
  <2>1. mm = MmInit /\ mstatus = {}
    BY Zenon DEF Init
  <2>2. GoodMm(MmInit) /\ MmInit.is_pim_access = FALSE
        /\ \A a \in Accesses, i \in Slots : MmInit.tlb[a][i].v = -1
    BY InitGood, Zenon
  <2>3. Current(mm)
    BY <2>1, <2>2, Zenon DEF Current
  <2> QED
    BY <2>1, <2>2, <2>3, Zenon DEF TransInv, MmuInv
<1>2. TransInv /\ [Next]_vars => TransInv'
  BY TransInvNext, Zenon
<1>3. TransInv => TlbCurrent
  BY CurrentSays, Zenon
<1> QED
  BY <1>1, <1>2, <1>3, PTL DEF Spec
=============================================================================
