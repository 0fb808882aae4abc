----------------------------- MODULE MCMachine ------------------------------
(***************************************************************************)
(* The emulated machine for model checking: the hart, moved between the    *)
(* interpreter and the simulated core, address translation, and a disk.    *)
(* They share no state: a behaviour runs one of Parts.                     *)
(***************************************************************************)
EXTENDS Hart, Sequences, TLC

CONSTANTS
  Parts,          \* the parts that are checked
  MstatusBits,    \* the bits of mstatus the guest of the MMU uses
  Disks,          \* the block devices
  DiskRequests,   \* what the disk's driver may ask
  FreedBuffer     \* what the disk finds in a buffer that was freed

VARIABLES part    \* the part that runs
VARIABLES mmu_priv, mmu_mstatus, satp, mm, edited, charged
VARIABLES m, driver

mmu_vars == <<mmu_priv, mmu_mstatus, satp, mm, edited, charged>>
disk_vars == <<m, driver>>

-----------------------------------------------------------------------------
(***************************************************************************)
(* A page table of two levels with two entries each: a large page of a     *)
(* device, a page of code, and one of data the guest may move, make        *)
(* read-only or unmap.                                                     *)
(***************************************************************************)
Leaf(xwr, u, ad, ppn) == [v |-> TRUE, xwr |-> xwr, u |-> u, ad |-> ad, ppn |-> ppn]

Table(t) == [v |-> TRUE, xwr |-> {}, u |-> FALSE, ad |-> {}, ppn |-> t]

NoPte == [v |-> FALSE, xwr |-> {}, u |-> FALSE, ad |-> {}, ppn |-> 0]

GuestTables ==
  0 :> (0 :> Table(1) @@ 1 :> Leaf({"r", "w"}, FALSE, {"a", "d"}, 3))
    @@ 1 :> (0 :> Leaf({"x"}, TRUE, {"a"}, 1) @@ 1 :> Leaf({"r", "w"}, TRUE, {}, 0))

GuestEdits == {<<1, 1, Leaf({"r"}, TRUE, {}, 1)>>, <<1, 1, NoPte>>}

Map == 0 :> "ram" @@ 1 :> "ram" @@ 2 :> "fb" @@ 3 :> "dev"

M == INSTANCE Mmu WITH
       Fan <- 2, TlbSize <- 2, MemMap <- Map, Tables <- GuestTables, Edits <- GuestEdits,
       priv <- mmu_priv, mstatus <- mmu_mstatus

-----------------------------------------------------------------------------
(***************************************************************************)
(* An image of three blocks of two clusters each; two blocks are           *)
(* prefetched and one fits into the cache.                                 *)
(***************************************************************************)
\* A read across the end of a block and a write across it within what is read;
\* neither touches two clusters of a block.
AcrossBlocks ==
  {[type |-> "in", sector |-> 6, buf |-> <<0, 0, 0>>],
   [type |-> "out", sector |-> 7, buf |-> <<-4, -5>>],
   [type |-> "other", sector |-> 0, buf |-> <<>>]}

\* A read of two clusters of a block, and a write to the second one.
AcrossClusters ==
  {[type |-> "in", sector |-> 4, buf |-> <<0, 0, 0>>],
   [type |-> "out", sector |-> 6, buf |-> <<-4>>]}

V == INSTANCE VirtioBlock WITH
       BlockSize <- 4, ClusterSize <- 2, NumBlocks <- 3, MaxCached <- 1,
       Prefetch <- <<<<0, 1>>>>, Requests <- DiskRequests, QueueNum <- 2,
       IndexModulus <- 4

-----------------------------------------------------------------------------
\* The value of the variables of a part that does not run.
Off == "off"

MInit ==
  /\ part \in Parts
  /\ Init
  /\ part # "hart" => home = PRV_M /\ mideleg = {} /\ ~medeleg
  /\ IF part = "mmu" THEN M!Init
     ELSE /\ mmu_priv = Off /\ mmu_mstatus = Off /\ satp = Off
          /\ mm = Off /\ edited = Off /\ charged = Off
  /\ IF part = "disk" THEN V!Init ELSE m = Off /\ driver = Off

HartRuns == part = "hart" /\ UNCHANGED <<part, mmu_vars, disk_vars>>

MmuRuns == part = "mmu" /\ UNCHANGED <<part, vars, disk_vars>>

DiskRuns == part = "disk" /\ UNCHANGED <<part, vars, mmu_vars>>

MNext ==
  \/ HartRuns /\ Next
  \/ MmuRuns /\ M!Next
  \/ DiskRuns /\ V!Next

MSpec == MInit /\ [][MNext]_<<part, vars, mmu_vars, disk_vars>>

\* The fairness of Hart and of VirtioBlock.
MFairSpec ==
  /\ MSpec
  /\ WF_vars(HartRuns /\ Host)
  /\ WF_vars(HartRuns /\ Core)
  /\ WF_vars(HartRuns /\ (Plain \/ Refused \/ System))
  /\ WF_disk_vars(DiskRuns /\ V!Onload)
  /\ WF_disk_vars(DiskRuns /\ V!Notify)
  /\ WF_disk_vars(DiskRuns /\ V!Serve)

-----------------------------------------------------------------------------
\* Mmu: a TLB entry says what a walk would say now.
TlbCurrent == part = "mmu" => M!TlbCurrent

\* Mmu: the simulated memory hierarchy is charged with the page of the data.
PaddrCharged == part = "mmu" => M!PaddrCharged

\* Mmu: what was written to the frame buffer is drawn by the next refresh.
ScreenCurrent == part = "mmu" => M!ScreenCurrent

\* VirtioBlock: every request is answered once and in order.
CompletesInOrder == part = "disk" => V!CompletesInOrder

\* VirtioBlock: a read returns what the last write before it stored.
ReadsLastWrite == part = "disk" => V!ReadsLastWrite

\* VirtioBlock: no request is forgotten and no interrupt lost.
RequestsComplete ==
  \/ []<>(part = "disk" => driver.outstanding = <<>>)
  \/ []<><<DiskRuns /\ V!TakeUsed>>_disk_vars
=============================================================================
