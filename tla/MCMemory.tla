------------------------------ MODULE MCMemory ------------------------------
(***************************************************************************)
(* Memory for model checking: the memory controller with the stages that   *)
(* use it, DRAMsim3's controller with the programs that drive it, and the  *)
(* wrapper of the AiMulator.  They share no state: a behaviour runs one of *)
(* Parts.                                                                  *)
(***************************************************************************)
EXTENDS MemSystem

CONSTANTS
  Parts,          \* the parts that are checked
  DramAccesses,   \* what the DRAM controller's wrapper is asked for
  DramHosts       \* the programs that drive it

VARIABLES part    \* the part that runs
VARIABLES cfg, host, c
VARIABLES pc, e, offset, cycles, status, retry_queue, memory, refuses, asked, sent

controller_vars == <<queues, dram, fetch, lsu, skip_fetch_cycle, phase>>
dram_vars == <<cfg, host, c>>
aim_vars == <<pc, e, offset, cycles, status, retry_queue, memory, refuses, asked, sent>>

-----------------------------------------------------------------------------
(***************************************************************************)
(* Accesses to the memory controller, in bytes, cut into bursts of         *)
(* BurstLength.  Instructions are at 2..5; data at 8 and above, where a    *)
(* line may be written back to make room for another; the AiM commands go  *)
(* to 20.                                                                  *)
(***************************************************************************)
BurstLength == 2

Read(paddr, bytes) == Bursts(paddr, bytes, "READ", BurstLength)

Write(paddr, bytes) == Bursts(paddr, bytes, "WRITE", BurstLength)

InsnOnly == {<<>>, Read(2, 2), Read(3, 2)}

DataOnly == {<<>>, Read(8, 2), Read(8, 2) \o Write(10, 2)}

\* Data on a line of code (README, section 5).
DataAndCode == {<<>>, Read(2, 2)}

NoAim == {}

AimBoth == {Bursts(20, 8, "AIM_RD_MAC", BurstLength),
            Bursts(20, 8, "AIM_MAC_ABK", BurstLength)}

-----------------------------------------------------------------------------
(***************************************************************************)
(* A channel of two ranks with one bank each, whose timing parameters keep *)
(* the order of those of the shipped devices.                              *)
(***************************************************************************)
At(rank, row, col) == [rank |-> rank, bank |-> 0, row |-> row, col |-> col]

DramAddrs == {At(0, 0, 1), At(1, 0, 0)} \cup {At(0, row, 0) : row \in 0 .. 5}

\* Two columns of a row, another row of the bank, and another rank.
MixedAccesses ==
  {[addrs |-> <<At(0, 0, 0), At(0, 0, 1)>>, write |-> FALSE],
   [addrs |-> <<At(0, 1, 0)>>, write |-> TRUE],
   [addrs |-> <<At(0, 0, 1), At(1, 0, 0)>>, write |-> TRUE]}

\* Lines of different rows of a bank, written one after another as a cache
\* evicts them.
LineWrites == {[addrs |-> <<At(0, row, 0)>>, write |-> TRUE] : row \in 0 .. 5}

CpuOffers == [addr : {At(0, 0, 0), At(0, 1, 0)}, write : BOOLEAN]
               \cup [addr : {At(0, 0, 1)}, write : {TRUE}]

Timing == [rd_rd |-> 1, rd_wr |-> 2, rd_pre |-> 1, rd_act |-> 2, rdp_act |-> 2,
           wr_rd |-> 2, wr_wr |-> 1, wr_pre |-> 2, wr_act |-> 3,
           rd_rd_o |-> 2, rd_wr_o |-> 2, wr_rd_o |-> 1, wr_wr_o |-> 1,
           act_act |-> 3, act_act_o |-> 1, act_rd |-> 1, act_wr |-> 1, act_pre |-> 2,
           pre_act |-> 1, ref_act |-> 3, sref_min |-> 2, sref_exit |-> 2,
           faw |-> 5, refi_bank |-> 8]

Setting(structure, page, unified, dual) ==
  [refresh |-> "RANK_LEVEL_STAGGERED", structure |-> structure, page |-> page,
   unified |-> unified, dual |-> dual, sref |-> FALSE]

\* The first is that of the shipped .ini files.
Settings == {Setting("PER_BANK", "OPEN_PAGE", FALSE, FALSE),
             Setting("PER_RANK", "OPEN_PAGE", TRUE, TRUE),
             Setting("PER_BANK", "CLOSE_PAGE", FALSE, FALSE)}

D == INSTANCE DramController WITH
       NumRanks <- 2, NumBanks <- 1, Addrs <- DramAddrs, Accesses <- DramAccesses,
       Offers <- CpuOffers, TransQueueSize <- 2, CmdQueueSize <- 2, LowWater <- 1,
       HitLimit <- 2, Delay <- Timing, ReadDelay <- 2, Interval <- 12,
       SrefThreshold <- 8, Configs <- Settings, Hosts <- DramHosts,
       MaxOffers <- 3, MaxLate <- 3, MaxAccess <- 30

-----------------------------------------------------------------------------
\* A read and a write of one bus word, whose second part is that of the other,
\* and an AiM command.
AimAndOther == {[type |-> "read", addr |-> 0, size |-> 8],
                [type |-> "write", addr |-> 8, size |-> 8],
                [type |-> "aim", addr |-> 8, size |-> 8]}

A == INSTANCE AimWrapper WITH
       MEM_BUS_WIDTH <- 8, Accesses <- AimAndOther, MayRefuse <- TRUE,
       MaxAsked <- 5, MaxCycles <- 4

-----------------------------------------------------------------------------
\* The value of the variables of a part that does not run.
Off == "off"

MInit ==
  /\ part \in Parts
  /\ Init
  /\ IF part = "dram" THEN D!Init ELSE cfg = Off /\ host = Off /\ c = Off
  /\ IF part = "aim" THEN A!Init
     ELSE /\ pc = Off /\ e = Off /\ offset = Off /\ cycles = Off /\ status = Off
          /\ retry_queue = Off /\ memory = Off /\ refuses = Off /\ asked = Off /\ sent = Off

ControllerRuns == part = "controller" /\ UNCHANGED <<part, dram_vars, aim_vars>>

DramRuns == part = "dram" /\ UNCHANGED <<part, controller_vars, aim_vars>>

AimRuns == part = "aim" /\ UNCHANGED <<part, controller_vars, dram_vars>>

MNext ==
  \/ ControllerRuns /\ Next
  \/ DramRuns /\ D!Next
  \/ AimRuns /\ A!Next

MSpec == MInit /\ [][MNext]_<<part, controller_vars, dram_vars, aim_vars>>

\* The fairness of MemSystem.
MFairSpec ==
  /\ MSpec
  /\ WF_controller_vars(ControllerRuns /\ Next)
  /\ SF_controller_vars(ControllerRuns /\ SimExit /\ ~fetch.on)

-----------------------------------------------------------------------------
\* DramController: it never meets a state in which it ends the program.
DramNeverAborts == part = "dram" => D!NeverAborts

\* DramController: every bank is refreshed in time.
RefreshedInTime == part = "dram" => D!RefreshedInTime

\* DramController: every access returns within a bounded number of cycles.
AccessReturns == part = "dram" => D!AccessReturns

\* DramController: a write does not overtake an earlier read of its address.
ReadsBeforeWrite == [][part = "dram" => D!NoOvertaking]_dram_vars

\* DramController: no part of an access is refused (the assertion in
\* JedecDRAMSystem::AddTransaction).
AlwaysAccepted == part = "dram" => D!AlwaysAccepted

\* AimWrapper: an access is over when each of its transactions is.
AccessTimed == part = "aim" => A!AccessTimed

\* AimWrapper: transactions are sent in the order they were asked for.
IssuesInOrder == part = "aim" => A!IssuesInOrder
=============================================================================
