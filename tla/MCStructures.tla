---------------------------- MODULE MCStructures ----------------------------
(***************************************************************************)
(* The array structures of a core for model checking: the circular queue,  *)
(* in a user of it; the load/store queue and its unit; and a small cache   *)
(* hierarchy, with an instruction cache of two sets, a data cache of one   *)
(* set with two ways and a second level of one line.  They share no state: *)
(* a behaviour runs one of them.                                           *)
(***************************************************************************)
EXTENDS QueueUser, TLC

VARIABLES part    \* the structure that runs
VARIABLES config, blk, mru, fresh, exact
VARIABLES phase, commits, rob_cq, rob, lsq_cq, lsq, lsu, todo, fetching,
          pending_exception, ins_dispatch_id

cache_vars == <<config, blk, mru, fresh, exact>>
lsq_vars == <<phase, commits, rob_cq, rob, lsq_cq, lsq, lsu, todo, fetching,
              pending_exception, ins_dispatch_id>>

-----------------------------------------------------------------------------
Sets == "i" :> 2 @@ "d" :> 1 @@ "l2" :> 1
WaysOf == "i" :> 1 @@ "d" :> 2 @@ "l2" :> 1

C == INSTANCE Cache WITH
       Policy <- "bit_plru", NumLines <- 4, LineBytes <- 8, NumSets <- Sets,
       NumWays <- WaysOf, DataSizes <- {8}, DataOffsets <- {0, 5},
       FetchOffsets <- {6}, StartLines <- {0, 1}

-----------------------------------------------------------------------------
(***************************************************************************)
(* The body of a loop.  The same store may be in the ROB twice; a branch   *)
(* that is not mispredicted stands for an instruction that does not use    *)
(* memory.                                                                 *)
(***************************************************************************)
Loop ==
  {[kind |-> "load", pc |-> 1], [kind |-> "store", pc |-> 2],
   [kind |-> "atomic", pc |-> 3], [kind |-> "branch", pc |-> 4]}

L == INSTANCE LoadStoreQueue WITH
       RobSize <- 4, LsqSize <- 3, CommitPorts <- 1, MaxId <- 5, Insns <- Loop

ASSUME PartsAssumption == C!PolicyAssumption /\ C!CacheAssumption /\ L!LsqAssumption

-----------------------------------------------------------------------------
\* The value of the variables of a structure that does not run.
Off == "off"

SInit ==
  /\ part \in {"queue", "cache", "lsq"}
  /\ Init
  /\ part # "queue" => entries = [i \in Slots |-> CHOOSE v \in Values : TRUE]
  /\ IF part = "cache" THEN C!Init
     ELSE config = Off /\ blk = Off /\ mru = Off /\ fresh = Off /\ exact = Off
  /\ IF part = "lsq" THEN L!Init
     ELSE /\ phase = Off /\ commits = Off /\ rob_cq = Off /\ rob = Off
          /\ lsq_cq = Off /\ lsq = Off /\ lsu = Off /\ todo = Off /\ fetching = Off
          /\ pending_exception = Off /\ ins_dispatch_id = Off

QueueRuns == part = "queue" /\ UNCHANGED <<part, cache_vars, lsq_vars>>

CacheRuns == part = "cache" /\ UNCHANGED <<part, vars, lsq_vars>>

LsqRuns == part = "lsq" /\ UNCHANGED <<part, vars, cache_vars>>

SNext ==
  \/ QueueRuns /\ Next
  \/ CacheRuns /\ C!Next
  \/ LsqRuns /\ L!Next

\* The fairness is that of LoadStoreQueue.
SSpec ==
  /\ SInit /\ [][SNext]_<<part, vars, cache_vars, lsq_vars>>
  /\ WF_lsq_vars(LsqRuns /\ L!Next)
  /\ SF_lsq_vars(LsqRuns /\ L!LsuDone)
  /\ SF_lsq_vars(LsqRuns /\ L!Exec)

-----------------------------------------------------------------------------
\* Cache: a load is served, and by a copy that has the last store to its line.
LoadsServed == part = "cache" => C!LoadsServed

\* Cache: an access looks up the lines its bytes lie in, and no other if half of
\* them are in the first.
LooksUpWhatItAsks == part = "cache" => C!LooksUpWhatItAsks

\* LoadStoreQueue: memory is accessed in program order, once for each
\* instruction.
AccessesInOrder == part = "lsq" => L!AccessesInOrder

\* LoadStoreQueue: a store accesses memory only as the oldest instruction.
StoresNotSpeculative == part = "lsq" => L!StoresNotSpeculative

\* LoadStoreQueue: what is at the front of the queue leaves it.
LsqDrains ==
  \/ []<>(part = "lsq" => L!cq_empty(lsq_cq))
  \/ []<><<part = "lsq" /\ lsq_cq'.front # lsq_cq.front>>_lsq_vars
=============================================================================
