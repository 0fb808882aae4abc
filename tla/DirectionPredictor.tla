------------------------- MODULE DirectionPredictor -------------------------
(***************************************************************************)
(* The direction predictors: the branch history table of                   *)
(* src/riscvsim/bpu/bht.c and the two-level adaptive predictor of          *)
(* adaptive_predictor.c, as bpu.c uses them for conditional branches.      *)
(*                                                                         *)
(* Branches are fetched in any order, several in flight at once, the same  *)
(* one too, and are executed in the order in which they were fetched, as   *)
(* the in-order core does.  The outcomes of a branch follow a periodic     *)
(* pattern; the branch target buffer has room for all the branches.        *)
(***************************************************************************)
EXTENDS Integers, Sequences, Bitwise

CONSTANTS
  Configs,         \* the configurations of the predictor, with a program each
  Addresses,       \* the addresses a conditional branch may have
  MaxInFlight,     \* bound on the branches in flight
  MaxFlushes       \* bound on the number of flushes

(***************************************************************************)
(* A configuration: the scheme, the sizes of the tables, the bits of       *)
(* history, the aliasing function, and the outcomes of each branch of the  *)
(* program, which are repeated for ever.                                   *)
(***************************************************************************)
PredictorAssumption ==
  /\ \A c \in Configs :
       /\ c.scheme \in {"bimodal", "adaptive"}
       /\ {c.bht_size, c.ght_size, c.pht_size} \subseteq Nat \ {0}
       /\ c.hreg_bits \in Nat
       /\ c.alias \in {"xor", "and", "none"}
       /\ DOMAIN c.pattern \subseteq Addresses
       /\ \A b \in DOMAIN c.pattern : c.pattern[b] \in Seq({0, 1}) \ {<<>>}
  /\ Addresses \subseteq Nat \ {0}
  /\ MaxInFlight \in Nat \ {0}
  /\ MaxFlushes \in Nat

VARIABLES
  config,    \* the configuration, read when the program starts
  bht,       \* bht_entry: two-bit counters
  ght,       \* [pc, ghr]: branch address and history register
  pht,       \* [pc, ctr]: branch address and counters by history
  known,     \* the branches that are in the branch target buffer
  window,    \* the branches in flight, in the order of the program
  at,        \* at[b]: the place of branch b in its pattern
  flushes

vars == <<config, bht, ght, pht, known, window, at, flushes>>

Scheme == config.scheme
BhtSize == config.bht_size
GhtSize == config.ght_size
PhtSize == config.pht_size
HistoryBits == config.hreg_bits
Alias == config.alias
Pattern == config.pattern
Branches == DOMAIN Pattern

Histories == 0 .. 2 ^ HistoryBits - 1

(***************************************************************************)
(* adaptive_predictor_init: the scheme follows from the two sizes.         *)
(***************************************************************************)
PerBranchHistory == GhtSize > 1      \* PAg, PAp

PerBranchCounters == PhtSize > 1     \* GAp, PAp

BhtIdx(pc) == pc % BhtSize

GhtIdx(pc) == IF PerBranchHistory THEN (pc \div 2) % GhtSize ELSE 0

PhtIdx(pc) == IF PerBranchCounters THEN (pc \div 2) % PhtSize ELSE 0

(***************************************************************************)
(* The index of a counter: the history register and, in the scheme GAg,    *)
(* the aliasing function.                                                  *)
(***************************************************************************)
CtrIdx(g, pc) ==
  LET h == g[GhtIdx(pc)].ghr
      a == pc \div 4
  IN  (IF PerBranchHistory \/ PerBranchCounters \/ Alias = "none" THEN h
       ELSE IF Alias = "xor" THEN h ^^ a ELSE h & a) % 2 ^ HistoryBits

(***************************************************************************)
(* adaptive_predictor_flush, which adaptive_predictor_init amounts to.     *)
(***************************************************************************)
FlushedGht == [i \in 0 .. GhtSize - 1 |-> [pc |-> 0, ghr |-> 0]]

FlushedPht ==
  [i \in 0 .. PhtSize - 1 |-> [pc |-> 0, ctr |-> [h \in Histories |-> 0]]]

Init ==
  /\ config \in Configs
  /\ bht = [i \in 0 .. BhtSize - 1 |-> 0]
  /\ ght = FlushedGht
  /\ pht = FlushedPht
  /\ known = {}
  /\ window = <<>>
  /\ at = [b \in Branches |-> 1]
  /\ flushes = 0

(***************************************************************************)
(* bpu_flush, with nothing in flight.  bht_flush sets the counters to 1.   *)
(***************************************************************************)
Flush ==
  /\ flushes < MaxFlushes
  /\ window = <<>>
  /\ bht' = [i \in 0 .. BhtSize - 1 |-> 1]
  /\ ght' = FlushedGht
  /\ pht' = FlushedPht
  /\ known' = {}
  /\ flushes' = flushes + 1
  /\ UNCHANGED <<config, window, at>>

(***************************************************************************)
(* adaptive_predictor_probe.                                               *)
(***************************************************************************)
Probe(g, p, pc) ==
  \/ Scheme = "bimodal"
  \/ /\ PerBranchHistory => g[GhtIdx(pc)].pc = pc
     /\ PerBranchCounters => p[PhtIdx(pc)].pc = pc

(***************************************************************************)
(* bht_get_prediction and adaptive_predictor_get_prediction.               *)
(***************************************************************************)
Prediction(pc) ==
  LET ctr == IF Scheme = "bimodal" THEN bht[BhtIdx(pc)]
             ELSE pht[PhtIdx(pc)].ctr[CtrIdx(ght, pc)]
  IN  IF ctr > 1 THEN 1 ELSE 0

(***************************************************************************)
(* bpu_probe and bpu_get_target in the fetch stage.  Without a hit the     *)
(* branch is predicted not taken.  idx, the counter that the prediction    *)
(* is read from, is a history value.                                       *)
(***************************************************************************)
Fetch(b) ==
  LET ap  == Probe(ght, pht, b)
      hit == b \in known /\ ap
  IN  /\ b \in Branches /\ Len(window) < MaxInFlight
      /\ window' = Append(window,
           [b |-> b, ap |-> ap, hit |-> hit, taken |-> IF hit THEN Prediction(b) ELSE 0,
            idx |-> CtrIdx(ght, b)])
      /\ UNCHANGED <<config, bht, ght, pht, known, at, flushes>>

(***************************************************************************)
(* bpu_add, for a branch e that missed when it was fetched: the tables     *)
(* after bht_add or adaptive_predictor_add.                                *)
(***************************************************************************)
AddedBht(e) ==
  IF Scheme = "bimodal" /\ ~e.hit THEN [bht EXCEPT ![BhtIdx(e.b)] = 1] ELSE bht

ApAdds(e) == Scheme = "adaptive" /\ ~e.hit /\ ~e.ap

AddedGht(e) ==
  IF ApAdds(e) /\ PerBranchHistory
  THEN [ght EXCEPT ![GhtIdx(e.b)] = [pc |-> e.b, ghr |-> 0]] ELSE ght

\* Mutant: the counters of the branch that had the entry are not cleared.
AddedPht_Uncleared(e) ==
  IF ApAdds(e) /\ PerBranchCounters
  THEN [pht EXCEPT ![PhtIdx(e.b)].pc = e.b] ELSE pht

AddedPht(e) ==
  IF ApAdds(e) /\ PerBranchCounters
  THEN [pht EXCEPT ![PhtIdx(e.b)] = [pc |-> e.b, ctr |-> [h \in Histories |-> 0]]]
  ELSE pht

update_two_bit_counter(ctr, pred) ==
  IF pred = 1 THEN (IF ctr < 3 THEN ctr + 1 ELSE ctr)
  ELSE (IF ctr > 0 THEN ctr - 1 ELSE ctr)

UPDATE_GHR(ghr, pred) == (ghr * 2 + pred) % 2 ^ HistoryBits

Outcome(b) == Pattern[b][at[b]]

(***************************************************************************)
(* bpu_enabled_execute_stage_handler for a conditional branch: bpu_add,    *)
(* a second probe, and bpu_update with bht_update or                       *)
(* adaptive_predictor_update.  A misprediction flushes what was fetched    *)
(* after the branch.                                                       *)
(***************************************************************************)
Execute(b) ==
  LET e    == Head(window)
      pred == Outcome(b)
      g    == AddedGht(e)
      p    == AddedPht(e)
      ap   == Scheme = "adaptive" /\ Probe(g, p, b)
  IN  /\ window # <<>> /\ e.b = b
      /\ bht' = IF Scheme = "bimodal"
                THEN [AddedBht(e) EXCEPT ![BhtIdx(b)] = update_two_bit_counter(@, pred)]
                ELSE bht
      /\ pht' = IF ap THEN [p EXCEPT ![PhtIdx(b)].ctr[CtrIdx(g, b)] =
                              update_two_bit_counter(@, pred)]
                ELSE p
      /\ ght' = IF ap THEN [g EXCEPT ![GhtIdx(b)].ghr = UPDATE_GHR(@, pred)] ELSE g
      /\ known' = known \cup {b}
      /\ at' = [at EXCEPT ![b] = (@ % Len(Pattern[b])) + 1]
      /\ window' = IF e.taken = pred THEN Tail(window) ELSE <<>>
      /\ UNCHANGED <<config, flushes>>

Next == (\E b \in Addresses : Fetch(b) \/ Execute(b)) \/ Flush

Spec == Init /\ [][Next]_vars

-----------------------------------------------------------------------------
(***************************************************************************)
(* The variables hold what their declarations say: no counter leaves its   *)
(* two bits, no history register its table.                                *)
(***************************************************************************)
TypeOK ==
  /\ config \in Configs
  /\ bht \in [0 .. BhtSize - 1 -> 0 .. 3]
  /\ ght \in [0 .. GhtSize - 1 -> [pc : Branches \cup {0}, ghr : Histories]]
  /\ pht \in [0 .. PhtSize - 1 ->
                 [pc : Branches \cup {0}, ctr : [Histories -> 0 .. 3]]]
  /\ known \subseteq Branches
  /\ window \in Seq([b : Branches, ap : BOOLEAN, hit : BOOLEAN, taken : {0, 1},
                     idx : Histories])
  /\ Len(window) <= MaxInFlight
  /\ \A b \in Branches : at[b] \in DOMAIN Pattern[b]
  /\ flushes \in 0 .. MaxFlushes

-----------------------------------------------------------------------------
\* The outcomes of b that its counter is chosen by: none, or the last ones.
Memory == IF Scheme = "adaptive" /\ PerBranchHistory THEN 1 .. HistoryBits ELSE {}

Out(b, i) == Pattern[b][(i % Len(Pattern[b])) + 1]

Past(b, i) == [k \in Memory |-> Out(b, i + Len(Pattern[b]) * HistoryBits - k)]

\* The branches whose outcomes the counters of b count.
Sharers(b) ==
  {c \in Branches : IF Scheme = "bimodal" THEN BhtIdx(c) = BhtIdx(b)
                    ELSE PhtIdx(c) = PhtIdx(b)}

\* No other branch takes over the entries of b.
Alone(b) ==
  Scheme = "adaptive" =>
    \A c \in Branches \ {b} : /\ PerBranchHistory => GhtIdx(c) # GhtIdx(b)
                              /\ PerBranchCounters => PhtIdx(c) # PhtIdx(b)

Constant(b) == \A i \in DOMAIN Pattern[b] : Pattern[b][i] = Pattern[b][1]

\* Entries of the pattern history table are cleared when they are taken over,
\* and a branch that has none is predicted not taken.
NeverTaken(b) ==
  Scheme = "adaptive" /\ PerBranchCounters /\ Constant(b) /\ Pattern[b][1] = 0

(***************************************************************************)
(* What the predictor remembers determines the outcome of b: wherever b    *)
(* and a branch that shares its counters come to the same counter, they    *)
(* have the same outcome.                                                  *)
(***************************************************************************)
Determined(b) ==
  \A c \in Sharers(b) :
    /\ Alone(c)
    /\ \A i \in DOMAIN Pattern[b], j \in DOMAIN Pattern[c] :
         Past(b, i) = Past(c, j) => Out(b, i) = Out(c, j)

Predictable(b) == NeverTaken(b) \/ Determined(b)

\* A branch that should have been predicted right is not.
Mispredicts(b) ==
  Execute(b) /\ Predictable(b) /\ Head(window).taken # Outcome(b)

\* The history has changed since b was fetched: it is not the counter its
\* prediction was read from that counts its outcome.
CountsElsewhere(b) ==
  Execute(b) /\ Head(window).idx # CtrIdx(AddedGht(Head(window)), b)

\* The history of b comes to be the same for ever, or does not matter.
Steady(b) ==
  \/ NeverTaken(b)
  \/ Scheme = "bimodal"
  \/ \A c \in IF PerBranchHistory THEN {b} ELSE Branches :
       Constant(c) /\ Pattern[c][1] = Pattern[b][1]

(***************************************************************************)
(* A branch whose outcome the predictor can know is mispredicted only      *)
(* finitely often, whatever the order of the fetches, with several         *)
(* instances of it in flight, flushed or taken over by other branches;     *)
(* unless, its history still changing, its outcomes are again and again    *)
(* counted elsewhere than its predictions are read                         *)
(* (adaptive_predictor_update takes the history of the time of execution,  *)
(* adaptive_predictor_get_prediction that of the fetch).                   *)
(***************************************************************************)
Learns ==
  \A b \in Addresses :
    \/ <>[][~Mispredicts(b)]_vars
    \/ []<><<CountsElsewhere(b) /\ ~Steady(b)>>_vars
=============================================================================
