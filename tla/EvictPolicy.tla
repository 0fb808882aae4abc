---------------------------- MODULE EvictPolicy -----------------------------
(***************************************************************************)
(* The replacement policies of src/riscvsim/utils/evict_policy.c, used by  *)
(* the caches and the branch target buffer, as operators on one set.  bits *)
(* is the set of ways whose MRU bit is 1, ways the number of ways.         *)
(***************************************************************************)
EXTENDS Integers

CONSTANT Policy     \* EVICT_POLICY_BIT_PLRU or EVICT_POLICY_RANDOM

PolicyAssumption == Policy \in {"bit_plru", "random"}

Ways(ways) == 0 .. ways - 1

bit_plru_use(bits, way, ways) ==
  IF ways = 1 THEN bits
  ELSE IF bits \cup {way} = Ways(ways) THEN {way}
  ELSE bits \cup {way}

(***************************************************************************)
(* The ways bit_plru_evict may return: the first whose bit is 0, and none  *)
(* where its assertion fails.                                              *)
(***************************************************************************)
bit_plru_evict(bits, ways) ==
  IF ways = 1 THEN {0}
  ELSE {i \in Ways(ways) \ bits : \A j \in Ways(ways) \ bits : i <= j}

EvictUse(bits, way, ways) ==
  IF Policy = "random" THEN bits ELSE bit_plru_use(bits, way, ways)

Evict(bits, ways) ==
  IF Policy = "random" THEN Ways(ways) ELSE bit_plru_evict(bits, ways)
=============================================================================
