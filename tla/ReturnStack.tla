---------------------------- MODULE ReturnStack -----------------------------
(***************************************************************************)
(* The return address stack of src/riscvsim/bpu/ras.c: an array used       *)
(* circularly, which forgets its oldest address when it overflows.  The    *)
(* decode stage pushes at a call and pops at a return, also on a path that *)
(* is rolled back later.                                                   *)
(***************************************************************************)
EXTENDS Integers

CONSTANTS
  MaxSize,      \* ras_size
  Addrs,        \* return addresses
  MaxCalls      \* bound on cur_size, which counts overflows too

ASSUME RasAssumption ==
  /\ MaxSize \in Nat \ {0}
  /\ MaxCalls \in Nat
  /\ 0 \notin Addrs

VARIABLES
  sptop, spfill, cur_size, empty_reg, entry,   \* struct Ras
  calls,    \* history: the addresses not yet popped, latest at 0, as many of
            \* the latest as the stack has room for
  depth     \* history: how many there are

ras == <<sptop, spfill, cur_size, empty_reg, entry>>

vars == <<ras, calls, depth>>

ras_empty == cur_size = 0

(***************************************************************************)
(* ras_init.                                                               *)
(***************************************************************************)
Init ==
  /\ cur_size = 0
  /\ sptop = MaxSize - 1
  /\ spfill = 0
  /\ empty_reg = 0
  /\ entry = [i \in 0 .. MaxSize - 1 |-> 0]
  /\ depth = 0
  /\ calls = [i \in {} |-> 0]

(***************************************************************************)
(* ras_flush.                                                              *)
(***************************************************************************)
Flush ==
  /\ cur_size' = 0
  /\ sptop' = MaxSize - 1
  /\ spfill' = 0
  /\ empty_reg' = 0
  /\ UNCHANGED entry
  /\ depth' = 0
  /\ calls' = [i \in {} |-> 0]

ras_push(pc) ==
  /\ cur_size < MaxCalls
  /\ entry' = [entry EXCEPT ![spfill] = pc]
  /\ sptop' = spfill
  /\ spfill' = IF spfill + 1 >= MaxSize THEN 0 ELSE spfill + 1
  /\ cur_size' = cur_size + 1
  /\ UNCHANGED empty_reg

Push(pc) ==
  /\ ras_push(pc)
  /\ depth' = IF depth < MaxSize THEN depth + 1 ELSE depth
  /\ calls' = [i \in 0 .. depth' - 1 |-> IF i = 0 THEN pc ELSE calls[i - 1]]

(***************************************************************************)
(* The address ras_pop returns.                                            *)
(***************************************************************************)
Popped == IF ras_empty THEN empty_reg ELSE entry[sptop]

\* Mutant: the popped slot is not filled next.
ras_pop_KeepFill ==
  IF ras_empty THEN UNCHANGED ras
  ELSE /\ sptop' = IF sptop - 1 < 0 THEN MaxSize - 1 ELSE sptop - 1
       /\ cur_size' = cur_size - 1
       /\ empty_reg' = entry[sptop]
       /\ UNCHANGED <<entry, spfill>>

ras_pop ==
  IF ras_empty THEN UNCHANGED ras
  ELSE /\ spfill' = sptop
       /\ sptop' = IF sptop - 1 < 0 THEN MaxSize - 1 ELSE sptop - 1
       /\ cur_size' = cur_size - 1
       /\ empty_reg' = entry[sptop]
       /\ UNCHANGED entry

Pop ==
  /\ ras_pop
  /\ depth' = IF depth = 0 THEN 0 ELSE depth - 1
  /\ calls' = [i \in 0 .. depth' - 1 |-> calls[i + 1]]

Next == (\E pc \in Addrs : Push(pc)) \/ Pop \/ Flush

Spec == Init /\ [][Next]_vars

-----------------------------------------------------------------------------
(***************************************************************************)
(* The variables hold what their declarations say; the indices stay inside *)
(* the array.                                                              *)
(***************************************************************************)
TypeOK ==
  /\ sptop \in 0 .. MaxSize - 1
  /\ spfill \in 0 .. MaxSize - 1
  /\ cur_size \in Nat
  /\ empty_reg \in Addrs \cup {0}
  /\ entry \in [0 .. MaxSize - 1 -> Addrs \cup {0}]
  /\ depth \in 0 .. MaxSize
  /\ calls \in [0 .. depth - 1 -> Addrs]

(***************************************************************************)
(* The slot i places below the top.                                        *)
(***************************************************************************)
Below(i) == IF sptop >= i THEN sptop - i ELSE sptop - i + MaxSize

(***************************************************************************)
(* The stack holds the latest calls that have not returned, as many as it  *)
(* has room for, in order: after any number of overflows and underflows,   *)
(* the next returns are predicted right until the oldest address that is   *)
(* still there, and ras_pop does not take the stack for empty before.      *)
(***************************************************************************)
LatestCallsKept ==
  /\ \A i \in 0 .. depth - 1 : entry[Below(i)] = calls[i]
  /\ depth > 0 => Popped = calls[0]
=============================================================================
