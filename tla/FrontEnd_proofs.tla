--------------------------- MODULE FrontEnd_proofs --------------------------
(***************************************************************************)
(* The front end.  The return address stack keeps the latest calls, for    *)
(* every size of the stack and every sequence of calls, returns and        *)
(* flushes.  BranchPredictor for every program, number of address spaces,  *)
(* shape of the branch target buffer and depth of the pipeline: when the   *)
(* predictor is flushed on a context switch, what is committed is the path *)
(* of the program.                                                         *)
(***************************************************************************)
EXTENDS ReturnStack, Sequences, TLAPS

CONSTANTS Policy, NumPcs, Spaces, Code, BtbSets, BtbWays, HasRas, FlushOnSwitch, MaxInFlight

VARIABLES space, btb, mru, window, bpu_pc, arch_pc, asserts

B == INSTANCE BranchPredictor WITH pc <- bpu_pc

(***************************************************************************)
(* spfill is the slot after the top, and every remembered call is counted. *)
(* Without the first a push would not know which slot it overwrites,       *)
(* without the second a pop might take the stack for empty.                *)
(***************************************************************************)
FillAboveTop ==
  /\ spfill = IF sptop + 1 = MaxSize THEN 0 ELSE sptop + 1
  /\ depth <= cur_size

Inv == TypeOK /\ FillAboveTop /\ LatestCallsKept

(***************************************************************************)
(* The empty stack of ras_init satisfies the invariant.                    *)
(***************************************************************************)
LEMMA InitInv == Init => Inv
BY RasAssumption
   DEF Init, Inv, TypeOK, FillAboveTop, LatestCallsKept

(***************************************************************************)
(* ras_push keeps it: the slot it overwrites is the deepest of a full      *)
(* stack, or unused.                                                       *)
(***************************************************************************)
LEMMA PushInv == ASSUME Inv, NEW pc \in Addrs, Push(pc) PROVE Inv'
<1> USE RasAssumption
<1>1. /\ entry' = [entry EXCEPT ![spfill] = pc]
      /\ sptop' = spfill
      /\ spfill' = IF spfill + 1 >= MaxSize THEN 0 ELSE spfill + 1
      /\ cur_size' = cur_size + 1
      /\ empty_reg' = empty_reg
      /\ depth' = IF depth < MaxSize THEN depth + 1 ELSE depth
      /\ calls' = [i \in 0 .. depth' - 1 |-> IF i = 0 THEN pc ELSE calls[i - 1]]
  BY Zenon DEF Push, ras_push
<1>2. TypeOK /\ FillAboveTop /\ LatestCallsKept
  BY Zenon DEF Inv
<1>3. depth' \in 0 .. MaxSize /\ depth' > 0 /\ depth' - 1 <= depth
  BY <1>1, <1>2 DEF TypeOK
<1>4. TypeOK'
  <2>1. calls' \in [0 .. depth' - 1 -> Addrs]
    <3> SUFFICES ASSUME NEW i \in 0 .. depth' - 1, i # 0
                 PROVE  calls[i - 1] \in Addrs
      BY <1>1, Zenon
    <3>1. i - 1 \in 0 .. depth - 1
      BY <1>1, <1>2, <1>3 DEF TypeOK
    <3> QED
      BY <3>1, <1>2, Zenon DEF TypeOK
  <2>2. entry' \in [0 .. MaxSize - 1 -> Addrs \cup {0}]
    BY <1>1, <1>2, Zenon DEF TypeOK
  <2> QED
    BY <1>1, <1>2, <1>3, <2>1, <2>2 DEF TypeOK
<1>5. FillAboveTop'
  BY <1>1, <1>2 DEF TypeOK, FillAboveTop
<1>6. \A i \in 0 .. depth' - 1 : entry'[Below(i)'] = calls'[i]
  <2> SUFFICES ASSUME NEW i \in 0 .. depth' - 1
               PROVE  entry'[Below(i)'] = calls'[i]
    BY Zenon
  <2>1. CASE i = 0
    BY <2>1, <1>1, <1>2 DEF TypeOK, Below
  <2>2. CASE i # 0
    <3>1. i - 1 \in 0 .. depth - 1 /\ i < MaxSize
      BY <2>2, <1>1, <1>2, <1>3 DEF TypeOK
    <3>2. Below(i)' = Below(i - 1) /\ Below(i - 1) # spfill
          /\ Below(i - 1) \in 0 .. MaxSize - 1
      BY <2>2, <3>1, <1>1, <1>2 DEF TypeOK, FillAboveTop, Below
    <3>3. entry[Below(i - 1)] = calls[i - 1]
      BY <3>1, <1>2, Zenon DEF LatestCallsKept
    <3>4. entry'[Below(i - 1)] = entry[Below(i - 1)]
      BY <3>2, <1>1, <1>2, Zenon DEF TypeOK
    <3> QED
      BY <2>2, <3>2, <3>3, <3>4, <1>1, Zenon
  <2> QED
    BY <2>1, <2>2, Zenon
<1>7. (depth > 0 => Popped = calls[0])'
  <2>1. 0 \in 0 .. depth' - 1 /\ Below(0)' = sptop' /\ cur_size' # 0
    BY <1>1, <1>2, <1>3 DEF TypeOK, Below
  <2> QED
    BY <2>1, <1>6, Zenon DEF Popped, ras_empty
<1> QED
  BY <1>4, <1>5, <1>6, <1>7, Zenon DEF Inv, LatestCallsKept

(***************************************************************************)
(* ras_pop keeps it: all calls move up by one.                             *)
(***************************************************************************)
LEMMA PopInv == ASSUME Inv, Pop PROVE Inv'
<1> USE RasAssumption
<1>1. TypeOK /\ FillAboveTop /\ LatestCallsKept
  BY Zenon DEF Inv
<1>2. /\ depth' = IF depth = 0 THEN 0 ELSE depth - 1
      /\ calls' = [i \in 0 .. depth' - 1 |-> calls[i + 1]]
  BY Zenon DEF Pop
<1>3. CASE ras_empty
  <2>1. /\ sptop' = sptop /\ spfill' = spfill /\ cur_size' = cur_size
        /\ empty_reg' = empty_reg /\ entry' = entry /\ cur_size = 0
    BY <1>3, Zenon DEF Pop, ras_pop, ras, ras_empty
  <2>2. depth = 0 /\ depth' = 0
    BY <2>1, <1>1, <1>2 DEF TypeOK, FillAboveTop
  <2> QED
    BY <2>1, <2>2, <1>1, <1>2 DEF Inv, TypeOK, FillAboveTop, LatestCallsKept
<1>4. CASE ~ras_empty
  <2>1. /\ spfill' = sptop
        /\ sptop' = IF sptop - 1 < 0 THEN MaxSize - 1 ELSE sptop - 1
        /\ cur_size' = cur_size - 1
        /\ empty_reg' = entry[sptop]
        /\ entry' = entry
    BY <1>4, Zenon DEF Pop, ras_pop
  <2>2. cur_size > 0
    BY <1>1, <1>4 DEF TypeOK, ras_empty
  <2>3. TypeOK'
    <3>1. calls' \in [0 .. depth' - 1 -> Addrs]
      BY <1>1, <1>2 DEF TypeOK
    <3> QED
      BY <3>1, <2>1, <2>2, <1>1, <1>2 DEF TypeOK
  <2>4. FillAboveTop'
    BY <2>1, <2>2, <1>1, <1>2 DEF TypeOK, FillAboveTop
  <2>5. \A i \in 0 .. depth' - 1 : entry'[Below(i)'] = calls'[i]
    <3> SUFFICES ASSUME NEW i \in 0 .. depth' - 1
                 PROVE  entry[Below(i)'] = calls[i + 1]
      BY <2>1, <1>2, Zenon
    <3>1. i + 1 \in 0 .. depth - 1 /\ i + 1 < MaxSize
      BY <1>1, <1>2 DEF TypeOK
    <3>2. Below(i)' = Below(i + 1)
      BY <3>1, <2>1, <1>1 DEF TypeOK, Below
    <3> QED
      BY <3>1, <3>2, <1>1, Zenon DEF LatestCallsKept
  <2>6. (depth > 0 => Popped = calls[0])'
    <3> SUFFICES ASSUME depth' > 0
                 PROVE  Popped' = calls'[0]
      BY Zenon
    <3>1. 0 \in 0 .. depth' - 1 /\ Below(0)' = sptop' /\ cur_size' # 0
      BY <2>1, <2>3, <2>4 DEF TypeOK, FillAboveTop, Below
    <3> QED
      BY <3>1, <2>5, Zenon DEF Popped, ras_empty
  <2> QED
    BY <2>3, <2>4, <2>5, <2>6, Zenon DEF Inv, LatestCallsKept
<1> QED
  BY <1>3, <1>4, Zenon

(***************************************************************************)
(* ras_flush keeps it.                                                     *)
(***************************************************************************)
LEMMA FlushInv == ASSUME Inv, Flush PROVE Inv'
BY RasAssumption
   DEF Flush, Inv, TypeOK, FillAboveTop, LatestCallsKept

(***************************************************************************)
(* The invariant holds in every state of the return address stack.         *)
(***************************************************************************)
LEMMA Invariance == Spec => []Inv
<1>1. Inv /\ [Next]_vars => Inv'
  <2> SUFFICES ASSUME Inv, [Next]_vars PROVE Inv'
    BY Zenon
  <2>1. CASE UNCHANGED vars
    BY <2>1, Zenon DEF vars, ras, Inv, TypeOK, FillAboveTop, LatestCallsKept, Below,
                Popped, ras_empty
  <2> QED
    BY <2>1, PushInv, PopInv, FlushInv, Zenon DEF Next
<1> QED
  BY <1>1, InitInv, PTL DEF Spec

(***************************************************************************)
(* The indices of the return address stack stay inside its array.          *)
(***************************************************************************)
THEOREM TypeCorrect == Spec => []TypeOK
BY Invariance, PTL DEF Inv

(***************************************************************************)
(* ras_push and ras_pop keep the latest calls that have not returned, as   *)
(* many as there is room for, through any number of overflows.             *)
(***************************************************************************)
THEOREM LatestCallsAlways == Spec => []LatestCallsKept
BY Invariance, PTL DEF Inv

-----------------------------------------------------------------------------
(* The inductive invariant *)

\* A latch holds a target only for a branch, and the right one for a
\* conditional branch; only a decoded branch is resolved.
LatchOK(e) ==
  /\ e.resolved => e.decoded
  /\ B!Ins(e.pc).kind = "plain" => e.predicted = 0 /\ ~e.resolved
  /\ B!Ins(e.pc).kind = "cond" /\ e.predicted # 0 => e.predicted \in B!Ins(e.pc).targets

\* Where fetch went on after e was fetched, or decoded, or executed.
NextOf(e) ==
  IF e.resolved THEN e.next
  ELSE IF e.predicted # 0 THEN e.predicted ELSE e.pc + 1

WindowInv ==
  /\ space \in Spaces
  /\ window \in Seq(B!Latch)
  /\ \A i \in DOMAIN window : LatchOK(window[i])

\* An entry is of a branch of this address space and holds a target of it.
EntryOK(b) ==
  b.pc # 0 => /\ B!Ins(b.pc).kind # "plain"
              /\ b.target # 0 => b.target \in B!Ins(b.pc).targets

BtbInv ==
  /\ btb \in [0 .. BtbSets - 1 -> [B!Ways(BtbWays) -> B!BtbEntry]]
  /\ \A s \in 0 .. BtbSets - 1, w \in B!Ways(BtbWays) : EntryOK(btb[s][w])

\* The instructions in flight follow one another, from arch_pc to pc.
ChainInv ==
  /\ \A i \in 1 .. Len(window) - 1 : window[i + 1].pc = NextOf(window[i])
  /\ window = <<>> => bpu_pc = arch_pc
  /\ window # <<>> => bpu_pc = NextOf(window[Len(window)]) /\ arch_pc = window[1].pc

IInv == WindowInv /\ BtbInv /\ ChainInv /\ asserts = TRUE

-----------------------------------------------------------------------------
\* What is read from the buffer for an address.
LEMMA HitOK ==
  ASSUME B!BranchAssumption, WindowInv, BtbInv, NEW p \in B!Pcs, B!Hits(btb, p) # {}
  PROVE  LET b == btb[B!Set(p)][CHOOSE w \in B!Hits(btb, p) : TRUE]
         IN  /\ b \in B!BtbEntry /\ b.pc = p
             /\ B!Ins(p).kind # "plain"
             /\ b.target # 0 => b.target \in B!Ins(p).targets
<1> DEFINE w == CHOOSE w \in B!Hits(btb, p) : TRUE
<1>1. w \in B!Hits(btb, p)
  BY Zenon
<1>2. w \in B!Ways(BtbWays) /\ btb[B!Set(p)][w].pc = p
  BY <1>1, Zenon DEF B!Hits
<1>3. B!Set(p) \in 0 .. BtbSets - 1
  BY DEF B!Set, B!BranchAssumption, B!Pcs
<1>4. btb[B!Set(p)][w] \in B!BtbEntry /\ EntryOK(btb[B!Set(p)][w])
  BY <1>2, <1>3, Zenon DEF BtbInv
<1>5. QED
  BY <1>2, <1>4 DEF EntryOK, B!Pcs

-----------------------------------------------------------------------------
(***************************************************************************)
(* Fetch appends a latch whose prediction is what fetch follows.           *)
(***************************************************************************)
LEMMA FetchStep ==
  ASSUME B!BranchAssumption, IInv, NEW ap \in BOOLEAN, NEW taken \in BOOLEAN, B!Fetch(ap, taken)
  PROVE  IInv'
<1> DEFINE hits == B!Hits(btb, bpu_pc)
           found == btb[B!Set(bpu_pc)][CHOOSE w \in hits : TRUE]
           hit == hits # {} /\ (ap \/ found.type = "uncond")
           target == IF hit THEN B!bpu_get_target(found, taken) ELSE 0
           e == [pc |-> bpu_pc, btb_hit |-> hits # {}, bpu_hit |-> hit,
                 predicted |-> target, decoded |-> FALSE, resolved |-> FALSE, next |-> 0]
<1>1. /\ bpu_pc \in B!Pcs /\ window' = Append(window, e)
      /\ bpu_pc' = IF target # 0 THEN target ELSE bpu_pc + 1
      /\ UNCHANGED <<space, btb, arch_pc, asserts>>
  BY Zenon DEF B!Fetch
<1>2. target # 0 => /\ target \in B!Pcs
                    /\ B!Ins(bpu_pc).kind # "plain"
                    /\ target \in B!Ins(bpu_pc).targets
  <2>1. CASE hits = {}
    BY <2>1, Zenon
  <2>2. CASE hits # {}
    <3>1. /\ found \in B!BtbEntry
          /\ B!Ins(bpu_pc).kind # "plain"
          /\ found.target # 0 => found.target \in B!Ins(bpu_pc).targets
      BY <1>1, <2>2, HitOK, Zenon DEF IInv
    <3>2. target # 0 => target = found.target
      BY Zenon DEF B!bpu_get_target
    <3>3. found.target \in B!Pcs \cup {0}
      BY <3>1, Zenon DEF B!BtbEntry
    <3>4. QED
      BY <3>1, <3>2, <3>3, Zenon
  <2>3. QED
    BY <2>1, <2>2, Zenon
<1>3. e \in B!Latch /\ LatchOK(e)
  <2>1. target \in B!Pcs \cup {0}
    BY <1>2, Zenon
  <2>2. 0 \in 0 .. NumPcs + 1 /\ hit \in BOOLEAN /\ (hits # {}) \in BOOLEAN
    BY DEF B!BranchAssumption
  <2>3. e \in B!Latch
    BY <1>1, <2>1, <2>2, Zenon DEF B!Latch
  <2>4. QED
    BY <1>2, <2>3, Zenon DEF LatchOK
<1> HIDE DEF e
<1>4. /\ window \in Seq(B!Latch)
      /\ window' \in Seq(B!Latch) /\ Len(window') = Len(window) + 1
      /\ window'[Len(window) + 1] = e
      /\ \A i \in 1 .. Len(window) : window'[i] = window[i]
  BY <1>1, <1>3 DEF IInv, WindowInv
<1>5. WindowInv'
  BY <1>1, <1>3, <1>4 DEF IInv, WindowInv, LatchOK, B!Ins
<1>6. BtbInv'
  BY <1>1, Zenon DEF IInv, BtbInv, EntryOK, B!Ins
<1>7. e.pc = bpu_pc /\ NextOf(e) = bpu_pc'
  BY <1>1 DEF e, NextOf
<1>8. ChainInv'
  BY <1>1, <1>4, <1>7 DEF IInv, ChainInv, NextOf
<1>9. QED
  BY <1>1, <1>5, <1>6, <1>8, Zenon DEF IInv

(***************************************************************************)
(* A branch that is redirected: it is the last one in flight, and fetch    *)
(* goes on after it.                                                       *)
(***************************************************************************)
LEMMA CutKeeps ==
  ASSUME IInv, NEW i \in DOMAIN window, NEW d \in B!Latch, LatchOK(d),
         d.pc = window[i].pc, window' = Append(SubSeq(window, 1, i - 1), d),
         bpu_pc' = NextOf(d), UNCHANGED <<space, arch_pc>>
  PROVE  WindowInv' /\ ChainInv'
<1>1. window \in Seq(B!Latch) /\ i \in 1 .. Len(window)
  BY DEF IInv, WindowInv
<1>2. /\ window' \in Seq(B!Latch) /\ Len(window') = i
      /\ window'[i] = d
      /\ \A j \in 1 .. i - 1 : window'[j] = window[j]
  BY <1>1
<1>3. WindowInv'
  <2>1. ASSUME NEW j \in DOMAIN window'
        PROVE  LatchOK(window[j])'
    <3>1. CASE j = i
      BY <1>2, <3>1 DEF LatchOK, B!Ins
    <3>2. CASE j # i
      <4>1. j \in DOMAIN window /\ window'[j] = window[j]
        BY <1>1, <1>2, <3>2
      <4>2. LatchOK(window[j])
        BY <4>1 DEF IInv, WindowInv
      <4> QED
        BY <4>1, <4>2 DEF LatchOK, B!Ins
    <3> QED
      BY <3>1, <3>2
  <2> QED
    BY <1>2, <2>1 DEF IInv, WindowInv
<1>4. ASSUME NEW j \in 1 .. i - 1
      PROVE  window'[j + 1].pc = NextOf(window'[j])
  <2>1. window'[j] = window[j]
    BY <1>2, Zenon
  <2>2. window[j + 1].pc = NextOf(window[j])
    BY <1>1 DEF IInv, ChainInv
  <2>3. window'[j + 1].pc = window[j + 1].pc
    <3>1. CASE j = i - 1
      BY <1>1, <1>2, <3>1
    <3>2. CASE j # i - 1
      BY <1>1, <1>2, <3>2
    <3>3. QED
      BY <3>1, <3>2, Zenon
  <2>4. QED
    BY <2>1, <2>2, <2>3, Zenon
<1>5. window' # <<>> /\ arch_pc' = window'[1].pc
  BY <1>1, <1>2 DEF IInv, ChainInv
<1>6. QED
  BY <1>2, <1>3, <1>4, <1>5, Zenon DEF ChainInv, NextOf

(***************************************************************************)
(* A latch that changes, but not in where fetch went on after it.          *)
(***************************************************************************)
LEMMA ReplaceKeeps ==
  ASSUME IInv, NEW i \in DOMAIN window, NEW d \in B!Latch, LatchOK(d),
         d.pc = window[i].pc, NextOf(d) = NextOf(window[i]),
         window' = [window EXCEPT ![i] = d], UNCHANGED <<space, bpu_pc, arch_pc>>
  PROVE  WindowInv' /\ ChainInv'
<1>1. window \in Seq(B!Latch) /\ i \in 1 .. Len(window)
  BY DEF IInv, WindowInv
<1>2. /\ window' \in Seq(B!Latch) /\ Len(window') = Len(window)
      /\ window'[i] = d
      /\ \A j \in 1 .. Len(window) : j # i => window'[j] = window[j]
  BY <1>1
<1>3. WindowInv'
  BY <1>1, <1>2 DEF IInv, WindowInv, LatchOK, B!Ins
<1>4. \A j \in 1 .. Len(window) :
        window'[j].pc = window[j].pc /\ NextOf(window'[j]) = NextOf(window[j])
  BY <1>2, Zenon
<1>5. window # <<>> /\ window' # <<>>
  BY <1>1, <1>2
<1>6. bpu_pc' = NextOf(window'[Len(window')]) /\ arch_pc' = window'[1].pc
  BY <1>1, <1>2, <1>4, <1>5 DEF IInv, ChainInv
<1>7. \A j \in 1 .. Len(window') - 1 : window'[j + 1].pc = NextOf(window'[j])
  BY <1>1, <1>2, <1>4 DEF IInv, ChainInv
<1>8. QED
  BY <1>3, <1>5, <1>6, <1>7, Zenon DEF ChainInv, NextOf

\* Decode predicts returns only.
LEMMA DecodeStep ==
  ASSUME B!BranchAssumption, IInv, NEW t \in B!Pcs \cup {0}, B!Decode(t)
  PROVE  IInv'
<1>1. PICK i \in DOMAIN window :
        LET e == window[i]
            redirect == HasRas /\ B!Ins(e.pc).kind = "ret" /\ t # 0
        IN  /\ ~e.decoded
            /\ IF redirect
               THEN /\ window' = Append(SubSeq(window, 1, i - 1),
                           [e EXCEPT !.decoded = TRUE, !.predicted = t])
                    /\ bpu_pc' = t
               ELSE /\ window' = [window EXCEPT ![i].decoded = TRUE]
                    /\ UNCHANGED bpu_pc
            /\ UNCHANGED <<space, btb, arch_pc, asserts>>
  BY Zenon DEF B!Decode
<1> DEFINE e == window[i]
<1>2. e \in B!Latch /\ LatchOK(e) /\ ~e.decoded
  BY <1>1 DEF IInv, WindowInv
<1>3. BtbInv' /\ asserts' = TRUE
  BY <1>1, Zenon DEF IInv, BtbInv, EntryOK, B!Ins
<1>4. CASE HasRas /\ B!Ins(e.pc).kind = "ret" /\ t # 0
  <2> DEFINE d == [e EXCEPT !.decoded = TRUE, !.predicted = t]
  <2>1. d \in B!Latch
    BY <1>2, Zenon DEF B!Latch
  <2>2. LatchOK(d) /\ d.pc = e.pc /\ NextOf(d) = t
    BY <1>2, <1>4, Zenon DEF LatchOK, NextOf, B!Latch
  <2>3. window' = Append(SubSeq(window, 1, i - 1), d) /\ bpu_pc' = t
    BY <1>1, <1>4, Zenon
  <2> HIDE DEF d
  <2>4. QED
    BY <1>1, <1>3, <2>1, <2>2, <2>3, CutKeeps, Zenon DEF IInv
<1>5. CASE ~(HasRas /\ B!Ins(e.pc).kind = "ret" /\ t # 0)
  <2> DEFINE d == [e EXCEPT !.decoded = TRUE]
  <2>1. d \in B!Latch
    BY <1>2, Zenon DEF B!Latch
  <2>2. LatchOK(d) /\ d.pc = e.pc /\ NextOf(d) = NextOf(e)
    BY <1>2, Zenon DEF LatchOK, NextOf, B!Latch
  <2>3. window' = [window EXCEPT ![i] = d] /\ UNCHANGED bpu_pc
    BY <1>1, <1>5, Zenon
  <2> HIDE DEF d
  <2>4. QED
    BY <1>1, <1>3, <2>1, <2>2, <2>3, ReplaceKeeps, Zenon DEF IInv
<1>6. QED
  BY <1>4, <1>5, Zenon

\* bpu_add and bpu_update write entries of the branch that executes.
LEMMA BtbKeeps ==
  ASSUME B!BranchAssumption, WindowInv, BtbInv, NEW e \in B!Latch, NEW victim,
         B!IsBranch(e.pc), NEW t \in B!Ins(e.pc).targets \cap B!Pcs,
         btb' = B!Updated(B!Added(e, victim), e.pc, t), UNCHANGED space
  PROVE  BtbInv'
<1> DEFINE b == B!Added(e, victim)
           new == [pc |-> e.pc, target |-> 0, type |-> B!BranchType(e.pc)]
           upd == [pc |-> e.pc, target |-> t, type |-> B!BranchType(e.pc)]
<1>1. new \in B!BtbEntry /\ upd \in B!BtbEntry
  BY Zenon DEF B!BtbEntry, B!Latch, B!BranchType
<1>2. EntryOK(new) /\ EntryOK(upd)
  BY Zenon DEF EntryOK, B!IsBranch
<1> HIDE DEF new, upd
<1>3. /\ b \in [0 .. BtbSets - 1 -> [B!Ways(BtbWays) -> B!BtbEntry]]
      /\ \A s \in 0 .. BtbSets - 1, w \in B!Ways(BtbWays) :
           b[s][w] = btb[s][w] \/ b[s][w] = new
  BY <1>1, Zenon DEF BtbInv, B!Added, new
<1> HIDE DEF b
<1>4. /\ btb' \in [0 .. BtbSets - 1 -> [B!Ways(BtbWays) -> B!BtbEntry]]
      /\ \A s \in 0 .. BtbSets - 1, w \in B!Ways(BtbWays) :
           btb'[s][w] = b[s][w] \/ btb'[s][w] = upd
  BY <1>1, <1>3, Zenon DEF B!Updated, b, upd
<1>5. \A s \in 0 .. BtbSets - 1, w \in B!Ways(BtbWays) : EntryOK(btb'[s][w])
  BY <1>2, <1>3, <1>4 DEF BtbInv
<1>6. QED
  BY <1>4, <1>5, Zenon DEF BtbInv, EntryOK, B!Ins

\* A branch that was predicted right goes on where fetch did, since a
\* conditional branch has one target; any other cuts off what was fetched.
LEMMA ExecuteStep ==
  ASSUME B!BranchAssumption, IInv, NEW i \in DOMAIN window, NEW taken \in BOOLEAN,
         NEW t \in B!Pcs, B!Execute(i, taken, t)
  PROVE  IInv'
<1> DEFINE e == window[i]
           next == IF taken THEN t ELSE e.pc + 1
           done == [e EXCEPT !.resolved = TRUE, !.next = next]
<1>1. /\ e.decoded /\ ~e.resolved
      /\ B!IsBranch(e.pc) /\ t \in B!Ins(e.pc).targets
      /\ B!Ins(e.pc).kind # "cond" => taken
      /\ UNCHANGED <<space, arch_pc>>
  BY Zenon DEF B!Execute
<1>2. e \in B!Latch /\ LatchOK(e) /\ space \in Spaces
  BY DEF IInv, WindowInv
<1>3. BtbInv'
  <2>1. PICK victim : btb' = B!Updated(B!Added(e, victim), e.pc, t)
    BY Zenon DEF B!Execute
  <2>2. QED
    BY <1>1, <1>2, <2>1, BtbKeeps, Zenon DEF IInv
<1>4. next \in 0 .. NumPcs + 1
  BY <1>2 DEF B!Latch, B!Pcs, B!BranchAssumption
<1>5. /\ done \in B!Latch /\ LatchOK(done)
      /\ done.pc = e.pc /\ NextOf(done) = next
  <2>1. done \in B!Latch
    BY <1>2, <1>4, Zenon DEF B!Latch
  <2>2. LatchOK(done)
    BY <1>1, <1>2, Zenon DEF LatchOK, B!Latch, B!IsBranch
  <2>3. done.pc = e.pc /\ NextOf(done) = next
    BY <1>2, Zenon DEF NextOf, B!Latch
  <2>4. QED
    BY <2>1, <2>2, <2>3, Zenon
<1>6. B!Ins(e.pc).kind = "cond" /\ e.predicted # 0 => e.predicted = t
  BY <1>1, <1>2 DEF LatchOK, B!Ins, B!BranchAssumption, B!Latch
<1>7. asserts' = TRUE
  BY <1>6, Zenon DEF B!Execute
<1>8. CASE B!Mispredicted(e, taken, t)
  <2>1. window' = Append(SubSeq(window, 1, i - 1), done) /\ bpu_pc' = next
    BY <1>8, Zenon DEF B!Execute
  <2> HIDE DEF done, next
  <2>2. WindowInv' /\ ChainInv'
    BY <1>1, <1>5, <2>1, CutKeeps, Zenon
  <2>3. QED
    BY <1>3, <1>7, <2>2, Zenon DEF IInv
<1>9. CASE ~B!Mispredicted(e, taken, t)
  <2>1. window' = [window EXCEPT ![i] = done] /\ UNCHANGED bpu_pc
    BY <1>9, Zenon DEF B!Execute
  <2>2. next = NextOf(e)
    <3>1. CASE B!Ins(e.pc).kind = "cond"
      BY <1>1, <1>6, <1>9, <3>1, Zenon DEF B!Mispredicted, NextOf
    <3>2. CASE B!Ins(e.pc).kind # "cond"
      BY <1>1, <1>9, <3>2 DEF B!Mispredicted, NextOf, B!Pcs
    <3>3. QED
      BY <3>1, <3>2, Zenon
  <2> HIDE DEF done, next
  <2>3. WindowInv' /\ ChainInv'
    BY <1>1, <1>5, <2>1, <2>2, ReplaceKeeps, Zenon
  <2>4. QED
    BY <1>3, <1>7, <2>3, Zenon DEF IInv
<1>10. QED
  BY <1>8, <1>9, Zenon

\* Commit takes the oldest latch: the next one is where the program goes on.
LEMMA CommitStep ==
  ASSUME IInv, B!Commit
  PROVE  IInv'
<1> DEFINE e == Head(window)
<1>1. /\ window # <<>> /\ window \in Seq(B!Latch)
      /\ window' = Tail(window)
      /\ B!IsBranch(e.pc) => e.resolved
      /\ arch_pc' = IF B!IsBranch(e.pc) THEN e.next ELSE e.pc + 1
      /\ UNCHANGED <<space, btb, bpu_pc, asserts>>
  BY Zenon DEF B!Commit, IInv, WindowInv
<1>2. e = window[1] /\ LatchOK(e)
  BY <1>1 DEF IInv, WindowInv
<1>3. arch_pc' = NextOf(e)
  BY <1>1, <1>2, Zenon DEF NextOf, LatchOK, B!IsBranch
<1>4. /\ window' \in Seq(B!Latch) /\ Len(window') = Len(window) - 1
      /\ \A j \in 1 .. Len(window) - 1 : window'[j] = window[j + 1]
  BY <1>1
<1>5. WindowInv'
  BY <1>1, <1>4 DEF IInv, WindowInv, LatchOK, B!Ins
<1>6. BtbInv' /\ asserts' = TRUE
  BY <1>1, Zenon DEF IInv, BtbInv, EntryOK, B!Ins
<1>7. \A j \in 1 .. Len(window') - 1 : window'[j + 1].pc = NextOf(window'[j])
  BY <1>1, <1>4 DEF IInv, ChainInv
<1>8. CASE Len(window) = 1
  <2>1. window' = <<>>
    BY <1>1, <1>4, <1>8
  <2>2. bpu_pc' = arch_pc'
    BY <1>1, <1>2, <1>3, <1>8, Zenon DEF IInv, ChainInv
  <2>3. QED
    BY <1>5, <1>6, <1>7, <2>1, <2>2, Zenon DEF IInv, ChainInv, NextOf
<1>9. CASE Len(window) > 1
  <2>0. 1 \in 1 .. Len(window) - 1 /\ Len(window') # 0
    BY <1>1, <1>4, <1>9
  <2>1. window' # <<>> /\ window'[1] = window[2]
    BY <1>4, <2>0
  <2>2. arch_pc' = window'[1].pc
    BY <1>1, <1>2, <1>3, <1>9, <2>1 DEF IInv, ChainInv
  <2>3. bpu_pc' = NextOf(window'[Len(window')])
    BY <1>1, <1>4, <1>9 DEF IInv, ChainInv
  <2>4. QED
    BY <1>5, <1>6, <1>7, <2>1, <2>2, <2>3, Zenon DEF IInv, ChainInv, NextOf
<1>10. Len(window) = 1 \/ Len(window) > 1
  <2>1. Len(window) \in Nat /\ Len(window) # 0
    BY <1>1
  <2>2. \A n \in Nat : n # 0 => n = 1 \/ n > 1
    OBVIOUS
  <2>3. QED
    BY <2>1, <2>2, Zenon
<1>11. QED
  BY <1>8, <1>9, <1>10, Zenon

\* An empty pipeline follows arch_pc; in another address space the buffer is
\* empty too.
LEMMA RestartStep ==
  ASSUME B!BranchAssumption, FlushOnSwitch, IInv,
         \/ \E p \in B!Pcs : B!SimExit(p)
         \/ \E sp \in Spaces, p \in B!Pcs : B!ContextSwitch(sp, p)
  PROVE  IInv'
<1>1. window' = <<>> /\ bpu_pc' = arch_pc' /\ asserts' = TRUE /\ space' \in Spaces
  BY Zenon DEF B!SimExit, B!ContextSwitch, IInv, WindowInv
<1>2. WindowInv' /\ ChainInv'
  BY <1>1 DEF WindowInv, ChainInv
<1>3. BtbInv'
  <2>1. CASE UNCHANGED <<space, btb>>
    BY <2>1, Zenon DEF IInv, BtbInv, EntryOK, B!Ins
  <2>2. CASE btb' = B!FlushedBtb
    BY <2>2, Zenon DEF BtbInv, EntryOK, B!FlushedBtb, B!BtbEntry
  <2>3. QED
    BY <2>1, <2>2, Zenon DEF B!SimExit, B!ContextSwitch
<1>4. QED
  BY <1>1, <1>2, <1>3, Zenon DEF IInv

-----------------------------------------------------------------------------
\* What is committed is the path of the program, whatever is predicted, and the
\* assertion of bpu_enabled_conditional_branch_handler holds.
THEOREM CommitsProgramAlways ==
  ASSUME B!BranchAssumption, FlushOnSwitch
  PROVE  B!Spec => []B!CommitsProgram
<1>1. B!Init => IInv
  BY DEF B!Init, IInv, WindowInv, BtbInv, ChainInv, B!FlushedBtb, B!BtbEntry, EntryOK
<1>2. IInv /\ [B!Next]_(B!vars) => IInv'
  <2> SUFFICES ASSUME IInv, [B!Next]_(B!vars) PROVE IInv'
    BY Zenon
  <2>1. CASE \E ap, taken \in BOOLEAN : B!Fetch(ap, taken)
    BY <2>1, FetchStep, Zenon
  <2>2. CASE \E t \in B!Pcs \cup {0} : B!Decode(t)
    BY <2>2, DecodeStep, Zenon
  <2>3. CASE \E i \in DOMAIN window, taken \in BOOLEAN, t \in B!Pcs : B!Execute(i, taken, t)
    BY <2>3, ExecuteStep, Zenon
  <2>4. CASE B!Commit
    BY <2>4, CommitStep, Zenon
  <2>5. CASE \/ \E p \in B!Pcs : B!SimExit(p)
             \/ \E sp \in Spaces, p \in B!Pcs : B!ContextSwitch(sp, p)
    BY <2>5, RestartStep, Zenon
  <2>6. CASE UNCHANGED B!vars
    BY <2>6, Zenon DEF B!vars, IInv, WindowInv, BtbInv, ChainInv, LatchOK, EntryOK, NextOf, B!Ins
  <2>7. QED
    BY <2>1, <2>2, <2>3, <2>4, <2>5, <2>6, Zenon DEF B!Next
<1>3. IInv => B!CommitsProgram
  BY DEF IInv, WindowInv, ChainInv, B!CommitsProgram
<1>4. QED
  BY <1>1, <1>2, <1>3, PTL DEF B!Spec
=============================================================================
