-------------------------- MODULE MemSystem_proofs --------------------------
(***************************************************************************)
(* Properties of the memory controller at work, for all sets of accesses,  *)
(* latencies and queue sizes.                                              *)
(***************************************************************************)
EXTENDS MemSystem, FiniteSetTheorems, SequenceTheorems,
        WellFoundedInduction, TLAPS

Access == Seq([addr : Nat, type : MemAccessType])

Counts(sq) == sq.cur_size = Cardinality(Pending(sq))

(***************************************************************************)
(* A non-empty set of naturals has a least element, so that the search of  *)
(* the callbacks for the first matching entry finds one.                   *)
(***************************************************************************)
LEMMA SmallestOf ==
  ASSUME NEW W, W \subseteq Nat, W # {}
  PROVE  \E i \in W : \A j \in W : i <= j
<1>1. PICK i \in W : \A j \in W : ~(<<j, i>> \in OpToRel(<, Nat))
  BY NatLessThanWellFounded, WFMin, Zenon
<1>2. \A j \in W : i <= j
  <2> SUFFICES ASSUME NEW j \in W PROVE i <= j
    BY Zenon
  <2>1. ~(j < i)
    BY <1>1, Zenon DEF OpToRel
  <2> QED
    BY <2>1
<1> QED
  BY <1>2, Zenon

-----------------------------------------------------------------------------
(***************************************************************************)
(* Stage queues: what Release and AddToStage do to one.                    *)
(***************************************************************************)
LEMMA EmptyType == EmptyStageQueue \in StageQueue
  BY DEF EmptyStageQueue, StageQueue

LEMMA EmptyCounts == Counts(EmptyStageQueue)
<1>1. Pending(EmptyStageQueue) = {}
  BY DEF Pending, EmptyStageQueue
<1> QED
  BY <1>1, FS_EmptySet, Zenon DEF Counts, EmptyStageQueue

LEMMA ReleaseEmpty ==
  ASSUME NEW addr, NEW types
  PROVE  Release(EmptyStageQueue, addr, types) = EmptyStageQueue
<1>1. Waiting(EmptyStageQueue, addr, types) = {}
  BY DEF Waiting, EmptyStageQueue
<1> QED
  BY <1>1, Zenon DEF Release

(***************************************************************************)
(* Release either does nothing or clears the valid bit of one valid entry  *)
(* and takes one off cur_size.                                             *)
(***************************************************************************)
LEMMA ReleaseCases ==
  ASSUME NEW sq \in StageQueue, NEW addr, NEW types
  PROVE  \/ Release(sq, addr, types) = sq
         \/ \E i \in Pending(sq) :
              Release(sq, addr, types) =
                [cur_size |-> sq.cur_size - 1,
                 entry    |-> [sq.entry EXCEPT ![i].valid = FALSE]]
<1> DEFINE W == Waiting(sq, addr, types)
<1>1. CASE W = {}
  BY <1>1, Zenon DEF Release
<1>2. CASE W # {}
  <2>1. W \subseteq 1 .. Len(sq.entry) /\ W \subseteq Pending(sq)
    BY DEF Waiting, StageQueue, Pending
  <2>2. \E i \in W : \A j \in W : i <= j
    <3>1. W \subseteq Nat /\ W # {}
      BY <2>1, <1>2
    <3> HIDE DEF W
    <3> QED
      BY <3>1, SmallestOf, Zenon
  <2> DEFINE i == CHOOSE i \in W : \A j \in W : i <= j
  <2>3. i \in W
    BY <2>2, Zenon
  <2>4. Release(sq, addr, types) =
          [cur_size |-> sq.cur_size - 1,
           entry    |-> [sq.entry EXCEPT ![i].valid = FALSE]]
    BY <1>2, Zenon DEF Release
  <2> HIDE DEF i
  <2> QED
    BY <2>1, <2>3, <2>4, Zenon
<1> QED
  BY <1>1, <1>2, Zenon

LEMMA ReleaseType ==
  ASSUME NEW sq \in StageQueue, NEW addr, NEW types
  PROVE  Release(sq, addr, types) \in StageQueue
<1>1. ASSUME NEW i \in Pending(sq)
      PROVE  [sq.entry EXCEPT ![i].valid = FALSE] \in Seq(StageEntry(Nat))
  <2>1. sq.entry \in Seq(StageEntry(Nat)) /\ i \in 1 .. Len(sq.entry)
    BY DEF Pending, StageQueue
  <2>2. sq.entry[i] \in StageEntry(Nat)
    BY <2>1, ElementOfSeq, Zenon
  <2>3. [sq.entry[i] EXCEPT !.valid = FALSE] \in StageEntry(Nat)
    BY <2>2, Zenon DEF StageEntry
  <2> QED
    BY <2>1, <2>3, ExceptSeq
<1>2. CASE Release(sq, addr, types) = sq
  BY <1>2, Zenon
<1>3. ASSUME NEW i \in Pending(sq),
             Release(sq, addr, types) =
               [cur_size |-> sq.cur_size - 1,
                entry    |-> [sq.entry EXCEPT ![i].valid = FALSE]]
      PROVE  Release(sq, addr, types) \in StageQueue
  <2>1. sq.cur_size - 1 \in Int
    BY DEF StageQueue
  <2>2. [sq.entry EXCEPT ![i].valid = FALSE] \in Seq(StageEntry(Nat))
    BY <1>1, Zenon
  <2>3. \A c \in Int, e \in Seq(StageEntry(Nat)) :
          [cur_size |-> c, entry |-> e] \in StageQueue
    BY Zenon DEF StageQueue
  <2> QED
    BY <1>3, <2>1, <2>2, <2>3, Zenon
<1> QED
  BY <1>2, <1>3, ReleaseCases, Zenon

LEMMA PendingFinite ==
  ASSUME NEW sq \in StageQueue
  PROVE  IsFiniteSet(Pending(sq))
<1>1. sq.entry \in Seq(StageEntry(Nat))
  BY Zenon DEF StageQueue
<1>2. Len(sq.entry) \in Nat /\ Pending(sq) \subseteq 1 .. Len(sq.entry)
  BY <1>1 DEF Pending
<1>3. IsFiniteSet(1 .. Len(sq.entry))
  BY <1>2, FS_Interval
<1> QED
  BY <1>2, <1>3, FS_Subset, Zenon

LEMMA ReleaseCounts ==
  ASSUME NEW sq \in StageQueue, Counts(sq), NEW addr, NEW types
  PROVE  Counts(Release(sq, addr, types))
<1>1. CASE Release(sq, addr, types) = sq
  BY <1>1, Zenon
<1>2. ASSUME NEW i \in Pending(sq),
             Release(sq, addr, types) =
               [cur_size |-> sq.cur_size - 1,
                entry    |-> [sq.entry EXCEPT ![i].valid = FALSE]]
      PROVE  Counts(Release(sq, addr, types))
  <2> DEFINE rel == Release(sq, addr, types)
  <2>1. /\ rel.cur_size = sq.cur_size - 1
        /\ rel.entry = [sq.entry EXCEPT ![i].valid = FALSE]
    BY <1>2
  <2>2. sq.entry \in Seq(StageEntry(Nat))
    BY Zenon DEF StageQueue
  <2>3. Pending(rel) = Pending(sq) \ {i}
    <3>1. DOMAIN rel.entry = DOMAIN sq.entry /\ i \in DOMAIN sq.entry
      BY <2>1, Zenon DEF Pending
    <3>2. ~rel.entry[i].valid
      <4>1. sq.entry[i] \in StageEntry(Nat)
        BY <2>2, <3>1, ElementOfSeq
      <4>2. rel.entry[i] = [sq.entry[i] EXCEPT !.valid = FALSE]
        BY <2>1, <3>1, Zenon
      <4> QED
        BY <4>1, <4>2, Zenon DEF StageEntry
    <3>3. \A j \in DOMAIN sq.entry : j # i => rel.entry[j] = sq.entry[j]
      BY <2>1, Zenon
    <3> QED
      BY <3>1, <3>2, <3>3, Zenon DEF Pending
  <2> HIDE DEF rel
  <2>4. Cardinality(Pending(rel)) = Cardinality(Pending(sq)) - 1
    BY <2>3, PendingFinite, FS_RemoveElement, Zenon
  <2>5. Counts(rel)
    BY <2>1, <2>4, Zenon DEF Counts
  <2> QED
    BY <2>5, Zenon DEF rel
<1> QED
  BY <1>1, <1>2, ReleaseCases, Zenon

(***************************************************************************)
(* An access added to an empty stage queue: its bursts, all awaited.       *)
(***************************************************************************)
LEMMA AddToEmpty ==
  ASSUME NEW a \in Access
  PROVE  /\ AddToStage(EmptyStageQueue, a) \in StageQueue
         /\ Counts(AddToStage(EmptyStageQueue, a))
<1> DEFINE new == [k \in DOMAIN a |->
                     [addr |-> a[k].addr, type |-> a[k].type, valid |-> TRUE]]
           sq  == AddToStage(EmptyStageQueue, a)
<1>1. DOMAIN a = 1 .. Len(a) /\ Len(a) \in Nat
  BY DEF Access
<1>2. \A k \in 1 .. Len(a) :
        [addr |-> a[k].addr, type |-> a[k].type, valid |-> TRUE] \in StageEntry(Nat)
  <2>1. \A k \in 1 .. Len(a) : a[k] \in [addr : Nat, type : MemAccessType]
    BY ElementOfSeq, Zenon DEF Access
  <2> QED
    BY <2>1, Zenon DEF StageEntry
<1>3. new \in Seq(StageEntry(Nat)) /\ Len(new) = Len(a)
  BY <1>1, <1>2, IsASeq
<1> HIDE DEF new
<1>4. <<>> \o new = new
  BY <1>3, ConcatEmptySeq, Zenon
<1>5. sq = [cur_size |-> Len(a), entry |-> new]
  BY <1>1, <1>4 DEF AddToStage, EmptyStageQueue, new
<1>6. sq \in StageQueue
  BY <1>1, <1>3, <1>5 DEF StageQueue
<1>7. Pending(sq) = 1 .. Len(a)
  BY <1>1, <1>5 DEF Pending, new
<1>8. Cardinality(1 .. Len(a)) = Len(a)
  <2>1. \A n \in Int : Cardinality(1 .. n) = IF 1 > n THEN 0 ELSE n - 1 + 1
    BY FS_Interval
  <2> QED
    BY <1>1, <2>1
<1> QED
  BY <1>5, <1>6, <1>7, <1>8 DEF Counts

-----------------------------------------------------------------------------
(***************************************************************************)
(* The queue of requests: adding, signalling and invalidating keep its     *)
(* type, the request at its front, and start_access where it is set.       *)
(***************************************************************************)
LEMMA AddToRequestsProps ==
  ASSUME NEW queue \in Requests, NEW a \in Access
  PROVE  /\ AddToRequests(queue, a) \in Requests
         /\ queue # <<>> => /\ AddToRequests(queue, a) # <<>>
                            /\ AddToRequests(queue, a)[1] = queue[1]
<1> DEFINE new == [k \in DOMAIN a |->
              [addr |-> a[k].addr, type |-> a[k].type, valid |-> TRUE,
               start_access |-> FALSE]]
<1>1. DOMAIN a = 1 .. Len(a) /\ Len(a) \in Nat
  BY DEF Access
<1>2. \A k \in 1 .. Len(a) : a[k] \in [addr : Nat, type : MemAccessType]
  BY ElementOfSeq, Zenon DEF Access
<1>3. \A k \in 1 .. Len(a) :
        [addr |-> a[k].addr, type |-> a[k].type, valid |-> TRUE,
         start_access |-> FALSE] \in RequestEntry(Nat)
  BY <1>2, Zenon DEF RequestEntry
<1>4. new \in Seq(RequestEntry(Nat))
  BY <1>1, <1>3, IsASeq
<1> HIDE DEF new
<1>5. /\ queue \o new \in Seq(RequestEntry(Nat))
      /\ Len(queue \o new) = Len(queue) + Len(new)
      /\ \A i \in 1 .. Len(queue) + Len(new) :
            (queue \o new)[i] = IF i <= Len(queue) THEN queue[i]
                                ELSE new[i - Len(queue)]
  BY <1>4, ConcatProperties, Zenon DEF Requests
<1>6. queue # <<>> => /\ queue \o new # <<>>
                      /\ (queue \o new)[1] = queue[1]
  <2> SUFFICES ASSUME queue # <<>>
               PROVE  queue \o new # <<>> /\ (queue \o new)[1] = queue[1]
    BY Zenon
  <2>1. Len(queue) \in Nat /\ Len(queue) # 0 /\ Len(new) \in Nat
    BY <1>4, EmptySeq DEF Requests
  <2>2. (queue \o new)[1] = queue[1]
    BY <2>1, <1>5
  <2>3. Len(queue \o new) # 0
    BY <2>1, <1>5
  <2> QED
    BY <2>2, <2>3
<1> QED
  BY <1>5, <1>6, Zenon DEF AddToRequests, Requests, new

LEMMA SignalProps ==
  ASSUME NEW queue \in Requests, NEW sq
  PROVE  /\ Signal(queue, sq) \in Requests
         /\ queue # <<>> => /\ Signal(queue, sq) # <<>>
                            /\ queue[1].start_access => Signal(queue, sq)[1].start_access
<1> DEFINE upd(k) == [queue[k] EXCEPT !.start_access = @ \/ InStage(sq, queue[k].addr)]
<1>1. queue \in Seq(RequestEntry(Nat)) /\ Len(queue) \in Nat
      /\ DOMAIN queue = 1 .. Len(queue)
  BY DEF Requests
<1>2. \A k \in 1 .. Len(queue) : queue[k] \in RequestEntry(Nat)
  BY <1>1, ElementOfSeq, Zenon
<1>3. \A k \in 1 .. Len(queue) : InStage(sq, queue[k].addr) \in BOOLEAN
  BY Zenon DEF InStage
<1>4. \A k \in 1 .. Len(queue) :
        /\ upd(k) \in RequestEntry(Nat)
        /\ queue[k].start_access => upd(k).start_access
  BY <1>2, <1>3, Zenon DEF RequestEntry
<1>5. Signal(queue, sq) = [k \in 1 .. Len(queue) |-> upd(k)]
  BY <1>1, Zenon DEF Signal
<1> HIDE DEF upd
<1>6. Signal(queue, sq) \in Seq(RequestEntry(Nat)) /\ Len(Signal(queue, sq)) = Len(queue)
  BY <1>1, <1>4, <1>5, IsASeq
<1>7. ASSUME queue # <<>>
      PROVE  /\ Signal(queue, sq) # <<>>
             /\ queue[1].start_access => Signal(queue, sq)[1].start_access
  <2>1. Len(queue) # 0
    BY <1>1, <1>7, EmptySeq, Zenon
  <2> QED
    BY <2>1, <1>1, <1>4, <1>5, <1>6
<1> QED
  BY <1>6, <1>7, Zenon DEF Requests

LEMMA InvalidateProps ==
  ASSUME NEW queue \in Requests, NEW sq
  PROVE  /\ Invalidate(queue, sq) \in Requests
         /\ queue # <<>> => /\ Invalidate(queue, sq) # <<>>
                            /\ Invalidate(queue, sq)[1].start_access = queue[1].start_access
<1> DEFINE upd(k) == [queue[k] EXCEPT !.valid = @ /\ ~InStage(sq, queue[k].addr)]
<1>1. queue \in Seq(RequestEntry(Nat)) /\ Len(queue) \in Nat
      /\ DOMAIN queue = 1 .. Len(queue)
  BY DEF Requests
<1>2. \A k \in 1 .. Len(queue) : queue[k] \in RequestEntry(Nat)
  BY <1>1, ElementOfSeq, Zenon
<1>3. \A k \in 1 .. Len(queue) : InStage(sq, queue[k].addr) \in BOOLEAN
  BY Zenon DEF InStage
<1>4. \A k \in 1 .. Len(queue) :
        /\ upd(k) \in RequestEntry(Nat)
        /\ upd(k).start_access = queue[k].start_access
  BY <1>2, <1>3, Zenon DEF RequestEntry
<1>5. Invalidate(queue, sq) = [k \in 1 .. Len(queue) |-> upd(k)]
  BY <1>1, Zenon DEF Invalidate
<1> HIDE DEF upd
<1>6. /\ Invalidate(queue, sq) \in Seq(RequestEntry(Nat))
      /\ Len(Invalidate(queue, sq)) = Len(queue)
  BY <1>1, <1>4, <1>5, IsASeq
<1>7. ASSUME queue # <<>>
      PROVE  /\ Invalidate(queue, sq) # <<>>
             /\ Invalidate(queue, sq)[1].start_access = queue[1].start_access
  <2>1. Len(queue) # 0
    BY <1>1, <1>7, EmptySeq, Zenon
  <2> QED
    BY <2>1, <1>1, <1>4, <1>5, <1>6
<1> QED
  BY <1>6, <1>7, Zenon DEF Requests

-----------------------------------------------------------------------------
(***************************************************************************)
(* The inductive invariant.  OneAccessPerStage makes every access start    *)
(* from an empty stage queue, without which fetch_cpu_stage_exec, clearing *)
(* cur_size but not the entries, would break CurSizeCounts.                *)
(***************************************************************************)
Inv == TypeOK /\ ActiveIsFront /\ OneAccessPerStage /\ CurSizeCounts

LEMMA AccessType == Accesses \subseteq Access
  BY MemSystemAssumption, Zenon DEF Access

LEMMA CountsAll ==
  CurSizeCounts <=> Counts(frontend) /\ Counts(backend) /\ Counts(aim)
  BY Zenon DEF CurSizeCounts, Counts

LEMMA CountsAllNext ==
  CurSizeCounts' <=> Counts(frontend)' /\ Counts(backend)' /\ Counts(aim)'
  BY Zenon DEF CurSizeCounts, Counts, Pending

LEMMA IdleTypes == DramIdle \in DramState /\ FetchIdle \in FetchState /\ LsuIdle \in LsuState
  BY Zenon DEF DramIdle, DramState, FetchIdle, FetchState, LsuIdle, LsuState

LEMMA InitInv == Init => Inv
<1> SUFFICES ASSUME Init PROVE Inv
  BY Zenon
<1>1. TypeOK
  <2>1. mem_request_queue \in Requests
    BY DEF Init, Requests
  <2> QED
    BY <2>1, EmptyType, IdleTypes, Zenon DEF Init, TypeOK
<1>2. ActiveIsFront
  BY Zenon DEF Init, ActiveIsFront, DramIdle
<1>3. OneAccessPerStage
  BY Zenon DEF Init, OneAccessPerStage
<1>4. CurSizeCounts
  BY EmptyCounts, CountsAll, Zenon DEF Init
<1> QED
  BY <1>1, <1>2, <1>3, <1>4, Zenon DEF Inv

(***************************************************************************)
(* What a step of the DRAM may do to the stage queues: release entries.    *)
(***************************************************************************)
Releases ==
  /\ \E addr, types : frontend' = Release(frontend, addr, types) \/ frontend' = frontend
  /\ \E addr, types : backend' = Release(backend, addr, types) \/ backend' = backend
  /\ \E addr, types : aim' = Release(aim, addr, types) \/ aim' = aim

LEMMA ReleasesKeep ==
  ASSUME Inv, Releases, fetch' = fetch, lsu' = lsu
  PROVE  /\ frontend' \in StageQueue /\ backend' \in StageQueue /\ aim' \in StageQueue
         /\ OneAccessPerStage'
         /\ CurSizeCounts'
<1>1. frontend \in StageQueue /\ backend \in StageQueue /\ aim \in StageQueue
  BY Zenon DEF Inv, TypeOK
<1>2. Counts(frontend) /\ Counts(backend) /\ Counts(aim)
  BY CountsAll, Zenon DEF Inv
<1>3. frontend' \in StageQueue /\ Counts(frontend') /\
        (frontend = EmptyStageQueue => frontend' = EmptyStageQueue)
  BY <1>1, <1>2, ReleaseType, ReleaseCounts, ReleaseEmpty, Zenon DEF Releases
<1>4. backend' \in StageQueue /\ Counts(backend') /\
        (backend = EmptyStageQueue => backend' = EmptyStageQueue)
  BY <1>1, <1>2, ReleaseType, ReleaseCounts, ReleaseEmpty, Zenon DEF Releases
<1>5. aim' \in StageQueue /\ Counts(aim') /\
        (aim = EmptyStageQueue => aim' = EmptyStageQueue)
  BY <1>1, <1>2, ReleaseType, ReleaseCounts, ReleaseEmpty, Zenon DEF Releases
<1>6. OneAccessPerStage'
  BY <1>3, <1>4, <1>5, Zenon DEF Inv, OneAccessPerStage, EmptyStageQueue
<1>7. CurSizeCounts'
  BY <1>3, <1>4, <1>5, CountsAllNext, Zenon DEF Counts, Pending
<1> QED
  BY <1>3, <1>4, <1>5, <1>6, <1>7, Zenon

(***************************************************************************)
(* Steps that only move on to the next phase of the cycle.                 *)
(***************************************************************************)
LEMMA OnlyPhase ==
  ASSUME Inv, UNCHANGED <<queues, dram, fetch, lsu>>, skip_fetch_cycle' \in BOOLEAN,
         phase' \in {"mc", "lsu", "exec", "fetch", "aborted"}
  PROVE  Inv'
<1>1. UNCHANGED <<frontend, backend, aim, mem_request_queue, dram, fetch, lsu>>
  BY Zenon DEF queues
<1>2. TypeOK'
  BY <1>1, Zenon DEF Inv, TypeOK
<1>3. ActiveIsFront'
  BY <1>1, Zenon DEF Inv, ActiveIsFront, front
<1>4. OneAccessPerStage'
  BY <1>1, Zenon DEF Inv, OneAccessPerStage
<1>5. CurSizeCounts'
  BY <1>1, Zenon DEF Inv, CurSizeCounts, Pending
<1> QED
  BY <1>2, <1>3, <1>4, <1>5, Zenon DEF Inv

(***************************************************************************)
(* mem_controller_clock.                                                   *)
(***************************************************************************)
LEMMA ClockDropInv ==
  ASSUME Inv, ClockDrop
  PROVE  Inv'
<1>1. mem_request_queue' \in Requests
  BY HeadTailProperties, Zenon DEF Inv, TypeOK, Requests, ClockDrop
<1>2. TypeOK'
  BY <1>1, Zenon DEF Inv, TypeOK, ClockDrop
<1>3. ActiveIsFront'
  BY Zenon DEF ClockDrop, ActiveIsFront
<1>4. OneAccessPerStage'
  BY Zenon DEF Inv, ClockDrop, OneAccessPerStage
<1>5. CurSizeCounts'
  BY Zenon DEF Inv, ClockDrop, CurSizeCounts, Pending
<1> QED
  BY <1>2, <1>3, <1>4, <1>5, Zenon DEF Inv

LEMMA ClockSendInv ==
  ASSUME Inv, NEW latency \in DramLatencies, ClockSend(latency)
  PROVE  Inv'
<1>1. Releases
  <2>1. \E addr, types : frontend' = Release(frontend, addr, types) \/ frontend' = frontend
    BY Zenon DEF ClockSend, ReleaseFrontend
  <2>2. \E addr, types : backend' = Release(backend, addr, types) \/ backend' = backend
    BY Zenon DEF ClockSend, ReleaseBackend
  <2>3. \E addr, types : aim' = Release(aim, addr, types) \/ aim' = aim
    BY Zenon DEF ClockSend, ReleaseAimWrite
  <2> QED
    BY <2>1, <2>2, <2>3, Zenon DEF Releases
<1>2. UNCHANGED <<mem_request_queue, fetch, lsu, skip_fetch_cycle>>
  BY Zenon DEF ClockSend
<1>3. MaxClockCycles(front.type, latency, LlcDelay) \in Nat
      /\ 2 <= MaxClockCycles(front.type, latency, LlcDelay)
  <2>1. latency \in Nat \ {0} /\ LlcDelay \in Nat \ {0}
    BY MemSystemAssumption, Zenon
  <2> QED
    BY <2>1 DEF MaxClockCycles
<1>4. dram' = [mem_access_active |-> TRUE, active_mem_request |-> 1,
               elapsed_clock_cycles |-> 2,
               max_clock_cycles |-> MaxClockCycles(front.type, latency, LlcDelay)]
  BY Zenon DEF ClockSend
<1>5. dram' \in DramState
  BY <1>3, <1>4, Zenon DEF DramState
<1>6. TypeOK'
  BY <1>1, <1>2, <1>5, ReleasesKeep, Zenon DEF Inv, TypeOK, ClockSend
<1>7. ActiveIsFront'
  <2>1. mem_request_queue # <<>> /\ front.start_access
    BY Zenon DEF ClockSend
  <2> QED
    BY <2>1, <1>2, <1>3, <1>4, Zenon DEF ActiveIsFront, front
<1> QED
  BY <1>1, <1>2, <1>6, <1>7, ReleasesKeep, Zenon DEF Inv

LEMMA ClockTickInv ==
  ASSUME Inv, ClockTick
  PROVE  Inv'
<1>1. UNCHANGED <<frontend, backend, aim, mem_request_queue, fetch, lsu, skip_fetch_cycle>>
  BY Zenon DEF ClockTick, queues
<1>2. dram' \in DramState
  BY DEF Inv, TypeOK, ClockTick, DramState
<1>3. TypeOK'
  BY <1>1, <1>2, Zenon DEF Inv, TypeOK, ClockTick
<1>4. ActiveIsFront'
  BY <1>1 DEF Inv, TypeOK, DramState, ClockTick, ActiveIsFront, front
<1>5. OneAccessPerStage'
  BY <1>1, Zenon DEF Inv, OneAccessPerStage
<1>6. CurSizeCounts'
  BY <1>1, Zenon DEF Inv, CurSizeCounts, Pending
<1> QED
  BY <1>3, <1>4, <1>5, <1>6, Zenon DEF Inv

LEMMA ClockDoneInv ==
  ASSUME Inv, ClockDone
  PROVE  Inv'
<1>1. Releases
  <2>1. \E addr, types : frontend' = Release(frontend, addr, types) \/ frontend' = frontend
    BY Zenon DEF ClockDone, ReleaseFrontend
  <2>2. \E addr, types : backend' = Release(backend, addr, types) \/ backend' = backend
    BY Zenon DEF ClockDone, ReleaseBackend
  <2>3. \E addr, types : aim' = Release(aim, addr, types) \/ aim' = aim
    BY Zenon DEF ClockDone, ReleaseAimRead
  <2> QED
    BY <2>1, <2>2, <2>3, Zenon DEF Releases
<1>2. UNCHANGED <<fetch, lsu, skip_fetch_cycle>> /\ dram' = DramIdle
  BY Zenon DEF ClockDone
<1>3. mem_request_queue' \in Requests
  <2>1. mem_request_queue # <<>> /\ mem_request_queue \in Seq(RequestEntry(Nat))
    BY Zenon DEF Inv, ActiveIsFront, TypeOK, Requests, ClockDone
  <2>2. mem_request_queue' = Tail(mem_request_queue)
    BY Zenon DEF ClockDone
  <2> QED
    BY <2>1, <2>2, HeadTailProperties, Zenon DEF Requests
<1>4. TypeOK'
  BY <1>1, <1>2, <1>3, ReleasesKeep, IdleTypes, Zenon DEF Inv, TypeOK, ClockDone
<1>5. ActiveIsFront'
  BY <1>2, Zenon DEF ActiveIsFront, DramIdle
<1> QED
  BY <1>1, <1>2, <1>4, <1>5, ReleasesKeep, Zenon DEF Inv

(***************************************************************************)
(* mem_controller_reset.                                                   *)
(***************************************************************************)
LEMMA ResetInv ==
  ASSUME MemControllerReset, fetch' \in FetchState, lsu' \in LsuState,
         skip_fetch_cycle' \in BOOLEAN,
         phase' \in {"mc", "lsu", "exec", "fetch", "aborted"}
  PROVE  Inv'
<1>1. mem_request_queue' \in Requests
  BY DEF MemControllerReset, Requests
<1>2. TypeOK'
  BY <1>1, EmptyType, IdleTypes, Zenon DEF MemControllerReset, TypeOK
<1>3. ActiveIsFront'
  BY Zenon DEF MemControllerReset, ActiveIsFront, DramIdle
<1>4. OneAccessPerStage'
  BY Zenon DEF MemControllerReset, OneAccessPerStage, EmptyStageQueue
<1>5. CurSizeCounts'
  BY EmptyCounts, CountsAllNext, Zenon
     DEF MemControllerReset, Counts, Pending, EmptyStageQueue
<1> QED
  BY <1>2, <1>3, <1>4, <1>5, Zenon DEF Inv

(***************************************************************************)
(* oo_core_lsu.                                                            *)
(***************************************************************************)
LEMMA LsuStartInv ==
  ASSUME Inv, NEW a \in Accesses, NEW is_aim \in BOOLEAN, NEW lookup \in Nat \ {0},
         LsuStart(a, is_aim, lookup)
  PROVE  Inv'
<1> DEFINE added == AddToStage(EmptyStageQueue, a)
           reqs  == AddToRequests(mem_request_queue, a)
<1>1. ~lsu.busy /\ backend = EmptyStageQueue /\ aim = EmptyStageQueue
  BY Zenon DEF LsuStart, Inv, OneAccessPerStage
<1>2. added \in StageQueue /\ Counts(added)
  BY AccessType, AddToEmpty, Zenon
<1>3. UNCHANGED <<frontend, dram, fetch, skip_fetch_cycle>> /\ phase' = "exec"
  BY Zenon DEF LsuStart
<1>4. /\ aim' = IF is_aim THEN added ELSE aim
      /\ backend' = IF is_aim THEN backend ELSE added
  BY <1>1, Zenon DEF LsuStart
<1>5. mem_request_queue' \in {reqs, Signal(reqs, added)}
  BY <1>1, Zenon DEF LsuStart
<1>6. lsu'.busy /\ lsu'.aim = is_aim /\ lsu' \in LsuState
  <2>1. lsu' = [busy |-> TRUE, aim |-> is_aim, left |-> lookup - 1,
                sent |-> lookup = 1 /\ added.cur_size # 0]
    BY <1>1, Zenon DEF LsuStart
  <2>2. lookup - 1 \in Nat /\ (lookup = 1 /\ added.cur_size # 0) \in BOOLEAN
    OBVIOUS
  <2> HIDE DEF added
  <2> QED
    BY <2>1, <2>2, Zenon DEF LsuState
<1> HIDE DEF added
<1>7. /\ reqs \in Requests
      /\ mem_request_queue # <<>> => reqs # <<>> /\ reqs[1] = mem_request_queue[1]
  BY AccessType, AddToRequestsProps, Zenon DEF Inv, TypeOK
<1> HIDE DEF reqs
<1>8. /\ mem_request_queue' \in Requests
      /\ mem_request_queue # <<>> =>
           /\ mem_request_queue' # <<>>
           /\ mem_request_queue[1].start_access => mem_request_queue'[1].start_access
  BY <1>5, <1>7, SignalProps, Zenon
<1>9. TypeOK'
  BY <1>1, <1>2, <1>3, <1>4, <1>6, <1>8, EmptyType, Zenon DEF Inv, TypeOK
<1>10. ActiveIsFront'
  BY <1>3, <1>8, Zenon DEF Inv, ActiveIsFront, front
<1>11. OneAccessPerStage'
  BY <1>1, <1>3, <1>4, <1>6, Zenon DEF Inv, OneAccessPerStage, EmptyStageQueue
<1>12. CurSizeCounts'
  <2>1. Counts(frontend) /\ Counts(backend) /\ Counts(aim)
    BY CountsAll, Zenon DEF Inv
  <2> QED
    BY <2>1, <1>2, <1>3, <1>4, CountsAllNext, Zenon DEF Counts, Pending
<1> QED
  BY <1>9, <1>10, <1>11, <1>12, Zenon DEF Inv

LEMMA LsuLookupInv ==
  ASSUME Inv, LsuLookup
  PROVE  Inv'
<1>1. UNCHANGED <<frontend, backend, aim, mem_request_queue, dram, fetch, skip_fetch_cycle>>
  BY Zenon DEF LsuLookup, queues
<1>2. lsu' \in LsuState /\ lsu'.busy = lsu.busy /\ lsu'.aim = lsu.aim
  <2>1. lsu \in LsuState
    BY Zenon DEF Inv, TypeOK
  <2>2. lsu' = [lsu EXCEPT !.left = lsu.left - 1] /\ lsu.left > 0
    BY Zenon DEF LsuLookup
  <2>3. lsu.left - 1 \in Nat
    BY <2>1, <2>2 DEF LsuState
  <2> QED
    BY <2>1, <2>2, <2>3, Zenon DEF LsuState
<1>3. TypeOK'
  BY <1>1, <1>2, Zenon DEF Inv, TypeOK, LsuLookup
<1>4. ActiveIsFront'
  BY <1>1, Zenon DEF Inv, ActiveIsFront, front
<1>5. OneAccessPerStage'
  BY <1>1, <1>2, Zenon DEF Inv, OneAccessPerStage
<1>6. CurSizeCounts'
  BY <1>1, Zenon DEF Inv, CurSizeCounts, Pending
<1> QED
  BY <1>3, <1>4, <1>5, <1>6, Zenon DEF Inv

LEMMA LsuWaitInv ==
  ASSUME Inv, LsuWait
  PROVE  Inv'
<1>1. UNCHANGED <<frontend, backend, aim, dram, fetch, skip_fetch_cycle>>
  BY Zenon DEF LsuWait
<1>2. lsu' \in LsuState /\ lsu'.busy = lsu.busy /\ lsu'.aim = lsu.aim
  <2>1. lsu \in LsuState
    BY Zenon DEF Inv, TypeOK
  <2>2. lsu' = [lsu EXCEPT !.sent = TRUE]
    BY Zenon DEF LsuWait
  <2> QED
    BY <2>1, <2>2, Zenon DEF LsuState
<1>3. /\ mem_request_queue' \in Requests
      /\ mem_request_queue # <<>> =>
           /\ mem_request_queue' # <<>>
           /\ mem_request_queue[1].start_access => mem_request_queue'[1].start_access
  BY SignalProps, Zenon DEF LsuWait, Inv, TypeOK
<1>4. TypeOK'
  BY <1>1, <1>2, <1>3, Zenon DEF Inv, TypeOK, LsuWait
<1>5. ActiveIsFront'
  BY <1>1, <1>3, Zenon DEF Inv, ActiveIsFront, front
<1>6. OneAccessPerStage'
  BY <1>1, <1>2, Zenon DEF Inv, OneAccessPerStage
<1>7. CurSizeCounts'
  BY <1>1, Zenon DEF Inv, CurSizeCounts, Pending
<1> QED
  BY <1>4, <1>5, <1>6, <1>7, Zenon DEF Inv

LEMMA LsuCompleteInv ==
  ASSUME Inv, LsuComplete
  PROVE  Inv'
<1>1. UNCHANGED <<frontend, mem_request_queue, dram, fetch, skip_fetch_cycle>>
      /\ lsu' = LsuIdle /\ phase' = "exec"
  BY Zenon DEF LsuComplete
<1>2. backend \in StageQueue /\ aim \in StageQueue
  BY Zenon DEF Inv, TypeOK
<1>3. backend' = EmptyStageQueue
  <2>1. CASE lsu.aim
    BY <2>1, Zenon DEF LsuComplete, Inv, OneAccessPerStage
  <2>2. CASE ~lsu.aim
    BY <2>2, <1>2, Zenon DEF LsuComplete, LsuQueue, StageQueue, EmptyStageQueue
  <2> QED
    BY <2>1, <2>2, Zenon
<1>4. aim' = EmptyStageQueue
  <2>1. CASE lsu.aim
    BY <2>1, <1>2, Zenon DEF LsuComplete, LsuQueue, StageQueue, EmptyStageQueue
  <2>2. CASE ~lsu.aim
    BY <2>2, Zenon DEF LsuComplete, Inv, OneAccessPerStage
  <2> QED
    BY <2>1, <2>2, Zenon
<1>5. TypeOK'
  BY <1>1, <1>3, <1>4, EmptyType, IdleTypes, Zenon DEF Inv, TypeOK
<1>6. ActiveIsFront'
  BY <1>1, Zenon DEF Inv, ActiveIsFront, front
<1>7. OneAccessPerStage'
  BY <1>1, <1>3, <1>4, Zenon DEF Inv, OneAccessPerStage, EmptyStageQueue
<1>8. CurSizeCounts'
  BY <1>1, <1>3, <1>4, EmptyCounts, CountsAll, CountsAllNext, Zenon
     DEF Inv, Counts, Pending, EmptyStageQueue
<1> QED
  BY <1>5, <1>6, <1>7, <1>8, Zenon DEF Inv

(***************************************************************************)
(* oo_core_execute_all.                                                    *)
(***************************************************************************)
LEMMA RollbackInv ==
  ASSUME Inv, NEW lsu_speculated \in BOOLEAN, Rollback(lsu_speculated)
  PROVE  Inv'
<1>1. fetch' = FetchIdle /\ skip_fetch_cycle' = TRUE /\ phase' = "fetch"
  BY Zenon DEF Rollback
<1>2. CASE lsu_speculated
  <2>1. MemControllerReset /\ lsu' = LsuIdle
    BY <1>2, Zenon DEF Rollback
  <2> QED
    BY <1>1, <2>1, IdleTypes, ResetInv, Zenon
<1>3. CASE ~lsu_speculated
  <2>1. /\ mem_request_queue' = Invalidate(mem_request_queue, frontend)
        /\ frontend' = EmptyStageQueue
        /\ UNCHANGED <<backend, aim, dram, lsu>>
    BY <1>3, Zenon DEF Rollback
  <2>2. /\ mem_request_queue' \in Requests
        /\ mem_request_queue # <<>> =>
             /\ mem_request_queue' # <<>>
             /\ mem_request_queue'[1].start_access = mem_request_queue[1].start_access
    BY <2>1, InvalidateProps, Zenon DEF Inv, TypeOK
  <2>3. TypeOK'
    BY <1>1, <2>1, <2>2, EmptyType, IdleTypes, Zenon DEF Inv, TypeOK
  <2>4. ActiveIsFront'
    BY <2>1, <2>2, Zenon DEF Inv, ActiveIsFront, front
  <2>5. OneAccessPerStage'
    BY <2>1, Zenon DEF Inv, OneAccessPerStage, EmptyStageQueue
  <2>6. CurSizeCounts'
    BY <2>1, EmptyCounts, CountsAll, CountsAllNext, Zenon
       DEF Inv, Counts, Pending, EmptyStageQueue
  <2> QED
    BY <2>3, <2>4, <2>5, <2>6, Zenon DEF Inv
<1> QED
  BY <1>2, <1>3, Zenon

LEMMA StopFetchInv ==
  ASSUME Inv, StopFetch
  PROVE  Inv'
<1>1. UNCHANGED <<frontend, backend, aim, mem_request_queue, dram, lsu,
                  skip_fetch_cycle, phase>>
  BY Zenon DEF StopFetch, queues
<1>2. fetch' \in FetchState /\ ~fetch'.on
  BY Zenon DEF StopFetch, FetchIdle, FetchState
<1>3. TypeOK'
  BY <1>1, <1>2, Zenon DEF Inv, TypeOK
<1>4. ActiveIsFront'
  BY <1>1, Zenon DEF Inv, ActiveIsFront, front
<1>5. OneAccessPerStage'
  BY <1>1, <1>2, Zenon DEF Inv, OneAccessPerStage
<1>6. CurSizeCounts'
  BY <1>1, Zenon DEF Inv, CurSizeCounts, Pending
<1> QED
  BY <1>3, <1>4, <1>5, <1>6, Zenon DEF Inv

(***************************************************************************)
(* oo_core_fetch, and the redirection by decode.                           *)
(***************************************************************************)
LEMMA RasRedirectInv ==
  ASSUME Inv, RasRedirect
  PROVE  Inv'
<1>1. /\ mem_request_queue' = Invalidate(mem_request_queue, frontend)
      /\ frontend' = EmptyStageQueue
      /\ fetch' = FetchIdle /\ skip_fetch_cycle' = TRUE
      /\ UNCHANGED <<backend, aim, dram, lsu, phase>>
  BY Zenon DEF RasRedirect
<1>2. /\ mem_request_queue' \in Requests
      /\ mem_request_queue # <<>> =>
           /\ mem_request_queue' # <<>>
           /\ mem_request_queue'[1].start_access = mem_request_queue[1].start_access
  BY <1>1, InvalidateProps, Zenon DEF Inv, TypeOK
<1>3. TypeOK'
  BY <1>1, <1>2, EmptyType, IdleTypes, Zenon DEF Inv, TypeOK
<1>4. ActiveIsFront'
  BY <1>1, <1>2, Zenon DEF Inv, ActiveIsFront, front
<1>5. OneAccessPerStage'
  BY <1>1, Zenon DEF Inv, OneAccessPerStage, EmptyStageQueue
<1>6. CurSizeCounts'
  BY <1>1, EmptyCounts, CountsAll, CountsAllNext, Zenon
     DEF Inv, Counts, Pending, EmptyStageQueue
<1> QED
  BY <1>3, <1>4, <1>5, <1>6, Zenon DEF Inv

LEMMA FetchFaultInv ==
  ASSUME Inv, FetchFault
  PROVE  Inv'
<1>1. UNCHANGED <<backend, aim, mem_request_queue, dram, lsu, skip_fetch_cycle>>
      /\ phase' = "mc"
  BY Zenon DEF FetchFault
<1>2. frontend' = EmptyStageQueue
  <2>1. frontend \in StageQueue
    BY Zenon DEF Inv, TypeOK
  <2>2. frontend' = [frontend EXCEPT !.cur_size = 0, !.entry = <<>>]
    BY Zenon DEF FetchFault
  <2> QED
    BY <2>1, <2>2, Zenon DEF StageQueue, EmptyStageQueue
<1>3. fetch' \in FetchState /\ ~fetch'.on
  BY Zenon DEF FetchFault, FetchIdle, FetchState
<1>4. TypeOK'
  BY <1>1, <1>2, <1>3, EmptyType, Zenon DEF Inv, TypeOK
<1>5. ActiveIsFront'
  BY <1>1, Zenon DEF Inv, ActiveIsFront, front
<1>6. OneAccessPerStage'
  BY <1>1, <1>3, Zenon DEF Inv, OneAccessPerStage
<1>7. CurSizeCounts'
  BY <1>1, <1>2, EmptyCounts, CountsAll, CountsAllNext, Zenon
     DEF Inv, Counts, Pending, EmptyStageQueue
<1> QED
  BY <1>4, <1>5, <1>6, <1>7, Zenon DEF Inv

LEMMA FetchStartInv ==
  ASSUME Inv, NEW a \in Accesses, NEW lookup \in Nat \ {0}, FetchStart(a, lookup)
  PROVE  Inv'
<1> DEFINE added == AddToStage(EmptyStageQueue, a)
           reqs  == AddToRequests(mem_request_queue, a)
<1>1. [frontend EXCEPT !.cur_size = 0] = EmptyStageQueue
  <2>1. frontend = EmptyStageQueue
    BY Zenon DEF FetchStart, Inv, OneAccessPerStage
  <2> QED
    BY <2>1 DEF EmptyStageQueue
<1>2. added \in StageQueue /\ Counts(added)
  BY AccessType, AddToEmpty, Zenon
<1>3. UNCHANGED <<backend, aim, dram, lsu, skip_fetch_cycle>> /\ phase' = "mc"
      /\ frontend' = added
  BY <1>1, Zenon DEF FetchStart
<1>4. mem_request_queue' \in {reqs, Signal(reqs, added)}
  BY <1>1, Zenon DEF FetchStart
<1>5. fetch'.busy /\ fetch' \in FetchState
  <2>1. fetch' = [on |-> TRUE, busy |-> TRUE, left |-> lookup - 1,
                  sent |-> lookup = 1 /\ added.cur_size # 0]
    BY <1>1, Zenon DEF FetchStart
  <2>2. lookup - 1 \in Nat /\ (lookup = 1 /\ added.cur_size # 0) \in BOOLEAN
    OBVIOUS
  <2> HIDE DEF added
  <2> QED
    BY <2>1, <2>2, Zenon DEF FetchState
<1> HIDE DEF added
<1>6. /\ reqs \in Requests
      /\ mem_request_queue # <<>> => reqs # <<>> /\ reqs[1] = mem_request_queue[1]
  BY AccessType, AddToRequestsProps, Zenon DEF Inv, TypeOK
<1> HIDE DEF reqs
<1>7. /\ mem_request_queue' \in Requests
      /\ mem_request_queue # <<>> =>
           /\ mem_request_queue' # <<>>
           /\ mem_request_queue[1].start_access => mem_request_queue'[1].start_access
  BY <1>4, <1>6, SignalProps, Zenon
<1>8. TypeOK'
  BY <1>2, <1>3, <1>5, <1>7, Zenon DEF Inv, TypeOK
<1>9. ActiveIsFront'
  BY <1>3, <1>7, Zenon DEF Inv, ActiveIsFront, front
<1>10. OneAccessPerStage'
  BY <1>3, <1>5, Zenon DEF Inv, OneAccessPerStage
<1>11. CurSizeCounts'
  BY <1>2, <1>3, CountsAll, CountsAllNext, Zenon DEF Inv, Counts, Pending
<1> QED
  BY <1>8, <1>9, <1>10, <1>11, Zenon DEF Inv

LEMMA FetchLookupInv ==
  ASSUME Inv, FetchLookup
  PROVE  Inv'
<1>1. UNCHANGED <<frontend, backend, aim, mem_request_queue, dram, lsu, skip_fetch_cycle>>
  BY Zenon DEF FetchLookup, queues
<1>2. fetch' \in FetchState /\ fetch'.busy
  <2>1. fetch \in FetchState
    BY Zenon DEF Inv, TypeOK
  <2>2. fetch' = [fetch EXCEPT !.left = fetch.left - 1] /\ fetch.left > 0 /\ fetch.busy
    BY Zenon DEF FetchLookup
  <2>3. fetch.left - 1 \in Nat
    BY <2>1, <2>2 DEF FetchState
  <2> QED
    BY <2>1, <2>2, <2>3, Zenon DEF FetchState
<1>3. TypeOK'
  BY <1>1, <1>2, Zenon DEF Inv, TypeOK, FetchLookup
<1>4. ActiveIsFront'
  BY <1>1, Zenon DEF Inv, ActiveIsFront, front
<1>5. OneAccessPerStage'
  BY <1>1, <1>2, Zenon DEF Inv, OneAccessPerStage
<1>6. CurSizeCounts'
  BY <1>1, Zenon DEF Inv, CurSizeCounts, Pending
<1> QED
  BY <1>3, <1>4, <1>5, <1>6, Zenon DEF Inv

LEMMA FetchWaitInv ==
  ASSUME Inv, FetchWait
  PROVE  Inv'
<1>1. UNCHANGED <<frontend, backend, aim, dram, lsu, skip_fetch_cycle>>
  BY Zenon DEF FetchWait
<1>2. fetch' \in FetchState /\ fetch'.busy
  <2>1. fetch \in FetchState
    BY Zenon DEF Inv, TypeOK
  <2>2. fetch' = [fetch EXCEPT !.sent = TRUE] /\ fetch.busy
    BY Zenon DEF FetchWait
  <2> QED
    BY <2>1, <2>2, Zenon DEF FetchState
<1>3. /\ mem_request_queue' \in Requests
      /\ mem_request_queue # <<>> =>
           /\ mem_request_queue' # <<>>
           /\ mem_request_queue[1].start_access => mem_request_queue'[1].start_access
  BY SignalProps, Zenon DEF FetchWait, Inv, TypeOK
<1>4. TypeOK'
  BY <1>1, <1>2, <1>3, Zenon DEF Inv, TypeOK, FetchWait
<1>5. ActiveIsFront'
  BY <1>1, <1>3, Zenon DEF Inv, ActiveIsFront, front
<1>6. OneAccessPerStage'
  BY <1>1, <1>2, Zenon DEF Inv, OneAccessPerStage
<1>7. CurSizeCounts'
  BY <1>1, Zenon DEF Inv, CurSizeCounts, Pending
<1> QED
  BY <1>4, <1>5, <1>6, <1>7, Zenon DEF Inv

LEMMA FetchCompleteInv ==
  ASSUME Inv, NEW decode_free \in BOOLEAN, FetchComplete(decode_free)
  PROVE  Inv'
<1>1. UNCHANGED <<backend, aim, mem_request_queue, dram, lsu, skip_fetch_cycle>>
      /\ phase' = "mc"
  BY Zenon DEF FetchComplete
<1>2. CASE decode_free
  <2>1. fetch' = FetchIdle
    BY <1>2, Zenon DEF FetchComplete
  <2>2. frontend' = EmptyStageQueue
    <3>1. frontend \in StageQueue
      BY Zenon DEF Inv, TypeOK
    <3>2. frontend' = [frontend EXCEPT !.entry = <<>>] /\ frontend.cur_size = 0
      BY <1>2, Zenon DEF FetchComplete
    <3> QED
      BY <3>1, <3>2, Zenon DEF StageQueue, EmptyStageQueue
  <2>3. TypeOK'
    BY <1>1, <2>1, <2>2, EmptyType, IdleTypes, Zenon DEF Inv, TypeOK
  <2>4. ActiveIsFront'
    BY <1>1, Zenon DEF Inv, ActiveIsFront, front
  <2>5. OneAccessPerStage'
    BY <1>1, <2>2, Zenon DEF Inv, OneAccessPerStage, EmptyStageQueue
  <2>6. CurSizeCounts'
    BY <1>1, <2>2, EmptyCounts, CountsAll, CountsAllNext, Zenon
       DEF Inv, Counts, Pending, EmptyStageQueue
  <2> QED
    BY <2>3, <2>4, <2>5, <2>6, Zenon DEF Inv
<1>3. CASE ~decode_free
  BY <1>1, <1>3, OnlyPhase, Zenon DEF FetchComplete, queues, Inv, TypeOK
<1> QED
  BY <1>2, <1>3, Zenon

-----------------------------------------------------------------------------
LEMMA NextInv == Inv /\ [Next]_vars => Inv'
<1> SUFFICES ASSUME Inv, [Next]_vars PROVE Inv'
  BY Zenon
<1>1. skip_fetch_cycle \in BOOLEAN /\ phase \in {"mc", "lsu", "exec", "fetch", "aborted"}
  BY Zenon DEF Inv, TypeOK
<1>2. CASE UNCHANGED vars
  BY <1>1, <1>2, OnlyPhase, Zenon DEF vars
<1>3. CASE ClockIdle \/ LsuNothing \/ NoRollback \/ FetchNothing \/ Abort \/ Aborted
  <2>1. UNCHANGED <<queues, dram, fetch, lsu>>
    BY <1>3, Zenon DEF ClockIdle, LsuNothing, NoRollback, FetchNothing, Abort, Aborted, vars
  <2>2. skip_fetch_cycle' \in BOOLEAN
    BY <1>1, <1>3, Zenon
       DEF ClockIdle, LsuNothing, NoRollback, FetchNothing, Abort, Aborted, vars
  <2>3. phase' \in {"mc", "lsu", "exec", "fetch", "aborted"}
    BY <1>1, <1>3, Zenon
       DEF ClockIdle, LsuNothing, NoRollback, FetchNothing, Abort, Aborted, vars
  <2> QED
    BY <2>1, <2>2, <2>3, OnlyPhase, Zenon
<1>4. CASE McClock
  BY <1>3, <1>4, ClockDropInv, ClockSendInv, ClockTickInv, ClockDoneInv DEF McClock
<1>5. CASE SimExit
  BY <1>5, IdleTypes, ResetInv, Zenon DEF SimExit
<1>6. CASE Lsu
  <2>1. ASSUME NEW a \in DataAccesses, NEW lookup \in Lookups,
               LsuStart(a, FALSE, lookup)
        PROVE  Inv'
    <3>1. a \in Accesses /\ lookup \in Nat \ {0}
      BY MemSystemAssumption, Zenon DEF Accesses
    <3> QED
      BY <3>1, <2>1, LsuStartInv, Zenon
  <2>2. ASSUME NEW a \in AimAccesses, LsuStart(a, TRUE, 1)
        PROVE  Inv'
    <3>1. a \in Accesses /\ 1 \in Nat \ {0} /\ TRUE \in BOOLEAN
      BY DEF Accesses
    <3> QED
      BY <3>1, <2>2, LsuStartInv, Zenon
  <2> QED
    BY <1>3, <1>6, <2>1, <2>2, LsuLookupInv, LsuWaitInv, LsuCompleteInv, Zenon DEF Lsu
<1>7. CASE Exec
  BY <1>3, <1>7, RollbackInv, StopFetchInv, Zenon DEF Exec
<1>8. CASE Fetch
  <2>1. ASSUME NEW a \in InsnAccesses, NEW lookup \in Lookups, FetchStart(a, lookup)
        PROVE  Inv'
    <3>1. a \in Accesses /\ lookup \in Nat \ {0}
      BY MemSystemAssumption, Zenon DEF Accesses
    <3> QED
      BY <3>1, <2>1, FetchStartInv, Zenon
  <2> QED
    BY <1>3, <1>8, <2>1, RasRedirectInv, FetchFaultInv, FetchLookupInv, FetchWaitInv,
       FetchCompleteInv, Zenon DEF Fetch
<1> QED
  BY <1>2, <1>3, <1>4, <1>5, <1>6, <1>7, <1>8, Zenon DEF Next

LEMMA Invariance == Spec => []Inv
  BY InitInv, NextInv, PTL DEF Spec

(***************************************************************************)
(* The type invariant of the memory system.                                *)
(***************************************************************************)
THEOREM TypeCorrect == Spec => []TypeOK
<1>1. Inv => TypeOK
  BY Zenon DEF Inv
<1> QED
  BY <1>1, Invariance, PTL

(***************************************************************************)
(* The cq_dequeue that follows dram_clock removes the request that was     *)
(* served, whatever rollbacks invalidated meanwhile.                       *)
(***************************************************************************)
THEOREM ServedIsRemoved == Spec => []ActiveIsFront
<1>1. Inv => ActiveIsFront
  BY Zenon DEF Inv
<1> QED
  BY <1>1, Invariance, PTL

(***************************************************************************)
(* Each stage queue holds one access at most, so that cur_idx stays below  *)
(* the number of bursts of one access.                                     *)
(***************************************************************************)
THEOREM OneAccessAlways == Spec => []OneAccessPerStage
<1>1. Inv => OneAccessPerStage
  BY Zenon DEF Inv
<1> QED
  BY <1>1, Invariance, PTL

(***************************************************************************)
(* cur_size counts the entries a stage waits for, however completions and  *)
(* flushes interleave, although completions are matched by address only.   *)
(***************************************************************************)
THEOREM CountsCorrect == Spec => []CurSizeCounts
<1>1. Inv => CurSizeCounts
  BY Zenon DEF Inv
<1> QED
  BY <1>1, Invariance, PTL

-----------------------------------------------------------------------------
(***************************************************************************)
(* The queued requests of (addr, type) whose callback is still to come: a  *)
(* read calls back when the DRAM is done with it, a write as soon as it is *)
(* sent.  It is Served without the write the DRAM is busy with.            *)
(***************************************************************************)
Comes(queue, active, addr, type) ==
  {k \in DOMAIN queue :
     /\ queue[k].addr = addr
     /\ queue[k].type = type
     /\ IF active /\ k = 1 THEN type = "READ" ELSE queue[k].valid}

(***************************************************************************)
(* What waits in the two stage queues for (addr, type) is at most what is  *)
(* still to come for it.                                                   *)
(***************************************************************************)
Suffices(f, b, queue, active, addr, type) ==
  Cardinality(Waiting(f, addr, {type})) + Cardinality(Waiting(b, addr, {type}))
    <= Cardinality(Comes(queue, active, addr, type))

LEMMA WaitingFinite ==
  ASSUME NEW sq \in StageQueue, NEW addr, NEW type
  PROVE  /\ IsFiniteSet(Waiting(sq, addr, {type}))
         /\ Cardinality(Waiting(sq, addr, {type})) \in Nat
<1>1. Waiting(sq, addr, {type}) \in SUBSET Pending(sq)
  BY Zenon DEF Waiting, Pending
<1>2. IsFiniteSet(Waiting(sq, addr, {type}))
  BY <1>1, PendingFinite, FS_Subset, Zenon
<1> QED
  BY <1>2, FS_CardinalityType, Zenon

LEMMA ComesFinite ==
  ASSUME NEW queue \in Requests, NEW active, NEW addr, NEW type
  PROVE  /\ IsFiniteSet(Comes(queue, active, addr, type))
         /\ Cardinality(Comes(queue, active, addr, type)) \in Nat
<1>1. Len(queue) \in Nat /\ DOMAIN queue = 1 .. Len(queue)
  BY DEF Requests
<1>2. IsFiniteSet(1 .. Len(queue))
  BY <1>1, FS_Interval
<1>3. Comes(queue, active, addr, type) \in SUBSET (1 .. Len(queue))
  BY <1>1, Zenon DEF Comes
<1>4. IsFiniteSet(Comes(queue, active, addr, type))
  BY <1>2, <1>3, FS_Subset, Zenon
<1> QED
  BY <1>4, FS_CardinalityType, Zenon

(***************************************************************************)
(* A step that only takes entries off the stage queues, or only adds       *)
(* requests that call back, keeps Suffices.                                *)
(***************************************************************************)
LEMMA SufficesMonotone ==
  ASSUME NEW f \in StageQueue, NEW b \in StageQueue, NEW q, NEW act,
         NEW f2, NEW b2, NEW q2 \in Requests, NEW act2, NEW addr, NEW type,
         q \in Requests,
         Suffices(f, b, q, act, addr, type),
         Waiting(f2, addr, {type}) \subseteq Waiting(f, addr, {type}),
         Waiting(b2, addr, {type}) \subseteq Waiting(b, addr, {type}),
         Comes(q, act, addr, type) \subseteq Comes(q2, act2, addr, type)
  PROVE  Suffices(f2, b2, q2, act2, addr, type)
<1> DEFINE wf == Waiting(f, addr, {type})  wf2 == Waiting(f2, addr, {type})
           wb == Waiting(b, addr, {type})  wb2 == Waiting(b2, addr, {type})
           cq == Comes(q, act, addr, type) cq2 == Comes(q2, act2, addr, type)
<1>1. IsFiniteSet(wf) /\ IsFiniteSet(wb) /\ IsFiniteSet(cq2) /\ IsFiniteSet(cq)
  BY WaitingFinite, ComesFinite, Zenon
<1>2. wf2 \in SUBSET wf /\ wb2 \in SUBSET wb /\ cq \in SUBSET cq2
  BY Zenon
<1>3. Cardinality(wf) + Cardinality(wb) <= Cardinality(cq)
  BY Zenon DEF Suffices
<1> HIDE DEF wf, wb, wf2, wb2, cq, cq2
<1>4. /\ IsFiniteSet(wf2) /\ Cardinality(wf2) <= Cardinality(wf)
      /\ IsFiniteSet(wb2) /\ Cardinality(wb2) <= Cardinality(wb)
      /\ Cardinality(cq) <= Cardinality(cq2)
  BY <1>1, <1>2, FS_Subset, Zenon
<1>5. /\ Cardinality(wf) \in Nat /\ Cardinality(wb) \in Nat /\ Cardinality(wf2) \in Nat
      /\ Cardinality(wb2) \in Nat /\ Cardinality(cq) \in Nat /\ Cardinality(cq2) \in Nat
  BY <1>1, <1>4, FS_CardinalityType, Zenon
<1>6. Cardinality(wf2) + Cardinality(wb2) <= Cardinality(cq2)
  BY <1>3, <1>4, <1>5
<1> QED
  BY <1>6, Zenon DEF Suffices, wf2, wb2, cq2

SameBursts(s2, sq) ==
  /\ DOMAIN s2.entry = DOMAIN sq.entry
  /\ \A j \in DOMAIN sq.entry : /\ s2.entry[j].addr = sq.entry[j].addr
                                /\ s2.entry[j].type = sq.entry[j].type

OthersWait(s2, sq, addr, type) ==
  \A a, t : a # addr \/ t # type => Waiting(s2, a, {t}) = Waiting(sq, a, {t})

OneLess(W2, W) == W # {} => \E i \in W : W2 = W \ {i}

(***************************************************************************)
(* A callback releases the first of the entries it matches and leaves the  *)
(* entries for other addresses and types alone.                            *)
(***************************************************************************)
LEMMA ReleaseTakesOne ==
  ASSUME NEW sq \in StageQueue, NEW addr, NEW type, NEW s2,
         s2 = Release(sq, addr, {type})
  PROVE  /\ SameBursts(s2, sq)
         /\ OthersWait(s2, sq, addr, type)
         /\ OneLess(Waiting(s2, addr, {type}), Waiting(sq, addr, {type}))
<1> DEFINE W == Waiting(sq, addr, {type})
<1>1. CASE W = {}
  BY <1>1, Zenon DEF Release, SameBursts, OthersWait, OneLess
<1>2. CASE W # {}
  <2>1. W \subseteq 1 .. Len(sq.entry)
    BY DEF Waiting, StageQueue
  <2>2. \E i \in W : \A j \in W : i <= j
    <3> HIDE DEF W
    <3>1. W \subseteq Nat
      <4>1. \A n : 1 .. n \subseteq Nat
        OBVIOUS
      <4> QED
        BY <2>1, <4>1, Zenon
    <3> QED
      BY <1>2, <3>1, SmallestOf, Zenon
  <2> DEFINE i == CHOOSE i \in W : \A j \in W : i <= j
  <2>3. i \in W
    BY <2>2, Zenon
  <2>4. s2 = [cur_size |-> sq.cur_size - 1,
              entry    |-> [sq.entry EXCEPT ![i].valid = FALSE]]
    BY <1>2, Zenon DEF Release
  <2> HIDE DEF i
  <2>5. s2.entry = [sq.entry EXCEPT ![i].valid = FALSE]
    <3>1. \A n, e : [cur_size |-> n, entry |-> e].entry = e
      OBVIOUS
    <3> QED
      BY <2>4, <3>1, Zenon
  <2>6. sq.entry \in Seq(StageEntry(Nat)) /\ i \in DOMAIN sq.entry
    BY <2>3, Zenon DEF StageQueue, Waiting
  <2>7. sq.entry[i] \in StageEntry(Nat)
    BY <2>6, ElementOfSeq
  <2>8. sq.entry[i].addr = addr /\ sq.entry[i].type = type
    BY <2>3, Zenon DEF Waiting
  <2>9. DOMAIN s2.entry = DOMAIN sq.entry
    BY <2>5, Zenon
  <2>10. s2.entry[i] = [sq.entry[i] EXCEPT !.valid = FALSE]
    BY <2>5, <2>6, Zenon
  <2>11. /\ s2.entry[i].addr = addr /\ s2.entry[i].type = type
         /\ ~s2.entry[i].valid
    BY <2>7, <2>8, <2>10, Zenon DEF StageEntry
  <2>12. \A j \in DOMAIN sq.entry : j # i => s2.entry[j] = sq.entry[j]
    BY <2>5, Zenon
  <2>13. \A j \in DOMAIN sq.entry : /\ s2.entry[j].addr = sq.entry[j].addr
                                    /\ s2.entry[j].type = sq.entry[j].type
    BY <2>8, <2>11, <2>12, Zenon
  <2>14. ASSUME NEW a, NEW t, a # addr \/ t # type
         PROVE  Waiting(s2, a, {t}) = Waiting(sq, a, {t})
    <3>1. i \notin Waiting(s2, a, {t}) /\ i \notin Waiting(sq, a, {t})
      BY <2>8, <2>11, <2>14, Zenon DEF Waiting
    <3>2. \A j : j # i => (j \in Waiting(s2, a, {t}) <=> j \in Waiting(sq, a, {t}))
      BY <2>9, <2>12, Zenon DEF Waiting
    <3>3. \A j : j \in Waiting(s2, a, {t}) <=> j \in Waiting(sq, a, {t})
      BY <3>1, <3>2, Zenon
    <3> QED
      BY <3>3, Zenon
  <2>15. Waiting(s2, addr, {type}) = W \ {i}
    <3>1. \A j : j \in Waiting(s2, addr, {type}) <=> j \in W /\ j # i
      BY <2>9, <2>11, <2>12, Zenon DEF Waiting
    <3> HIDE DEF W
    <3> QED
      BY <3>1, Zenon
  <2> QED
    BY <2>3, <2>9, <2>13, <2>14, <2>15, Zenon DEF SameBursts, OthersWait, OneLess
<1> QED
  BY <1>1, <1>2, Zenon

(***************************************************************************)
(* read_complete_callback and write_complete_callback on both queues: one  *)
(* request less still to come for (addr, type) is made up for by one entry *)
(* less that waits for it.                                                 *)
(***************************************************************************)
LEMMA ReleasesSuffice ==
  ASSUME NEW f \in StageQueue, NEW b \in StageQueue, NEW addr, NEW type,
         NEW f2, f2 = ReleaseFrontend(f, addr, type),
         NEW b2, b2 = ReleaseBackend(f, b, addr, type),
         NEW S, IsFiniteSet(S), NEW S2, IsFiniteSet(S2),
         Cardinality(S) - 1 <= Cardinality(S2),
         Cardinality(Waiting(f, addr, {type})) + Cardinality(Waiting(b, addr, {type}))
           <= Cardinality(S)
  PROVE  Cardinality(Waiting(f2, addr, {type})) + Cardinality(Waiting(b2, addr, {type}))
           <= Cardinality(S2)
<1> DEFINE wf == Waiting(f, addr, {type})  wf2 == Waiting(f2, addr, {type})
           wb == Waiting(b, addr, {type})  wb2 == Waiting(b2, addr, {type})
<1>1. IsFiniteSet(wf) /\ IsFiniteSet(wb)
  BY WaitingFinite, Zenon
<1>2. wf # {} => (\E i \in wf : wf2 = wf \ {i}) /\ wb2 = wb
  <2>1. f2 = Release(f, addr, {type})
    BY Zenon DEF ReleaseFrontend
  <2>2. OneLess(wf2, wf)
    BY <2>1, ReleaseTakesOne, Zenon
  <2> QED
    BY <2>2, Zenon DEF ReleaseBackend, OneLess
<1>3. wf = {} => wf2 = {} /\ (wb # {} => \E i \in wb : wb2 = wb \ {i})
  <2> SUFFICES ASSUME wf = {} PROVE wf2 = {} /\ (wb # {} => \E i \in wb : wb2 = wb \ {i})
    BY Zenon
  <2>1. b2 = Release(b, addr, {type}) /\ f2 = f
    BY Zenon DEF ReleaseBackend, ReleaseFrontend, Release
  <2>2. OneLess(wb2, wb)
    BY <2>1, ReleaseTakesOne, Zenon
  <2> QED
    BY <2>1, <2>2, Zenon DEF OneLess
<1>4. wf = {} /\ wb = {} => wf2 = {} /\ wb2 = {}
  BY Zenon DEF ReleaseFrontend, ReleaseBackend, Release
<1>5. Cardinality(wf) + Cardinality(wb) <= Cardinality(S)
  OBVIOUS
<1> HIDE DEF wf, wb, wf2, wb2
<1>6. Cardinality(S) \in Nat /\ Cardinality(S2) \in Nat
      /\ Cardinality(wf) \in Nat /\ Cardinality(wb) \in Nat
  BY <1>1, FS_CardinalityType, Zenon
<1>7. CASE wf # {}
  <2>1. Cardinality(wf2) = Cardinality(wf) - 1 /\ wb2 = wb
    BY <1>1, <1>2, <1>7, FS_RemoveElement, Zenon
  <2>2. Cardinality(wf2) + Cardinality(wb2) <= Cardinality(S2)
    BY <2>1, <1>5, <1>6
  <2> QED
    BY <2>2, Zenon DEF wf2, wb2
<1>8. CASE wf = {} /\ wb # {}
  <2>1. Cardinality(wb2) = Cardinality(wb) - 1
    BY <1>1, <1>3, <1>8, FS_RemoveElement, Zenon
  <2>2. Cardinality(wf) = 0 /\ Cardinality(wf2) = 0
    BY <1>3, <1>8, FS_EmptySet, Zenon
  <2>3. Cardinality(wf2) + Cardinality(wb2) <= Cardinality(S2)
    BY <2>1, <2>2, <1>5, <1>6
  <2> QED
    BY <2>3, Zenon DEF wf2, wb2
<1>9. CASE wf = {} /\ wb = {}
  <2>1. Cardinality(wf2) = 0 /\ Cardinality(wb2) = 0
    BY <1>4, <1>9, FS_EmptySet, Zenon
  <2>2. Cardinality(wf2) + Cardinality(wb2) <= Cardinality(S2)
    BY <2>1, <1>6
  <2> QED
    BY <2>2, Zenon DEF wf2, wb2
<1> QED
  BY <1>7, <1>8, <1>9, Zenon

(***************************************************************************)
(* cq_dequeue: what was still to come, but for the request at the front,   *)
(* still comes.                                                            *)
(***************************************************************************)
Dequeued(q, q2, active) ==
  q \in Requests /\ q2 \in Requests /\ q # <<>> /\ q2 = Tail(q) /\ ~active

LEMMA TailComes ==
  ASSUME NEW q, NEW act, NEW addr, NEW type, NEW q2, NEW act2, Dequeued(q, q2, act2)
  PROVE  Cardinality(Comes(q, act, addr, type) \ {1})
           <= Cardinality(Comes(q2, act2, addr, type))
<1> DEFINE S == Comes(q, act, addr, type) \ {1}
           T == Comes(q2, act2, addr, type)
           g == [k \in S |-> k - 1]
<1>1. /\ Len(q) \in Nat /\ DOMAIN q = 1 .. Len(q) /\ q2 \in Requests
      /\ DOMAIN q2 = 1 .. Len(q) - 1
      /\ \A i \in 1 .. Len(q) - 1 : q2[i] = q[i + 1]
  <2>1. q \in Requests /\ q # <<>> /\ q2 = Tail(q)
    BY Zenon DEF Dequeued
  <2> QED
    BY <2>1 DEF Requests
<1>2. \A k \in S : k \in 1 .. Len(q) /\ k # 1
  BY <1>1, Zenon DEF Comes
<1>3. ASSUME NEW k \in S PROVE k - 1 \in T
  <2>1. k \in 1 .. Len(q) /\ k # 1
    BY <1>2, Zenon
  <2>2. k - 1 \in 1 .. Len(q) - 1 /\ (k - 1) + 1 = k
    BY <2>1, <1>1
  <2>3. k - 1 \in DOMAIN q2 /\ q2[k - 1] = q[k]
    BY <2>2, <1>1, Zenon
  <2>4. q[k].addr = addr /\ q[k].type = type /\ q[k].valid
    BY <2>1, Zenon DEF Comes
  <2> QED
    BY <2>3, <2>4, Zenon DEF Comes, Dequeued
<1>4. IsFiniteSet(T)
  BY <1>1, ComesFinite, Zenon
<1> HIDE DEF S, T
<1>5. g \in Injection(S, T)
  <2>1. g \in [S -> T]
    BY <1>3
  <2>2. ASSUME NEW x \in S, NEW y \in S, g[x] = g[y] PROVE x = y
    BY <1>1, <1>2, <2>2
  <2> HIDE DEF g
  <2> QED
    BY <2>1, <2>2, Zenon DEF Injection, IsInjective
<1> HIDE DEF g
<1>6. Cardinality(S) <= Cardinality(T)
  BY <1>4, <1>5, FS_Injection, Zenon
<1> QED
  BY <1>6, Zenon DEF S, T

(***************************************************************************)
(* fill_memory_request_entry enters a burst in both queues: as many        *)
(* requests are added for (addr, type) as entries of the stage wait for it.*)
(***************************************************************************)
LEMMA AddComes ==
  ASSUME NEW q \in Requests, NEW a \in Access, NEW act, act => q # <<>>,
         NEW addr, NEW type, NEW q2, q2 = AddToRequests(q, a),
         NEW sq, sq = AddToStage(EmptyStageQueue, a)
  PROVE  Cardinality(Comes(q, act, addr, type)) + Cardinality(Waiting(sq, addr, {type}))
           <= Cardinality(Comes(q2, act, addr, type))
<1> DEFINE C == Comes(q, act, addr, type)
           W == Waiting(sq, addr, {type})
           T == Comes(q2, act, addr, type)
           N == {k \in T : k > Len(q)}
           g == [i \in W |-> Len(q) + i]
           stg == [k \in DOMAIN a |->
                    [addr |-> a[k].addr, type |-> a[k].type, valid |-> TRUE]]
           new == [k \in DOMAIN a |->
                    [addr |-> a[k].addr, type |-> a[k].type, valid |-> TRUE,
                     start_access |-> FALSE]]
<1>1. Len(a) \in Nat /\ DOMAIN a = 1 .. Len(a) /\ Len(q) \in Nat /\ DOMAIN q = 1 .. Len(q)
  BY DEF Access, Requests
<1>2. sq \in StageQueue /\ q2 \in Requests
  BY AddToEmpty, AddToRequestsProps, Zenon
<1>3. DOMAIN sq.entry = 1 .. Len(a)
      /\ \A i \in 1 .. Len(a) : sq.entry[i].addr = a[i].addr /\ sq.entry[i].type = a[i].type
  <2>1. \A k \in 1 .. Len(a) : a[k] \in [addr : Nat, type : MemAccessType]
    BY ElementOfSeq, Zenon DEF Access
  <2>2. \A k \in 1 .. Len(a) :
          [addr |-> a[k].addr, type |-> a[k].type, valid |-> TRUE] \in StageEntry(Nat)
    BY <2>1, Zenon DEF StageEntry
  <2>3. stg \in Seq(StageEntry(Nat)) /\ Len(stg) = Len(a)
    BY <1>1, <2>2, IsASeq
  <2>4. \A k \in 1 .. Len(a) : stg[k].addr = a[k].addr /\ stg[k].type = a[k].type
    BY <1>1
  <2>5. sq.entry = <<>> \o stg
    BY DEF AddToStage, EmptyStageQueue
  <2> HIDE DEF stg
  <2>6. sq.entry = stg
    BY <2>3, <2>5, ConcatEmptySeq, Zenon
  <2> QED
    BY <2>3, <2>4, <2>6
<1>4. /\ DOMAIN q2 = 1 .. Len(q) + Len(a)
      /\ \A k \in 1 .. Len(q) : q2[k] = q[k]
      /\ \A i \in 1 .. Len(a) : /\ q2[Len(q) + i].addr = a[i].addr
                                 /\ q2[Len(q) + i].type = a[i].type
                                 /\ q2[Len(q) + i].valid
  <2>1. \A k \in 1 .. Len(a) : a[k] \in [addr : Nat, type : MemAccessType]
    BY ElementOfSeq, Zenon DEF Access
  <2>2. \A k \in 1 .. Len(a) :
          [addr |-> a[k].addr, type |-> a[k].type, valid |-> TRUE,
           start_access |-> FALSE] \in RequestEntry(Nat)
    BY <2>1, Zenon DEF RequestEntry
  <2>3. new \in Seq(RequestEntry(Nat)) /\ Len(new) = Len(a)
    BY <1>1, <2>2, IsASeq
  <2>4. \A k \in 1 .. Len(a) :
          new[k].addr = a[k].addr /\ new[k].type = a[k].type /\ new[k].valid
    BY <1>1
  <2>5. q2 = q \o new
    BY Zenon DEF AddToRequests
  <2> HIDE DEF new
  <2>6. /\ Len(q2) = Len(q) + Len(a)
        /\ q2 \in Seq(RequestEntry(Nat))
        /\ \A i \in 1 .. Len(q) + Len(a) :
              q2[i] = IF i <= Len(q) THEN q[i] ELSE new[i - Len(q)]
    <3>1. /\ q \o new \in Seq(RequestEntry(Nat))
          /\ Len(q \o new) = Len(q) + Len(new)
          /\ \A i \in 1 .. Len(q) + Len(new) :
                (q \o new)[i] = IF i <= Len(q) THEN q[i] ELSE new[i - Len(q)]
      BY <2>3, ConcatProperties, Zenon DEF Requests
    <3>2. q2 = q \o new /\ Len(new) = Len(a)
      BY <2>3, <2>5, Zenon
    <3> HIDE <2>5
    <3> QED
      BY <3>1, <3>2, Zenon
  <2>7. DOMAIN q2 = 1 .. Len(q) + Len(a)
    BY <2>6
  <2>8. \A k \in 1 .. Len(q) : q2[k] = q[k]
    BY <1>1, <2>6
  <2>9. \A i \in 1 .. Len(a) : q2[Len(q) + i] = new[i]
    <3> SUFFICES ASSUME NEW i \in 1 .. Len(a) PROVE q2[Len(q) + i] = new[i]
      BY Zenon
    <3>1. /\ Len(q) + i \in 1 .. Len(q) + Len(a) /\ ~(Len(q) + i <= Len(q))
          /\ (Len(q) + i) - Len(q) = i
      BY <1>1
    <3> QED
      BY <3>1, <2>6, Zenon
  <2> QED
    BY <2>4, <2>7, <2>8, <2>9, Zenon
<1>5. C \subseteq T /\ C \subseteq 1 .. Len(q)
  <2> SUFFICES ASSUME NEW k \in C PROVE k \in T /\ k \in 1 .. Len(q)
    BY Zenon
  <2>1. k \in 1 .. Len(q)
    BY <1>1, Zenon DEF Comes
  <2>2. k \in 1 .. Len(q) + Len(a) /\ q2[k] = q[k]
    BY <2>1, <1>1, <1>4
  <2> QED
    BY <2>1, <2>2, <1>4, Zenon DEF Comes
<1>6. \A i \in W : i \in 1 .. Len(a)
  BY <1>3, Zenon DEF Waiting
<1>7. ASSUME NEW i \in W PROVE Len(q) + i \in N
  <2>1. i \in 1 .. Len(a) /\ a[i].addr = addr /\ a[i].type = type
    BY <1>3, Zenon DEF Waiting
  <2>2. Len(q) + i \in 1 .. Len(q) + Len(a) /\ Len(q) + i > Len(q)
    BY <2>1, <1>1
  <2>3. ~(act /\ Len(q) + i = 1)
    <3>1. act => Len(q) # 0
      BY EmptySeq, Zenon DEF Requests
    <3> QED
      BY <3>1, <2>1, <1>1
  <2>4. Len(q) + i \in T
    BY <2>1, <2>2, <2>3, <1>4, Zenon DEF Comes
  <2> QED
    BY <2>2, <2>4, Zenon
<1>8. IsFiniteSet(T) /\ IsFiniteSet(C) /\ IsFiniteSet(W)
  BY <1>2, ComesFinite, WaitingFinite, Zenon
<1>9. N \in SUBSET T
  BY Zenon
<1>10. C \cap N = {}
  BY <1>5, <1>1
<1>11. C \cup N \in SUBSET T
  BY <1>5, Zenon
<1> HIDE DEF C, W, T, N
<1>12. g \in Injection(W, N)
  <2>1. g \in [W -> N]
    BY <1>7
  <2>2. ASSUME NEW x \in W, NEW y \in W, g[x] = g[y] PROVE x = y
    BY <1>1, <1>6, <2>2
  <2> HIDE DEF g
  <2> QED
    BY <2>1, <2>2, Zenon DEF Injection, IsInjective
<1> HIDE DEF g
<1>13. IsFiniteSet(N) /\ Cardinality(C \cup N) <= Cardinality(T)
  BY <1>8, <1>9, <1>11, FS_Subset, Zenon
<1>14. Cardinality(W) <= Cardinality(N)
  BY <1>12, <1>13, FS_Injection, Zenon
<1>15. Cardinality(C \cup N) = Cardinality(C) + Cardinality(N) - Cardinality(C \cap N)
  BY <1>8, <1>13, FS_Union, Zenon
<1>16. Cardinality(C \cap N) = 0
  BY <1>10, FS_EmptySet, Zenon
<1>17. /\ Cardinality(C) \in Nat /\ Cardinality(N) \in Nat /\ Cardinality(W) \in Nat
       /\ Cardinality(T) \in Nat
  BY <1>8, <1>13, FS_CardinalityType, Zenon
<1>18. Cardinality(C) + Cardinality(W) <= Cardinality(T)
  BY <1>13, <1>14, <1>15, <1>16, <1>17
<1> QED
  BY <1>18, Zenon DEF C, W, T

(***************************************************************************)
(* The signal that a cache lookup is over changes nothing of what is still *)
(* to come; an invalidation by address changes it only at the addresses of *)
(* the stage queue it is called with.                                      *)
(***************************************************************************)
LEMMA SignalComes ==
  ASSUME NEW q \in Requests, NEW act, NEW addr, NEW type, NEW sq,
         NEW q2, q2 = Signal(q, sq)
  PROVE  Comes(q2, act, addr, type) = Comes(q, act, addr, type)
<1>1. DOMAIN q2 = DOMAIN q
  BY Zenon DEF Signal
<1>2. \A k \in DOMAIN q : q[k] \in RequestEntry(Nat)
  BY ElementOfSeq DEF Requests
<1>3. \A k \in DOMAIN q : /\ q2[k].addr = q[k].addr /\ q2[k].type = q[k].type
                          /\ q2[k].valid = q[k].valid
  BY <1>2, Zenon DEF Signal, RequestEntry
<1>4. \A k : k \in Comes(q2, act, addr, type) <=> k \in Comes(q, act, addr, type)
  BY <1>1, <1>3, Zenon DEF Comes
<1> QED
  BY <1>4, Zenon

LEMMA InvalidateComes ==
  ASSUME NEW q \in Requests, NEW act, NEW addr, NEW type, NEW sq,
         NEW q2, q2 = Invalidate(q, sq), ~InStage(sq, addr)
  PROVE  Comes(q2, act, addr, type) = Comes(q, act, addr, type)
<1>1. DOMAIN q2 = DOMAIN q
  BY Zenon DEF Invalidate
<1>2. \A k \in DOMAIN q : q[k] \in RequestEntry(Nat)
  BY ElementOfSeq DEF Requests
<1>3. \A k \in DOMAIN q : /\ q2[k].addr = q[k].addr /\ q2[k].type = q[k].type
                          /\ q[k].addr = addr => (q2[k].valid <=> q[k].valid)
  BY <1>2, Zenon DEF Invalidate, RequestEntry
<1>4. \A k : k \in Comes(q2, act, addr, type) <=> k \in Comes(q, act, addr, type)
  BY <1>1, <1>3, Zenon DEF Comes
<1> QED
  BY <1>4, Zenon

-----------------------------------------------------------------------------
(***************************************************************************)
(* No line holds both code and data: what a fetch asks of the controller   *)
(* is apart from what loads, stores and the write-backs they cause ask.    *)
(***************************************************************************)
CodeApartFromData ==
  \A a \in InsnAccesses, d \in DataAccesses :
    \A j \in DOMAIN a, k \in DOMAIN d : a[j].addr # d[k].addr

Asks(accesses, addr) == \E a \in accesses : \E k \in DOMAIN a : a[k].addr = addr

BurstsOf(accesses, sq) ==
  \A j \in DOMAIN sq.entry : /\ Asks(accesses, sq.entry[j].addr)
                             /\ sq.entry[j].type \in {"READ", "WRITE"}

StillToCome ==
  \A addr \in Nat, type \in {"READ", "WRITE"} :
    Suffices(frontend, backend, mem_request_queue, dram.mem_access_active, addr, type)

(***************************************************************************)
(* The inductive invariant behind NoLostRequest.  NoLostRequest itself is  *)
(* not inductive: it counts the write the DRAM is busy with, which has     *)
(* called back already, and it does not say to whom an address belongs.    *)
(***************************************************************************)
LostInv ==
  /\ Inv
  /\ BurstsOf(InsnAccesses, frontend)
  /\ BurstsOf(DataAccesses, backend)
  /\ StillToCome

LEMMA LostInvImplies == LostInv => NoLostRequest
<1> SUFFICES ASSUME LostInv, NEW sq \in {frontend, backend}, NEW i \in Pending(sq)
             PROVE  Awaiting(sq.entry[i].addr, sq.entry[i].type)
                      <= Cardinality(Served(sq.entry[i].addr, sq.entry[i].type))
  BY Zenon DEF NoLostRequest
<1> DEFINE addr == sq.entry[i].addr
           type == sq.entry[i].type
           C == Comes(mem_request_queue, dram.mem_access_active, addr, type)
<1>1. /\ sq \in StageQueue /\ i \in DOMAIN sq.entry
      /\ mem_request_queue \in Requests
      /\ frontend \in StageQueue /\ backend \in StageQueue
  BY Zenon DEF LostInv, Inv, TypeOK, Pending
<1>2. addr \in Nat
  <2>1. sq.entry[i] \in StageEntry(Nat)
    BY <1>1, ElementOfSeq DEF StageQueue
  <2> QED
    BY <2>1, Zenon DEF StageEntry
<1>3. type \in {"READ", "WRITE"}
  BY <1>1, Zenon DEF LostInv, BurstsOf
<1> HIDE DEF addr, type
<1>4. Awaiting(addr, type) <= Cardinality(C)
  BY <1>2, <1>3, Zenon DEF LostInv, StillToCome, Suffices, Awaiting
<1>5. C \in SUBSET Served(addr, type)
  <2>1. C \subseteq Served(addr, type)
    BY Zenon DEF Comes, Served
  <2> QED
    BY <2>1, Zenon
<1>6. IsFiniteSet(Served(addr, type))
  <2>1. Len(mem_request_queue) \in Nat /\ DOMAIN mem_request_queue = 1 .. Len(mem_request_queue)
    BY <1>1 DEF Requests
  <2>2. IsFiniteSet(1 .. Len(mem_request_queue))
    BY <2>1, FS_Interval
  <2>3. Served(addr, type) \in SUBSET (1 .. Len(mem_request_queue))
    BY <2>1, Zenon DEF Served
  <2> QED
    BY <2>2, <2>3, FS_Subset, Zenon
<1>7. Cardinality(C) <= Cardinality(Served(addr, type))
  <2> HIDE DEF C
  <2> QED
    BY <1>5, <1>6, FS_Subset, Zenon
<1>8. /\ Cardinality(C) \in Nat /\ Cardinality(Served(addr, type)) \in Nat
      /\ Awaiting(addr, type) \in Nat
  <2>1. Cardinality(C) \in Nat
    BY <1>1, ComesFinite, Zenon
  <2>2. Cardinality(Served(addr, type)) \in Nat
    BY <1>6, FS_CardinalityType, Zenon
  <2>3. /\ Cardinality(Waiting(frontend, addr, {type})) \in Nat
        /\ Cardinality(Waiting(backend, addr, {type})) \in Nat
    BY <1>1, WaitingFinite, Zenon
  <2>4. \A m, n \in Nat : m + n \in Nat
    OBVIOUS
  <2>5. Awaiting(addr, type) \in Nat
    BY <2>3, <2>4, Zenon DEF Awaiting
  <2> QED
    BY <2>1, <2>2, <2>5, Zenon
<1> HIDE DEF C
<1>9. Awaiting(addr, type) <= Cardinality(Served(addr, type))
  <2>1. \A x, y, z \in Nat : x <= y /\ y <= z => x <= z
    OBVIOUS
  <2> QED
    BY <2>1, <1>4, <1>7, <1>8, Zenon
<1> QED
  BY <1>9, Zenon DEF addr, type

LEMMA EmptyWaits ==
  ASSUME NEW addr, NEW type
  PROVE  /\ Waiting(EmptyStageQueue, addr, {type}) = {}
         /\ \A accesses : BurstsOf(accesses, EmptyStageQueue)
  BY DEF Waiting, EmptyStageQueue, BurstsOf

(***************************************************************************)
(* With nothing waiting there is nothing to lose.                          *)
(***************************************************************************)
LEMMA NothingWaits ==
  ASSUME NEW f, NEW b, NEW q \in Requests, NEW act, NEW addr, NEW type,
         Waiting(f, addr, {type}) = {}, Waiting(b, addr, {type}) = {}
  PROVE  Suffices(f, b, q, act, addr, type)
<1>1. Cardinality(Comes(q, act, addr, type)) \in Nat
  BY ComesFinite, Zenon
<1>2. /\ Cardinality(Waiting(f, addr, {type})) = 0
      /\ Cardinality(Waiting(b, addr, {type})) = 0
  BY FS_EmptySet, Zenon
<1>3. \A n \in Nat : 0 + 0 <= n
  OBVIOUS
<1> QED
  BY <1>1, <1>2, <1>3, Zenon DEF Suffices

LEMMA LostInit == Init => LostInv
<1> SUFFICES ASSUME Init PROVE LostInv
  BY Zenon
<1>1. Inv
  BY InitInv, Zenon
<1>2. frontend = EmptyStageQueue /\ backend = EmptyStageQueue
  BY Zenon DEF Init
<1>3. StillToCome
  <2>1. mem_request_queue \in Requests
    BY <1>1, Zenon DEF Inv, TypeOK
  <2> QED
    BY <1>2, <2>1, EmptyWaits, NothingWaits, Zenon DEF StillToCome
<1> QED
  BY <1>1, <1>2, <1>3, EmptyWaits, Zenon DEF LostInv

-----------------------------------------------------------------------------
(***************************************************************************)
(* Every step keeps it.  First the steps that leave what is still to come  *)
(* alone and may end an access.                                            *)
(***************************************************************************)
SameComes ==
  \A addr, type :
    Comes(mem_request_queue', dram'.mem_access_active, addr, type) =
      Comes(mem_request_queue, dram.mem_access_active, addr, type)

LEMMA LostKept ==
  ASSUME Inv', BurstsOf(InsnAccesses, frontend'), BurstsOf(DataAccesses, backend'),
         \A addr \in Nat, type \in {"READ", "WRITE"} :
           Suffices(frontend', backend', mem_request_queue', dram'.mem_access_active,
                    addr, type)
  PROVE  LostInv'
<1>1. StillToCome'
  BY Zenon DEF StillToCome, Suffices, Waiting, Comes
<1>2. BurstsOf(InsnAccesses, frontend)' /\ BurstsOf(DataAccesses, backend)'
  BY Zenon DEF BurstsOf, Asks
<1> QED
  BY <1>1, <1>2, Zenon DEF LostInv

LEMMA LostTypes ==
  ASSUME LostInv, Inv'
  PROVE  /\ frontend \in StageQueue /\ backend \in StageQueue
         /\ frontend' \in StageQueue /\ backend' \in StageQueue
         /\ mem_request_queue \in Requests /\ mem_request_queue' \in Requests
  BY Zenon DEF LostInv, Inv, TypeOK

LEMMA QuietLost ==
  ASSUME LostInv, Inv', SameComes,
         frontend' = frontend \/ frontend' = EmptyStageQueue,
         backend' = backend \/ backend' = EmptyStageQueue
  PROVE  LostInv'
<1>1. BurstsOf(InsnAccesses, frontend') /\ BurstsOf(DataAccesses, backend')
  BY EmptyWaits, Zenon DEF LostInv
<1>2. ASSUME NEW addr \in Nat, NEW type \in {"READ", "WRITE"}
      PROVE  Suffices(frontend', backend', mem_request_queue', dram'.mem_access_active,
                      addr, type)
  <2>1. /\ Waiting(frontend', addr, {type}) \subseteq Waiting(frontend, addr, {type})
        /\ Waiting(backend', addr, {type}) \subseteq Waiting(backend, addr, {type})
    BY EmptyWaits, Zenon
  <2>2. Comes(mem_request_queue, dram.mem_access_active, addr, type)
          \subseteq Comes(mem_request_queue', dram'.mem_access_active, addr, type)
    BY Zenon DEF SameComes
  <2>3. Suffices(frontend, backend, mem_request_queue, dram.mem_access_active, addr, type)
    BY Zenon DEF LostInv, StillToCome
  <2>4. /\ frontend \in StageQueue /\ backend \in StageQueue
        /\ mem_request_queue \in Requests /\ mem_request_queue' \in Requests
    BY LostTypes, Zenon
  <2> QED
    BY <2>1, <2>2, <2>3, <2>4, SufficesMonotone, SMT
<1> QED
  BY <1>1, <1>2, LostKept, Zenon

LEMMA ResetLost ==
  ASSUME MemControllerReset, Inv'
  PROVE  LostInv'
<1>1. frontend' = EmptyStageQueue /\ backend' = EmptyStageQueue
  BY Zenon DEF MemControllerReset
<1>2. mem_request_queue' \in Requests
  BY Zenon DEF Inv, TypeOK
<1>3. BurstsOf(InsnAccesses, frontend') /\ BurstsOf(DataAccesses, backend')
  BY <1>1, EmptyWaits, Zenon
<1>4. \A addr, type : /\ Waiting(frontend', addr, {type}) = {}
                      /\ Waiting(backend', addr, {type}) = {}
  BY <1>1, EmptyWaits, Zenon
<1>5. \A addr, type :
        Suffices(frontend', backend', mem_request_queue', dram'.mem_access_active,
                 addr, type)
  BY <1>2, <1>4, NothingWaits, Zenon
<1> QED
  BY <1>3, <1>5, LostKept, Zenon

(***************************************************************************)
(* The rollback of a branch and the redirect of a return invalidate the    *)
(* requests at the addresses of the fetch; the LSU waits at none of them.  *)
(***************************************************************************)
LEMMA InvalidateLost ==
  ASSUME CodeApartFromData, LostInv, Inv',
         mem_request_queue' = Invalidate(mem_request_queue, frontend),
         frontend' = EmptyStageQueue, backend' = backend, dram' = dram
  PROVE  LostInv'
<1>1. BurstsOf(InsnAccesses, frontend') /\ BurstsOf(DataAccesses, backend')
  BY EmptyWaits, Zenon DEF LostInv
<1>2. ASSUME NEW addr \in Nat, NEW type \in {"READ", "WRITE"}
      PROVE  Suffices(frontend', backend', mem_request_queue', dram'.mem_access_active,
                      addr, type)
  <2>1. Waiting(frontend', addr, {type}) = {}
    BY EmptyWaits, Zenon
  <2>2. CASE InStage(frontend, addr)
    <3>1. Asks(InsnAccesses, addr)
      BY <2>2, Zenon DEF LostInv, BurstsOf, InStage
    <3>2. ~Asks(DataAccesses, addr)
      BY <3>1, Zenon DEF CodeApartFromData, Asks
    <3>3. Waiting(backend', addr, {type}) = {}
      <4>1. \A i : i \notin Waiting(backend, addr, {type})
        BY <3>2, Zenon DEF LostInv, BurstsOf, Waiting
      <4>2. Waiting(backend, addr, {type}) = {}
        BY <4>1, Zenon
      <4> QED
        BY <4>2, Zenon
    <3> QED
      BY <2>1, <3>3, LostTypes, NothingWaits, Zenon
  <2>3. CASE ~InStage(frontend, addr)
    <3>1. Comes(mem_request_queue', dram'.mem_access_active, addr, type)
            = Comes(mem_request_queue, dram.mem_access_active, addr, type)
      <4>1. Comes(mem_request_queue', dram.mem_access_active, addr, type)
              = Comes(mem_request_queue, dram.mem_access_active, addr, type)
        <5>1. mem_request_queue \in Requests
          BY LostTypes, Zenon
        <5>2. mem_request_queue' = Invalidate(mem_request_queue, frontend)
          OBVIOUS
        <5> QED
          BY <2>3, <5>1, <5>2, InvalidateComes, SMT
      <4> QED
        BY <4>1, Zenon
    <3>2. /\ Waiting(frontend', addr, {type}) \subseteq Waiting(frontend, addr, {type})
          /\ Waiting(backend', addr, {type}) \subseteq Waiting(backend, addr, {type})
          /\ Comes(mem_request_queue, dram.mem_access_active, addr, type)
                \subseteq Comes(mem_request_queue', dram'.mem_access_active, addr, type)
      BY <2>1, <3>1, Zenon
    <3>3. Suffices(frontend, backend, mem_request_queue, dram.mem_access_active, addr, type)
      BY Zenon DEF LostInv, StillToCome
    <3> QED
      BY <3>2, <3>3, LostTypes, SufficesMonotone, Zenon
  <2> QED
    BY <2>2, <2>3, Zenon
<1> QED
  BY <1>1, <1>2, LostKept, Zenon

(***************************************************************************)
(* An access that starts: of fetch, of the LSU, or an AiM command, which   *)
(* neither stage queue waits for.                                          *)
(***************************************************************************)
LEMMA StartSuffices ==
  ASSUME NEW f \in StageQueue, NEW b \in StageQueue, NEW q \in Requests, NEW act,
         act => q # <<>>, NEW addr, NEW type, NEW a \in Access,
         NEW q1, q1 = AddToRequests(q, a),
         NEW sq, sq = AddToStage(EmptyStageQueue, a),
         NEW q2, q2 = q1 \/ q2 = Signal(q1, sq),
         NEW f2, NEW b2,
         \/ f2 = f /\ b2 = b
         \/ f = EmptyStageQueue /\ f2 = sq /\ b2 = b
         \/ b = EmptyStageQueue /\ b2 = sq /\ f2 = f,
         Suffices(f, b, q, act, addr, type)
  PROVE  Suffices(f2, b2, q2, act, addr, type)
<1> DEFINE w(s) == Cardinality(Waiting(s, addr, {type}))
           C == Comes(q, act, addr, type)
           T == Comes(q2, act, addr, type)
<1>1. q1 \in Requests /\ sq \in StageQueue
  BY AddToEmpty, AddToRequestsProps, Zenon
<1>2. Comes(q2, act, addr, type) = Comes(q1, act, addr, type)
  <2>1. CASE q2 = q1
    BY <2>1, Zenon
  <2>2. CASE q2 = Signal(q1, sq)
    BY <1>1, <2>2, SignalComes, SMT
  <2> QED
    BY <2>1, <2>2, Zenon
<1>3. Cardinality(C) + w(sq) <= Cardinality(T)
  <2>1. Cardinality(C) + w(sq) <= Cardinality(Comes(q1, act, addr, type))
    BY AddComes, Zenon
  <2> QED
    BY <2>1, <1>2, Zenon
<1>4. Cardinality(C) \in Nat /\ Cardinality(T) \in Nat
  <2>1. Cardinality(Comes(q1, act, addr, type)) \in Nat
    BY <1>1, ComesFinite, Zenon
  <2> QED
    BY <2>1, <1>2, ComesFinite, Zenon
<1>5. w(f) \in Nat /\ w(b) \in Nat /\ w(sq) \in Nat
  BY <1>1, WaitingFinite, Zenon
<1>6. w(EmptyStageQueue) = 0
  BY EmptyWaits, FS_EmptySet, Zenon
<1>7. w(f) + w(b) <= Cardinality(C)
  BY Zenon DEF Suffices
<1> HIDE DEF w, C, T
<1>8. w(f2) + w(b2) <= Cardinality(T)
  <2>1. CASE f2 = f /\ b2 = b
    BY <2>1, <1>3, <1>4, <1>5, <1>7
  <2>2. CASE f = EmptyStageQueue /\ f2 = sq /\ b2 = b
    <3>1. w(f) = 0
      BY <2>2, <1>6, Zenon
    <3> QED
      BY <3>1, <2>2, <1>3, <1>4, <1>5, <1>7
  <2>3. CASE b = EmptyStageQueue /\ b2 = sq /\ f2 = f
    <3>1. w(b) = 0
      BY <2>3, <1>6, Zenon
    <3> QED
      BY <3>1, <2>3, <1>3, <1>4, <1>5, <1>7
  <2> QED
    BY <2>1, <2>2, <2>3, Zenon
<1> QED
  BY <1>8, Zenon DEF Suffices, w, T

LEMMA StartBursts ==
  ASSUME NEW accesses, accesses \subseteq InsnAccesses \cup DataAccesses,
         NEW a \in accesses, NEW sq, sq = AddToStage(EmptyStageQueue, a)
  PROVE  BurstsOf(accesses, sq)
<1>1. a \in Access /\ \A k \in DOMAIN a : a[k].type \in {"READ", "WRITE"}
  BY MemSystemAssumption, AccessType, Zenon DEF Accesses
<1> DEFINE stg == [k \in DOMAIN a |->
                    [addr |-> a[k].addr, type |-> a[k].type, valid |-> TRUE]]
<1>2. Len(a) \in Nat /\ DOMAIN a = 1 .. Len(a)
  BY <1>1 DEF Access
<1>3. sq.entry = stg
  <2>1. \A k \in 1 .. Len(a) : a[k] \in [addr : Nat, type : MemAccessType]
    BY <1>1, ElementOfSeq, Zenon DEF Access
  <2>2. \A k \in 1 .. Len(a) :
          [addr |-> a[k].addr, type |-> a[k].type, valid |-> TRUE] \in StageEntry(Nat)
    BY <2>1, Zenon DEF StageEntry
  <2>3. stg \in Seq(StageEntry(Nat))
    BY <1>2, <2>2, IsASeq
  <2>4. sq.entry = <<>> \o stg
    BY DEF AddToStage, EmptyStageQueue
  <2> HIDE DEF stg
  <2> QED
    BY <2>3, <2>4, ConcatEmptySeq, Zenon
<1>4. \A k \in DOMAIN a : sq.entry[k].addr = a[k].addr /\ sq.entry[k].type = a[k].type
  BY <1>3
<1>5. DOMAIN sq.entry = DOMAIN a
  BY <1>3
<1> QED
  BY <1>1, <1>4, <1>5, Zenon DEF BurstsOf, Asks

LEMMA FetchStartLost ==
  ASSUME LostInv, Inv', NEW a \in InsnAccesses, NEW lookup, FetchStart(a, lookup)
  PROVE  LostInv'
<1> DEFINE added == AddToStage(EmptyStageQueue, a)
           reqs  == AddToRequests(mem_request_queue, a)
           act   == dram.mem_access_active
<1>1. frontend = EmptyStageQueue
  BY Zenon DEF FetchStart, LostInv, Inv, OneAccessPerStage
<1>2. [frontend EXCEPT !.cur_size = 0] = EmptyStageQueue
  BY <1>1 DEF EmptyStageQueue
<1>3. /\ frontend' = added /\ backend' = backend /\ dram' = dram
      /\ mem_request_queue' = reqs \/ mem_request_queue' = Signal(reqs, added)
  BY <1>2, Zenon DEF FetchStart
<1>4. a \in Access
  BY AccessType, Zenon DEF Accesses
<1>5. BurstsOf(InsnAccesses, frontend') /\ BurstsOf(DataAccesses, backend')
  BY <1>3, StartBursts, Zenon DEF LostInv
<1>6. act => mem_request_queue # <<>>
  BY Zenon DEF LostInv, Inv, ActiveIsFront
<1>7. /\ frontend \in StageQueue /\ backend \in StageQueue
      /\ mem_request_queue \in Requests
  BY LostTypes, Zenon
<1>8. ASSUME NEW addr \in Nat, NEW type \in {"READ", "WRITE"}
      PROVE  Suffices(frontend', backend', mem_request_queue', act, addr, type)
  <2>1. Suffices(frontend, backend, mem_request_queue, act, addr, type)
    BY Zenon DEF LostInv, StillToCome
  <2> HIDE DEF act
  <2> QED
    BY <1>1, <1>3, <1>4, <1>6, <1>7, <2>1, StartSuffices, SMT
<1> QED
  BY <1>3, <1>5, <1>8, LostKept, Zenon

LEMMA LsuStartLost ==
  ASSUME LostInv, Inv', NEW a \in Accesses, NEW is_aim \in BOOLEAN,
         is_aim \/ a \in DataAccesses, NEW lookup, LsuStart(a, is_aim, lookup)
  PROVE  LostInv'
<1> DEFINE added == AddToStage(EmptyStageQueue, a)
           reqs  == AddToRequests(mem_request_queue, a)
           act   == dram.mem_access_active
<1>1. backend = EmptyStageQueue /\ aim = EmptyStageQueue
  BY Zenon DEF LsuStart, LostInv, Inv, OneAccessPerStage
<1>2. /\ frontend' = frontend /\ dram' = dram
      /\ backend' = (IF is_aim THEN backend ELSE added)
      /\ mem_request_queue' = reqs \/ mem_request_queue' = Signal(reqs, added)
  BY <1>1, Zenon DEF LsuStart
<1>3. a \in Access
  BY AccessType, Zenon
<1>4. BurstsOf(InsnAccesses, frontend') /\ BurstsOf(DataAccesses, backend')
  <2>1. ~is_aim => BurstsOf(DataAccesses, added)
    BY StartBursts, Zenon
  <2> QED
    BY <1>2, <2>1, Zenon DEF LostInv
<1>5. act => mem_request_queue # <<>>
  BY Zenon DEF LostInv, Inv, ActiveIsFront
<1>6. /\ frontend \in StageQueue /\ backend \in StageQueue
      /\ mem_request_queue \in Requests
  BY LostTypes, Zenon
<1>7. \/ frontend' = frontend /\ backend' = backend
      \/ backend = EmptyStageQueue /\ backend' = added /\ frontend' = frontend
  BY <1>1, <1>2, Zenon
<1>8. ASSUME NEW addr \in Nat, NEW type \in {"READ", "WRITE"}
      PROVE  Suffices(frontend', backend', mem_request_queue', act, addr, type)
  <2>1. Suffices(frontend, backend, mem_request_queue, act, addr, type)
    BY Zenon DEF LostInv, StillToCome
  <2> HIDE DEF act
  <2> QED
    BY <1>2, <1>3, <1>5, <1>6, <1>7, <2>1, StartSuffices, Zenon
<1> QED
  BY <1>2, <1>4, <1>8, LostKept, Zenon

-----------------------------------------------------------------------------
(***************************************************************************)
(* mem_controller_clock.  The request at the front, seen from before and   *)
(* after it is sent.                                                       *)
(***************************************************************************)
Sent(q, active, active2) == ~active /\ active2 /\ 1 \in DOMAIN q /\ q[1].valid

LEMMA SendOthers ==
  ASSUME NEW q, NEW act, NEW act2, NEW addr, NEW type, Sent(q, act, act2),
         type = "READ" \/ q[1].type # type \/ q[1].addr # addr
  PROVE  Comes(q, act2, addr, type) = Comes(q, act, addr, type)
<1>1. \A k : k # 1 => (k \in Comes(q, act2, addr, type) <=> k \in Comes(q, act, addr, type))
  BY Zenon DEF Comes, Sent
<1>2. 1 \in Comes(q, act2, addr, type) <=> 1 \in Comes(q, act, addr, type)
  BY Zenon DEF Comes, Sent
<1>3. \A k : k \in Comes(q, act2, addr, type) <=> k \in Comes(q, act, addr, type)
  BY <1>1, <1>2, Zenon
<1> QED
  BY <1>3, Zenon

LEMMA SendWrite ==
  ASSUME NEW q, NEW act, NEW act2, NEW addr, NEW type, Sent(q, act, act2), type = "WRITE"
  PROVE  Comes(q, act2, addr, type) = Comes(q, act, addr, type) \ {1}
<1>1. \A k : k # 1 => (k \in Comes(q, act2, addr, type) <=> k \in Comes(q, act, addr, type))
  BY Zenon DEF Comes, Sent
<1>2. type # "READ"
  OBVIOUS
<1>3. 1 \notin Comes(q, act2, addr, type)
  BY <1>2, Zenon DEF Comes, Sent
<1>4. \A k : k \in Comes(q, act2, addr, type) <=> k \in Comes(q, act, addr, type) /\ k # 1
  BY <1>1, <1>3, Zenon
<1> QED
  BY <1>4, Zenon

(***************************************************************************)
(* cq_dequeue of a request that is not awaited.                            *)
(***************************************************************************)
SameWaits(sq, s2, addr, type) ==
  sq \in StageQueue /\ Waiting(s2, addr, {type}) = Waiting(sq, addr, {type})

LEMMA DequeueSuffices ==
  ASSUME NEW f, NEW b, NEW f2, NEW b2, NEW q, NEW q2, NEW act, NEW act2,
         NEW addr, NEW type, Dequeued(q, q2, act2),
         SameWaits(f, f2, addr, type), SameWaits(b, b2, addr, type),
         1 \notin Comes(q, act, addr, type),
         Suffices(f, b, q, act, addr, type)
  PROVE  Suffices(f2, b2, q2, act2, addr, type)
<1> DEFINE C == Comes(q, act, addr, type)
           T == Comes(q2, act2, addr, type)
           w(s) == Cardinality(Waiting(s, addr, {type}))
<1>1. C \ {1} = C
  BY Zenon
<1>2. Cardinality(C \ {1}) <= Cardinality(T)
  BY TailComes, Zenon
<1>3. Cardinality(C) \in Nat /\ Cardinality(T) \in Nat
  BY ComesFinite, Zenon DEF Dequeued
<1>4. w(f) \in Nat /\ w(b) \in Nat
  BY WaitingFinite, Zenon DEF SameWaits
<1>5. w(f) + w(b) <= Cardinality(C) /\ w(f2) = w(f) /\ w(b2) = w(b)
  BY Zenon DEF Suffices, SameWaits
<1> HIDE DEF C, T, w
<1>6. Cardinality(C) <= Cardinality(T)
  BY <1>1, <1>2, Zenon
<1>7. w(f2) + w(b2) <= Cardinality(T)
  BY <1>3, <1>4, <1>5, <1>6
<1> QED
  BY <1>7, Zenon DEF Suffices, w, T

(***************************************************************************)
(* The callback of a request, by which it is no longer to come.            *)
(***************************************************************************)
LEMMA CallbackSuffices ==
  ASSUME NEW f \in StageQueue, NEW b \in StageQueue, NEW q \in Requests, NEW act,
         NEW q2 \in Requests, NEW act2, NEW addr, NEW type,
         NEW f2, f2 = ReleaseFrontend(f, addr, type),
         NEW b2, b2 = ReleaseBackend(f, b, addr, type),
         Cardinality(Comes(q, act, addr, type) \ {1})
           <= Cardinality(Comes(q2, act2, addr, type)),
         Suffices(f, b, q, act, addr, type)
  PROVE  Suffices(f2, b2, q2, act2, addr, type)
<1> DEFINE C == Comes(q, act, addr, type)
           T == Comes(q2, act2, addr, type)
<1>1. IsFiniteSet(C) /\ IsFiniteSet(T) /\ Cardinality(C) \in Nat /\ Cardinality(T) \in Nat
  BY ComesFinite, Zenon
<1>2. Cardinality(C \ {1}) <= Cardinality(T)
  OBVIOUS
<1>3. Cardinality(Waiting(f, addr, {type})) + Cardinality(Waiting(b, addr, {type}))
        <= Cardinality(C)
  BY Zenon DEF Suffices
<1> HIDE DEF C, T
<1>4. Cardinality(C \ {1}) = IF 1 \in C THEN Cardinality(C) - 1 ELSE Cardinality(C)
  BY <1>1, FS_RemoveElement, Zenon
<1>5. Cardinality(C) - 1 <= Cardinality(T)
  BY <1>1, <1>2, <1>4
<1>6. Cardinality(Waiting(f2, addr, {type})) + Cardinality(Waiting(b2, addr, {type}))
        <= Cardinality(T)
  BY <1>1, <1>3, <1>5, ReleasesSuffice, SMT
<1> QED
  BY <1>6, Zenon DEF Suffices, T

LEMMA CallbackOthers ==
  ASSUME NEW f \in StageQueue, NEW b \in StageQueue, NEW addr, NEW type,
         NEW f2, f2 = ReleaseFrontend(f, addr, type),
         NEW b2, b2 = ReleaseBackend(f, b, addr, type)
  PROVE  /\ SameBursts(f2, f) /\ SameBursts(b2, b)
         /\ OthersWait(f2, f, addr, type) /\ OthersWait(b2, b, addr, type)
<1>1. SameBursts(f2, f) /\ OthersWait(f2, f, addr, type)
  <2>1. f2 = Release(f, addr, {type})
    BY Zenon DEF ReleaseFrontend
  <2> QED
    BY <2>1, ReleaseTakesOne, Zenon
<1>2. CASE b2 = b
  BY <1>1, <1>2, Zenon DEF SameBursts, OthersWait
<1>3. CASE b2 = Release(b, addr, {type})
  BY <1>1, <1>3, ReleaseTakesOne, Zenon
<1> QED
  BY <1>2, <1>3, Zenon DEF ReleaseBackend

LEMMA SameBurstsKeep ==
  ASSUME NEW accesses, NEW sq, BurstsOf(accesses, sq), NEW s2, SameBursts(s2, sq)
  PROVE  BurstsOf(accesses, s2)
  BY Zenon DEF BurstsOf, SameBursts

LEMMA ClockDropLost ==
  ASSUME LostInv, Inv', ClockDrop
  PROVE  LostInv'
<1>1. /\ mem_request_queue # <<>> /\ ~mem_request_queue[1].valid
      /\ ~dram.mem_access_active /\ dram' = dram
      /\ mem_request_queue' = Tail(mem_request_queue)
      /\ frontend' = frontend /\ backend' = backend
  BY Zenon DEF ClockDrop, front
<1>2. BurstsOf(InsnAccesses, frontend') /\ BurstsOf(DataAccesses, backend')
  BY <1>1, Zenon DEF LostInv
<1>3. /\ frontend \in StageQueue /\ backend \in StageQueue
      /\ mem_request_queue \in Requests /\ mem_request_queue' \in Requests
  BY LostTypes, Zenon
<1>4. ASSUME NEW addr \in Nat, NEW type \in {"READ", "WRITE"}
      PROVE  Suffices(frontend', backend', mem_request_queue', dram'.mem_access_active,
                      addr, type)
  <2>1. Suffices(frontend, backend, mem_request_queue, dram.mem_access_active, addr, type)
    BY Zenon DEF LostInv, StillToCome
  <2>2. 1 \notin Comes(mem_request_queue, dram.mem_access_active, addr, type)
    BY <1>1, Zenon DEF Comes
  <2>3. SameWaits(frontend, frontend', addr, type) /\ SameWaits(backend, backend', addr, type)
    BY <1>1, <1>3, Zenon DEF SameWaits
  <2>4. Dequeued(mem_request_queue, mem_request_queue', dram'.mem_access_active)
    BY <1>1, <1>3, Zenon DEF Dequeued
  <2> QED
    BY <2>1, <2>2, <2>3, <2>4, DequeueSuffices, Zenon
<1> QED
  BY <1>2, <1>4, LostKept, Zenon

LEMMA ClockSendLost ==
  ASSUME LostInv, Inv', NEW latency, ClockSend(latency)
  PROVE  LostInv'
<1> DEFINE q == mem_request_queue
           fr == mem_request_queue[1]
           act == dram.mem_access_active
           act2 == dram'.mem_access_active
<1>1. /\ q # <<>> /\ fr.valid /\ ~act /\ mem_request_queue' = q
      /\ IF fr.type = "WRITE"
         THEN /\ frontend' = ReleaseFrontend(frontend, fr.addr, "WRITE")
              /\ backend' = ReleaseBackend(frontend, backend, fr.addr, "WRITE")
         ELSE frontend' = frontend /\ backend' = backend
  BY Zenon DEF ClockSend, front
<1>2. act2
  <2>1. \A x, y : [mem_access_active |-> TRUE, active_mem_request |-> 1,
                   elapsed_clock_cycles |-> x, max_clock_cycles |-> y].mem_access_active
    OBVIOUS
  <2> QED
    BY <2>1, Zenon DEF ClockSend
<1>3. /\ frontend \in StageQueue /\ backend \in StageQueue
      /\ q \in Requests
  BY LostTypes, Zenon
<1>4. Sent(q, act, act2)
  <2>1. 1 \in DOMAIN q
    BY <1>1, <1>3 DEF Requests
  <2> QED
    BY <1>1, <1>2, <2>1, Zenon DEF Sent
<1>5. CASE fr.type = "WRITE"
  <2>1. /\ frontend' = ReleaseFrontend(frontend, fr.addr, "WRITE")
        /\ backend' = ReleaseBackend(frontend, backend, fr.addr, "WRITE")
    BY <1>1, <1>5, Zenon
  <2>2. /\ SameBursts(frontend', frontend) /\ SameBursts(backend', backend)
        /\ OthersWait(frontend', frontend, fr.addr, "WRITE")
        /\ OthersWait(backend', backend, fr.addr, "WRITE")
    BY <1>3, <2>1, CallbackOthers, SMT
  <2>3. BurstsOf(InsnAccesses, frontend') /\ BurstsOf(DataAccesses, backend')
    BY <2>2, SameBurstsKeep, Zenon DEF LostInv
  <2>4. ASSUME NEW addr \in Nat, NEW type \in {"READ", "WRITE"}
        PROVE  Suffices(frontend', backend', q, act2, addr, type)
    <3>1. Suffices(frontend, backend, q, act, addr, type)
      BY Zenon DEF LostInv, StillToCome
    <3> HIDE DEF act, act2, q
    <3>2. CASE addr = fr.addr /\ type = "WRITE"
      <4>1. Comes(q, act2, addr, type) = Comes(q, act, addr, type) \ {1}
        BY <1>4, <3>2, SendWrite, SMT
      <4>2. Cardinality(Comes(q, act2, addr, type)) \in Nat
        BY <1>3, ComesFinite, Zenon
      <4>3. Cardinality(Comes(q, act, addr, type) \ {1})
              <= Cardinality(Comes(q, act2, addr, type))
        <5>1. \A n \in Nat : n <= n
          OBVIOUS
        <5> QED
          BY <4>1, <4>2, <5>1, Zenon
      <4>4. /\ frontend' = ReleaseFrontend(frontend, addr, type)
            /\ backend' = ReleaseBackend(frontend, backend, addr, type)
        BY <2>1, <3>2, Zenon
      <4> QED
        BY <1>3, <3>1, <4>3, <4>4, CallbackSuffices, SMT
    <3>3. CASE addr # fr.addr \/ type # "WRITE"
      <4>1. type = "READ" \/ q[1].type # type \/ q[1].addr # addr
        BY <3>3, Zenon DEF q
      <4>2. Comes(q, act2, addr, type) = Comes(q, act, addr, type)
        BY <1>4, <4>1, SendOthers, SMT
      <4>3. /\ Waiting(frontend', addr, {type}) = Waiting(frontend, addr, {type})
            /\ Waiting(backend', addr, {type}) = Waiting(backend, addr, {type})
        BY <2>2, <3>3, Zenon DEF OthersWait
      <4> QED
        BY <3>1, <4>2, <4>3, Zenon DEF Suffices
    <3> QED
      BY <3>2, <3>3, Zenon
  <2> QED
    BY <1>1, <2>3, <2>4, LostKept, Zenon
<1>6. CASE fr.type # "WRITE"
  <2>1. frontend' = frontend /\ backend' = backend
    BY <1>1, <1>6, Zenon
  <2>2. ASSUME NEW addr \in Nat, NEW type \in {"READ", "WRITE"}
        PROVE  Suffices(frontend', backend', q, act2, addr, type)
    <3>1. Suffices(frontend, backend, q, act, addr, type)
      BY Zenon DEF LostInv, StillToCome
    <3>2. type = "READ" \/ q[1].type # type
      BY <1>6, Zenon
    <3> HIDE DEF act, act2, q
    <3>3. Comes(q, act2, addr, type) = Comes(q, act, addr, type)
      BY <1>4, <3>2, SendOthers, SMT
    <3> QED
      BY <2>1, <3>1, <3>3, Zenon DEF Suffices
  <2>3. BurstsOf(InsnAccesses, frontend') /\ BurstsOf(DataAccesses, backend')
    BY <2>1, Zenon DEF LostInv
  <2> QED
    BY <1>1, <2>2, <2>3, LostKept, Zenon
<1> QED
  BY <1>5, <1>6, Zenon

LEMMA ClockDoneLost ==
  ASSUME LostInv, Inv', ClockDone
  PROVE  LostInv'
<1> DEFINE q == mem_request_queue
           fr == mem_request_queue[1]
           act == dram.mem_access_active
           act2 == dram'.mem_access_active
<1>1. /\ act /\ q # <<>> /\ mem_request_queue' = Tail(q)
      /\ IF fr.type = "READ"
         THEN /\ frontend' = ReleaseFrontend(frontend, fr.addr, "READ")
              /\ backend' = ReleaseBackend(frontend, backend, fr.addr, "READ")
         ELSE frontend' = frontend /\ backend' = backend
  <2>1. act /\ q # <<>> /\ dram.active_mem_request = 1
    BY Zenon DEF ClockDone, LostInv, Inv, ActiveIsFront
  <2> QED
    BY <2>1, Zenon DEF ClockDone
<1>2. ~act2
  <2>1. ~DramIdle.mem_access_active
    BY DEF DramIdle
  <2> QED
    BY <2>1, Zenon DEF ClockDone
<1>3. /\ frontend \in StageQueue /\ backend \in StageQueue
      /\ q \in Requests /\ mem_request_queue' \in Requests
  BY LostTypes, Zenon
<1>4. Dequeued(q, mem_request_queue', act2)
  BY <1>1, <1>2, <1>3, Zenon DEF Dequeued
<1>5. CASE fr.type = "READ"
  <2>1. /\ frontend' = ReleaseFrontend(frontend, fr.addr, "READ")
        /\ backend' = ReleaseBackend(frontend, backend, fr.addr, "READ")
    BY <1>1, <1>5, Zenon
  <2>2. /\ SameBursts(frontend', frontend) /\ SameBursts(backend', backend)
        /\ OthersWait(frontend', frontend, fr.addr, "READ")
        /\ OthersWait(backend', backend, fr.addr, "READ")
    BY <1>3, <2>1, CallbackOthers, SMT
  <2>3. BurstsOf(InsnAccesses, frontend') /\ BurstsOf(DataAccesses, backend')
    BY <2>2, SameBurstsKeep, Zenon DEF LostInv
  <2>4. ASSUME NEW addr \in Nat, NEW type \in {"READ", "WRITE"}
        PROVE  Suffices(frontend', backend', mem_request_queue', act2, addr, type)
    <3>1. Suffices(frontend, backend, q, act, addr, type)
      BY Zenon DEF LostInv, StillToCome
    <3>2. CASE addr = fr.addr /\ type = "READ"
      <4>1. Cardinality(Comes(q, act, addr, type) \ {1})
              <= Cardinality(Comes(mem_request_queue', act2, addr, type))
        BY <1>4, TailComes, Zenon
      <4>2. /\ frontend' = ReleaseFrontend(frontend, addr, type)
            /\ backend' = ReleaseBackend(frontend, backend, addr, type)
        BY <2>1, <3>2, Zenon
      <4> HIDE DEF act, act2, q
      <4> QED
        BY <1>3, <3>1, <4>1, <4>2, CallbackSuffices, SMT
    <3>3. CASE addr # fr.addr \/ type # "READ"
      <4>1. 1 \notin Comes(q, act, addr, type)
        BY <1>1, <3>3, Zenon DEF Comes
      <4>2. /\ SameWaits(frontend, frontend', addr, type)
            /\ SameWaits(backend, backend', addr, type)
        BY <1>3, <2>2, <3>3, Zenon DEF OthersWait, SameWaits
      <4> HIDE DEF act, act2, q
      <4> QED
        BY <1>4, <3>1, <4>1, <4>2, DequeueSuffices, Zenon
    <3> QED
      BY <3>2, <3>3, Zenon
  <2> QED
    BY <2>3, <2>4, LostKept, Zenon
<1>6. CASE fr.type # "READ"
  <2>1. frontend' = frontend /\ backend' = backend
    BY <1>1, <1>6, Zenon
  <2>2. ASSUME NEW addr \in Nat, NEW type \in {"READ", "WRITE"}
        PROVE  Suffices(frontend', backend', mem_request_queue', act2, addr, type)
    <3>1. Suffices(frontend, backend, q, act, addr, type)
      BY Zenon DEF LostInv, StillToCome
    <3>2. 1 \notin Comes(q, act, addr, type)
      BY <1>1, <1>6, Zenon DEF Comes
    <3>3. SameWaits(frontend, frontend', addr, type) /\ SameWaits(backend, backend', addr, type)
      BY <1>3, <2>1, Zenon DEF SameWaits
    <3> HIDE DEF act, act2, q
    <3> QED
      BY <1>4, <3>1, <3>2, <3>3, DequeueSuffices, Zenon
  <2>3. BurstsOf(InsnAccesses, frontend') /\ BurstsOf(DataAccesses, backend')
    BY <2>1, Zenon DEF LostInv
  <2> QED
    BY <2>2, <2>3, LostKept, Zenon
<1> QED
  BY <1>5, <1>6, Zenon

-----------------------------------------------------------------------------
(***************************************************************************)
(* The steps that leave the queue of requests alone or only signal.        *)
(***************************************************************************)
LEMMA SameQueueComes ==
  ASSUME mem_request_queue' = mem_request_queue,
         dram'.mem_access_active = dram.mem_access_active
  PROVE  SameComes
  BY Zenon DEF SameComes

LEMMA SignalSameComes ==
  ASSUME LostInv, NEW sq, dram' = dram,
         \/ mem_request_queue' = mem_request_queue
         \/ mem_request_queue' = Signal(mem_request_queue, sq)
  PROVE  SameComes
<1>1. CASE mem_request_queue' = mem_request_queue
  BY <1>1, SameQueueComes, Zenon
<1>2. CASE mem_request_queue' = Signal(mem_request_queue, sq)
  <2>1. mem_request_queue \in Requests
    BY Zenon DEF LostInv, Inv, TypeOK
  <2> SUFFICES ASSUME NEW addr, NEW type
               PROVE  Comes(mem_request_queue', dram'.mem_access_active, addr, type) =
                        Comes(mem_request_queue, dram.mem_access_active, addr, type)
    BY Zenon DEF SameComes
  <2>2. Comes(mem_request_queue', dram.mem_access_active, addr, type) =
          Comes(mem_request_queue, dram.mem_access_active, addr, type)
    BY <1>2, <2>1, SignalComes, SMT
  <2> QED
    BY <2>2, Zenon
<1> QED
  BY <1>1, <1>2, Zenon

LEMMA OnlyPhaseLost ==
  ASSUME LostInv, Inv', UNCHANGED <<queues, dram>>
  PROVE  LostInv'
<1>1. frontend' = frontend /\ backend' = backend /\ dram' = dram
      /\ mem_request_queue' = mem_request_queue
  BY Zenon DEF queues
<1>2. SameComes
  BY <1>1, SameQueueComes, Zenon
<1> QED
  BY <1>1, <1>2, QuietLost, Zenon

LEMMA ClockTickLost ==
  ASSUME LostInv, Inv', ClockTick
  PROVE  LostInv'
<1>1. /\ frontend' = frontend /\ backend' = backend
      /\ mem_request_queue' = mem_request_queue
  BY Zenon DEF ClockTick, queues
<1>2. dram'.mem_access_active = dram.mem_access_active
  <2>1. dram \in DramState
    BY Zenon DEF LostInv, Inv, TypeOK
  <2>2. dram' = [dram EXCEPT !.elapsed_clock_cycles = dram.elapsed_clock_cycles + 1]
    BY Zenon DEF ClockTick
  <2> QED
    BY <2>1, <2>2 DEF DramState
<1>3. SameComes
  BY <1>1, <1>2, SameQueueComes, Zenon
<1> QED
  BY <1>1, <1>3, QuietLost, Zenon

LEMMA LsuCompleteLost ==
  ASSUME LostInv, Inv', LsuComplete
  PROVE  LostInv'
<1>1. /\ frontend' = frontend /\ mem_request_queue' = mem_request_queue
      /\ dram' = dram /\ lsu' = LsuIdle
  BY Zenon DEF LsuComplete
<1>2. backend' = EmptyStageQueue
  <2>1. ~LsuIdle.busy
    BY DEF LsuIdle
  <2> QED
    BY <1>1, <2>1, Zenon DEF Inv, OneAccessPerStage
<1>3. SameComes
  BY <1>1, SameQueueComes, Zenon
<1> QED
  BY <1>1, <1>2, <1>3, QuietLost, Zenon

LEMMA FetchFaultLost ==
  ASSUME LostInv, Inv', FetchFault
  PROVE  LostInv'
<1>1. /\ backend' = backend /\ mem_request_queue' = mem_request_queue /\ dram' = dram
      /\ frontend' = [frontend EXCEPT !.cur_size = 0, !.entry = <<>>]
      /\ frontend = EmptyStageQueue
  BY Zenon DEF FetchFault, LostInv, Inv, OneAccessPerStage
<1>2. frontend' = EmptyStageQueue
  BY <1>1 DEF EmptyStageQueue
<1>3. SameComes
  BY <1>1, SameQueueComes, Zenon
<1> QED
  BY <1>1, <1>2, <1>3, QuietLost, Zenon

LEMMA FetchCompleteLost ==
  ASSUME LostInv, Inv', NEW decode_free \in BOOLEAN, FetchComplete(decode_free)
  PROVE  LostInv'
<1>1. /\ backend' = backend /\ mem_request_queue' = mem_request_queue /\ dram' = dram
      /\ fetch' = FetchIdle \/ frontend' = frontend
  BY Zenon DEF FetchComplete
<1>2. frontend' = frontend \/ frontend' = EmptyStageQueue
  <2>1. FetchIdle.on /\ ~FetchIdle.busy
    BY DEF FetchIdle
  <2> QED
    BY <1>1, <2>1, Zenon DEF Inv, OneAccessPerStage
<1>3. SameComes
  BY <1>1, SameQueueComes, Zenon
<1> QED
  BY <1>1, <1>2, <1>3, QuietLost, Zenon

LEMMA LsuWaitLost ==
  ASSUME LostInv, Inv', LsuWait
  PROVE  LostInv'
<1>1. frontend' = frontend /\ backend' = backend
  BY Zenon DEF LsuWait
<1>2. SameComes
  <2>1. dram' = dram /\ (\/ mem_request_queue' = mem_request_queue
                        \/ mem_request_queue' = Signal(mem_request_queue, LsuQueue))
    BY Zenon DEF LsuWait
  <2> QED
    BY <2>1, SignalSameComes, Zenon
<1> QED
  BY <1>1, <1>2, QuietLost, Zenon

LEMMA FetchWaitLost ==
  ASSUME LostInv, Inv', FetchWait
  PROVE  LostInv'
<1>1. frontend' = frontend /\ backend' = backend
  BY Zenon DEF FetchWait
<1>2. SameComes
  <2>1. dram' = dram /\ (\/ mem_request_queue' = mem_request_queue
                        \/ mem_request_queue' = Signal(mem_request_queue, frontend))
    BY Zenon DEF FetchWait
  <2> QED
    BY <2>1, SignalSameComes, Zenon
<1> QED
  BY <1>1, <1>2, QuietLost, Zenon

LEMMA RollbackLost ==
  ASSUME CodeApartFromData, LostInv, Inv', NEW lsu_speculated \in BOOLEAN,
         Rollback(lsu_speculated)
  PROVE  LostInv'
<1>1. CASE lsu_speculated
  BY <1>1, ResetLost, Zenon DEF Rollback
<1>2. CASE ~lsu_speculated
  <2>1. /\ mem_request_queue' = Invalidate(mem_request_queue, frontend)
        /\ frontend' = EmptyStageQueue /\ backend' = backend /\ dram' = dram
    BY <1>2, Zenon DEF Rollback
  <2> QED
    BY <2>1, InvalidateLost, Zenon
<1> QED
  BY <1>1, <1>2, Zenon

LEMMA RasRedirectLost ==
  ASSUME CodeApartFromData, LostInv, Inv', RasRedirect
  PROVE  LostInv'
<1>1. /\ mem_request_queue' = Invalidate(mem_request_queue, frontend)
      /\ frontend' = EmptyStageQueue /\ backend' = backend /\ dram' = dram
  BY Zenon DEF RasRedirect
<1> QED
  BY <1>1, InvalidateLost, Zenon

LEMMA LostNext ==
  ASSUME CodeApartFromData, LostInv, [Next]_vars
  PROVE  LostInv'
<1>1. Inv'
  BY NextInv, Zenon DEF LostInv
<1>2. CASE UNCHANGED vars
  BY <1>1, <1>2, OnlyPhaseLost, Zenon DEF vars
<1>3. CASE \/ ClockIdle \/ LsuNothing \/ LsuLookup \/ NoRollback \/ StopFetch
           \/ FetchNothing \/ FetchLookup \/ Abort \/ Aborted
  <2>1. UNCHANGED <<queues, dram>>
    BY <1>3, Zenon DEF ClockIdle, LsuNothing, LsuLookup, NoRollback, StopFetch,
                       FetchNothing, FetchLookup, Abort, Aborted, vars
  <2> QED
    BY <1>1, <2>1, OnlyPhaseLost, Zenon
<1>4. CASE McClock
  BY <1>1, <1>3, <1>4, ClockDropLost, ClockSendLost, ClockTickLost, ClockDoneLost, Zenon
     DEF McClock
<1>5. CASE SimExit
  BY <1>1, <1>5, ResetLost, Zenon DEF SimExit
<1>6. CASE Lsu
  <2>1. ASSUME NEW a \in DataAccesses, NEW lookup \in Lookups,
               LsuStart(a, FALSE, lookup)
        PROVE  LostInv'
    <3>1. a \in Accesses /\ FALSE \in BOOLEAN
      BY Zenon DEF Accesses
    <3> QED
      BY <1>1, <3>1, <2>1, LsuStartLost, Zenon
  <2>2. ASSUME NEW a \in AimAccesses, LsuStart(a, TRUE, 1)
        PROVE  LostInv'
    <3>1. a \in Accesses /\ TRUE \in BOOLEAN
      BY Zenon DEF Accesses
    <3> QED
      BY <1>1, <3>1, <2>2, LsuStartLost, Zenon
  <2> QED
    BY <1>1, <1>3, <1>6, <2>1, <2>2, LsuWaitLost, LsuCompleteLost, Zenon DEF Lsu
<1>7. CASE Exec
  BY <1>1, <1>3, <1>7, RollbackLost, Zenon DEF Exec
<1>8. CASE Fetch
  BY <1>1, <1>3, <1>8, RasRedirectLost, FetchFaultLost, FetchStartLost, FetchWaitLost,
     FetchCompleteLost, Zenon DEF Fetch
<1> QED
  BY <1>2, <1>3, <1>4, <1>5, <1>6, <1>7, <1>8, Zenon DEF Next

(***************************************************************************)
(* No stage waits for a callback that will not come: as long as no line    *)
(* holds both code and data, the invalidation by address in a rollback or  *)
(* a redirect takes no request away from the LSU, and a callback that      *)
(* finds its entry by address only is never one too few.                   *)
(***************************************************************************)
THEOREM NothingLost == CodeApartFromData => (Spec => []NoLostRequest)
<1> SUFFICES ASSUME CodeApartFromData PROVE Spec => []NoLostRequest
  BY Zenon
<1>1. LostInv /\ [Next]_vars => LostInv'
  BY LostNext, Zenon
<1> QED
  BY <1>1, LostInit, LostInvImplies, PTL DEF Spec
=============================================================================
