----------------------------- MODULE AimWrapper -----------------------------
(***************************************************************************)
(* The wrapper that asks the AiMulator for the latency of one access of    *)
(* the memory controller (aimulator_wrapper.cpp): it splits the access     *)
(* into transactions, sends them, keeps the refused ones in retry_queue    *)
(* and ticks the memory system until every transaction it has sent was     *)
(* called back.  The AiMulator itself is external: it accepts or refuses a *)
(* transaction and calls back the accepted ones in any order.              *)
(***************************************************************************)
EXTENDS Integers, Sequences, SequencesExt, FiniteSets

CONSTANTS
  MEM_BUS_WIDTH,
  Accesses,       \* [type, addr, size]; type is "read", "write" or "aim"
  MayRefuse,      \* whether the memory system may refuse a transaction
  MaxAsked,       \* bound on the transactions of a behaviour
  MaxCycles       \* bound on the cycles an access waits

VARIABLES
  pc,             \* "idle", "split", "wait" or "aborted"
  e,              \* the access being served
  offset,         \* bytes_accessed
  cycles,         \* clock_cycles_elasped + cycles_queuing_delay
  status,         \* mem_addr_cb_status, a multimap in the order of its keys
  retry_queue,
  memory,         \* the transactions the memory system has accepted
  refuses,        \* the memory system of this behaviour may refuse
  asked,          \* transactions asked for so far; numbers them
  sent            \* their numbers, in the order they were accepted

vars == <<pc, e, offset, cycles, status, retry_queue, memory, refuses, asked, sent>>

NoAccess == [type |-> "none", addr |-> 0, size |-> 0]

-----------------------------------------------------------------------------
(* std::multimap *)

Entry(addr, done) == [addr |-> addr, done |-> done]

\* A new entry goes behind those of its key.
insert(m, addr) ==
  LET before == SelectSeq(m, LAMBDA x : x.addr <= addr)
      after == SelectSeq(m, LAMBDA x : x.addr > addr)
  IN  Append(before, Entry(addr, FALSE)) \o after

\* erase(key) removes every entry of the key.
erase(m, addr) == SelectSeq(m, LAMBDA x : x.addr # addr)

\* find(key), 0 for end()
find(m, addr) ==
  IF \E i \in DOMAIN m : m[i].addr = addr
  THEN CHOOSE i \in DOMAIN m : m[i].addr = addr /\ \A j \in 1 .. i - 1 : m[j].addr # addr
  ELSE 0

\* Mutant: the first transaction that is called back completes the access.
AfterErase_First(m) == IF m # <<>> /\ m[1].done THEN <<>> ELSE m

\* access_complete() erases the completed entries before the first other one.
AfterErase(m) ==
  LET waiting == {i \in DOMAIN m : ~m[i].done}
  IN  IF waiting = {} THEN <<>>
      ELSE SubSeq(m, CHOOSE i \in waiting : \A j \in waiting : i <= j, Len(m))

access_complete(m) == AfterErase(m) = <<>>

-----------------------------------------------------------------------------
(* The memory system *)

Answers == IF refuses THEN {TRUE, FALSE} ELSE {TRUE}

Transaction(addr, n) == [addr |-> addr, n |-> n]

\* One tick calls back at most one transaction; a callback that finds no entry
\* of its address fails its assertion.
tick(m) ==
  \E done \in SUBSET memory :
    /\ Cardinality(done) <= 1
    /\ memory' = memory \ done
    /\ \/ done = {} /\ status' = m /\ pc' = pc
       \/ \E t \in done :
            LET i == find(m, t.addr)
            IN  /\ status' = IF i = 0 THEN m ELSE [m EXCEPT ![i].done = TRUE]
                /\ pc' = IF i = 0 THEN "aborted" ELSE pc

-----------------------------------------------------------------------------
(* get_max_clock_cycles *)

Init ==
  /\ pc = "idle" /\ e = NoAccess /\ offset = 0 /\ cycles = 0
  /\ status = <<>> /\ retry_queue = <<>> /\ memory = {}
  /\ refuses \in (IF MayRefuse THEN {TRUE, FALSE} ELSE {FALSE})
  /\ asked = 0 /\ sent = <<>>

Call ==
  /\ pc = "idle" /\ asked < MaxAsked
  /\ \E a \in Accesses : e' = a
  /\ pc' = "split" /\ offset' = 0 /\ cycles' = 0 /\ status' = <<>>
  /\ UNCHANGED <<retry_queue, memory, refuses, asked, sent>>

\* The next transaction of the access: sent, or put into the retry queue.
SendPart ==
  LET addr == e.addr + offset
      t == Transaction(addr, asked + 1)
  IN  /\ pc = "split"
      /\ \E accepted \in Answers :
           IF accepted
           THEN /\ memory' = memory \cup {t} /\ sent' = Append(sent, t.n)
                /\ status' = insert(status, addr) /\ UNCHANGED retry_queue
           ELSE /\ retry_queue' = Append(retry_queue, t)
                /\ status' = erase(insert(status, addr), addr) /\ UNCHANGED <<memory, sent>>
      /\ asked' = asked + 1
      /\ offset' = offset + MEM_BUS_WIDTH
      \* the loop runs while bytes_accessed <= access_size_bytes
      /\ pc' = IF e.type # "aim" /\ offset' <= e.size THEN "split" ELSE "wait"
      /\ UNCHANGED <<e, cycles, refuses>>

\* The oldest refused transaction is tried again; when it is refused, the
\* memory system ticks.
Retry ==
  LET t == Head(retry_queue)
      m == AfterErase(status)
  IN  /\ pc = "wait" /\ ~access_complete(status) /\ retry_queue # <<>>
      /\ cycles < MaxCycles
      /\ \E accepted \in Answers :
           IF accepted
           THEN /\ memory' = memory \cup {t} /\ sent' = Append(sent, t.n)
                /\ status' = insert(m, t.addr) /\ retry_queue' = Tail(retry_queue)
                /\ UNCHANGED <<pc, cycles>>
           ELSE /\ tick(erase(insert(m, t.addr), t.addr))
                /\ cycles' = cycles + 1 /\ UNCHANGED <<retry_queue, sent>>
      /\ UNCHANGED <<e, offset, refuses, asked>>

Tick ==
  /\ pc = "wait" /\ ~access_complete(status) /\ retry_queue = <<>>
  /\ cycles < MaxCycles
  /\ tick(AfterErase(status)) /\ cycles' = cycles + 1
  /\ UNCHANGED <<e, offset, retry_queue, refuses, asked, sent>>

\* The caller, dram_send_request, takes the latency.
Return ==
  /\ pc = "wait" /\ access_complete(status)
  /\ pc' = IF cycles = 0 THEN "aborted" ELSE "idle"
  /\ status' = <<>> /\ e' = NoAccess /\ offset' = 0 /\ cycles' = 0
  /\ UNCHANGED <<retry_queue, memory, refuses, asked, sent>>

\* The program has ended, has aborted, or waits past the bound.
Ended ==
  /\ \/ pc = "idle" /\ asked >= MaxAsked
     \/ pc = "aborted"
     \/ pc = "wait" /\ ~access_complete(status) /\ cycles = MaxCycles
  /\ UNCHANGED vars

Next == Call \/ SendPart \/ Retry \/ Tick \/ Return \/ Ended

Spec == Init /\ [][Next]_vars

-----------------------------------------------------------------------------
(* Properties *)

\* When the memory system refuses nothing, an access is over only when each of
\* its transactions was called back: none is left in the memory system for the
\* next access to be charged with or to trip over, and no assertion fails.
AccessTimed ==
  ~refuses =>
    /\ pc # "aborted"
    /\ pc = "idle" => memory = {} /\ retry_queue = <<>>

\* The comments of get_max_clock_cycles: pending transactions go before newly
\* arriving ones, because AiM operations execute in order.
IssuesInOrder == \A i, j \in DOMAIN sent : i < j => sent[i] < sent[j]
=============================================================================
