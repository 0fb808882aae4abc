-------------------------- MODULE DramController --------------------------
(***************************************************************************)
(* The DRAM controller of DRAMsim3 (controller.cc, command_queue.cc,       *)
(* channel_state.cc, bankstate.cc, refresh.cc, timing.cc) under the two    *)
(* hosts the repository has for it: the simulator's wrapper                *)
(* (dramsim_wrapper.cpp), which adds the parts of one access and then      *)
(* ticks the memory until all of them are answered, and DRAMsim3's own     *)
(* processors (cpu.cc), which offer at most one transaction a cycle and    *)
(* never wait.  Time is relative: cmd_timing_, the activation window, the  *)
(* refresh clock and complete_cycle are kept as the cycles still to go.    *)
(* One channel and one bank group are modelled, and no statistics.         *)
(***************************************************************************)
EXTENDS Integers, Sequences, FiniteSets

CONSTANTS
    NumRanks, NumBanks,  \* ranks of the channel, banks of a rank
    Addrs,               \* the addresses used: [rank, bank, row, col]
    Accesses,            \* what the wrapper is asked: [addrs, write]
    Offers,              \* what a processor of cpu.cc may offer: [addr, write]
    TransQueueSize, CmdQueueSize, LowWater, HitLimit,
    Delay,               \* the timing parameters, a record
    ReadDelay, Interval, SrefThreshold,
    Configs,             \* the settings of the .ini file that select control
    Hosts,               \* "wrapper" or "cpu"
    MaxOffers,           \* bound: transactions a processor of cpu.cc offers
    MaxLate,             \* cycles by which a refresh may come late
    MaxAccess            \* cycles an access may take

VARIABLES
    cfg,                 \* the configuration read at start
    host,                \* the program that drives the memory
    c                    \* the controller of the channel

vars == <<cfg, host, c>>

Ranks == 0 .. NumRanks - 1
Banks == [rank : Ranks, bank : 0 .. NumBanks - 1]
BankOf(a) == [rank |-> a.rank, bank |-> a.bank]
NoCommand == [type |-> "none"]
Abort == [type |-> "abort"]
RankOnly(r) == [rank |-> r, bank |-> -1, row |-> -1, col |-> -1]
BankOnly(b) == [rank |-> b.rank, bank |-> b.bank, row |-> -1, col |-> -1]

Reads == {"READ", "READ_PRECHARGE"}
Writes == {"WRITE", "WRITE_PRECHARGE"}
IsReadWrite(cmd) == cmd.type \in Reads \union Writes
IsRefresh(cmd) == cmd.type \in {"REFRESH", "REFRESH_BANK"}
IsRankCMD(cmd) == cmd.type \in {"REFRESH", "SREF_ENTER", "SREF_EXIT"}
IsValid(cmd) == cmd.type # "none"

\* The value of e, computed once however often Op uses it.
With(e, Op(_)) == CHOOSE r \in {Op(x) : x \in {e}} : TRUE
MaxOf(a, b) == IF a > b THEN a ELSE b
Least(S) == CHOOSE n \in S : \A k \in S : n <= k
\* The first of some places, and the first that has a command.
First(S) == IF S = {} THEN [at |-> -1, cmd |-> NoCommand]
            ELSE CHOOSE f \in S : \A g \in S : f.at <= g.at
FirstValid(S) == First({f \in S : IsValid(f.cmd)})
Without(s, i) == SubSeq(s, 1, i - 1) \o SubSeq(s, i + 1, Len(s))
DropFirst(s, P(_)) ==
    LET at == {i \in DOMAIN s : P(s[i])}
    IN  IF at = {} THEN s ELSE Without(s, Least(at))

----------------------------------------------------------------------------
(* Bank states *)

\* READ and READ_PRECHARGE, WRITE and WRITE_PRECHARGE, REFRESH and
\* SREF_ENTER always get the same entries in timing.cc: one slot for each pair.
Slots == {"RD", "WR", "ACT", "PRE", "REF", "REFB", "SREX"}
Slot(type) ==
    CASE type \in Reads -> "RD"
      [] type \in Writes -> "WR"
      [] type = "ACTIVATE" -> "ACT"
      [] type = "PRECHARGE" -> "PRE"
      [] type \in {"REFRESH", "SREF_ENTER"} -> "REF"
      [] type = "REFRESH_BANK" -> "REFB"
      [] type = "SREF_EXIT" -> "SREX"

BankState == [state |-> "CLOSED", row |-> -1, hits |-> 0,
              wait |-> [s \in Slots |-> 0]]

Required(b, type, row) ==
    CASE b.state = "SREF" ->
            IF type \in Reads \union Writes THEN "SREF_EXIT" ELSE "abort"
      [] type = "SREF_EXIT" /\ b.state # "SREF" -> "abort"
      [] b.state = "CLOSED" /\ type # "SREF_EXIT" ->
            IF type \in Reads \union Writes THEN "ACTIVATE" ELSE type
      [] b.state = "OPEN" /\ type # "SREF_EXIT" ->
            IF type \in Reads \union Writes /\ row = b.row
            THEN type ELSE "PRECHARGE"

BankReady(b, type, row) ==
    LET t == Required(b, type, row)
    IN  IF t = "abort" \/ b.wait[Slot(t)] = 0 THEN t ELSE "none"

\* hits is only compared with the limit, so it stops there.
UpdateBank(b, type, row) ==
    CASE b.state = "OPEN" /\ type \in {"READ", "WRITE"} ->
            [b EXCEPT !.hits = IF @ < HitLimit THEN @ + 1 ELSE @]
      [] b.state = "OPEN"
            /\ type \in {"READ_PRECHARGE", "WRITE_PRECHARGE", "PRECHARGE"} ->
            [b EXCEPT !.state = "CLOSED", !.row = -1, !.hits = 0]
      [] b.state = "CLOSED" /\ type \in {"REFRESH", "REFRESH_BANK"} -> b
      [] b.state = "CLOSED" /\ type = "ACTIVATE" ->
            [b EXCEPT !.state = "OPEN", !.row = row]
      [] b.state = "CLOSED" /\ type = "SREF_ENTER" -> [b EXCEPT !.state = "SREF"]
      [] b.state = "SREF" /\ type = "SREF_EXIT" -> [b EXCEPT !.state = "CLOSED"]
      [] OTHER -> [b EXCEPT !.state = "abort"]

----------------------------------------------------------------------------
(* Timing lists: the cycles a command keeps others waiting *)

SameBank(t) ==
    CASE t = "READ" -> [RD |-> Delay.rd_rd, WR |-> Delay.rd_wr, PRE |-> Delay.rd_pre]
      [] t = "WRITE" -> [RD |-> Delay.wr_rd, WR |-> Delay.wr_wr, PRE |-> Delay.wr_pre]
      [] t = "READ_PRECHARGE" -> [ACT |-> Delay.rdp_act, REF |-> Delay.rd_act, REFB |-> Delay.rd_act]
      [] t = "WRITE_PRECHARGE" -> [ACT |-> Delay.wr_act, REF |-> Delay.wr_act, REFB |-> Delay.wr_act]
      [] t = "ACTIVATE" -> [ACT |-> Delay.act_act, RD |-> Delay.act_rd, WR |-> Delay.act_wr,
                            PRE |-> Delay.act_pre]
      [] t = "PRECHARGE" -> [ACT |-> Delay.pre_act, REF |-> Delay.pre_act, REFB |-> Delay.pre_act]
      [] OTHER -> << >>
OtherBanks(t) ==
    CASE t \in Reads -> [RD |-> Delay.rd_rd, WR |-> Delay.rd_wr]
      [] t \in Writes -> [RD |-> Delay.wr_rd, WR |-> Delay.wr_wr]
      [] t = "ACTIVATE" -> [ACT |-> Delay.act_act_o, REFB |-> Delay.act_act]
      [] t = "REFRESH_BANK" -> [ACT |-> Delay.ref_act, REFB |-> Interval]
      [] OTHER -> << >>
OtherRanks(t) ==
    CASE t \in Reads -> [RD |-> Delay.rd_rd_o, WR |-> Delay.rd_wr_o]
      [] t \in Writes -> [RD |-> Delay.wr_rd_o, WR |-> Delay.wr_wr_o]
      [] OTHER -> << >>
SameRank(t) ==
    CASE t = "REFRESH" -> [ACT |-> Delay.ref_act, REF |-> Delay.ref_act]
      [] t = "SREF_ENTER" -> [SREX |-> Delay.sref_min]
      [] t = "SREF_EXIT" -> [ACT |-> Delay.sref_exit, REF |-> Delay.sref_exit,
                             REFB |-> Delay.sref_exit]

UpdateTiming(w, list) ==
    [s \in Slots |-> IF s \in DOMAIN list THEN MaxOf(w[s], list[s]) ELSE w[s]]

----------------------------------------------------------------------------
(* Channel state *)

IsAllBankIdleInRank(x, r) == \A b \in Banks : b.rank = r => x.banks[b].state # "OPEN"

ActivationWindowOk(x, r) ==
    ~(Len(x.faw[r]) >= 4 /\ x.faw[r][1] > 0)

UpdateActivationTimes(x, r) ==
    LET old == x.faw[r]
        kept == IF old # << >> /\ old[1] = 0 THEN Tail(old) ELSE old
    IN  [x EXCEPT !.faw[r] = Append(kept, Delay.faw)]

RankReady(x, cmd) ==
    LET r == cmd.addr.rank
        ready == {[at |-> k, type |-> BankReady(x.banks[[rank |-> r, bank |-> k]], cmd.type, -1)]
                     : k \in 0 .. NumBanks - 1}
        For(f) == [type |-> f.type, addr |-> BankOnly([rank |-> r, bank |-> f.at])]
        Found(all) ==
            LET others == {f \in all : f.type \notin {"none", cmd.type}}
            IN  IF others # {} THEN For(First(others))
                ELSE IF \A f \in all : f.type = cmd.type THEN cmd
                ELSE NoCommand
    IN  With(ready, Found)

GetReadyCommand(x, cmd) ==
    IF IsRankCMD(cmd) THEN RankReady(x, cmd)
    ELSE LET t == BankReady(x.banks[BankOf(cmd.addr)], cmd.type, cmd.addr.row)
         IN  IF t = "none" \/ (t = "ACTIVATE" /\ ~ActivationWindowOk(x, cmd.addr.rank))
             THEN NoCommand
             ELSE [type |-> t, addr |-> cmd.addr]

UpdateState(x, cmd) ==
    LET r == cmd.addr.rank
        t == cmd.type
        hit(b) == IF IsRankCMD(cmd) THEN b.rank = r ELSE b = BankOf(cmd.addr)
        served(ref) == /\ ref.addr.rank = r
                       /\ IsRankCMD(cmd) \/ ref.addr.bank = cmd.addr.bank
    IN  [x EXCEPT
           !.banks = [b \in Banks |->
                        IF hit(b) THEN UpdateBank(@[b], t, cmd.addr.row) ELSE @[b]],
           !.refresh_q = IF IsRefresh(cmd) THEN DropFirst(@, served) ELSE @,
           !.age = IF IsRefresh(cmd)
                   THEN [b \in Banks |-> IF hit(b) THEN 0 ELSE @[b]] ELSE @,
           !.is_sref[r] = IF t = "SREF_ENTER" THEN TRUE
                          ELSE IF t = "SREF_EXIT" THEN FALSE ELSE @]

UpdateTimings(x, cmd) ==
    LET r == cmd.addr.rank
        t == cmd.type
        list(b) == IF IsRankCMD(cmd)
                   THEN IF b.rank = r THEN SameRank(t) ELSE << >>
                   ELSE IF b.rank # r THEN OtherRanks(t)
                   ELSE IF b.bank = cmd.addr.bank THEN SameBank(t) ELSE OtherBanks(t)
        timed == [x EXCEPT !.banks =
                    [b \in Banks |-> [@[b] EXCEPT !.wait = UpdateTiming(@, list(b))]]]
    IN  IF t = "ACTIVATE" THEN UpdateActivationTimes(timed, r) ELSE timed

UpdateTimingAndStates(x, cmd) ==
    With(UpdateState(x, cmd), LAMBDA y : UpdateTimings(y, cmd))

----------------------------------------------------------------------------
(* Refresh *)

RankNeedRefresh(q, r) == Append(q, [type |-> "REFRESH", addr |-> RankOnly(r)])
BankNeedRefresh(q, b) == Append(q, [type |-> "REFRESH_BANK", addr |-> BankOnly(b)])

\* Mutant: the rank goes on only when its last bank has been refreshed.
IterateNext_ByBank(next) ==
    [bank |-> (next.bank + 1) % (NumBanks + 1),
     rank |-> IF (next.bank + 1) % (NumBanks + 1) = 0
              THEN (next.rank + 1) % NumRanks ELSE next.rank]

IterateNext(next) ==
    IF cfg.refresh = "RANK_LEVEL_STAGGERED"
    THEN [next EXCEPT !.rank = (@ + 1) % NumRanks]
    ELSE [bank |-> (next.bank + 1) % NumBanks,
          rank |-> IF (next.bank + 1) % NumBanks = 0
                   THEN (next.rank + 1) % NumRanks ELSE next.rank]

InsertRefresh(x) ==
    LET awake == {r \in Ranks : ~x.is_sref[r]}
        r == x.next.rank
    IN  IF cfg.refresh = "RANK_LEVEL_SIMULTANEOUS"
        THEN [x EXCEPT !.refresh_q =
                 IF awake = {} THEN @ ELSE RankNeedRefresh(@, Least(awake))]
        ELSE [x EXCEPT
                !.refresh_q =
                   IF x.is_sref[r] THEN @
                   ELSE IF cfg.refresh = "RANK_LEVEL_STAGGERED" THEN RankNeedRefresh(@, r)
                   ELSE BankNeedRefresh(@, x.next),
                !.next = IterateNext(@)]

RefreshInterval ==
    IF cfg.refresh = "RANK_LEVEL_SIMULTANEOUS" THEN Interval
    ELSE IF cfg.refresh = "RANK_LEVEL_STAGGERED" THEN Interval \div NumRanks
    ELSE Delay.refi_bank

RefreshTick(x) ==
    IF x.to_refresh = 0
    THEN [InsertRefresh(x) EXCEPT !.to_refresh = RefreshInterval - 1]
    ELSE [x EXCEPT !.to_refresh = @ - 1]

----------------------------------------------------------------------------
(* Command queues *)

NumQueues == IF cfg.structure = "PER_RANK" THEN NumRanks ELSE NumRanks * NumBanks
GetQueueIndex(a) ==
    IF cfg.structure = "PER_RANK" THEN a.rank ELSE a.rank * NumBanks + a.bank

GetRefQIndices(ref) ==
    IF ref.type = "REFRESH"
    THEN {GetQueueIndex(BankOnly(b)) : b \in {b \in Banks : b.rank = ref.addr.rank}}
    ELSE {GetQueueIndex(ref.addr)}

\* The result of a step that both changes the controller and picks a command.
Picked(x, cmd) == [x |-> x, cmd |-> cmd]

\* Mutant: the queues stay blocked after the refresh.
FinishRefresh_StaysIn(x) ==
    LET ref == Head(x.refresh_q)
        blocked == IF x.is_in_ref THEN x.ref_q ELSE GetRefQIndices(ref)
    IN  Picked([x EXCEPT !.is_in_ref = TRUE, !.ref_q = blocked], GetReadyCommand(x, ref))

FinishRefresh(x) ==
    LET ref == Head(x.refresh_q)
        cmd == GetReadyCommand(x, ref)
        blocked == IF x.is_in_ref THEN x.ref_q ELSE GetRefQIndices(ref)
    IN  IF IsRefresh(cmd)
        THEN Picked([x EXCEPT !.is_in_ref = FALSE, !.ref_q = {}], cmd)
        ELSE Picked([x EXCEPT !.is_in_ref = TRUE, !.ref_q = blocked], cmd)

ArbitratePrecharge(x, q, i) ==
    LET b == BankOf(q[i].addr)
    IN  /\ \A k \in 1 .. i - 1 : BankOf(q[k].addr) # b
        /\ \/ \A k \in i .. Len(q) :
                 ~(BankOf(q[k].addr) = b /\ q[k].addr.row = x.banks[b].row)
           \/ x.banks[b].hits >= HitLimit

\* Mutant: a write waits only for the write before it.
HasRWDependency_Writes(q, i) ==
    \E k \in 1 .. i - 1 :
        /\ q[k].type \in Writes
        /\ [q[k].addr EXCEPT !.rank = 0] = [q[i].addr EXCEPT !.rank = 0]

\* The rank is not compared; every queue holds commands of one rank.
HasRWDependency(q, i) ==
    \E k \in 1 .. i - 1 :
        /\ q[k].type \in Reads
        /\ [q[k].addr EXCEPT !.rank = 0] = [q[i].addr EXCEPT !.rank = 0]

GetFirstReadyInQueue(x, q) ==
    LET ready == {[at |-> i, cmd |-> GetReadyCommand(x, q[i])] : i \in DOMAIN q}
        may(i, cmd) == /\ cmd.type = "PRECHARGE" => ArbitratePrecharge(x, q, i)
                       /\ cmd.type \in Writes => ~HasRWDependency(q, i)
    IN  FirstValid({f \in ready : may(f.at, f.cmd)}).cmd

EraseRWCommand(x, cmd) ==
    [x EXCEPT !.queues[GetQueueIndex(cmd.addr)] = DropFirst(@, LAMBDA e : e = cmd)]

GetCommandToIssue(x) ==
    LET n == NumQueues
        at(i) == (x.queue_idx + i) % n
        cmd(i) == IF x.is_in_ref /\ at(i) \in x.ref_q THEN NoCommand
                  ELSE GetFirstReadyInQueue(x, x.queues[at(i)])
        Found(f) ==
            IF ~IsValid(f.cmd) THEN Picked(x, NoCommand)
            ELSE LET y == [x EXCEPT !.queue_idx = at(f.at)]
                 IN  Picked(IF IsReadWrite(f.cmd) THEN EraseRWCommand(y, f.cmd) ELSE y, f.cmd)
    IN  With(FirstValid({[at |-> i, cmd |-> cmd(i)] : i \in 1 .. n}), Found)

WillAcceptCommand(x, a) == Len(x.queues[GetQueueIndex(a)]) < CmdQueueSize
QueueEmpty(x) == \A i \in DOMAIN x.queues : x.queues[i] = << >>

AddCommand(x, cmd) ==
    [x EXCEPT !.queues[GetQueueIndex(cmd.addr)] = Append(@, cmd),
              !.rank_q_empty[cmd.addr.rank] = FALSE]

----------------------------------------------------------------------------
(* Controller *)

\* Answers are kept as a set: two of one address at the same time do the same.
Return(x, a, left) == [x EXCEPT !.return_q = @ \union {[addr |-> a, left |-> left]}]

TransQueue(trans) ==
    IF cfg.unified THEN "unified_q" ELSE IF trans.write THEN "write_buffer" ELSE "read_q"

WillAcceptTransaction(x, trans) == Len(x[TransQueue(trans)]) < TransQueueSize

\* Mutant: a read is queued though one of its address already waits.
AddTransaction_NotMerged(x, trans) ==
    LET a == trans.addr
        queued == [x EXCEPT ![TransQueue(trans)] = Append(@, trans)]
    IN  IF trans.write
        THEN Return(IF a \in x.pending_wr THEN x
                    ELSE [queued EXCEPT !.pending_wr = @ \union {a}], a, 1)
        ELSE IF a \in x.pending_wr THEN Return(x, a, 1)
        ELSE [queued EXCEPT !.pending_rd[a] = @ + 1]

AddTransaction(x, trans) ==
    LET a == trans.addr
        queued == [x EXCEPT ![TransQueue(trans)] = Append(@, trans)]
    IN  IF trans.write
        THEN Return(IF a \in x.pending_wr THEN x
                    ELSE [queued EXCEPT !.pending_wr = @ \union {a}], a, 1)
        ELSE IF a \in x.pending_wr THEN Return(x, a, 1)
        ELSE [IF x.pending_rd[a] = 0 THEN queued ELSE x EXCEPT !.pending_rd[a] = @ + 1]

TransToCommand(trans) ==
    [type |-> IF cfg.page = "OPEN_PAGE" THEN IF trans.write THEN "WRITE" ELSE "READ"
              ELSE IF trans.write THEN "WRITE_PRECHARGE" ELSE "READ_PRECHARGE",
     addr |-> trans.addr]

ScheduleTransaction(x) ==
    LET size == Len(x.write_buffer)
        drain == IF /\ x.draining = 0 /\ ~cfg.unified
                    /\ \/ size >= TransQueueSize
                       \/ size > LowWater /\ QueueEmpty(x)
                 THEN size ELSE x.draining
        name == IF cfg.unified THEN "unified_q"
                ELSE IF drain > 0 THEN "write_buffer" ELSE "read_q"
        ok == {i \in DOMAIN x[name] : WillAcceptCommand(x, x[name][i].addr)}
        trans == x[name][Least(ok)]
        drained == ~cfg.unified /\ trans.write
        moved == AddCommand([x EXCEPT ![name] = Without(@, Least(ok))],
                            TransToCommand(trans))
    IN  IF ok = {} THEN [x EXCEPT !.draining = drain]
        ELSE IF drained /\ x.pending_rd[trans.addr] > 0 THEN [x EXCEPT !.draining = 0]
        ELSE [moved EXCEPT !.draining = IF drained THEN drain - 1 ELSE drain]

\* exit(1) and AbruptExit: the program ends with the state as it is.
Aborted(x) == [x EXCEPT !.aborted = TRUE]

IssueCommand(x, cmd) ==
    LET a == cmd.addr
    IN  IF \/ cmd.type = "abort"
           \/ cmd.type \in Reads /\ x.pending_rd[a] = 0
           \/ cmd.type \in Writes /\ a \notin x.pending_wr
        THEN Aborted(x)
        ELSE With(UpdateTimingAndStates(
                    IF cmd.type \in Reads
                    THEN Return([x EXCEPT !.pending_rd[a] = 0], a, ReadDelay)
                    ELSE IF cmd.type \in Writes
                    THEN [x EXCEPT !.pending_wr = @ \ {a}]
                    ELSE x, cmd),
                  LAMBDA y : IF \E b \in Banks : y.banks[b].state = "abort"
                             THEN Aborted(x) ELSE y)

SecondCommand(x, first) ==
    With(GetCommandToIssue(x),
         LAMBDA p : IF IsValid(p.cmd) /\ IsReadWrite(p.cmd) # IsReadWrite(first)
                    THEN IssueCommand(p.x, p.cmd) ELSE p.x)

IdleCycles(x) ==
    [x EXCEPT !.idle = [r \in Ranks |->
        IF x.is_sref[r] THEN @[r]
        ELSE IF ~IsAllBankIdleInRank(x, r) THEN 0
        ELSE IF @[r] < SrefThreshold THEN @[r] + 1 ELSE @[r]]]

SelfRefresh(x) ==
    LET cmd(r) ==
            IF x.is_sref[r]
            THEN IF x.rank_q_empty[r] THEN NoCommand
                 ELSE GetReadyCommand(x, [type |-> "SREF_EXIT", addr |-> RankOnly(r)])
            ELSE IF x.rank_q_empty[r] /\ x.idle[r] >= SrefThreshold
                 THEN GetReadyCommand(x, [type |-> "SREF_ENTER", addr |-> RankOnly(r)])
                 ELSE NoCommand
    IN  With(FirstValid({[at |-> r, cmd |-> cmd(r)] : r \in Ranks}),
             LAMBDA f : IF IsValid(f.cmd) THEN IssueCommand(x, f.cmd) ELSE x)

\* clk_++: everything that waits for a cycle is one cycle nearer to it.
Elapse(x) ==
    LET less(n) == IF n > 0 THEN n - 1 ELSE 0
    IN  [x EXCEPT
           !.banks = [b \in Banks |->
                        [@[b] EXCEPT !.wait = [s \in Slots |-> less(@[s])]]],
           !.faw = [r \in Ranks |-> [i \in DOMAIN @[r] |-> less(@[r][i])]],
           !.return_q = {[e EXCEPT !.left = less(@)] : e \in @},
           !.age = [b \in Banks |-> IF x.is_sref[b.rank] THEN 0 ELSE @[b] + 1]]

PickCommand(x) ==
    LET q == IF x.refresh_q # << >> THEN FinishRefresh(x) ELSE Picked(x, NoCommand)
    IN  With(q, LAMBDA p : IF IsValid(p.cmd) THEN p ELSE GetCommandToIssue(p.x))

ClockTick(x) ==
    LET Dual(p, y) == IF cfg.dual /\ ~y.aborted THEN SecondCommand(y, p.cmd) ELSE y
        Issued(p) == IF ~IsValid(p.cmd) THEN p.x
                     ELSE With(IssueCommand(p.x, p.cmd), LAMBDA y : Dual(p, y))
        Rest(p, y) ==
            IF y.aborted THEN y
            ELSE With(IF cfg.sref /\ ~IsValid(p.cmd) THEN SelfRefresh(IdleCycles(y))
                      ELSE IdleCycles(y),
                      LAMBDA z : IF z.aborted THEN z ELSE Elapse(ScheduleTransaction(z)))
    IN  With(PickCommand(RefreshTick(x)),
             LAMBDA p : With(Issued(p), LAMBDA y : Rest(p, y)))

----------------------------------------------------------------------------
(* The memory system and its hosts *)

Init ==
    /\ cfg \in Configs
    /\ host \in [kind : Hosts, status : {<< >>}, calling : {FALSE},
                 refused : {FALSE}, offered : {FALSE}, offers : {0}, elapsed : {0}]
    /\ c = [banks |-> [b \in Banks |-> BankState],
            faw |-> [r \in Ranks |-> << >>],
            is_sref |-> [r \in Ranks |-> FALSE],
            idle |-> [r \in Ranks |-> 0],
            rank_q_empty |-> [r \in Ranks |-> TRUE],
            refresh_q |-> << >>, to_refresh |-> RefreshInterval,
            next |-> [rank |-> 0, bank |-> 0],
            is_in_ref |-> FALSE, ref_q |-> {},
            queues |-> [i \in 0 .. NumQueues - 1 |-> << >>], queue_idx |-> 0,
            unified_q |-> << >>, read_q |-> << >>, write_buffer |-> << >>,
            draining |-> 0, pending_rd |-> [a \in Addrs |-> 0], pending_wr |-> {},
            return_q |-> {}, aborted |-> FALSE, age |-> [b \in Banks |-> 0]]

\* assert(ok), exit(1) and AbruptExit end the program.
Running == ~c.aborted /\ ~host.refused

\* get_max_clock_cycles up to its loop: every part of the access is added,
\* and a part that is not accepted fails assert(ok).
\*
RECURSIVE AddParts(_, _, _)
AddParts(x, addrs, write) ==
    IF addrs = << >> THEN Picked(x, NoCommand)
    ELSE LET trans == [addr |-> Head(addrs), write |-> write]
         IN  IF ~WillAcceptTransaction(x, trans) THEN Picked(x, Abort)
             ELSE With(AddTransaction(x, trans),
                       LAMBDA y : AddParts(y, Tail(addrs), write))

Call ==
    /\ Running
    /\ host.kind = "wrapper" /\ ~host.calling
    /\ \E acc \in Accesses :
        LET p == AddParts(c, acc.addrs, acc.write)
        IN  /\ c' = p.x
            /\ host' = IF p.cmd = Abort THEN [host EXCEPT !.refused = TRUE]
                       ELSE [host EXCEPT !.calling = TRUE,
                               !.status = [a \in {acc.addrs[i] : i \in DOMAIN acc.addrs}
                                            |-> FALSE]]
    /\ UNCHANGED cfg

\* The processors of cpu.cc: one transaction after a tick, if it is accepted.
Offer ==
    /\ Running
    /\ host.kind = "cpu" /\ ~host.offered /\ host.offers < MaxOffers
    /\ \E trans \in Offers :
        /\ WillAcceptTransaction(c, trans)
        /\ c' = AddTransaction(c, trans)
    /\ host' = [host EXCEPT !.offered = TRUE, !.offers = @ + 1]
    /\ UNCHANGED cfg

\* JedecDRAMSystem::ClockTick: the answers first, then the controller.  The
\* wrapper's callbacks assert that they know the address, and its loop ends
\* when every part is answered.
Tick ==
    LET done == {e.addr : e \in {e \in c.return_q : e.left = 0}}
        left == {e \in c.return_q : e.left > 0}
        status == [a \in DOMAIN host.status |-> host.status[a] \/ a \in done]
        complete == \A a \in DOMAIN status : status[a]
    IN  /\ Running
        /\ host.kind = "cpu" \/ host.calling
        /\ host' = IF host.kind = "cpu" THEN [host EXCEPT !.offered = FALSE]
                   ELSE [host EXCEPT !.calling = ~complete,
                                     !.elapsed = IF complete THEN 0 ELSE @ + 1,
                                     !.status = IF complete THEN << >> ELSE status]
        /\ c' = IF host.kind = "cpu" \/ done \subseteq DOMAIN status
                THEN ClockTick([c EXCEPT !.return_q = left]) ELSE Aborted(c)
        /\ UNCHANGED cfg

\* The program has ended.
Ended == ~Running /\ UNCHANGED vars

Next == Call \/ Offer \/ Tick \/ Ended

Spec == Init /\ [][Next]_vars

----------------------------------------------------------------------------
(* Properties *)

\* The controller never meets one of the states in which it ends the program:
\* a command for a transaction that is not pending ("not in read queue!",
\* "not in write queue!"), a command a bank cannot take in its state
\* (bankstate.cc AbruptExit), an answer the wrapper did not ask for.
NeverAborts == ~c.aborted

\* No part of an access is refused: JedecDRAMSystem::AddTransaction asserts it,
\* and get_max_clock_cycles adds every part without asking first.
AlwaysAccepted == ~host.refused

\* A write leaves the queue when no read of its address is pending.
NoOvertaking == \A a \in c.pending_wr \ c'.pending_wr : c.pending_rd[a] = 0

\* A write reaches the DRAM only after the reads of its address that came
\* before it: neither the write buffer nor the reordering of the command
\* queues lets it overtake them.
ReadsBeforeWrite == [][NoOvertaking]_vars

\* Every bank is refreshed, or refreshes itself, once in an interval, late by
\* no more than the commands under way may take (refresh.cc, FinishRefresh).
RefreshedInTime == \A b \in Banks : c.age[b] <= Interval + MaxLate

\* Every access the simulator asks the wrapper for is answered, within a
\* bounded number of cycles: the loop of get_max_clock_cycles ends whatever
\* refreshes, drained writes and row conflicts come first.
AccessReturns == host.elapsed <= MaxAccess
============================================================================
