------------------------------- MODULE Cache --------------------------------
(***************************************************************************)
(* The cache hierarchy of src/riscvsim/memory_hierarchy/cache.c: split     *)
(* first-level caches "i" and "d" and an optional shared second level      *)
(* "l2", blocking, non-inclusive and non-exclusive.  The code keeps tags   *)
(* and status bits, no data; the data a real cache of this design would    *)
(* hold is modelled by which copies of a line have its last store.         *)
(*                                                                         *)
(* An address is a line number and a byte offset in the line; a tag is the *)
(* line number, as "set bits are included again in the tag bits".  An      *)
(* operation maps a state of the hierarchy to the set of states it can     *)
(* return in: more than one where a victim is chosen at random.            *)
(***************************************************************************)
EXTENDS EvictPolicy, FiniteSets

CONSTANTS
  NumLines,      \* lines of memory; also max_tag_val
  LineBytes,     \* bytes of a line, max_words_per_blk * WORD_SIZE
  NumSets,       \* sets of each cache, a power of two
  NumWays,       \* ways of each cache
  DataSizes,     \* bytes a load or a store may access
  DataOffsets,   \* offsets at which it may start: any, aligned or not
  FetchOffsets,  \* offsets at which an instruction may start: even ones
  StartLines     \* lines in which an access may start

Caches == {"i", "d", "l2"}
Places == Caches \cup {"mem"}
Lines == 0 .. NumLines - 1

CacheAssumption ==
  /\ NumLines \in Nat \ {0} /\ LineBytes \in Nat \ {0}
  /\ DataOffsets \cup FetchOffsets \subseteq 0 .. LineBytes - 1
  /\ StartLines \subseteq Lines
  /\ \A c \in Caches : /\ NumSets[c] \in Nat \ {0} /\ NumWays[c] \in Nat \ {0}
                       /\ NumLines % NumSets[c] = 0

VARIABLES
  config,  \* the configuration, read when the program starts
  blk,     \* blk[c][set][way]: the blocks
  mru,     \* mru[c][set]: the ways whose bit is set in the evict policy
  fresh,   \* the <<place, line>> whose copy has the last store to the line
  exact    \* the last access looked up what it should

vars == <<config, blk, mru, fresh, exact>>

RECURSIVE cache_read(_, _, _, _, _), cache_write(_, _, _, _, _, _),
          WriteLines(_, _, _, _, _, _, _)

HasL2 == config.enable_l2_cache
WriteBack == config.writeback          \* not writethrough
WriteAllocate == config.write_allocate

Unused == [valid |-> FALSE, dirty |-> FALSE, tag |-> 0]

Set(c, line) == line % NumSets[c]

\* was: the copies that had the last store when the access began.
Now == [blk |-> blk, mru |-> mru, fresh |-> fresh, was |-> fresh, seen |-> {}]

HitWays(st, c, line) ==
  {w \in Ways(NumWays[c]) : LET b == st.blk[c][Set(c, line)][w]
                            IN  b.valid /\ b.tag = line}

Use(st, c, line, way) ==
  [st EXCEPT !.mru[c][Set(c, line)] = EvictUse(@, way, NumWays[c])]

HasNext(c) == c # "l2" /\ HasL2

\* The copy of line at one place becomes that of another.
Copied(st, from, to, line) ==
  LET Move(S) == IF <<from, line>> \in S THEN S \cup {<<to, line>>}
                                         ELSE S \ {<<to, line>>}
  IN  [st EXCEPT !.fresh = Move(@), !.was = Move(@)]

(***************************************************************************)
(* A write of data into the copy at a place.  A store of the processor     *)
(* brings a copy up to date that had every store before it; a line written *)
(* back by a cache replaces the copy by the cache's own.                   *)
(***************************************************************************)
Written(st, data, to, line) ==
  IF data # "cpu" THEN Copied(st, data, to, line)
  ELSE IF <<to, line>> \in st.was
  THEN [st EXCEPT !.fresh = @ \cup {<<to, line>>}]
  ELSE st

\* Mutant: a line is filled from memory although the second level has it.
Fill_FromMemory(st, c, line, way) ==
  Copied([st EXCEPT !.blk[c][Set(c, line)][way] =
            [valid |-> TRUE, dirty |-> FALSE, tag |-> line]], "mem", c, line)

\* A block becomes valid with what the next level has, and is not dirty.
Fill(st, c, line, way) ==
  LET from == IF HasNext(c) /\ HitWays(st, "l2", line) # {} THEN "l2" ELSE "mem"
  IN  Copied([st EXCEPT !.blk[c][Set(c, line)][way] =
                [valid |-> TRUE, dirty |-> FALSE, tag |-> line]], from, c, line)

read_data_internal(st, c, line) ==
  IF HasNext(c) THEN cache_read(st, "l2", line, 0, LineBytes) ELSE {st}

NextWrite(st, c, line, start, bytes, data) ==
  IF HasNext(c) THEN cache_write(st, "l2", line, start, bytes, data)
                ELSE {Written(st, data, "mem", line)}

\* memset of a block; its copy is gone.
Cleared(st, c, set, way) ==
  LET b == st.blk[c][set][way]
      gone == IF b.valid THEN {<<c, b.tag>>} ELSE {}
  IN  [st EXCEPT !.blk[c][set][way] = Unused,
                 !.fresh = @ \ gone, !.was = @ \ gone]

(***************************************************************************)
(* writeback_victim_evict_handler and writethrough_victim_evict_handler.   *)
(***************************************************************************)
victim_evict(st, c, set, way) ==
  LET b == st.blk[c][set][way]
  IN  {Cleared(s, c, set, way) :
         s \in IF WriteBack /\ b.valid /\ b.dirty
               THEN NextWrite(st, c, b.tag, 0, LineBytes, c) ELSE {st}}

(***************************************************************************)
(* The victim is evicted and the line read into its way.                   *)
(***************************************************************************)
Allocated(st, c, line, way) ==
  UNION {{Fill(t, c, line, way) : t \in read_data_internal(s, c, line)} :
           s \in victim_evict(st, c, Set(c, line), way)}

Victims(st, c, line) == Evict(st.mru[c][Set(c, line)], NumWays[c])

read_allocate_handler(st, c, line) ==
  UNION {{Use(s, c, line, w) : s \in Allocated(st, c, line, w)} :
           w \in Victims(st, c, line)}

(***************************************************************************)
(* writeback_handler and writethrough_handler.                             *)
(***************************************************************************)
write_handler(st, c, line, way, start, bytes, data) ==
  LET s == Use(Written([st EXCEPT !.blk[c][Set(c, line)][way].dirty = TRUE],
                       data, c, line), c, line, way)
  IN  IF WriteBack THEN {s} ELSE NextWrite(s, c, line, start, bytes, data)

(***************************************************************************)
(* write_allocate_handler and write_no_allocate_handler.                   *)
(***************************************************************************)
write_alloc_handler(st, c, line, start, bytes, data) ==
  IF WriteAllocate
  THEN UNION {UNION {write_handler(s, c, line, w, start, bytes, data) :
                       s \in Allocated(st, c, line, w)} :
                w \in Victims(st, c, line)}
  ELSE NextWrite(st, c, line, start, bytes, data)

LookedUp(st, c, line) ==
  IF c = "l2" THEN st ELSE [st EXCEPT !.seen = @ \cup {line}]

ReadLine(st, c, line) ==
  LET s0 == LookedUp(st, c, line)
      hits == HitWays(s0, c, line)
  IN  IF hits # {}
      THEN {Use(s0, c, line, CHOOSE w \in hits : \A v \in hits : w <= v)}
      ELSE read_allocate_handler(s0, c, line)

\* update_tag_address: the line after this one.
NextLine(line) == (line + 1) % NumLines

\* Mutant: the bytes before start are counted as available in the line.
cache_read_WholeLine(st, c, line, start, bytes) ==
  IF bytes <= 0 THEN {st}
  ELSE IF start + bytes <= LineBytes THEN ReadLine(st, c, line)
  ELSE UNION {cache_read(s, c, NextLine(line), start, bytes - LineBytes) :
                s \in ReadLine(st, c, line)}

(***************************************************************************)
(* The loop of cache_read.  On the next line start keeps its value, so the *)
(* rest is taken to begin there and not at byte 0.                         *)
(***************************************************************************)
cache_read(st, c, line, start, bytes) ==
  IF bytes <= 0 THEN {st}
  ELSE IF start + bytes <= LineBytes THEN ReadLine(st, c, line)
  ELSE UNION {cache_read(s, c, NextLine(line), start, bytes - (LineBytes - start)) :
                s \in ReadLine(st, c, line)}

WriteLine(st, c, line, offset, bytes, data) ==
  LET s0 == LookedUp(st, c, line)
      hits == HitWays(s0, c, line)
  IN  IF hits # {}
      THEN write_handler(s0, c, line, CHOOSE w \in hits : \A v \in hits : w <= v,
                         offset, bytes, data)
      ELSE write_alloc_handler(s0, c, line, offset, bytes, data)

(***************************************************************************)
(* The loop of cache_write.  offset is that of paddr, which goes to the    *)
(* next level: update_tag_address sets it to the first byte of the line.   *)
(***************************************************************************)
WriteLines(st, c, line, start, offset, bytes, data) ==
  IF bytes <= 0 THEN {st}
  ELSE IF start + bytes <= LineBytes
  THEN WriteLine(st, c, line, offset, bytes, data)
  ELSE UNION {WriteLines(s, c, NextLine(line), start, 0,
                         bytes - (LineBytes - start), data) :
                s \in WriteLine(st, c, line, offset, LineBytes - start, data)}

cache_write(st, c, line, start, bytes, data) ==
  WriteLines(st, c, line, start, start, bytes, data)

-----------------------------------------------------------------------------

Init ==
  /\ config \in [enable_l2_cache : BOOLEAN, writeback : BOOLEAN,
                 write_allocate : BOOLEAN]
  /\ blk = [c \in Caches |->
              [s \in 0 .. NumSets[c] - 1 |-> [w \in Ways(NumWays[c]) |-> Unused]]]
  /\ mru = [c \in Caches |-> [s \in 0 .. NumSets[c] - 1 |-> {}]]
  /\ fresh = {<<"mem", l>> : l \in Lines}
  /\ exact = TRUE

\* The lines the bytes of an access lie in.
Span(line, start, bytes) ==
  {(line + ((start + k) \div LineBytes)) % NumLines : k \in 0 .. bytes - 1}

(***************************************************************************)
(* data_write_delay.  No copy of the lines of a store has the last store   *)
(* until the write reaches it.                                             *)
(***************************************************************************)
StoreStates(st, line, start, bytes) ==
  cache_write([st EXCEPT !.was = st.fresh,
                         !.fresh = @ \ (Places \X Span(line, start, bytes))],
              "d", line, start, bytes, "cpu")

(***************************************************************************)
(* An access looks up every line its bytes lie in and, if half of them or  *)
(* more are in the first line, no other.                                   *)
(***************************************************************************)
Exact(seen, line, start, bytes) ==
  /\ Span(line, start, bytes) \subseteq seen
  /\ bytes <= 2 * (LineBytes - start) => seen = Span(line, start, bytes)

Returns(states, line, start, bytes) ==
  \E st \in states : /\ blk' = st.blk
                     /\ mru' = st.mru
                     /\ fresh' = st.fresh
                     /\ exact' = Exact(st.seen, line, start, bytes)
                     /\ UNCHANGED config

\* insn_read_delay, of four bytes.
Fetch(line, start) == Returns(cache_read(Now, "i", line, start, 4), line, start, 4)

\* data_read_delay.
Load(line, start, bytes) ==
  Returns(cache_read(Now, "d", line, start, bytes), line, start, bytes)

Store(line, start, bytes) ==
  Returns(StoreStates(Now, line, start, bytes), line, start, bytes)

\* An atomic instruction that loads and stores: both delays, one after the other.
Atomic(line, start, bytes) ==
  Returns(UNION {StoreStates(s, line, start, bytes) :
                   s \in cache_read(Now, "d", line, start, bytes)},
          line, start, bytes)

(***************************************************************************)
(* cache_flush of every cache when a simulation starts.  The blocks hold   *)
(* no data and TinyEMU's memory always has the last store, so memory is up *)
(* to date from here on.                                                   *)
(***************************************************************************)
Flush ==
  /\ blk' = [c \in Caches |-> [s \in DOMAIN blk[c] |->
               [w \in DOMAIN blk[c][s] |-> Unused]]]
  /\ mru' = [c \in Caches |-> [s \in DOMAIN mru[c] |-> {}]]
  /\ fresh' = {<<"mem", l>> : l \in Lines}
  /\ UNCHANGED <<config, exact>>

Next ==
  \/ \E line \in StartLines, start \in FetchOffsets : Fetch(line, start)
  \/ \E line \in StartLines, bytes \in DataSizes, start \in DataOffsets :
       Load(line, start, bytes) \/ Store(line, start, bytes)
         \/ Atomic(line, start, bytes)
  \/ Flush

Spec == Init /\ [][Next]_vars

-----------------------------------------------------------------------------

(***************************************************************************)
(* Type correctness of the blocks, policy bits and copies.                 *)
(***************************************************************************)
TypeOK ==
  /\ \A c \in Caches :
       /\ blk[c] \in [0 .. NumSets[c] - 1 -> [Ways(NumWays[c]) ->
            [valid : BOOLEAN, dirty : BOOLEAN, tag : Lines]]]
       /\ mru[c] \in [0 .. NumSets[c] - 1 -> SUBSET Ways(NumWays[c])]
  /\ fresh \subseteq Places \X Lines
  /\ exact \in BOOLEAN

Copies(c, line) ==
  {b \in {blk[c][s][w] : s \in 0 .. NumSets[c] - 1, w \in Ways(NumWays[c])} :
     b.valid /\ b.tag = line}

\* The copy in the data cache is up to date, without one the copy in the second
\* level is, and without either memory.
LoadsFindLastStore ==
  \A line \in Lines :
    IF Copies("d", line) # {} THEN <<"d", line>> \in fresh
    ELSE IF Copies("l2", line) # {} THEN <<"l2", line>> \in fresh
    ELSE <<"mem", line>> \in fresh

\* bit_plru_evict does not meet a set whose bits are all one.
VictimExists ==
  \A c \in Caches : \A s \in 0 .. NumSets[c] - 1 : Evict(mru[c][s], NumWays[c]) # {}

(***************************************************************************)
(* A load is served, and by the last store: whatever the order of misses,  *)
(* evictions and write-backs of the two levels, the copy it finds is up to *)
(* date, and the fill it needs finds a victim (assert of bit_plru_evict).  *)
(***************************************************************************)
LoadsServed == LoadsFindLastStore /\ VictimExists

(***************************************************************************)
(* An access looks up, and so charges for, every line its bytes lie in     *)
(* ("Required bytes are possibly split across 2 cache lines", cache.c),    *)
(* although start_byte is that of the first line throughout; and it looks  *)
(* up no other line if the first one holds half of the bytes or more, as   *)
(* it does for every fetch and every aligned access.                       *)
(***************************************************************************)
LooksUpWhatItAsks == exact
=============================================================================
