------------------------------ MODULE BlockNet ------------------------------
(***************************************************************************)
(* The block device that fetches its image over HTTP (src/block_net.c):    *)
(* blocks are loaded on demand into a cache with LRU replacement, and what *)
(* is written is kept apart, in clusters.  One request is in progress at a *)
(* time; it waits while a block is being loaded.  Sizes are in sectors.    *)
(*                                                                         *)
(* The device is a record:                                                 *)
(*   cached    the list of cached blocks [num, loaded], last used first    *)
(*   loads     the files being fetched, each the blocks it will fill       *)
(*   clusters  the sectors of each cluster, <<>> when it was not written   *)
(*   cur       cur_block_num                                               *)
(*   req       the request: write, sector, left (sectors), buf             *)
(* buf holds what was read so far, or what remains to be written.          *)
(***************************************************************************)
EXTENDS Integers, Sequences, SequencesExt

CONSTANTS
  BlockSize, ClusterSize,  \* block_size, sectors_per_cluster
  NumBlocks,               \* nb_blocks
  MaxCached,               \* n_cached_blocks_max
  Prefetch                 \* the groups of blocks of "prefetch"

\* Op(e), e being evaluated once.
With(e, Op(_)) == CHOOSE r \in {Op(x) : x \in {e}} : TRUE

NoBlock == -1

Sectors == 0 .. NumBlocks * BlockSize - 1

Clusters == {s \div ClusterSize : s \in Sectors}

\* The server's image.
Image(s) == s

IdleRequest == [write |-> FALSE, sector |-> 0, left |-> 0, buf |-> <<>>]

Found(bf, n) == \E i \in DOMAIN bf.cached : bf.cached[i].num = n

Loaded(bf, n) == [num |-> n, loaded |-> TRUE] \in Range(bf.cached)

\* bf_find_block moves the block it finds to the front.
bf_find_block(bf, n) ==
  LET is(b) == b.num = n  isnt(b) == b.num # n
  IN  [bf EXCEPT !.cached = SelectSeq(@, is) \o SelectSeq(@, isnt)]

\* Mutant: the block to free is looked for among those that are loading too.
RECURSIVE Evicted_Any(_)
Evicted_Any(cached) ==
  IF Len(cached) < MaxCached THEN cached ELSE Evicted_Any(Front(cached))

\* From the least recently used on, loaded blocks are freed to make room.
RECURSIVE Evicted(_)
Evicted(cached) ==
  LET loaded == {i \in DOMAIN cached : cached[i].loaded}
  IN  IF Len(cached) < MaxCached \/ loaded = {} THEN cached
      ELSE Evicted(RemoveAt(cached, Max(loaded)))

bf_add_block(bf, n) ==
  [bf EXCEPT !.cached = <<[num |-> n, loaded |-> FALSE]>> \o Evicted(@)]

bf_start_load_block(bf, n) ==
  [bf_add_block(bf, n) EXCEPT !.loads = @ \cup {<<n>>}]

\* Mutant: without cluster_offset.
Copied_BlockStart(c) ==
  [i \in 1 .. ClusterSize |-> Image(((c * ClusterSize) \div BlockSize) * BlockSize + i - 1)]

\* The data of a cluster, from the cached block it lies in: blocks are taken to
\* be no smaller than clusters, which nothing checks (README, section 6).
Copied(c) == [i \in 1 .. ClusterSize |-> Image(c * ClusterSize + i - 1)]

\* n sectors of the request are done.
Advanced(bf, n) ==
  [bf EXCEPT !.req.sector = @ + n, !.req.left = @ - n,
             !.req.buf = IF bf.req.write THEN SubSeq(@, n + 1, Len(@)) ELSE @]

(***************************************************************************)
(* bf_rw_async1, as [bf, ret]: ret 1 when the request waits for a block.   *)
(***************************************************************************)
RECURSIVE bf_rw_async1(_)
bf_rw_async1(bf) ==
  LET r == bf.req
      cluster == r.sector \div ClusterSize
      data == bf.clusters[cluster]
      coff == r.sector % ClusterSize
      cn == Min({r.left, ClusterSize - coff})
      block == r.sector \div BlockSize
      bn == Min({r.left, BlockSize - (r.sector % BlockSize)})
      here == bf_find_block([bf EXCEPT !.cur = block], block)
  IN  IF r.left = 0 THEN [bf |-> bf, ret |-> 0]
      ELSE IF data # <<>> THEN
        With(Advanced(
          IF r.write
          THEN [bf EXCEPT !.clusters[cluster] =
                  [i \in 1 .. ClusterSize |->
                     IF i \in coff + 1 .. coff + cn THEN r.buf[i - coff] ELSE @[i]]]
          ELSE [bf EXCEPT !.req.buf = @ \o SubSeq(data, coff + 1, coff + cn)],
          cn), bf_rw_async1)
      ELSE IF ~Found(here, block) THEN
        [bf |-> bf_start_load_block(here, block), ret |-> 1]
      ELSE IF ~Loaded(here, block) THEN [bf |-> here, ret |-> 1]
      ELSE IF r.write THEN
        With([here EXCEPT !.clusters[cluster] = Copied(cluster)], bf_rw_async1)
      ELSE
        With(Advanced(
          [here EXCEPT !.req.buf = @ \o [i \in 1 .. bn |-> Image(r.sector + i - 1)],
                       !.cur = NoBlock], bn), bf_rw_async1)

bf_read_async(bf, sector, n) ==
  With([bf EXCEPT !.req = [write |-> FALSE, sector |-> sector,
                           left |-> n, buf |-> <<>>]], bf_rw_async1)

bf_write_async(bf, sector, buf) ==
  With([bf EXCEPT !.req = [write |-> TRUE, sector |-> sector,
                           left |-> Len(buf), buf |-> buf]], bf_rw_async1)

\* bf_update_block, up to the request that may go on
MarkLoaded(bf, n) ==
  [bf EXCEPT !.cached = [i \in DOMAIN @ |->
     IF @[i].num = n THEN [@[i] EXCEPT !.loaded = TRUE] ELSE @[i]]]

\* One entry of the prefetch list of bf_init_onload: the blocks not yet asked
\* for are loaded, by one file.
Prefetched(bf, group) ==
  LET add(b, n) == IF Found(b, n) THEN bf_find_block(b, n) ELSE bf_add_block(b, n)
      new(n) == ~Found(bf, n)
      wanted == SelectSeq(group, new)
      all == FoldLeft(add, bf, group)
  IN  IF wanted = <<>> THEN all ELSE [all EXCEPT !.loads = @ \cup {wanted}]

bf_init ==
  FoldLeft(Prefetched,
           [cached |-> <<>>, loads |-> {}, cur |-> NoBlock, req |-> IdleRequest,
            clusters |-> [c \in Clusters |-> <<>>]],
           Prefetch)
=============================================================================
