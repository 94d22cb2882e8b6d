-------------------------------- MODULE Malloc --------------------------------
(***************************************************************************)
(* The kernel's memory allocators: page groups from a pool                 *)
(* (threads/palloc.c) and blocks from arenas (threads/malloc.c), used by   *)
(* threads that the timer preempts between any two of the steps below.     *)
(*                                                                         *)
(* One pool is modelled: the two pools of the kernel share no state.  A    *)
(* size is what it selects: a descriptor, or a number of pages.  A lock is *)
(* its holder: what lock_acquire and lock_release do inside is the subject *)
(* of Semaphore and Monitor.  A bitmap is the set of its true bits.        *)
(***************************************************************************)
EXTENDS Naturals, Sequences, FiniteSets

CONSTANTS
  Threads,
  page_cnt,         \* pages of the pool
  Descs,            \* the descriptors, one per block size
  blocks_per_arena, \* blocks of a descriptor that fit in an arena
  MaxGroup,         \* largest group of pages requested
  MaxHeld,          \* blocks and groups a thread holds at a time
  NULL

ASSUME MallocAssumption ==
  /\ page_cnt \in Nat \ {0} /\ MaxGroup \in Nat \ {0} /\ MaxHeld \in Nat
  /\ blocks_per_arena \in [Descs -> Nat \ {0}]
  /\ NULL \notin Threads /\ NULL \notin Descs /\ "pool" \notin Descs
  /\ NULL \notin (0 .. page_cnt - 1) \X Nat
  /\ NULL \notin [desc : Descs \cup {NULL}, free_cnt : Nat]

Pages == 0 .. (page_cnt - 1)

\* The CNT pages starting at page P.
Group(p, cnt) == p .. (p + cnt - 1)

\* A block is the page of its arena and its index there.  A big block, which
\* starts right after the arena header, is block 0 of its first page.
arena_to_block(p, i) == <<p, i>>
block_to_arena(b) == b[1]

\* list_remove of block B.
list_remove(list, b) ==
  LET k == CHOOSE j \in DOMAIN list : list[j] = b
  IN [i \in 1 .. (Len(list) - 1) |-> list[IF i < k THEN i ELSE i + 1]]

\* The loop that removes the first N blocks of the arena at page P.
Without(list, p, n) ==
  LET left[i \in 0 .. n] ==
        IF i = 0 THEN list ELSE list_remove(left[i - 1], arena_to_block(p, i - 1))
  IN left[n]

VARIABLES
  used_map,  \* the used pages of the pool
  arena,     \* arena[p]: the struct arena at the start of page p, or NULL
             \* when the page does not start with ARENA_MAGIC
  free_list, \* free_list[d]: blocks, front first
  lock,      \* holder of each descriptor's lock and of the pool's ("pool")
  pc,        \* where thread t is in malloc, free or palloc
  req,       \* req[t]: the request thread t is executing
  page_idx,  \* page_idx[t]: the position of bitmap_scan, then its result
  blocks,    \* blocks[t]: the blocks thread t has got from malloc
  groups     \* groups[t]: the page groups it has got from palloc

vars == <<used_map, arena, free_list, lock, pc, req, page_idx, blocks, groups>>

\* What a request asks for: a block of descriptor desc, or (desc = NULL) a
\* group of cnt pages, as a big block or, with raw, for the caller itself.
\* old is the block realloc frees once it has the new one.
NoReq == [desc |-> NULL, cnt |-> 0, raw |-> FALSE, old |-> NULL]

Init ==
  /\ used_map = {}
  /\ arena = [p \in Pages |-> NULL]
  /\ free_list = [d \in Descs |-> <<>>]
  /\ lock = [l \in Descs \cup {"pool"} |-> NULL]
  /\ pc = [t \in Threads |-> "run"]
  /\ req = [t \in Threads |-> NoReq]
  /\ page_idx = [t \in Threads |-> 0]
  /\ blocks = [t \in Threads |-> {}]
  /\ groups = [t \in Threads |-> {}]

-----------------------------------------------------------------------------
(* Mutants. *)

\* Takes the pool's lock without waiting for its holder.
PoolLock_nowait(t) ==
  /\ pc[t] = "pool"
  /\ lock' = [lock EXCEPT !["pool"] = t]
  /\ pc' = [pc EXCEPT ![t] = "scan"]
  /\ UNCHANGED <<used_map, arena, free_list, req, page_idx, blocks, groups>>

\* Leaves the last block of a freed arena on the free list.
Unlist_short(list, p, d) == Without(list, p, blocks_per_arena[d] - 1)

\* Tests the same position again.
bitmap_scan_stays(t) ==
  /\ pc[t] = "scan"
  /\ page_idx[t] + req[t].cnt <= page_cnt
  /\ IF Group(page_idx[t], req[t].cnt) \cap used_map # {}
       THEN UNCHANGED pc
       ELSE pc' = [pc EXCEPT ![t] = "flip"]
  /\ UNCHANGED <<used_map, arena, free_list, lock, req, page_idx, blocks, groups>>

-----------------------------------------------------------------------------
(* The calls. *)

\* free(B): a block of a descriptor goes back to its free list, a big block to
\* the pool.  The caller has given B up.
FreeAt(b) == IF arena[block_to_arena(b)].desc # NULL THEN "free" ELSE "freebig"

free(t, b) ==
  /\ pc[t] = "run"
  /\ b \in blocks[t]
  /\ blocks' = [blocks EXCEPT ![t] = @ \ {b}]
  /\ req' = [req EXCEPT ![t] = [NoReq EXCEPT !.old = b]]
  /\ pc' = [pc EXCEPT ![t] = FreeAt(b)]
  /\ UNCHANGED <<used_map, arena, free_list, lock, page_idx, groups>>

Request(t, r) ==
  /\ pc[t] = "run"
  /\ req' = [req EXCEPT ![t] = r]
  /\ pc' = [pc EXCEPT ![t] = IF r.desc # NULL THEN "desc" ELSE "pool"]
  /\ UNCHANGED <<used_map, arena, free_list, lock, page_idx, blocks, groups>>

Sizes ==
  {[NoReq EXCEPT !.desc = d] : d \in Descs} \cup {[NoReq EXCEPT !.cnt = n] : n \in 1 .. MaxGroup}

MayHoldMore(t) == Cardinality(blocks[t]) + Cardinality(groups[t]) < MaxHeld

malloc(t) == MayHoldMore(t) /\ \E r \in Sizes : Request(t, r)

realloc(t) == \E r \in Sizes, b \in blocks[t] : Request(t, [r EXCEPT !.old = b])

palloc_get_multiple(t) ==
  /\ MayHoldMore(t)
  /\ \E n \in 1 .. MaxGroup : Request(t, [NoReq EXCEPT !.cnt = n, !.raw = TRUE])

\* The end of a successful malloc: B is the caller's.  In realloc the old
\* block is copied and freed.
Got(t, b) ==
  LET old == req[t].old
  IN /\ blocks' = [blocks EXCEPT ![t] = (@ \cup {b}) \ {old}]
     /\ req' = [req EXCEPT ![t] = [NoReq EXCEPT !.old = old]]
     /\ pc' = [pc EXCEPT ![t] = IF old = NULL THEN "run" ELSE FreeAt(old)]

-----------------------------------------------------------------------------
(* Inside malloc. *)

DescLock(t) ==
  LET d == req[t].desc
  IN /\ pc[t] = "desc"
     /\ lock[d] = NULL
     /\ lock' = [lock EXCEPT ![d] = t]
     /\ IF free_list[d] = <<>>
          THEN /\ req' = [req EXCEPT ![t].cnt = 1]
               /\ pc' = [pc EXCEPT ![t] = "pool"]
          ELSE /\ pc' = [pc EXCEPT ![t] = "pop"]
               /\ UNCHANGED req
     /\ UNCHANGED <<used_map, arena, free_list, page_idx, blocks, groups>>

\* The new page becomes an arena of the descriptor.
NewArena(t) ==
  LET d == req[t].desc
      p == page_idx[t]
  IN /\ pc[t] = "arena"
     /\ arena' = [arena EXCEPT ![p] = [desc |-> d, free_cnt |-> blocks_per_arena[d]]]
     /\ free_list' = [free_list EXCEPT ![d] =
          @ \o [i \in 1 .. blocks_per_arena[d] |-> arena_to_block(p, i - 1)]]
     /\ page_idx' = [page_idx EXCEPT ![t] = 0]
     /\ pc' = [pc EXCEPT ![t] = "pop"]
     /\ UNCHANGED <<used_map, lock, req, blocks, groups>>

Pop(t) ==
  LET d == req[t].desc
      b == Head(free_list[d])
  IN /\ pc[t] = "pop"
     /\ free_list' = [free_list EXCEPT ![d] = Tail(@)]
     /\ arena' = [arena EXCEPT ![block_to_arena(b)].free_cnt = @ - 1]
     /\ lock' = [lock EXCEPT ![d] = NULL]
     /\ Got(t, b)
     /\ UNCHANGED <<used_map, page_idx, groups>>

BigBlock(t) ==
  LET p == page_idx[t]
  IN /\ pc[t] = "big"
     /\ arena' = [arena EXCEPT ![p] = [desc |-> NULL, free_cnt |-> req[t].cnt]]
     /\ page_idx' = [page_idx EXCEPT ![t] = 0]
     /\ Got(t, arena_to_block(p, 0))
     /\ UNCHANGED <<used_map, free_list, lock, groups>>

-----------------------------------------------------------------------------
(* Inside palloc_get_multiple.  bitmap_scan_and_flip tests one position at a
   time and sets the bits later: palloc_free_multiple, which takes no lock,
   clears bits in between. *)

PoolLock(t) ==
  /\ pc[t] = "pool"
  /\ lock["pool"] = NULL
  /\ lock' = [lock EXCEPT !["pool"] = t]
  /\ pc' = [pc EXCEPT ![t] = "scan"]
  /\ UNCHANGED <<used_map, arena, free_list, req, page_idx, blocks, groups>>

\* bitmap_scan is at a position where the group does not go past the end.
InPool(t) == page_idx[t] + req[t].cnt <= page_cnt

\* bitmap_contains: the group at bitmap_scan's position has a used page.
ContainsUsed(t) == Group(page_idx[t], req[t].cnt) \cap used_map # {}

bitmap_scan(t) ==
  /\ pc[t] = "scan"
  /\ InPool(t)
  /\ IF ContainsUsed(t)
       THEN /\ page_idx' = [page_idx EXCEPT ![t] = @ + 1]
            /\ UNCHANGED pc
       ELSE /\ pc' = [pc EXCEPT ![t] = "flip"]
            /\ UNCHANGED page_idx
  /\ UNCHANGED <<used_map, arena, free_list, lock, req, blocks, groups>>

\* bitmap_set_multiple, and the lock is released.
Flip(t) ==
  /\ pc[t] = "flip"
  /\ used_map' = used_map \cup Group(page_idx[t], req[t].cnt)
  /\ lock' = [lock EXCEPT !["pool"] = NULL]
  /\ IF req[t].raw
       THEN /\ groups' = [groups EXCEPT ![t] = @ \cup {<<page_idx[t], req[t].cnt>>}]
            /\ req' = [req EXCEPT ![t] = NoReq]
            /\ page_idx' = [page_idx EXCEPT ![t] = 0]
            /\ pc' = [pc EXCEPT ![t] = "run"]
       ELSE /\ pc' = [pc EXCEPT ![t] = IF req[t].desc # NULL THEN "arena" ELSE "big"]
            /\ UNCHANGED <<req, page_idx, groups>>
  /\ UNCHANGED <<arena, free_list, blocks>>

\* BITMAP_ERROR: the call returns a null pointer, malloc releases its
\* descriptor's lock, and realloc leaves the old block alone.
NoPages(t) ==
  LET d == req[t].desc
  IN /\ pc[t] = "scan"
     /\ ~InPool(t)
     /\ lock' = [l \in DOMAIN lock |-> IF l \in {"pool", d} THEN NULL ELSE lock[l]]
     /\ req' = [req EXCEPT ![t] = NoReq]
     /\ page_idx' = [page_idx EXCEPT ![t] = 0]
     /\ pc' = [pc EXCEPT ![t] = "run"]
     /\ UNCHANGED <<used_map, arena, free_list, blocks, groups>>

-----------------------------------------------------------------------------
(* Inside free. *)

\* list_remove of every block of arena P.
Unlist(list, p, d) == Without(list, p, blocks_per_arena[d])

\* The block goes to the front of the free list.  An arena with no block in
\* use takes its blocks off the list and gives its page back (FreePage).
FreeLock(t) ==
  LET b == req[t].old
      p == block_to_arena(b)
      d == arena[p].desc
      n == arena[p].free_cnt + 1
      list == <<b>> \o free_list[d]
  IN /\ pc[t] = "free"
     /\ lock[d] = NULL
     /\ arena' = [arena EXCEPT ![p].free_cnt = n]
     /\ IF n >= blocks_per_arena[d]
          THEN /\ free_list' = [free_list EXCEPT ![d] = Unlist(list, p, d)]
               /\ lock' = [lock EXCEPT ![d] = t]
               /\ pc' = [pc EXCEPT ![t] = "freepage"]
               /\ UNCHANGED req
          ELSE /\ free_list' = [free_list EXCEPT ![d] = list]
               /\ pc' = [pc EXCEPT ![t] = "run"]
               /\ req' = [req EXCEPT ![t] = NoReq]
               /\ UNCHANGED lock
     /\ UNCHANGED <<used_map, page_idx, blocks, groups>>

\* palloc_free_multiple: the pages are filled with 0xcc and marked free,
\* without the pool's lock.
ReleaseGroup(p, cnt) ==
  /\ arena' = [q \in Pages |-> IF q \in Group(p, cnt) THEN NULL ELSE arena[q]]
  /\ used_map' = used_map \ Group(p, cnt)

FreePage(t) ==
  LET p == block_to_arena(req[t].old)
  IN /\ pc[t] = "freepage"
     /\ lock' = [lock EXCEPT ![arena[p].desc] = NULL]
     /\ ReleaseGroup(p, 1)
     /\ pc' = [pc EXCEPT ![t] = "run"]
     /\ req' = [req EXCEPT ![t] = NoReq]
     /\ UNCHANGED <<free_list, page_idx, blocks, groups>>

FreeBig(t) ==
  LET p == block_to_arena(req[t].old)
  IN /\ pc[t] = "freebig"
     /\ ReleaseGroup(p, arena[p].free_cnt)
     /\ pc' = [pc EXCEPT ![t] = "run"]
     /\ req' = [req EXCEPT ![t] = NoReq]
     /\ UNCHANGED <<free_list, lock, page_idx, blocks, groups>>

palloc_free_multiple(t) ==
  /\ pc[t] = "run"
  /\ \E g \in groups[t] :
       /\ ReleaseGroup(g[1], g[2])
       /\ groups' = [groups EXCEPT ![t] = @ \ {g}]
  /\ UNCHANGED <<free_list, lock, pc, req, page_idx, blocks>>

-----------------------------------------------------------------------------
\* The steps of a call under way.
Inside(t) ==
  \/ DescLock(t) \/ NewArena(t) \/ Pop(t) \/ BigBlock(t)
  \/ PoolLock(t) \/ bitmap_scan(t) \/ Flip(t) \/ NoPages(t)
  \/ FreeLock(t) \/ FreePage(t) \/ FreeBig(t)

Next ==
  \E t \in Threads :
    \/ malloc(t) \/ realloc(t) \/ palloc_get_multiple(t)
    \/ palloc_free_multiple(t)
    \/ \E b \in blocks[t] : free(t, b)
    \/ Inside(t)

Spec == Init /\ [][Next]_vars

\* A ready thread runs again.  The fairness is strong for the sake of the steps
\* that take a lock (a thread has one kind of step at a time): lock_release
\* makes a waiter ready but does not give it the lock, and to be overtaken for
\* ever the waiter would have to find the lock's next holder preempted inside
\* its few instructions every single time.
FairSpec == Spec /\ \A t \in Threads : SF_vars(Inside(t))

-----------------------------------------------------------------------------
Requests == [desc : Descs \cup {NULL}, cnt : 0 .. MaxGroup, raw : BOOLEAN,
             old : {NULL} \cup (Pages \X Nat)]

\* Every variable has its type; a lock has one holder.
TypeOK ==
  /\ used_map \subseteq Pages
  /\ arena \in [Pages -> {NULL} \cup [desc : Descs \cup {NULL}, free_cnt : Nat]]
  /\ free_list \in [Descs -> Seq(Pages \X Nat)]
  /\ lock \in [Descs \cup {"pool"} -> Threads \cup {NULL}]
  /\ pc \in [Threads -> {"run", "desc", "pool", "scan", "flip", "arena", "pop", "big",
                         "free", "freepage", "freebig"}]
  /\ req \in [Threads -> Requests]
  /\ page_idx \in [Threads -> Nat]
  /\ blocks \in [Threads -> SUBSET (Pages \X Nat)]
  /\ groups \in [Threads -> SUBSET (Pages \X (1 .. MaxGroup))]

\* The pages a thread has from palloc or that palloc is about to hand it.
PagesOf(t) ==
  (UNION {Group(g[1], g[2]) : g \in groups[t]})
  \cup (IF pc[t] \in {"arena", "big"} THEN Group(page_idx[t], req[t].cnt) ELSE {})

\* The pages of arenas and big blocks.
ArenaPages ==
  UNION {Group(p, IF arena[p].desc = NULL THEN arena[p].free_cnt ELSE 1)
           : p \in {q \in Pages : arena[q] # NULL}}

\* A used page has one user and a page with a user is used: no page is handed
\* out twice and none is lost, although palloc_free_multiple clears bits
\* without the lock under which palloc_get_multiple tests and sets them.
PagesAccounted ==
  /\ TypeOK
  /\ used_map = ArenaPages \cup UNION {PagesOf(t) : t \in Threads}
  /\ \A t, u \in Threads : t # u => PagesOf(t) \cap PagesOf(u) = {}
  /\ \A t \in Threads : PagesOf(t) \cap ArenaPages = {}

\* The blocks on a descriptor's free list.
OnList(d) == {free_list[d][i] : i \in DOMAIN free_list[d]}

\* The blocks of an arena.
BlocksOf(p, d) == {arena_to_block(p, i) : i \in 0 .. (blocks_per_arena[d] - 1)}

\* The blocks that are a thread's: it got them, or is giving them back.
Held(t) == blocks[t] \cup (IF pc[t] \in {"free", "freebig"} THEN {req[t].old} ELSE {})

\* free_cnt counts the arena's blocks on the free list, so that an arena's
\* page is given back when the last of its blocks is freed and not before; the
\* assertion in free that it is then exactly blocks_per_arena holds.
FreeCntCounts ==
  \A p \in Pages :
    (arena[p] # NULL /\ arena[p].desc # NULL) =>
      LET d == arena[p].desc
          listed == OnList(d) \cap BlocksOf(p, d)
      IN IF \E t \in Threads : pc[t] = "freepage" /\ block_to_arena(req[t].old) = p
           THEN arena[p].free_cnt = blocks_per_arena[d] /\ listed = {}
           ELSE /\ arena[p].free_cnt = Cardinality(listed)
                /\ arena[p].free_cnt = blocks_per_arena[d] =>
                     \E t \in Threads : pc[t] = "pop" /\ req[t].desc = d

\* Each block of an arena is in exactly one place: with one thread or once on
\* its descriptor's free list, and free_cnt counts the latter.  Two calls of
\* malloc never return one block.
BlocksAccounted ==
  /\ FreeCntCounts
  /\ \A t, u \in Threads : t # u => Held(t) \cap Held(u) = {}
  /\ \A d \in Descs :
       LET mine == {p \in Pages : arena[p] # NULL /\ arena[p].desc = d}
           onlist == OnList(d)
           closing == {block_to_arena(req[t].old) : t \in {u \in Threads : pc[u] = "freepage"}}
       IN /\ Cardinality(onlist) = Len(free_list[d])
          /\ \A t \in Threads : Held(t) \cap onlist = {}
          /\ onlist \cup ((UNION {Held(t) : t \in Threads}) \cap (mine \X Nat))
               = UNION {BlocksOf(p, d) : p \in mine \ closing}

\* Every call returns: a descriptor's lock is held while the pool's is waited
\* for, never the other way round, and every path releases what it took.
CallsReturn == \A t \in Threads : pc[t] # "run" ~> pc[t] = "run"
=============================================================================
