---------------------------- MODULE MallocInvariant ----------------------------
(* The invariant of module Malloc; that it holds at first, that it implies the
   properties, and that the steps which leave the pages and the blocks alone
   keep it. The other steps are in MallocProofs; the lemmas they need, on lists,
   pages, blocks and the threads that a step leaves alone, are here. *)
EXTENDS Malloc, FiniteSetTheorems, TLAPS

USE ZenonT(3), SMTT(30)

(* Inside malloc with a descriptor's lock, and in the rest of palloc. *)
InDesc == {"pool", "scan", "flip", "arena", "pop"}
InCall == InDesc \cup {"desc", "big"}

Block == Pages \X Nat

(* What a thread's request is, by where the thread is. *)
ReqOf(t) ==
  /\ pc[t] = "run" => req[t] = NoReq
  /\ pc[t] \in {"desc", "arena", "pop"} => req[t].desc # NULL
  /\ pc[t] = "big" => req[t].desc = NULL
  /\ pc[t] \in {"pool", "scan", "flip", "arena", "big"} => req[t].cnt > 0
  /\ pc[t] \in {"pool", "scan", "flip", "arena"} /\ req[t].desc # NULL => req[t].cnt = 1
  /\ req[t].raw => req[t].desc = NULL /\ req[t].old = NULL
  /\ pc[t] \in InCall /\ req[t].old # NULL => req[t].old \in blocks[t]
  /\ pc[t] \in {"free", "freebig", "freepage"} => req[t].old # NULL /\ req[t].desc = NULL
  /\ pc[t] \in {"arena", "big"} => ~req[t].raw

ReqInv == \A t \in Threads : ReqOf(t)

(* Who holds the locks. *)
LockOf(t) ==
  /\ lock["pool"] = t <=> pc[t] \in {"scan", "flip"}
  /\ \A d \in Descs :
       lock[d] = t <=> \/ pc[t] \in InDesc /\ req[t].desc = d
                       \/ pc[t] = "freepage" /\ arena[req[t].old[1]].desc = d

LockInv == \A t \in Threads : LockOf(t)

(* The pages of a group. *)
GroupOf(g) == Group(g[1], g[2])

(* The pages of the arena at P, and those that palloc is about to hand T. *)
ArenaAt(p) == IF arena[p] = NULL THEN {} ELSE
              Group(p, IF arena[p].desc = NULL THEN arena[p].free_cnt ELSE 1)
Pend(t) == IF pc[t] \in {"arena", "big"} THEN Group(page_idx[t], req[t].cnt) ELSE {}

(* bitmap_scan's result is free until it is marked. *)
ScanOf(t) == pc[t] = "flip" => InPool(t) /\ ~ContainsUsed(t)

ScanInv == \A t \in Threads : ScanOf(t)

(* Every used page has an owner, *)
PagesCovered ==
  \A r \in used_map :
    \/ \E p \in Pages : r \in ArenaAt(p)
    \/ \E t \in Threads : r \in Pend(t)
    \/ \E t \in Threads : \E g \in groups[t] : r \in GroupOf(g)

(* what an owner has is used, *)
PagesUsed ==
  /\ \A p \in Pages : ArenaAt(p) \subseteq used_map
  /\ \A t \in Threads : Pend(t) \subseteq used_map
  /\ \A t \in Threads : \A g \in groups[t] : GroupOf(g) \subseteq used_map

(* and no two owners share a page. *)
PagesApart ==
  /\ \A p, q \in Pages, r \in used_map : r \in ArenaAt(p) /\ r \in ArenaAt(q) => p = q
  /\ \A t, u \in Threads, r \in used_map : r \in Pend(t) /\ r \in Pend(u) => t = u
  /\ \A t, u \in Threads, r \in used_map : \A g \in groups[t], h \in groups[u] :
       r \in GroupOf(g) /\ r \in GroupOf(h) => t = u /\ g = h
  /\ \A p \in Pages, t \in Threads, r \in used_map : ~(r \in ArenaAt(p) /\ r \in Pend(t))
  /\ \A p \in Pages, t \in Threads, r \in used_map : \A g \in groups[t] :
       ~(r \in ArenaAt(p) /\ r \in GroupOf(g))
  /\ \A t, u \in Threads, r \in used_map : \A g \in groups[u] :
       ~(r \in Pend(t) /\ r \in GroupOf(g))

PageInv == PagesCovered /\ PagesUsed /\ PagesApart

(* Big blocks have pages. *)
BigInv == \A p \in Pages : arena[p] # NULL /\ arena[p].desc = NULL => arena[p].free_cnt > 0

(* The page P is an arena of descriptor D; thread T is giving P back. *)
ArenaOf(p, d) == p \in Pages /\ arena[p] # NULL /\ arena[p].desc = d
Closing(t, p) == pc[t] = "freepage" /\ req[t].old[1] = p
Open(p) == \A t \in Threads : ~Closing(t, p)

(* Block b is on the list q; no block is there twice. *)
On(q, b) == \E i \in 1 .. Len(q) : q[i] = b
Once(q) == \A i, j \in 1 .. Len(q) : q[i] = q[j] => i = j

(* The blocks of threads are blocks of arenas, *)
HeldInv ==
  /\ \A t \in Threads : \A b \in Held(t) :
       /\ b \in Block /\ arena[b[1]] # NULL /\ Open(b[1])
       /\ IF arena[b[1]].desc = NULL THEN b[2] = 0 ELSE b[2] < blocks_per_arena[arena[b[1]].desc]
  /\ \A t, u \in Threads : \A b \in Held(t) : b \in Held(u) => t = u

(* those of free lists too, and the two together are all of them, *)
ListOf(d) ==
  /\ Once(free_list[d])
  /\ \A b \in OnList(d) :
       /\ ArenaOf(b[1], d) /\ Open(b[1]) /\ b \in BlocksOf(b[1], d)
       /\ \A t \in Threads : b \notin Held(t)
  /\ \A p \in Pages : ArenaOf(p, d) /\ Open(p) =>
       \A b \in BlocksOf(p, d) : b \in OnList(d) \/ \E t \in Threads : b \in Held(t)

ListInv == \A d \in Descs : ListOf(d)

(* and free_cnt counts those of the list. *)
CountOf(p, d) ==
  ArenaOf(p, d) =>
    arena[p].free_cnt = IF Open(p) THEN Cardinality(OnList(d) \cap BlocksOf(p, d))
                                   ELSE blocks_per_arena[d]

CountInv == \A d \in Descs, p \in Pages : CountOf(p, d)

BlockInv == HeldInv /\ ListInv /\ CountInv

(* Only the arena that malloc has just made has all its blocks on the list. *)
FullInv ==
  \A d \in Descs, p \in Pages :
    ArenaOf(p, d) /\ Open(p) /\ arena[p].free_cnt = blocks_per_arena[d] =>
      \E t \in Threads : pc[t] = "pop" /\ req[t].desc = d /\ Head(free_list[d])[1] = p

(* malloc makes one when the list is empty. *)
EmptyOf(t) ==
  req[t].desc # NULL =>
    /\ pc[t] \in {"pool", "scan", "flip", "arena"} => free_list[req[t].desc] = <<>>
    /\ pc[t] = "pop" => free_list[req[t].desc] # <<>>

EmptyInv == \A t \in Threads : EmptyOf(t)

(* What the threads in free give back. *)
GiveOf(t) ==
  /\ pc[t] = "free" => arena[req[t].old[1]].desc # NULL
  /\ pc[t] = "freebig" => arena[req[t].old[1]].desc = NULL
  /\ pc[t] \in {"free", "freebig"} => req[t].old \notin blocks[t]
  /\ pc[t] = "freepage" => req[t].old \in Block /\ \E d \in Descs : ArenaOf(req[t].old[1], d)

GiveInv == \A t \in Threads : GiveOf(t)

MallocInv ==
  /\ TypeOK /\ ReqInv /\ LockInv /\ ScanInv /\ PageInv /\ BigInv
  /\ BlockInv /\ FullInv /\ EmptyInv /\ GiveInv

-----------------------------------------------------------------------------
(* Constants, lists and numbers. *)
LEMMA Constants ==
  /\ page_cnt \in Nat /\ page_cnt > 0 /\ MaxGroup \in Nat
  /\ \A d \in Descs : blocks_per_arena[d] \in Nat /\ blocks_per_arena[d] > 0
  /\ NULL \notin Threads /\ NULL \notin Descs /\ "pool" \notin Descs
  /\ NULL \notin Block
  /\ NULL \notin [desc : Descs \cup {NULL}, free_cnt : Nat]
  /\ \A p \in Pages : p \in Nat
BY MallocAssumption DEF Block, Pages

LEMMA LeastNatural ==
  ASSUME NEW T, T \subseteq Nat, T # {}
  PROVE  \E x \in T : \A y \in T : x <= y
<1>1. PICK x \in T : \A y \in T : ~(<<y, x>> \in OpToRel(<, Nat))
  BY WFMin, NatLessThanWellFounded, Zenon
<1>2. \A y \in T : x <= y
  <2> TAKE y \in T
  <2>1. x \in Nat /\ y \in Nat
    OBVIOUS
  <2>2. ~(<<y, x>> \in {ss \in Nat \X Nat : ss[1] < ss[2]})
    BY <1>1 DEF OpToRel
  <2> QED
    BY <2>1, <2>2
<1> QED
  BY <1>2

(* list_remove takes one block off the list. *)
LEMMA RemoveOne ==
  ASSUME NEW q \in Seq(Block), NEW b, Once(q), On(q, b)
  PROVE  LET r == list_remove(q, b) IN
         /\ r \in Seq(Block) /\ Once(r)
         /\ \A x : On(r, x) <=> On(q, x) /\ x # b
<1> DEFINE n == Len(q)
           r == list_remove(q, b)
<1>1. n \in Nat /\ DOMAIN q = 1 .. n /\ \A i \in 1 .. n : q[i] \in Block
  OBVIOUS
<1>2. PICK k \in 1 .. n : q[k] = b /\ r = [i \in 1 .. n - 1 |-> q[IF i < k THEN i ELSE i + 1]]
  <2> DEFINE k == CHOOSE j \in DOMAIN q : q[j] = b
  <2>1. k \in 1 .. n /\ q[k] = b
    BY <1>1 DEF On
  <2> QED
    BY <2>1 DEF list_remove
<1>3. \A i, j \in 1 .. n : q[i] = q[j] => i = j
  BY DEF Once
<1>4. \A x : On(q, x) <=> \E i \in 1 .. n : q[i] = x
  BY DEF On
<1> HIDE DEF n, r
<1>5. n - 1 \in Nat
  BY <1>1, <1>2
<1>6. \A i \in 1 .. n - 1 : \/ i < k /\ i \in 1 .. n /\ r[i] = q[i]
                            \/ i >= k /\ i + 1 \in 1 .. n /\ r[i] = q[i + 1]
  BY <1>1, <1>2
<1>7. r \in Seq(Block) /\ Len(r) = n - 1
  <2>1. r \in [1 .. n - 1 -> Block]
    BY <1>1, <1>2
  <2> QED
    BY <1>5, <2>1
<1>8. \A i, j \in 1 .. n - 1 : r[i] = r[j] => i = j
  BY <1>1, <1>2, <1>3, <1>6
<1>9. ASSUME NEW i \in 1 .. n - 1 PROVE r[i] # b /\ \E j \in 1 .. n : q[j] = r[i]
  BY <1>1, <1>2, <1>3, <1>6
<1>10. ASSUME NEW i \in 1 .. n, q[i] # b PROVE \E j \in 1 .. n - 1 : r[j] = q[i]
  <2>1. CASE i < k
    <3>1. i \in 1 .. n - 1 /\ ~(i >= k)
      BY <1>1, <1>2, <2>1
    <3> QED
      BY <1>6, <3>1
  <2>2. CASE i > k
    <3>1. i - 1 \in 1 .. n - 1 /\ ~(i - 1 < k) /\ (i - 1) + 1 = i
      BY <1>1, <1>2, <2>2
    <3> QED
      BY <1>6, <3>1
  <2>3. i # k
    BY <1>2, <1>10
  <2> QED
    BY <1>1, <1>2, <2>1, <2>2, <2>3
<1>11. Once(r)
  BY <1>7, <1>8 DEF Once
<1>12. ASSUME NEW x PROVE On(r, x) <=> On(q, x) /\ x # b
  <2>1. On(r, x) <=> \E i \in 1 .. n - 1 : r[i] = x
    BY <1>7 DEF On
  <2> QED
    BY <1>4, <1>9, <1>10, <2>1
<1> QED
  BY <1>7, <1>11, <1>12 DEF r

(* The loop of free that empties an arena: what is left of the list. *)
Loop(list, p, n, f) ==
  f = [i \in 0 .. n |-> IF i = 0 THEN list ELSE list_remove(f[i - 1], arena_to_block(p, i - 1))]

LEMMA LoopExists ==
  ASSUME NEW list, NEW p, NEW n \in Nat
  PROVE  \E f : Loop(list, p, n, f)
<1> DEFINE Bad == {k \in Nat : ~\E f : Loop(list, p, k, f)}
<1>1. SUFFICES ASSUME Bad # {} PROVE FALSE
  OBVIOUS
<1>2. PICK m \in Bad : \A k \in Bad : m <= k
  BY <1>1, LeastNatural
<1>3. m # 0
  <2>1. Loop(list, p, 0, [i \in 0 .. 0 |-> list])
    BY DEF Loop
  <2> QED
    BY <2>1
<1>4. m - 1 \in Nat /\ m - 1 \notin Bad
  BY <1>2, <1>3
<1>5. PICK f : Loop(list, p, m - 1, f)
  BY <1>4
<1> DEFINE g == [i \in 0 .. m |-> IF i < m THEN f[i] ELSE list_remove(f[m - 1], arena_to_block(p, m - 1))]
<1>6. ASSUME NEW i \in 0 .. m
      PROVE  g[i] = IF i = 0 THEN list ELSE list_remove(g[i - 1], arena_to_block(p, i - 1))
  <2>1. CASE i = 0
    <3>1. i \in 0 .. m - 1 /\ i < m
      BY <1>4, <2>1
    <3> QED
      BY <1>5, <2>1, <3>1 DEF Loop
  <2>2. CASE i \in 1 .. m - 1
    <3>1. i \in 0 .. m - 1 /\ i - 1 \in 0 .. m /\ i - 1 < m /\ i < m /\ i # 0
      BY <1>4, <2>2
    <3>2. f[i] = list_remove(f[i - 1], arena_to_block(p, i - 1))
      BY <1>5, <3>1 DEF Loop
    <3>3. g[i] = f[i] /\ g[i - 1] = f[i - 1]
      BY <3>1
    <3> QED
      BY <3>1, <3>2, <3>3
  <2>3. CASE i = m
    <3>1. m - 1 \in 0 .. m /\ m - 1 < m /\ ~(m < m) /\ m # 0
      BY <1>4
    <3>2. g[m] = list_remove(f[m - 1], arena_to_block(p, m - 1)) /\ g[m - 1] = f[m - 1]
      BY <2>3, <3>1
    <3> QED
      BY <2>3, <3>1, <3>2
  <2> QED
    BY <1>4, <2>1, <2>2, <2>3
<1>7. Loop(list, p, m, g)
  <2> HIDE DEF g
  <2>1. g = [i \in 0 .. m |-> g[i]]
    BY DEF g
  <2> QED
    BY <1>6, <2>1 DEF Loop
<1> QED
  BY <1>2, <1>7

LEMMA WithoutLoop ==
  ASSUME NEW list, NEW p, NEW n \in Nat
  PROVE  \E f : Loop(list, p, n, f) /\ Without(list, p, n) = f[n]
<1> DEFINE f == CHOOSE f : Loop(list, p, n, f)
<1>1. Loop(list, p, n, f)
  BY LoopExists
<1>2. Without(list, p, n) = f[n]
  BY DEF Without, Loop
<1> QED
  BY <1>1, <1>2

(* It takes the arena's blocks off the list and no others. *)
LEMMA WithoutAll ==
  ASSUME NEW list \in Seq(Block), NEW p, NEW n \in Nat, Once(list),
         \A i \in 0 .. n - 1 : On(list, arena_to_block(p, i))
  PROVE  LET r == Without(list, p, n) IN
         /\ r \in Seq(Block) /\ Once(r)
         /\ \A x : On(r, x) <=> On(list, x) /\ \A i \in 0 .. n - 1 : x # arena_to_block(p, i)
<1>1. PICK f : Loop(list, p, n, f) /\ Without(list, p, n) = f[n]
  BY WithoutLoop
<1> DEFINE Good(k) ==
      /\ f[k] \in Seq(Block) /\ Once(f[k])
      /\ \A x : On(f[k], x) <=> On(list, x) /\ \A i \in 0 .. k - 1 : x # arena_to_block(p, i)
<1> DEFINE Bad == {k \in 0 .. n : ~Good(k)}
<1>2. Bad = {}
  <2>1. SUFFICES ASSUME Bad # {} PROVE FALSE
    OBVIOUS
  <2>0. Bad \subseteq Nat
    OBVIOUS
  <2>2. PICK m \in Bad : \A k \in Bad : m <= k
    <3> HIDE DEF Bad
    <3> QED
      BY <2>0, <2>1, LeastNatural
  <2>3. Good(0)
    <3>1. f[0] = list
      BY <1>1 DEF Loop
    <3> QED
      BY <3>1
  <2>4. m \in 1 .. n /\ m - 1 \in 0 .. n /\ m - 1 \notin Bad
    BY <2>2, <2>3
  <2>5. Good(m - 1)
    BY <2>4
  <2>6. f[m] = list_remove(f[m - 1], arena_to_block(p, m - 1))
    BY <1>1, <2>4 DEF Loop
  <2>7. On(f[m - 1], arena_to_block(p, m - 1))
    <3>1. m - 1 \in 0 .. n - 1 /\ \A i \in 0 .. (m - 1) - 1 : i # m - 1
      BY <2>4
    <3>2. \A i \in 0 .. (m - 1) - 1 : arena_to_block(p, m - 1) # arena_to_block(p, i)
      BY <3>1 DEF arena_to_block
    <3> QED
      BY <2>5, <3>1, <3>2
  <2>8. /\ f[m] \in Seq(Block) /\ Once(f[m])
        /\ \A x : On(f[m], x) <=> On(f[m - 1], x) /\ x # arena_to_block(p, m - 1)
    BY <2>5, <2>6, <2>7, RemoveOne
  <2>9. \A i : i \in 0 .. m - 1 <=> i \in 0 .. (m - 1) - 1 \/ i = m - 1
    BY <2>4
  <2>10. Good(m)
    <3>1. ASSUME NEW x
          PROVE  On(f[m], x) <=> On(list, x) /\ \A i \in 0 .. m - 1 : x # arena_to_block(p, i)
      BY <2>5, <2>8, <2>9
    <3> QED
      BY <2>8, <3>1
  <2> QED
    BY <2>2, <2>10
<1>3. Good(n)
  BY <1>2
<1> QED
  BY <1>1, <1>3

LEMMA BlocksCount ==
  ASSUME NEW p, NEW d \in Descs
  PROVE  IsFiniteSet(BlocksOf(p, d)) /\ Cardinality(BlocksOf(p, d)) = blocks_per_arena[d]
<1> DEFINE n == blocks_per_arena[d]
           f == [i \in 0 .. n - 1 |-> arena_to_block(p, i)]
<1>1. n \in Nat /\ n > 0
  BY Constants
<1>2. f \in Bijection(0 .. n - 1, BlocksOf(p, d))
  <2>1. f \in [0 .. n - 1 -> BlocksOf(p, d)]
    BY DEF BlocksOf
  <2>2. \A i, j \in 0 .. n - 1 : f[i] = f[j] => i = j
    BY DEF arena_to_block
  <2>3. \A b \in BlocksOf(p, d) : \E i \in 0 .. n - 1 : f[i] = b
    BY DEF BlocksOf
  <2> QED
    BY <2>1, <2>2, <2>3 DEF Bijection, Injection, Surjection, IsInjective
<1>3. IsFiniteSet(0 .. n - 1) /\ Cardinality(0 .. n - 1) = n
  <2> HIDE DEF n
  <2>1. 0 \in Int /\ n - 1 \in Int /\ ~(0 > n - 1) /\ (n - 1) - 0 + 1 = n
    BY <1>1
  <2> QED
    BY <2>1, FS_Interval
<1>4. ExistsBijection(0 .. n - 1, BlocksOf(p, d))
  BY <1>2 DEF ExistsBijection
<1> QED
  BY <1>3, <1>4, FS_Bijection

LEMMA LengthCounts ==
  ASSUME NEW q \in Seq(Block), Once(q)
  PROVE  IsFiniteSet({q[i] : i \in DOMAIN q}) /\ Cardinality({q[i] : i \in DOMAIN q}) = Len(q)
<1> DEFINE n == Len(q)
           S == {q[i] : i \in DOMAIN q}
<1>1. n \in Nat /\ DOMAIN q = 1 .. n
  OBVIOUS
<1>2. q \in Bijection(1 .. n, S)
  <2>1. q \in [1 .. n -> S]
    BY <1>1
  <2>2. \A i, j \in 1 .. n : q[i] = q[j] => i = j
    BY DEF Once
  <2>3. \A b \in S : \E i \in 1 .. n : q[i] = b
    BY <1>1
  <2> QED
    BY <2>1, <2>2, <2>3 DEF Bijection, Injection, Surjection, IsInjective
<1>3. IsFiniteSet(1 .. n) /\ Cardinality(1 .. n) = n
  BY <1>1, FS_Interval
<1>4. ExistsBijection(1 .. n, S)
  BY <1>2 DEF ExistsBijection
<1> QED
  BY <1>3, <1>4, FS_Bijection

-----------------------------------------------------------------------------
(* The owners of pages: how they change. *)

LEMMA PageKept ==
  ASSUME PageInv, UNCHANGED <<used_map, groups>>,
         \A p \in Pages : ArenaAt(p)' = ArenaAt(p),
         \A t \in Threads : Pend(t)' = Pend(t)
  PROVE  PageInv'
<1>1. PagesCovered'
  BY DEF PageInv, PagesCovered
<1>2. PagesUsed'
  BY DEF PageInv, PagesUsed
<1>3. PagesApart'
  BY DEF PageInv, PagesApart
<1> QED
  BY <1>1, <1>2, <1>3 DEF PageInv

(* The pages that palloc hands a thread become the arena at p. *)
LEMMA PageMove ==
  ASSUME PageInv, UNCHANGED <<used_map, groups>>, NEW t \in Threads, NEW p \in Pages,
         ArenaAt(p) = {}, ArenaAt(p)' = Pend(t), Pend(t)' = {},
         \A q \in Pages \ {p} : ArenaAt(q)' = ArenaAt(q),
         \A u \in Threads \ {t} : Pend(u)' = Pend(u)
  PROVE  PageInv'
<1>1. PagesCovered'
  BY DEF PageInv, PagesCovered
<1>2. PagesUsed'
  BY DEF PageInv, PagesUsed
<1>3. PagesApart'
  BY DEF PageInv, PagesApart
<1> QED
  BY <1>1, <1>2, <1>3 DEF PageInv

(* palloc marks pages for a thread, to become an arena *)
LEMMA PageTakePend ==
  ASSUME PageInv, UNCHANGED groups, NEW t \in Threads, NEW S,
         S \cap used_map = {}, used_map' = used_map \cup S, Pend(t) = {}, Pend(t)' = S,
         \A q \in Pages : ArenaAt(q)' = ArenaAt(q),
         \A u \in Threads \ {t} : Pend(u)' = Pend(u)
  PROVE  PageInv'
<1>1. PagesCovered'
  BY DEF PageInv, PagesCovered
<1>2. PagesUsed'
  BY DEF PageInv, PagesUsed
<1>3. PagesApart'
  BY DEF PageInv, PagesApart, PagesUsed
<1> QED
  BY <1>1, <1>2, <1>3 DEF PageInv

(* or for its own use. *)
LEMMA PageTakeGroup ==
  ASSUME PageInv, NEW t \in Threads, NEW g,
         GroupOf(g) \cap used_map = {}, used_map' = used_map \cup GroupOf(g),
         groups'[t] = groups[t] \cup {g},
         \A u \in Threads \ {t} : groups'[u] = groups[u],
         \A q \in Pages : ArenaAt(q)' = ArenaAt(q),
         \A u \in Threads : Pend(u)' = Pend(u)
  PROVE  PageInv'
<1>1. PagesCovered'
  BY DEF PageInv, PagesCovered
<1>2. PagesUsed'
  BY DEF PageInv, PagesUsed
<1>3. PagesApart'
  BY DEF PageInv, PagesApart, PagesUsed
<1> QED
  BY <1>1, <1>2, <1>3 DEF PageInv

(* An arena's pages are given back, *)
LEMMA PageGiveArena ==
  ASSUME PageInv, UNCHANGED groups, NEW p \in Pages,
         used_map' = used_map \ ArenaAt(p), ArenaAt(p)' = {},
         \A q \in Pages \ {p} : ArenaAt(q)' = ArenaAt(q),
         \A u \in Threads : Pend(u)' = Pend(u)
  PROVE  PageInv'
<1>1. PagesCovered'
  BY DEF PageInv, PagesCovered
<1>2. PagesUsed'
  BY DEF PageInv, PagesUsed, PagesApart
<1>3. PagesApart'
  BY DEF PageInv, PagesApart
<1> QED
  BY <1>1, <1>2, <1>3 DEF PageInv

(* or those of a thread's group. *)
LEMMA PageGiveGroup ==
  ASSUME PageInv, NEW t \in Threads, NEW g \in groups[t],
         used_map' = used_map \ GroupOf(g),
         groups'[t] = groups[t] \ {g},
         \A u \in Threads \ {t} : groups'[u] = groups[u],
         \A q \in Pages : ArenaAt(q)' = ArenaAt(q),
         \A u \in Threads : Pend(u)' = Pend(u)
  PROVE  PageInv'
<1>1. PagesCovered'
  BY DEF PageInv, PagesCovered
<1>2. PagesUsed'
  BY DEF PageInv, PagesUsed, PagesApart
<1>3. PagesApart'
  BY DEF PageInv, PagesApart
<1> QED
  BY <1>1, <1>2, <1>3 DEF PageInv

-----------------------------------------------------------------------------
(* The places of blocks: how they change. *)

LEMMA OpenSame ==
  ASSUME \A t \in Threads, p \in Pages : Closing(t, p)' <=> Closing(t, p)
  PROVE  \A p \in Pages : Open(p)' <=> Open(p)
BY DEF Open

LEMMA BlocksTyped ==
  ASSUME NEW d \in Descs, NEW p \in Pages
  PROVE  BlocksOf(p, d) \subseteq Block
<1>1. blocks_per_arena[d] \in Nat
  BY Constants
<1> QED
  BY <1>1 DEF BlocksOf, Block, arena_to_block

LEMMA BlockPages ==
  ASSUME NEW d \in Descs
  PROVE  /\ \A p, b : b \in BlocksOf(p, d) => b[1] = p /\ b[2] \in Nat /\ b[2] < blocks_per_arena[d]
         /\ \A b \in Block : b \in BlocksOf(b[1], d) <=> b[2] < blocks_per_arena[d]
<1>1. blocks_per_arena[d] \in Nat
  BY Constants
<1>2. ASSUME NEW p, NEW b \in BlocksOf(p, d)
      PROVE  b[1] = p /\ b[2] \in Nat /\ b[2] < blocks_per_arena[d]
  BY <1>1 DEF BlocksOf, arena_to_block
<1>3. ASSUME NEW b \in Block, b[2] < blocks_per_arena[d] PROVE b \in BlocksOf(b[1], d)
  <2>1. b = arena_to_block(b[1], b[2]) /\ b[2] \in Nat
    BY DEF Block, arena_to_block
  <2>2. b[2] \in 0 .. (blocks_per_arena[d] - 1)
    BY <1>1, <1>3, <2>1
  <2> QED
    BY <2>1, <2>2 DEF BlocksOf
<1> QED
  BY <1>2, <1>3

(* A list is right after a step that leaves its arenas and their blocks. *)
LEMMA ListOthers ==
  ASSUME BlockInv, NEW d \in Descs, free_list'[d] = free_list[d],
         \A p \in Pages : ArenaOf(p, d)' <=> ArenaOf(p, d),
         \A p \in Pages : ArenaOf(p, d) => (Open(p)' <=> Open(p)),
         \A t \in Threads, b \in Block : ArenaOf(b[1], d) => (b \in Held(t)' <=> b \in Held(t))
  PROVE  ListOf(d)'
<1>1. OnList(d)' = OnList(d)
  BY DEF OnList
<1>2. \A b \in OnList(d) : b[1] \in Pages /\ b \in Block
  <2>1. \A b \in OnList(d) : b[1] \in Pages /\ b \in BlocksOf(b[1], d)
    BY DEF BlockInv, ListInv, ListOf, ArenaOf
  <2> QED
    BY <2>1, BlocksTyped
<1>3. \A p \in Pages : \A b \in BlocksOf(p, d) : b[1] = p /\ b \in Block
  BY BlockPages, BlocksTyped
<1>4. \A b \in OnList(d)' : /\ ArenaOf(b[1], d)' /\ Open(b[1])' /\ b \in BlocksOf(b[1], d)
                             /\ \A t \in Threads : b \notin Held(t)'
  BY <1>1, <1>2 DEF BlockInv, ListInv, ListOf
<1>5. \A p \in Pages : ArenaOf(p, d)' /\ Open(p)' =>
        \A b \in BlocksOf(p, d) : b \in OnList(d)' \/ \E t \in Threads : b \in Held(t)'
  BY <1>1, <1>3 DEF BlockInv, ListInv, ListOf
<1> QED
  BY <1>4, <1>5 DEF BlockInv, ListInv, ListOf

LEMMA BlockKept ==
  ASSUME BlockInv, UNCHANGED <<arena, free_list>>,
         \A t \in Threads : Held(t)' = Held(t),
         \A t \in Threads, p \in Pages : Closing(t, p)' <=> Closing(t, p)
  PROVE  BlockInv'
<1>1. \A p \in Pages : Open(p)' <=> Open(p)
  BY OpenSame
<1>2. \A d \in Descs : OnList(d)' = OnList(d)
  BY DEF OnList
<1>3. \A d \in Descs, p \in Pages : ArenaOf(p, d)' <=> ArenaOf(p, d)
  BY DEF ArenaOf
<1>4. HeldInv'
  <2>1. \A b \in Block : b[1] \in Pages
    BY DEF Block
  <2> QED
    BY <1>1, <2>1 DEF BlockInv, HeldInv
<1>5. ListInv'
  <2>1. ASSUME NEW d \in Descs PROVE ListOf(d)'
    BY <1>1, <1>2, <1>3, ListOthers
  <2> QED
    BY <2>1 DEF ListInv
<1>6. CountInv'
  BY <1>1, <1>2, <1>3 DEF BlockInv, CountInv, CountOf
<1> QED
  BY <1>4, <1>5, <1>6 DEF BlockInv

(* malloc makes the page p an arena with all its blocks on the list. *)
LEMMA BlockNewArena ==
  ASSUME BlockInv, NEW p \in Pages, NEW d \in Descs, arena[p] = NULL, Open(p),
         arena'[p] = [desc |-> d, free_cnt |-> blocks_per_arena[d]],
         \A q \in Pages \ {p} : arena'[q] = arena[q],
         free_list[d] = <<>>, Once(free_list'[d]), OnList(d)' = BlocksOf(p, d),
         \A e \in Descs \ {d} : free_list'[e] = free_list[e],
         \A t \in Threads : Held(t)' = Held(t),
         \A t \in Threads, q \in Pages : Closing(t, q)' <=> Closing(t, q)
  PROVE  BlockInv'
<1>1. \A q \in Pages : Open(q)' <=> Open(q)
  BY OpenSame
<1>2. \A e \in Descs \ {d} : OnList(e)' = OnList(e)
  BY DEF OnList
<1>3. /\ ArenaOf(p, d)' /\ \A e \in Descs \ {d} : ~ArenaOf(p, e)'
      /\ \A e \in Descs, q \in Pages \ {p} : ArenaOf(q, e)' <=> ArenaOf(q, e)
      /\ \A e \in Descs : ~ArenaOf(p, e)
  BY Constants DEF ArenaOf
<1>4. \A t \in Threads : \A b \in Held(t) : b[1] \in Pages \ {p}
  BY DEF BlockInv, HeldInv, Block
<1>5. \A e \in Descs : \A b \in OnList(e) : b[1] \in Pages \ {p}
  BY <1>3 DEF BlockInv, ListInv, ListOf, ArenaOf
<1>6. OnList(d) = {}
  BY DEF OnList
<1>7. \A b \in BlocksOf(p, d) : b[1] = p
  BY BlockPages
<1>8. HeldInv'
  BY <1>1, <1>4 DEF BlockInv, HeldInv
<1>9. ListInv'
  <2>1. ASSUME NEW b \in OnList(d)'
        PROVE  /\ ArenaOf(b[1], d)' /\ Open(b[1])' /\ b \in BlocksOf(b[1], d)
               /\ \A t \in Threads : b \notin Held(t)'
    BY <1>1, <1>3, <1>4, <1>7, <2>1
  <2>2. ASSUME NEW q \in Pages, ArenaOf(q, d)', Open(q)', NEW b \in BlocksOf(q, d)
        PROVE  b \in OnList(d)' \/ \E t \in Threads : b \in Held(t)'
    <3>1. CASE q = p
      BY <2>2, <3>1
    <3>2. CASE q # p
      BY <1>1, <1>3, <1>6, <2>2, <3>2 DEF BlockInv, ListInv, ListOf
    <3> QED
      BY <3>1, <3>2
  <2>3. ASSUME NEW e \in Descs \ {d} PROVE ListOf(e)'
    <3>1. \A q \in Pages : ArenaOf(q, e)' <=> ArenaOf(q, e)
      BY <1>3
    <3> QED
      BY <1>1, <1>2, <3>1, ListOthers
  <2>4. ListOf(d)'
    BY <2>1, <2>2 DEF ListOf
  <2> QED
    BY <2>3, <2>4 DEF ListInv
<1>10. CountInv'
  <2>1. CountOf(p, d)'
    <3>1. arena'[p].free_cnt = blocks_per_arena[d] /\ OnList(d)' \cap BlocksOf(p, d) = BlocksOf(p, d)
      OBVIOUS
    <3>2. Cardinality(BlocksOf(p, d)) = blocks_per_arena[d]
      BY BlocksCount
    <3> QED
      BY <3>1, <3>2 DEF CountOf
  <2>2. ASSUME NEW e \in Descs \ {d} PROVE CountOf(p, e)'
    BY <1>3 DEF CountOf
  <2>3. ASSUME NEW e \in Descs, NEW q \in Pages \ {p} PROVE CountOf(q, e)'
    <3>1. OnList(e)' \cap BlocksOf(q, e) = OnList(e) \cap BlocksOf(q, e)
      <4>1. CASE e = d
        <5>1. \A b \in BlocksOf(q, e) : b[1] = q
          BY BlockPages
        <5> QED
          BY <1>6, <1>7, <4>1, <5>1
      <4> QED
        BY <1>2, <4>1
    <3> QED
      BY <1>1, <1>3, <3>1 DEF BlockInv, CountInv, CountOf
  <2> QED
    BY <2>1, <2>2, <2>3 DEF CountInv
<1> QED
  BY <1>8, <1>9, <1>10 DEF BlockInv

(* malloc takes the block b of the arena at p off the list. *)
LEMMA BlockPop ==
  ASSUME BlockInv, NEW t \in Threads, NEW d \in Descs, NEW p \in Pages, NEW b \in OnList(d),
         b[1] = p, b \in Block, IsFiniteSet(OnList(d)),
         arena[p].free_cnt \in Nat,
         arena'[p] = [desc |-> d, free_cnt |-> arena[p].free_cnt - 1],
         \A q \in Pages \ {p} : arena'[q] = arena[q],
         Once(free_list'[d]), OnList(d)' = OnList(d) \ {b},
         \A e \in Descs \ {d} : free_list'[e] = free_list[e],
         Held(t)' = Held(t) \cup {b},
         \A u \in Threads \ {t} : Held(u)' = Held(u),
         \A u \in Threads, q \in Pages : Closing(u, q)' <=> Closing(u, q),
         arena'[p] # NULL
  PROVE  BlockInv' /\ arena[p].free_cnt > 0
<1>1. \A q \in Pages : Open(q)' <=> Open(q)
  BY OpenSame
<1>2. \A e \in Descs \ {d} : OnList(e)' = OnList(e)
  BY DEF OnList
<1>3. ArenaOf(p, d) /\ Open(p) /\ b \in BlocksOf(p, d) /\ \A u \in Threads : b \notin Held(u)
  BY DEF BlockInv, ListInv, ListOf
<1>4. \A e \in Descs, q \in Pages : ArenaOf(q, e)' <=> ArenaOf(q, e)
  BY <1>3 DEF ArenaOf
<1>5. \A c \in Block : c[1] \in Pages
  BY DEF Block
<1>6. b[2] < blocks_per_arena[d]
  BY <1>3, BlockPages
<1>7. d # NULL /\ arena'[p].desc = d /\ arena[p].desc = d /\ arena[p] # NULL
  BY <1>3, Constants DEF ArenaOf
<1>8. HeldInv'
  <2>1. \A u \in Threads : \A c \in Held(u) :
          /\ c \in Block /\ arena[c[1]] # NULL /\ Open(c[1])
          /\ IF arena[c[1]].desc = NULL THEN c[2] = 0 ELSE c[2] < blocks_per_arena[arena[c[1]].desc]
    BY DEF BlockInv, HeldInv
  <2>2. \A u, v \in Threads : \A c \in Held(u) : c \in Held(v) => u = v
    BY DEF BlockInv, HeldInv
  <2>3. \A c \in Block : arena[c[1]] # NULL => arena'[c[1]] # NULL /\ arena'[c[1]].desc = arena[c[1]].desc
    BY <1>5, <1>7
  <2>4. \A u \in Threads : \A c \in Held(u)' : c \in Held(u) \/ (c = b /\ u = t)
    OBVIOUS
  <2>5. ASSUME NEW u \in Threads, NEW c \in Held(u)'
        PROVE  /\ c \in Block /\ arena'[c[1]] # NULL /\ Open(c[1])'
               /\ IF arena'[c[1]].desc = NULL THEN c[2] = 0
                                              ELSE c[2] < blocks_per_arena[arena'[c[1]].desc]
    <3>1. CASE c \in Held(u)
      BY <1>1, <1>5, <2>1, <2>3, <3>1
    <3>2. CASE c = b
      BY <1>1, <1>3, <1>6, <1>7, <3>2
    <3> QED
      BY <2>4, <2>5, <3>1, <3>2
  <2>6. \A u, v \in Threads : \A c \in Held(u)' : c \in Held(v)' => u = v
    BY <1>3, <2>2, <2>4
  <2> QED
    BY <2>5, <2>6 DEF HeldInv
<1>9. ListInv'
  <2>1. ASSUME NEW e \in Descs \ {d} PROVE ListOf(e)'
    <3>1. \A u \in Threads, c \in Block : ArenaOf(c[1], e) => (c \in Held(u)' <=> c \in Held(u))
      BY <1>7 DEF ArenaOf
    <3> QED
      BY <1>1, <1>4, <3>1, ListOthers
  <2>2. \A c \in OnList(d)' : /\ ArenaOf(c[1], d)' /\ Open(c[1])' /\ c \in BlocksOf(c[1], d)
                               /\ \A u \in Threads : c \notin Held(u)'
    <3>1. \A c \in OnList(d) : /\ ArenaOf(c[1], d) /\ Open(c[1]) /\ c \in BlocksOf(c[1], d)
                               /\ \A u \in Threads : c \notin Held(u)
      BY DEF BlockInv, ListInv, ListOf
    <3>2. \A c \in OnList(d) : c[1] \in Pages
      BY <3>1 DEF ArenaOf
    <3> QED
      BY <1>1, <1>4, <3>1, <3>2
  <2>3. \A q \in Pages : ArenaOf(q, d)' /\ Open(q)' =>
          \A c \in BlocksOf(q, d) : c \in OnList(d)' \/ \E u \in Threads : c \in Held(u)'
    <3>1. \A q \in Pages : ArenaOf(q, d) /\ Open(q) =>
            \A c \in BlocksOf(q, d) : c \in OnList(d) \/ \E u \in Threads : c \in Held(u)
      BY DEF BlockInv, ListInv, ListOf
    <3>2. \A u \in Threads : Held(u) \subseteq Held(u)'
      OBVIOUS
    <3> QED
      BY <1>1, <1>4, <3>1, <3>2
  <2>4. ListOf(d)'
    BY <2>2, <2>3 DEF ListOf
  <2> QED
    BY <2>1, <2>4 DEF ListInv
<1> DEFINE S == OnList(d) \cap BlocksOf(p, d)
<1>10. arena[p].free_cnt = Cardinality(S)
  BY <1>3 DEF BlockInv, CountInv, CountOf
<1>11. IsFiniteSet(S) /\ b \in S
  BY <1>3, FS_Subset
<1>12. Cardinality(S \ {b}) = Cardinality(S) - 1 /\ Cardinality(S \ {b}) \in Nat
  <2>1. IsFiniteSet(S \ {b}) /\ Cardinality(S \ {b}) = Cardinality(S) - 1
    BY <1>11, FS_RemoveElement
  <2> QED
    BY <2>1, FS_CardinalityType
<1>13. CountInv'
  <2>1. CountOf(p, d)'
    <3>1. OnList(d)' \cap BlocksOf(p, d) = S \ {b}
      OBVIOUS
    <3>2. arena'[p].free_cnt = Cardinality(S \ {b})
      BY <1>10, <1>12
    <3> QED
      BY <1>1, <1>3, <3>1, <3>2 DEF CountOf
  <2>2. ASSUME NEW e \in Descs \ {d} PROVE CountOf(p, e)'
    BY <1>4, <1>7 DEF CountOf, ArenaOf
  <2>3. ASSUME NEW e \in Descs, NEW q \in Pages \ {p} PROVE CountOf(q, e)'
    <3>1. \A c \in BlocksOf(q, e) : c[1] = q
      BY BlockPages
    <3>2. OnList(e)' \cap BlocksOf(q, e) = OnList(e) \cap BlocksOf(q, e)
      BY <1>2, <3>1
    <3> QED
      BY <1>1, <1>4, <3>2 DEF BlockInv, CountInv, CountOf
  <2> QED
    BY <2>1, <2>2, <2>3 DEF CountInv
<1> QED
  BY <1>8, <1>9, <1>10, <1>12, <1>13 DEF BlockInv

(* free puts the block b of the arena at p on the list. *)
LEMMA BlockFree ==
  ASSUME BlockInv, NEW t \in Threads, NEW d \in Descs, NEW p \in Pages, NEW b \in Held(t),
         b[1] = p, ArenaOf(p, d), IsFiniteSet(OnList(d)),
         arena[p].free_cnt \in Nat,
         arena'[p] = [desc |-> d, free_cnt |-> arena[p].free_cnt + 1],
         \A q \in Pages \ {p} : arena'[q] = arena[q],
         Once(free_list'[d]), OnList(d)' = OnList(d) \cup {b},
         \A e \in Descs \ {d} : free_list'[e] = free_list[e],
         Held(t)' = Held(t) \ {b},
         \A u \in Threads \ {t} : Held(u)' = Held(u),
         \A u \in Threads, q \in Pages : Closing(u, q)' <=> Closing(u, q),
         arena'[p] # NULL
  PROVE  BlockInv'
<1>1. \A q \in Pages : Open(q)' <=> Open(q)
  BY OpenSame
<1>2. \A e \in Descs \ {d} : OnList(e)' = OnList(e)
  BY DEF OnList
<1>3. d # NULL /\ arena'[p].desc = d /\ arena[p].desc = d /\ arena[p] # NULL
  BY Constants DEF ArenaOf
<1>4. Open(p) /\ b \in Block /\ b \in BlocksOf(p, d)
  <2>1. Open(p) /\ b \in Block /\ b[2] < blocks_per_arena[d]
    BY <1>3 DEF BlockInv, HeldInv
  <2> QED
    BY <2>1, BlockPages
<1>5. \A e \in Descs, q \in Pages : ArenaOf(q, e)' <=> ArenaOf(q, e)
  BY <1>3 DEF ArenaOf
<1>6. \A c \in Block : c[1] \in Pages
  BY DEF Block
<1>7. \A u \in Threads : \A c \in Held(u) : c = b => u = t
  BY DEF BlockInv, HeldInv
<1>8. HeldInv'
  <2>1. \A c \in Block : arena[c[1]] # NULL => arena'[c[1]] # NULL /\ arena'[c[1]].desc = arena[c[1]].desc
    BY <1>3, <1>6
  <2>2. \A u \in Threads : Held(u)' \subseteq Held(u)
    OBVIOUS
  <2>3. ASSUME NEW u \in Threads, NEW c \in Held(u)'
        PROVE  /\ c \in Block /\ arena'[c[1]] # NULL /\ Open(c[1])'
               /\ IF arena'[c[1]].desc = NULL THEN c[2] = 0
                                              ELSE c[2] < blocks_per_arena[arena'[c[1]].desc]
    <3>1. /\ c \in Block /\ arena[c[1]] # NULL /\ Open(c[1])
          /\ IF arena[c[1]].desc = NULL THEN c[2] = 0 ELSE c[2] < blocks_per_arena[arena[c[1]].desc]
      BY <2>2, <2>3 DEF BlockInv, HeldInv
    <3> QED
      BY <1>1, <1>6, <2>1, <3>1
  <2>4. \A u, v \in Threads : \A c \in Held(u)' : c \in Held(v)' => u = v
    BY <2>2 DEF BlockInv, HeldInv
  <2> QED
    BY <2>3, <2>4 DEF HeldInv
<1>9. ListInv'
  <2>1. ASSUME NEW e \in Descs \ {d} PROVE ListOf(e)'
    <3>1. \A u \in Threads, c \in Block : ArenaOf(c[1], e) => (c \in Held(u)' <=> c \in Held(u))
      BY <1>3 DEF ArenaOf
    <3> QED
      BY <1>1, <1>5, <3>1, ListOthers
  <2>2. ASSUME NEW c \in OnList(d)'
        PROVE  /\ ArenaOf(c[1], d)' /\ Open(c[1])' /\ c \in BlocksOf(c[1], d)
               /\ \A u \in Threads : c \notin Held(u)'
    <3>1. CASE c \in OnList(d)
      <4>1. /\ ArenaOf(c[1], d) /\ Open(c[1]) /\ c \in BlocksOf(c[1], d)
            /\ \A u \in Threads : c \notin Held(u)
        BY <3>1 DEF BlockInv, ListInv, ListOf
      <4>2. c[1] \in Pages
        BY <4>1 DEF ArenaOf
      <4> QED
        BY <1>1, <1>5, <4>1, <4>2
    <3>2. CASE c = b
      BY <1>1, <1>4, <1>5, <1>7, <3>2
    <3> QED
      BY <2>2, <3>1, <3>2
  <2>3. \A q \in Pages : ArenaOf(q, d)' /\ Open(q)' =>
          \A c \in BlocksOf(q, d) : c \in OnList(d)' \/ \E u \in Threads : c \in Held(u)'
    <3>1. \A q \in Pages : ArenaOf(q, d) /\ Open(q) =>
            \A c \in BlocksOf(q, d) : c \in OnList(d) \/ \E u \in Threads : c \in Held(u)
      BY DEF BlockInv, ListInv, ListOf
    <3>2. \A u \in Threads : Held(u) \subseteq Held(u)' \cup {b}
      OBVIOUS
    <3> QED
      BY <1>1, <1>5, <3>1, <3>2
  <2>4. ListOf(d)'
    BY <2>2, <2>3 DEF ListOf
  <2> QED
    BY <2>1, <2>4 DEF ListInv
<1> DEFINE S == OnList(d) \cap BlocksOf(p, d)
<1>10. arena[p].free_cnt = Cardinality(S)
  BY <1>4 DEF BlockInv, CountInv, CountOf
<1>11. IsFiniteSet(S) /\ b \notin S
  <2>1. b \notin OnList(d)
    BY DEF BlockInv, ListInv, ListOf
  <2> QED
    BY <2>1, FS_Subset
<1>12. Cardinality(S \cup {b}) = Cardinality(S) + 1
  BY <1>11, FS_AddElement
<1>13. CountInv'
  <2>1. CountOf(p, d)'
    <3>1. OnList(d)' \cap BlocksOf(p, d) = S \cup {b}
      BY <1>4
    <3>2. arena'[p].free_cnt = Cardinality(S \cup {b})
      BY <1>10, <1>12
    <3> QED
      BY <1>1, <1>4, <3>1, <3>2 DEF CountOf
  <2>2. ASSUME NEW e \in Descs \ {d} PROVE CountOf(p, e)'
    BY <1>3, <1>5 DEF CountOf, ArenaOf
  <2>3. ASSUME NEW e \in Descs, NEW q \in Pages \ {p} PROVE CountOf(q, e)'
    <3>1. \A c \in BlocksOf(q, e) : c[1] = q
      BY BlockPages
    <3>2. OnList(e)' \cap BlocksOf(q, e) = OnList(e) \cap BlocksOf(q, e)
      BY <1>2, <3>1
    <3> QED
      BY <1>1, <1>5, <3>2 DEF BlockInv, CountInv, CountOf
  <2> QED
    BY <2>1, <2>2, <2>3 DEF CountInv
<1> QED
  BY <1>8, <1>9, <1>13 DEF BlockInv

(* When free_cnt reaches the number of blocks, b is the last one in use. *)
LEMMA ArenaFull ==
  ASSUME BlockInv, NEW t \in Threads, NEW d \in Descs, NEW p \in Pages, NEW b \in Held(t),
         b[1] = p, ArenaOf(p, d), IsFiniteSet(OnList(d)),
         arena[p].free_cnt \in Nat, arena[p].free_cnt + 1 >= blocks_per_arena[d]
  PROVE  BlocksOf(p, d) \subseteq OnList(d) \cup {b} /\ arena[p].free_cnt + 1 = blocks_per_arena[d]
<1> DEFINE S == OnList(d) \cap BlocksOf(p, d)
<1>1. d # NULL /\ arena[p].desc = d /\ arena[p] # NULL
  BY Constants DEF ArenaOf
<1>2. Open(p) /\ b \in BlocksOf(p, d)
  <2>1. Open(p) /\ b \in Block /\ b[2] < blocks_per_arena[d]
    BY <1>1 DEF BlockInv, HeldInv
  <2> QED
    BY <2>1, BlockPages
<1>3. arena[p].free_cnt = Cardinality(S)
  BY <1>2 DEF BlockInv, CountInv, CountOf
<1>4. IsFiniteSet(S) /\ b \notin S
  <2>1. b \notin OnList(d)
    BY DEF BlockInv, ListInv, ListOf
  <2> QED
    BY <2>1, FS_Subset
<1>5. Cardinality(S \cup {b}) = Cardinality(S) + 1
  BY <1>4, FS_AddElement
<1>6. /\ S \cup {b} \subseteq BlocksOf(p, d) /\ IsFiniteSet(BlocksOf(p, d))
      /\ Cardinality(BlocksOf(p, d)) = blocks_per_arena[d] /\ blocks_per_arena[d] \in Nat
  BY <1>2, BlocksCount, Constants
<1>7. Cardinality(S \cup {b}) <= Cardinality(BlocksOf(p, d))
  BY <1>6, FS_Subset
<1>8. Cardinality(S \cup {b}) = Cardinality(BlocksOf(p, d))
  BY <1>3, <1>5, <1>6, <1>7
<1>9. S \cup {b} = BlocksOf(p, d)
  BY <1>6, <1>8, FS_Subset
<1> QED
  BY <1>3, <1>5, <1>6, <1>8, <1>9

(* free takes the blocks of the full arena at p off the list. *)
LEMMA BlockClose ==
  ASSUME BlockInv, NEW t \in Threads, NEW d \in Descs, NEW p \in Pages, NEW b \in Held(t),
         b[1] = p, ArenaOf(p, d), BlocksOf(p, d) \subseteq OnList(d) \cup {b},
         arena'[p] = [desc |-> d, free_cnt |-> blocks_per_arena[d]],
         \A q \in Pages \ {p} : arena'[q] = arena[q],
         Once(free_list'[d]), OnList(d)' = OnList(d) \ BlocksOf(p, d),
         \A e \in Descs \ {d} : free_list'[e] = free_list[e],
         Held(t)' = Held(t) \ {b},
         \A u \in Threads \ {t} : Held(u)' = Held(u),
         \A u \in Threads, q \in Pages : Closing(u, q)' <=> Closing(u, q) \/ (u = t /\ q = p),
         arena'[p] # NULL
  PROVE  BlockInv'
<1>1. ~Open(p)' /\ \A q \in Pages \ {p} : Open(q)' <=> Open(q)
  BY DEF Open
<1>2. \A e \in Descs \ {d} : OnList(e)' = OnList(e)
  BY DEF OnList
<1>3. d # NULL /\ arena'[p].desc = d /\ arena[p].desc = d /\ arena[p] # NULL
  BY Constants DEF ArenaOf
<1>4. \A e \in Descs, q \in Pages : ArenaOf(q, e)' <=> ArenaOf(q, e)
  BY <1>3 DEF ArenaOf
<1>5. \A c \in Block : c[1] \in Pages
  BY DEF Block
<1>6. \A u \in Threads : \A c \in Held(u) : c[1] = p => c = b /\ u = t
  <2>1. \A u \in Threads : \A c \in Held(u) : c = b => u = t
    BY DEF BlockInv, HeldInv
  <2>2. ASSUME NEW u \in Threads, NEW c \in Held(u), c[1] = p PROVE c = b
    <3>1. c \in Block /\ c[2] < blocks_per_arena[d]
      BY <1>3, <2>2 DEF BlockInv, HeldInv
    <3>2. c \in BlocksOf(p, d)
      BY <2>2, <3>1, BlockPages
    <3>3. c \notin OnList(d)
      BY DEF BlockInv, ListInv, ListOf
    <3> QED
      BY <3>2, <3>3
  <2> QED
    BY <2>1, <2>2
<1>7. \A u \in Threads : \A c \in Held(u)' : c \in Held(u) /\ c[1] # p
  BY <1>6
<1>8. HeldInv'
  <2>1. ASSUME NEW u \in Threads, NEW c \in Held(u)'
        PROVE  /\ c \in Block /\ arena'[c[1]] # NULL /\ Open(c[1])'
               /\ IF arena'[c[1]].desc = NULL THEN c[2] = 0
                                              ELSE c[2] < blocks_per_arena[arena'[c[1]].desc]
    <3>1. /\ c \in Block /\ arena[c[1]] # NULL /\ Open(c[1])
          /\ IF arena[c[1]].desc = NULL THEN c[2] = 0 ELSE c[2] < blocks_per_arena[arena[c[1]].desc]
      BY <1>7, <2>1 DEF BlockInv, HeldInv
    <3>2. c[1] \in Pages \ {p}
      BY <1>5, <1>7, <2>1, <3>1
    <3> QED
      BY <1>1, <3>1, <3>2
  <2>2. \A u, v \in Threads : \A c \in Held(u)' : c \in Held(v)' => u = v
    BY <1>7 DEF BlockInv, HeldInv
  <2> QED
    BY <2>1, <2>2 DEF HeldInv
<1>9. ListInv'
  <2>1. ASSUME NEW e \in Descs \ {d} PROVE ListOf(e)'
    <3>1. \A u \in Threads, c \in Block : ArenaOf(c[1], e) => (c \in Held(u)' <=> c \in Held(u))
      BY <1>3 DEF ArenaOf
    <3>2. \A q \in Pages : ArenaOf(q, e) => (Open(q)' <=> Open(q))
      BY <1>1, <1>3 DEF ArenaOf
    <3> QED
      BY <1>4, <3>1, <3>2, ListOthers
  <2>2. ASSUME NEW c \in OnList(d)'
        PROVE  /\ ArenaOf(c[1], d)' /\ Open(c[1])' /\ c \in BlocksOf(c[1], d)
               /\ \A u \in Threads : c \notin Held(u)'
    <3>1. /\ ArenaOf(c[1], d) /\ Open(c[1]) /\ c \in BlocksOf(c[1], d)
          /\ \A u \in Threads : c \notin Held(u)
      BY <2>2 DEF BlockInv, ListInv, ListOf
    <3>2. c[1] \in Pages \ {p}
      BY <2>2, <3>1 DEF ArenaOf
    <3> QED
      BY <1>1, <1>4, <1>7, <3>1, <3>2
  <2>3. ASSUME NEW q \in Pages, ArenaOf(q, d)', Open(q)', NEW c \in BlocksOf(q, d)
        PROVE  c \in OnList(d)' \/ \E u \in Threads : c \in Held(u)'
    <3>1. q # p /\ ArenaOf(q, d) /\ Open(q) /\ c[1] # p
      BY <1>1, <1>4, <2>3, BlockPages
    <3>2. c \in OnList(d) \/ \E u \in Threads : c \in Held(u)
      BY <3>1 DEF BlockInv, ListInv, ListOf
    <3>3. c \notin BlocksOf(p, d) /\ c # b
      BY <3>1, BlockPages
    <3> QED
      BY <3>2, <3>3
  <2>4. ListOf(d)'
    BY <2>2, <2>3 DEF ListOf
  <2> QED
    BY <2>1, <2>4 DEF ListInv
<1>10. CountInv'
  <2>1. CountOf(p, d)'
    BY <1>1 DEF CountOf
  <2>2. ASSUME NEW e \in Descs \ {d} PROVE CountOf(p, e)'
    BY <1>3, <1>4 DEF CountOf, ArenaOf
  <2>3. ASSUME NEW e \in Descs, NEW q \in Pages \ {p} PROVE CountOf(q, e)'
    <3>1. \A c \in BlocksOf(q, e) : c[1] = q
      BY BlockPages
    <3>2. \A c \in BlocksOf(p, d) : c[1] = p
      BY BlockPages
    <3>3. OnList(e)' \cap BlocksOf(q, e) = OnList(e) \cap BlocksOf(q, e)
      BY <1>2, <3>1, <3>2
    <3> QED
      BY <1>1, <1>4, <3>3 DEF BlockInv, CountInv, CountOf
  <2> QED
    BY <2>1, <2>2, <2>3 DEF CountInv
<1> QED
  BY <1>8, <1>9, <1>10 DEF BlockInv

(* The arena at p goes, and no thread and no list has a block of it left. *)
LEMMA BlockGone ==
  ASSUME BlockInv, NEW p \in Pages, arena'[p] = NULL,
         \A q \in Pages \ {p} : arena'[q] = arena[q],
         \A e \in Descs : free_list'[e] = free_list[e],
         \A e \in Descs : \A c \in OnList(e) : c[1] # p,
         \A u \in Threads : \A c : c \in Held(u)' <=> c \in Held(u) /\ c[1] # p,
         \A q \in Pages \ {p} : Open(q)' <=> Open(q)
  PROVE  BlockInv'
<1>1. \A e \in Descs : OnList(e)' = OnList(e)
  BY DEF OnList
<1>2. \A e \in Descs : ~ArenaOf(p, e)' /\ \A q \in Pages \ {p} : ArenaOf(q, e)' <=> ArenaOf(q, e)
  BY DEF ArenaOf
<1>3. \A c \in Block : c[1] \in Pages
  BY DEF Block
<1>4. HeldInv'
  BY <1>3 DEF BlockInv, HeldInv
<1>5. ListInv'
  <2>1. ASSUME NEW e \in Descs, NEW c \in OnList(e)'
        PROVE  /\ ArenaOf(c[1], e)' /\ Open(c[1])' /\ c \in BlocksOf(c[1], e)
               /\ \A u \in Threads : c \notin Held(u)'
    <3>1. /\ ArenaOf(c[1], e) /\ Open(c[1]) /\ c \in BlocksOf(c[1], e)
          /\ \A u \in Threads : c \notin Held(u)
      BY <1>1, <2>1 DEF BlockInv, ListInv, ListOf
    <3>2. c[1] \in Pages \ {p}
      BY <1>1, <2>1, <3>1 DEF ArenaOf
    <3> QED
      BY <1>2, <3>1, <3>2
  <2>2. ASSUME NEW e \in Descs, NEW q \in Pages, ArenaOf(q, e)', Open(q)', NEW c \in BlocksOf(q, e)
        PROVE  c \in OnList(e)' \/ \E u \in Threads : c \in Held(u)'
    <3>1. q # p /\ ArenaOf(q, e) /\ Open(q) /\ c[1] # p
      BY <1>2, <2>2, BlockPages
    <3>2. c \in OnList(e) \/ \E u \in Threads : c \in Held(u)
      BY <3>1 DEF BlockInv, ListInv, ListOf
    <3> QED
      BY <1>1, <3>1, <3>2
  <2>3. \A e \in Descs : Once(free_list'[e])
    BY DEF BlockInv, ListInv, ListOf
  <2> QED
    BY <2>1, <2>2, <2>3 DEF ListInv, ListOf
<1>6. CountInv'
  <2>1. ASSUME NEW e \in Descs PROVE CountOf(p, e)'
    BY <1>2 DEF CountOf
  <2>2. ASSUME NEW e \in Descs, NEW q \in Pages \ {p} PROVE CountOf(q, e)'
    BY <1>1, <1>2 DEF BlockInv, CountInv, CountOf
  <2> QED
    BY <2>1, <2>2 DEF CountInv
<1> QED
  BY <1>4, <1>5, <1>6 DEF BlockInv

(* malloc makes the page p the first of a big block. *)
LEMMA BlockBig ==
  ASSUME BlockInv, NEW t \in Threads, NEW p \in Pages, arena[p] = NULL, Open(p),
         arena'[p] # NULL, arena'[p].desc = NULL,
         \A q \in Pages \ {p} : arena'[q] = arena[q],
         free_list' = free_list,
         Held(t)' = Held(t) \cup {<<p, 0>>},
         \A u \in Threads \ {t} : Held(u)' = Held(u),
         \A u \in Threads, q \in Pages : Closing(u, q)' <=> Closing(u, q)
  PROVE  BlockInv'
<1>1. \A q \in Pages : Open(q)' <=> Open(q)
  BY OpenSame
<1>2. \A e \in Descs : OnList(e)' = OnList(e)
  BY DEF OnList
<1>3. /\ \A e \in Descs : ~ArenaOf(p, e)' /\ ~ArenaOf(p, e)
      /\ \A e \in Descs, q \in Pages : ArenaOf(q, e)' <=> ArenaOf(q, e)
  BY Constants DEF ArenaOf
<1>4. \A u \in Threads : \A c \in Held(u) : c[1] \in Pages \ {p}
  BY DEF BlockInv, HeldInv, Block
<1>5. <<p, 0>> \in Block /\ <<p, 0>>[1] = p /\ <<p, 0>>[2] = 0
  BY DEF Block
<1>6. HeldInv'
  <2>1. ASSUME NEW u \in Threads, NEW c \in Held(u)'
        PROVE  /\ c \in Block /\ arena'[c[1]] # NULL /\ Open(c[1])'
               /\ IF arena'[c[1]].desc = NULL THEN c[2] = 0
                                              ELSE c[2] < blocks_per_arena[arena'[c[1]].desc]
    <3>1. CASE c \in Held(u)
      BY <1>1, <1>4, <3>1 DEF BlockInv, HeldInv
    <3>2. CASE c = <<p, 0>>
      BY <1>1, <1>5, <3>2
    <3> QED
      BY <2>1, <3>1, <3>2
  <2>2. \A u, v \in Threads : \A c \in Held(u)' : c \in Held(v)' => u = v
    <3>1. \A u, v \in Threads : \A c \in Held(u) : c \in Held(v) => u = v
      BY DEF BlockInv, HeldInv
    <3>2. \A u \in Threads : \A c \in Held(u) : c # <<p, 0>>
      BY <1>4, <1>5
    <3>3. \A u \in Threads : \A c \in Held(u)' : c \in Held(u) \/ (c = <<p, 0>> /\ u = t)
      OBVIOUS
    <3> QED
      BY <3>1, <3>2, <3>3
  <2> QED
    BY <2>1, <2>2 DEF HeldInv
<1>7. ListInv'
  <2>1. ASSUME NEW e \in Descs PROVE ListOf(e)'
    <3>1. \A u \in Threads, c \in Block : ArenaOf(c[1], e) => (c \in Held(u)' <=> c \in Held(u))
      BY <1>3, <1>5
    <3> QED
      BY <1>1, <1>3, <3>1, ListOthers
  <2> QED
    BY <2>1 DEF ListInv
<1>8. CountInv'
  <2>1. ASSUME NEW e \in Descs, NEW q \in Pages PROVE CountOf(q, e)'
    <3>1. CASE q = p
      BY <1>3, <3>1 DEF CountOf
    <3>2. CASE q # p
      BY <1>1, <1>2, <1>3, <3>2 DEF BlockInv, CountInv, CountOf
    <3> QED
      BY <3>1, <3>2
  <2> QED
    BY <2>1 DEF CountInv
<1> QED
  BY <1>6, <1>7, <1>8 DEF BlockInv

-----------------------------------------------------------------------------
(* A step of one thread and the others. *)

(* Nothing of thread u changes. *)
Same(u) ==
  /\ pc'[u] = pc[u] /\ req'[u] = req[u] /\ page_idx'[u] = page_idx[u]
  /\ blocks'[u] = blocks[u] /\ groups'[u] = groups[u]

LEMMA SameThread ==
  ASSUME NEW u \in Threads, Same(u)
  PROVE  /\ Held(u)' = Held(u) /\ Pend(u)' = Pend(u)
         /\ \A p : Closing(u, p)' <=> Closing(u, p)
         /\ ReqOf(u) => ReqOf(u)'
         /\ used_map' \subseteq used_map /\ ScanOf(u) => ScanOf(u)'
         /\ free_list' = free_list /\ EmptyOf(u) => EmptyOf(u)'
         /\ arena' = arena /\ GiveOf(u) => GiveOf(u)'
<1>1. Held(u)' = Held(u)
  BY DEF Same, Held
<1>2. Pend(u)' = Pend(u)
  BY DEF Same, Pend
<1>3. \A p : Closing(u, p)' <=> Closing(u, p)
  BY DEF Same, Closing
<1>4. ASSUME ReqOf(u) PROVE ReqOf(u)'
  BY <1>4 DEF Same, ReqOf
<1>5. ASSUME used_map' \subseteq used_map, ScanOf(u) PROVE ScanOf(u)'
  BY <1>5 DEF Same, ScanOf, InPool, ContainsUsed
<1>6. ASSUME free_list' = free_list, EmptyOf(u) PROVE EmptyOf(u)'
  BY <1>6 DEF Same, EmptyOf
<1>7. ASSUME arena' = arena, GiveOf(u) PROVE GiveOf(u)'
  BY <1>7 DEF Same, GiveOf, ArenaOf
<1> QED
  BY <1>1, <1>2, <1>3, <1>4, <1>5, <1>6, <1>7

(* The locks that a thread has while another one moves. *)
LEMMA LockKept ==
  ASSUME NEW u \in Threads, LockOf(u), Same(u), arena' = arena,
         lock'["pool"] = u <=> lock["pool"] = u,
         \A d \in Descs : lock'[d] = u <=> lock[d] = u
  PROVE  LockOf(u)'
<1>1. pc'[u] = pc[u] /\ req'[u] = req[u]
  BY DEF Same
<1>2. (lock["pool"] = u)' <=> (pc[u] \in {"scan", "flip"})'
  BY <1>1 DEF LockOf
<1>3. ASSUME NEW d \in Descs
      PROVE  lock'[d] = u <=> \/ pc'[u] \in InDesc /\ req'[u].desc = d
                              \/ pc'[u] = "freepage" /\ arena'[req'[u].old[1]].desc = d
  <2>1. lock[d] = u <=> \/ pc[u] \in InDesc /\ req[u].desc = d
                        \/ pc[u] = "freepage" /\ arena[req[u].old[1]].desc = d
    BY DEF LockOf
  <2> QED
    BY <1>1, <2>1
<1> QED
  BY <1>2, <1>3 DEF LockOf

(* The steps of thread t that leave the pages and the blocks where they are. *)
LEMMA QuietStep ==
  ASSUME MallocInv, NEW t \in Threads, \A u \in Threads \ {t} : Same(u),
         UNCHANGED <<used_map, arena, free_list, groups>>,
         Held(t)' = Held(t),
         pc[t] \notin {"arena", "big", "freepage", "pop"}, pc'[t] \notin {"arena", "big", "freepage"},
         TypeOK', LockInv', ReqOf(t)', ScanOf(t)', EmptyOf(t)', GiveOf(t)'
  PROVE  MallocInv'
<1>1. ReqInv'
  BY SameThread DEF MallocInv, ReqInv
<1>2. ScanInv'
  BY SameThread DEF MallocInv, ScanInv
<1>3. EmptyInv'
  BY SameThread DEF MallocInv, EmptyInv
<1>4. GiveInv'
  BY SameThread DEF MallocInv, GiveInv
<1>5. \A u \in Threads : Held(u)' = Held(u) /\ Pend(u)' = Pend(u)
  <2>1. Pend(t)' = {} /\ Pend(t) = {}
    BY DEF Pend
  <2> QED
    BY <2>1, SameThread
<1>6. \A u \in Threads, p \in Pages : Closing(u, p)' <=> Closing(u, p)
  <2>1. \A p \in Pages : ~Closing(t, p)' /\ ~Closing(t, p)
    BY DEF Closing
  <2> QED
    BY <2>1, SameThread
<1>7. \A p \in Pages : ArenaAt(p)' = ArenaAt(p)
  BY DEF ArenaAt
<1>8. PageInv'
  BY <1>5, <1>7, PageKept DEF MallocInv
<1>9. BlockInv'
  BY <1>5, <1>6, BlockKept DEF MallocInv
<1>10. BigInv'
  BY DEF MallocInv, BigInv
<1>11. FullInv'
  <2>1. ASSUME NEW d \in Descs, NEW p \in Pages, ArenaOf(p, d)', Open(p)',
               arena'[p].free_cnt = blocks_per_arena[d]
        PROVE  \E u \in Threads : pc'[u] = "pop" /\ req'[u].desc = d /\ Head(free_list'[d])[1] = p
    <3>1. ArenaOf(p, d) /\ Open(p)
      BY <1>6, <2>1, OpenSame DEF ArenaOf
    <3>2. PICK u \in Threads : pc[u] = "pop" /\ req[u].desc = d /\ Head(free_list[d])[1] = p
      BY <2>1, <3>1 DEF MallocInv, FullInv
    <3> QED
      BY <3>2 DEF Same
  <2> QED
    BY <2>1 DEF FullInv
<1> QED
  BY <1>1, <1>2, <1>3, <1>4, <1>8, <1>9, <1>10, <1>11 DEF MallocInv

(* The arena of the block that a thread in free gives back. *)
LEMMA OldArena ==
  ASSUME MallocInv, NEW u \in Threads, pc[u] \in {"free", "freebig", "freepage"}
  PROVE  /\ req[u].old \in Block /\ req[u].old[1] \in Pages /\ arena[req[u].old[1]] # NULL
         /\ pc[u] \in {"free", "freebig"} => req[u].old \in Held(u)
<1>1. \A b \in Block : b[1] \in Pages
  BY DEF Block
<1>2. CASE pc[u] = "freepage"
  BY <1>1, <1>2 DEF MallocInv, GiveInv, GiveOf, ArenaOf
<1>3. CASE pc[u] # "freepage"
  <2>1. req[u].old \in Held(u)
    BY <1>3 DEF Held
  <2> QED
    BY <1>1, <1>3, <2>1 DEF MallocInv, BlockInv, HeldInv
<1> QED
  BY <1>2, <1>3

(* Only the holder of a descriptor's lock is at work with it. *)
LEMMA OneInDesc ==
  ASSUME LockInv, NEW t \in Threads, NEW u \in Threads, t # u, NEW d \in Descs, lock[d] = t
  PROVE  /\ ~(pc[u] \in InDesc /\ req[u].desc = d)
         /\ ~(pc[u] = "freepage" /\ arena[req[u].old[1]].desc = d)
BY DEF LockInv, LockOf

(* A thread that a step of another leaves alone. *)
LEMMA OtherThread ==
  ASSUME NEW u \in Threads, Same(u), ReqOf(u), LockOf(u), GiveOf(u),
         \A l \in Descs \cup {"pool"} : lock'[l] = u <=> lock[l] = u,
         pc[u] \in {"free", "freebig", "freepage"} =>
           arena'[req[u].old[1]] # NULL /\ arena'[req[u].old[1]].desc = arena[req[u].old[1]].desc
  PROVE  ReqOf(u)' /\ LockOf(u)' /\ GiveOf(u)'
<1>1. ReqOf(u)'
  BY SameThread
<1>2. LockOf(u)'
  BY DEF Same, LockOf
<1>3. GiveOf(u)'
  BY DEF Same, GiveOf, ArenaOf
<1> QED
  BY <1>1, <1>2, <1>3

(* An arena is one of the pages it has. *)
LEMMA ArenaHere ==
  ASSUME TypeOK, BigInv, NEW p \in Pages, arena[p] # NULL
  PROVE  p \in ArenaAt(p)
<1>1. p \in Nat /\ arena[p].free_cnt \in Nat
  BY Constants DEF TypeOK
<1>2. arena[p].desc = NULL => arena[p].free_cnt > 0
  BY DEF BigInv
<1>3. p \in Group(p, 1) /\ (arena[p].free_cnt > 0 => p \in Group(p, arena[p].free_cnt))
  BY <1>1 DEF Group
<1> QED
  BY <1>2, <1>3 DEF ArenaAt

(* The pages that palloc has marked for a thread hold no arena. *)
LEMMA PendFresh ==
  ASSUME MallocInv, NEW t \in Threads, pc[t] \in {"arena", "big"}
  PROVE  /\ page_idx[t] \in Pages /\ arena[page_idx[t]] = NULL /\ Open(page_idx[t])
         /\ Pend(t) = Group(page_idx[t], req[t].cnt)
<1> DEFINE p == page_idx[t]
<1>1. Pend(t) = Group(p, req[t].cnt)
  BY DEF Pend
<1>2. p \in Nat /\ req[t].cnt \in Nat /\ req[t].cnt > 0
  BY Constants DEF MallocInv, TypeOK, Requests, ReqInv, ReqOf
<1>3. p \in Pend(t)
  BY <1>1, <1>2 DEF Group
<1>4. p \in used_map /\ p \in Pages
  BY <1>3 DEF MallocInv, PageInv, PagesUsed, TypeOK
<1>5. p \notin ArenaAt(p)
  BY <1>3, <1>4 DEF MallocInv, PageInv, PagesApart
<1>6. arena[p] = NULL
  BY <1>4, <1>5, ArenaHere DEF MallocInv
<1>7. Open(p)
  BY <1>6, OldArena DEF Open, Closing
<1> QED
  BY <1>1, <1>4, <1>6, <1>7

(* The end of malloc. *)
LEMMA GotFacts ==
  ASSUME MallocInv, NEW t \in Threads, pc[t] \in {"pop", "big"}, NEW b \in Block,
         b \notin Held(t), Got(t, b), UNCHANGED groups, page_idx'[t] = 0 \/ UNCHANGED page_idx,
         \A u \in Threads \ {t} : page_idx'[u] = page_idx[u]
  PROVE  /\ \A u \in Threads \ {t} : Same(u)
         /\ blocks' \in [Threads -> SUBSET (Pages \X Nat)]
         /\ req' \in [Threads -> Requests]
         /\ pc' \in [Threads -> {"run", "desc", "pool", "scan", "flip", "arena", "pop", "big",
                                 "free", "freepage", "freebig"}]
         /\ Held(t)' = Held(t) \cup {b}
         /\ pc'[t] \in {"run", "free", "freebig"}
         /\ req'[t].desc = NULL /\ req'[t].old = req[t].old
         /\ ReqOf(t)'
         /\ pc'[t] # "run" => /\ req[t].old \in Block /\ req[t].old \notin blocks'[t]
                              /\ req[t].old[1] \in Pages /\ arena[req[t].old[1]] # NULL
                              /\ pc'[t] = FreeAt(req[t].old)
<1> DEFINE old == req[t].old
<1>0. TypeOK /\ ReqOf(t) /\ HeldInv
  BY DEF MallocInv, ReqInv, BlockInv
<1>1. /\ blocks'[t] = (blocks[t] \cup {b}) \ {old}
      /\ req'[t] = [NoReq EXCEPT !.old = old]
      /\ pc'[t] = IF old = NULL THEN "run" ELSE FreeAt(old)
      /\ \A u \in Threads \ {t} : Same(u)
  BY <1>0 DEF Got, TypeOK, Same
<1>2. req'[t] = [desc |-> NULL, cnt |-> 0, raw |-> FALSE, old |-> old]
  BY <1>1 DEF NoReq
<1>3. FreeAt(old) \in {"free", "freebig"}
  BY DEF FreeAt
<1>4. Held(t) = blocks[t] /\ (old # NULL => old \in blocks[t])
  BY <1>0 DEF Held, ReqOf, InCall, InDesc
<1>5. \A c \in blocks[t] : c \in Block /\ c[1] \in Pages /\ arena[c[1]] # NULL /\ c # NULL
  BY <1>0, <1>4, Constants DEF HeldInv, Block
<1>6. blocks' \in [Threads -> SUBSET (Pages \X Nat)]
  BY <1>0 DEF Got, TypeOK, Block
<1>7. req' \in [Threads -> Requests]
  <2>1. req'[t] \in Requests
    <3>1. 0 \in 0 .. MaxGroup /\ old \in {NULL} \cup (Pages \X Nat)
      BY <1>4, <1>5, Constants DEF Block
    <3> QED
      BY <1>2, <3>1 DEF Requests
  <2>2. PICK s : req' = [req EXCEPT ![t] = s]
    BY DEF Got
  <2>3. s = req'[t]
    BY <1>0, <2>2 DEF TypeOK
  <2> QED
    BY <1>0, <2>1, <2>2, <2>3 DEF TypeOK
<1>8. pc' \in [Threads -> {"run", "desc", "pool", "scan", "flip", "arena", "pop", "big",
                            "free", "freepage", "freebig"}]
  BY <1>0, <1>3 DEF Got, TypeOK
<1>9. Held(t)' = Held(t) \cup {b}
  <2>1. CASE old = NULL
    <3>1. pc'[t] = "run" /\ b # NULL
      BY <1>1, <2>1, Constants
    <3>2. blocks'[t] = blocks[t] \cup {b}
      BY <1>1, <1>5, <2>1, <3>1
    <3> QED
      BY <1>4, <3>1, <3>2 DEF Held
  <2>2. CASE old # NULL
    <3>1. pc'[t] \in {"free", "freebig"} /\ req'[t].old = old
      BY <1>1, <1>2, <1>3, <2>2
    <3>2. Held(t)' = blocks'[t] \cup {old}
      BY <3>1 DEF Held
    <3> QED
      BY <1>1, <1>4, <2>2, <3>2
  <2> QED
    BY <2>1, <2>2
<1>10. ReqOf(t)'
  <2>1. req'[t].raw = FALSE /\ req'[t].desc = NULL /\ req'[t].old = old
    BY <1>2
  <2>2. CASE old = NULL
    <3>1. pc'[t] = "run" /\ req'[t] = NoReq
      BY <1>1, <1>2, <2>2 DEF NoReq
    <3> QED
      BY <2>1, <3>1 DEF ReqOf, InCall, InDesc
  <2>3. CASE old # NULL
    <3>1. pc'[t] \in {"free", "freebig"}
      BY <1>1, <1>3, <2>3
    <3> QED
      BY <2>1, <2>3, <3>1 DEF ReqOf, InCall, InDesc
  <2> QED
    BY <2>2, <2>3
<1>11. pc'[t] \in {"run", "free", "freebig"} /\ req'[t].desc = NULL /\ req'[t].old = old
  BY <1>1, <1>2, <1>3
<1>12. ASSUME pc'[t] # "run"
       PROVE  /\ old \in Block /\ old \notin blocks'[t] /\ old[1] \in Pages
              /\ arena[old[1]] # NULL /\ pc'[t] = FreeAt(old)
  BY <1>1, <1>4, <1>5, <1>12
<1> QED
  BY <1>1, <1>6, <1>7, <1>8, <1>9, <1>10, <1>11, <1>12

(* The arenas that threads in free are at keep their descriptor. *)
LEMMA OthersKept ==
  ASSUME MallocInv, NEW t \in Threads, \A u \in Threads \ {t} : Same(u),
         \A u \in Threads \ {t}, l \in Descs \cup {"pool"} : lock'[l] = u <=> lock[l] = u,
         \A q \in Pages : arena[q] # NULL => arena'[q] # NULL /\ arena'[q].desc = arena[q].desc
  PROVE  \A u \in Threads \ {t} : ReqOf(u)' /\ LockOf(u)' /\ GiveOf(u)'
<1> SUFFICES ASSUME NEW u \in Threads \ {t} PROVE ReqOf(u)' /\ LockOf(u)' /\ GiveOf(u)'
  OBVIOUS
<1>1. ReqOf(u) /\ LockOf(u) /\ GiveOf(u)
  BY DEF MallocInv, ReqInv, LockInv, GiveInv
<1>2. pc[u] \in {"free", "freebig", "freepage"} =>
        arena'[req[u].old[1]] # NULL /\ arena'[req[u].old[1]].desc = arena[req[u].old[1]].desc
  BY OldArena
<1>3. u \in Threads /\ Same(u) /\ \A l \in Descs \cup {"pool"} : lock'[l] = u <=> lock[l] = u
  OBVIOUS
<1> QED
  BY <1>1, <1>2, <1>3, OtherThread

(* The first block of a list, and the list without it. *)
LEMMA FirstOff ==
  ASSUME NEW q \in Seq(Block), q # <<>>, Once(q)
  PROVE  /\ Head(q) \in Block /\ On(q, Head(q))
         /\ Tail(q) \in Seq(Block) /\ Once(Tail(q))
         /\ \A x : On(Tail(q), x) <=> On(q, x) /\ x # Head(q)
<1> DEFINE n == Len(q)
           r == Tail(q)
<1>1. n \in Nat /\ n > 0 /\ \A i \in 1 .. n : q[i] \in Block
  OBVIOUS
<1>2. Head(q) = q[1] /\ r \in Seq(Block) /\ Len(r) = n - 1 /\ \A i \in 1 .. n - 1 : r[i] = q[i + 1]
  OBVIOUS
<1>3. \A i, j \in 1 .. n : q[i] = q[j] => i = j
  BY DEF Once
<1> HIDE DEF n, r
<1>4. Once(r)
  <2>1. \A i \in 1 .. n - 1 : i + 1 \in 1 .. n /\ i \in Nat
    BY <1>1
  <2>2. ASSUME NEW i \in 1 .. n - 1, NEW j \in 1 .. n - 1, r[i] = r[j] PROVE i + 1 = j + 1
    <3>1. q[i + 1] = q[j + 1] /\ i + 1 \in 1 .. n /\ j + 1 \in 1 .. n
      BY <1>2, <2>1, <2>2
    <3> QED
      BY <1>3, <3>1
  <2> QED
    BY <1>2, <2>1, <2>2 DEF Once
<1>5. ASSUME NEW x, On(r, x) PROVE On(q, x) /\ x # Head(q)
  <2>1. PICK i \in 1 .. n - 1 : q[i + 1] = x
    BY <1>2, <1>5 DEF On
  <2>2. i + 1 \in 1 .. n /\ 1 \in 1 .. n /\ i + 1 # 1
    BY <1>1
  <2> QED
    BY <1>2, <1>3, <2>1, <2>2 DEF On, n
<1>6. ASSUME NEW x, On(q, x), x # Head(q) PROVE On(r, x)
  <2>1. PICK i \in 1 .. n : q[i] = x
    BY <1>6 DEF On, n
  <2>2. i # 1
    BY <1>2, <1>6, <2>1
  <2>3. i - 1 \in 1 .. n - 1 /\ (i - 1) + 1 = i
    BY <1>1, <2>2
  <2> QED
    BY <1>2, <2>1, <2>3 DEF On
<1>7. Head(q) \in Block /\ On(q, Head(q))
  <2>1. 1 \in 1 .. n
    BY <1>1
  <2> QED
    BY <1>1, <1>2, <2>1 DEF On, n
<1> QED
  BY <1>2, <1>4, <1>5, <1>6, <1>7 DEF r

LEMMA OnSet ==
  ASSUME NEW q \in Seq(Block)
  PROVE  \A b : b \in {q[i] : i \in DOMAIN q} <=> On(q, b)
<1>1. DOMAIN q = 1 .. Len(q)
  OBVIOUS
<1> QED
  BY <1>1 DEF On

LEMMA OnListOn ==
  ASSUME TypeOK, NEW d \in Descs
  PROVE  \A b : b \in OnList(d) <=> On(free_list[d], b)
<1>1. free_list[d] \in Seq(Block)
  BY DEF TypeOK, Block
<1> QED
  BY <1>1, OnSet DEF OnList

LEMMA OnListFinite ==
  ASSUME TypeOK, NEW d \in Descs, Once(free_list[d])
  PROVE  IsFiniteSet(OnList(d)) /\ Cardinality(OnList(d)) = Len(free_list[d])
<1>1. free_list[d] \in Seq(Block)
  BY DEF TypeOK, Block
<1> QED
  BY <1>1, LengthCounts DEF OnList

(* free_cnt when one of the arena's blocks is on the list. *)
LEMMA ListedCount ==
  ASSUME TypeOK, BlockInv, NEW d \in Descs, NEW b \in OnList(d)
  PROVE  /\ arena[b[1]].free_cnt \in Nat /\ arena[b[1]].free_cnt > 0
         /\ arena[b[1]].free_cnt <= blocks_per_arena[d]
<1> DEFINE p == b[1]
           S == OnList(d) \cap BlocksOf(p, d)
<1>1. p \in Pages /\ ArenaOf(p, d) /\ Open(p) /\ b \in S
  BY DEF BlockInv, ListInv, ListOf, ArenaOf
<1>2. arena[p].free_cnt = Cardinality(S)
  BY <1>1 DEF BlockInv, CountInv, CountOf
<1>3. IsFiniteSet(BlocksOf(p, d)) /\ Cardinality(BlocksOf(p, d)) = blocks_per_arena[d]
  BY BlocksCount
<1>4. IsFiniteSet(S) /\ Cardinality(S) <= blocks_per_arena[d]
  BY <1>3, FS_Subset
<1>5. Cardinality(S) \in Nat /\ Cardinality(S) # 0
  BY <1>1, <1>4, FS_CardinalityType, FS_EmptySet
<1> QED
  BY <1>2, <1>4, <1>5

(* A list with a block pushed in front. *)
LEMMA PushFront ==
  ASSUME NEW q \in Seq(Block), NEW b \in Block, Once(q), ~On(q, b)
  PROVE  LET r == <<b>> \o q IN
         /\ r \in Seq(Block) /\ Once(r)
         /\ \A x : On(r, x) <=> On(q, x) \/ x = b
<1> DEFINE n == Len(q)
           r == <<b>> \o q
<1>1. n \in Nat /\ \A i \in 1 .. n : q[i] \in Block
  OBVIOUS
<1>2. r \in Seq(Block) /\ Len(r) = n + 1 /\ r[1] = b /\ \A i \in 1 .. n : r[i + 1] = q[i]
  OBVIOUS
<1>3. \A i, j \in 1 .. n : q[i] = q[j] => i = j
  BY DEF Once
<1>4. \A x : On(q, x) <=> \E i \in 1 .. n : q[i] = x
  BY DEF On
<1>5. \A i \in 1 .. n : q[i] # b
  BY <1>4
<1> HIDE DEF n, r
<1>6. \A i \in 1 .. n + 1 : \/ i = 1 /\ r[i] = b
                            \/ i - 1 \in 1 .. n /\ r[i] = q[i - 1]
  <2>1. ASSUME NEW i \in 1 .. n + 1, i # 1 PROVE i - 1 \in 1 .. n /\ r[i] = q[i - 1]
    <3>1. i - 1 \in 1 .. n /\ (i - 1) + 1 = i
      BY <1>1, <2>1
    <3> QED
      BY <1>2, <3>1
  <2> QED
    BY <1>2, <2>1
<1>7. Once(r)
  <2>1. ASSUME NEW i \in 1 .. n + 1, NEW j \in 1 .. n + 1, r[i] = r[j] PROVE i = j
    <3>1. CASE i = 1
      BY <1>2, <1>5, <1>6, <2>1, <3>1
    <3>2. CASE j = 1
      BY <1>2, <1>5, <1>6, <2>1, <3>2
    <3>3. CASE i # 1 /\ j # 1
      <4>1. i - 1 \in 1 .. n /\ j - 1 \in 1 .. n /\ q[i - 1] = q[j - 1]
        BY <1>6, <2>1, <3>3
      <4>2. i - 1 = j - 1
        BY <1>3, <4>1
      <4> QED
        BY <1>1, <4>2
    <3> QED
      BY <3>1, <3>2, <3>3
  <2> QED
    BY <1>2, <2>1 DEF Once
<1>8. ASSUME NEW x, On(r, x) PROVE On(q, x) \/ x = b
  <2>1. PICK i \in 1 .. n + 1 : r[i] = x
    BY <1>2, <1>8 DEF On
  <2> QED
    BY <1>4, <1>6, <2>1
<1>9. ASSUME NEW x, On(q, x) \/ x = b PROVE On(r, x)
  <2>1. CASE x = b
    <3>1. 1 \in 1 .. n + 1
      BY <1>1
    <3> QED
      BY <1>2, <2>1, <3>1 DEF On
  <2>2. CASE On(q, x)
    <3>1. PICK i \in 1 .. n : q[i] = x
      BY <1>4, <2>2
    <3>2. i + 1 \in 1 .. n + 1
      BY <1>1
    <3> QED
      BY <1>2, <3>1, <3>2 DEF On
  <2> QED
    BY <1>9, <2>1, <2>2
<1> QED
  BY <1>2, <1>7, <1>8, <1>9 DEF r

(* A step that gives the pages of the arena at P back to the pool. *)
LEMMA ArenaGone ==
  ASSUME MallocInv, NEW t \in Threads, \A u \in Threads \ {t} : Same(u),
         NEW p \in Pages, arena'[p] = NULL, \A q \in Pages \ {p} : arena'[q] = arena[q],
         used_map' = used_map \ ArenaAt(p), UNCHANGED <<free_list, groups>>,
         pc[t] \in {"freepage", "freebig"}, pc'[t] = "run", req'[t] = NoReq,
         \A u \in Threads \ {t}, l \in Descs \cup {"pool"} : lock'[l] = u <=> lock[l] = u,
         LockOf(t)', TypeOK',
         \A e \in Descs : \A c \in OnList(e) : c[1] # p,
         \A u \in Threads : \A c : c \in Held(u)' <=> c \in Held(u) /\ c[1] # p,
         \A u \in Threads \ {t} : ~Closing(u, p),
         \A q \in Pages \ {p} : ~Closing(t, q)
  PROVE  MallocInv'
<1>1. \A u \in Threads \ {t} : ReqOf(u)' /\ LockOf(u)' /\ GiveOf(u)'
  <2> SUFFICES ASSUME NEW u \in Threads \ {t} PROVE ReqOf(u)' /\ LockOf(u)' /\ GiveOf(u)'
    OBVIOUS
  <2>1. ReqOf(u) /\ LockOf(u) /\ GiveOf(u)
    BY DEF MallocInv, ReqInv, LockInv, GiveInv
  <2>2. ASSUME pc[u] \in {"free", "freebig", "freepage"} PROVE req[u].old[1] \in Pages \ {p} /\ arena[req[u].old[1]] # NULL
    <3>1. /\ req[u].old[1] \in Pages /\ arena[req[u].old[1]] # NULL
          /\ pc[u] \in {"free", "freebig"} => req[u].old \in Held(u)
      BY <2>2, OldArena
    <3>2. Held(u)' = Held(u)
      BY SameThread
    <3>3. \A c \in Held(u) : c[1] # p
      BY <3>2
    <3>4. req[u].old[1] # p
      BY <2>2, <3>1, <3>3 DEF Closing
    <3> QED
      BY <3>1, <3>4
  <2>3. pc[u] \in {"free", "freebig", "freepage"} =>
          arena'[req[u].old[1]] # NULL /\ arena'[req[u].old[1]].desc = arena[req[u].old[1]].desc
    BY <2>2
  <2>4. u \in Threads /\ Same(u) /\ \A l \in Descs \cup {"pool"} : lock'[l] = u <=> lock[l] = u
    OBVIOUS
  <2> QED
    BY <2>1, <2>3, <2>4, OtherThread
<1>2. ReqOf(t)'
  BY DEF ReqOf, InCall, InDesc, NoReq
<1>3. GiveOf(t)' /\ EmptyOf(t)' /\ ScanOf(t)'
  BY DEF GiveOf, EmptyOf, ScanOf
<1>4. EmptyInv' /\ ScanInv'
  <2>1. used_map' \subseteq used_map
    OBVIOUS
  <2> QED
    BY <1>3, <2>1, SameThread DEF MallocInv, EmptyInv, ScanInv
<1>5. \A u \in Threads, q \in Pages \ {p} : Closing(u, q)' <=> Closing(u, q)
  <2>1. \A q \in Pages : ~Closing(t, q)'
    BY DEF Closing
  <2> QED
    BY <2>1, SameThread
<1>6. \A q \in Pages \ {p} : Open(q)' <=> Open(q)
  BY <1>5 DEF Open
<1>7. BlockInv'
  <2>1. BlockInv /\ \A e \in Descs : free_list'[e] = free_list[e]
    BY DEF MallocInv
  <2> QED
    BY <1>6, <2>1, BlockGone
<1>8. PageInv'
  <2>1. ArenaAt(p)' = {} /\ \A q \in Pages \ {p} : ArenaAt(q)' = ArenaAt(q)
    BY DEF ArenaAt
  <2>2. Pend(t)' = {} /\ Pend(t) = {}
    BY DEF Pend
  <2>3. \A u \in Threads : Pend(u)' = Pend(u)
    BY <2>2, SameThread
  <2>4. PageInv /\ UNCHANGED groups
    BY DEF MallocInv
  <2> QED
    BY <2>1, <2>3, <2>4, PageGiveArena
<1>9. BigInv'
  BY DEF MallocInv, BigInv
<1>10. FullInv'
  <2>1. ASSUME NEW e \in Descs, NEW s \in Pages, ArenaOf(s, e)', Open(s)',
               arena'[s].free_cnt = blocks_per_arena[e]
        PROVE  \E u \in Threads : pc'[u] = "pop" /\ req'[u].desc = e /\ Head(free_list'[e])[1] = s
    <3>1. s # p
      BY <2>1 DEF ArenaOf
    <3>2. ArenaOf(s, e) /\ Open(s) /\ arena[s].free_cnt = blocks_per_arena[e]
      BY <1>6, <2>1, <3>1 DEF ArenaOf
    <3>3. PICK u \in Threads : pc[u] = "pop" /\ req[u].desc = e /\ Head(free_list[e])[1] = s
      BY <3>2 DEF MallocInv, FullInv
    <3> QED
      BY <3>3 DEF Same
  <2> QED
    BY <2>1 DEF FullInv
<1> QED
  BY <1>1, <1>2, <1>3, <1>4, <1>7, <1>8, <1>9, <1>10 DEF MallocInv, ReqInv, LockInv, GiveInv

(* No other arena lies in the pages of an arena. *)
LEMMA OneArena ==
  ASSUME MallocInv, NEW p \in Pages, NEW q \in Pages, arena[q] # NULL, q \in ArenaAt(p)
  PROVE  p = q
<1>1. q \in ArenaAt(q)
  BY ArenaHere DEF MallocInv
<1>2. q \in used_map
  BY DEF MallocInv, PageInv, PagesUsed
<1> QED
  BY <1>1, <1>2 DEF MallocInv, PageInv, PagesApart

(* The steps that leave the pages and the blocks alone. *)

(* free(b) and the calls that ask for memory. *)
LEMMA FreeCallStep ==
  ASSUME MallocInv, NEW t \in Threads, NEW b \in blocks[t], free(t, b)
  PROVE  MallocInv'
<1>0. TypeOK /\ ReqOf(t) /\ LockInv /\ HeldInv
  BY DEF MallocInv, ReqInv, BlockInv
<1>1. /\ pc[t] = "run" /\ blocks'[t] = blocks[t] \ {b} /\ req'[t] = [NoReq EXCEPT !.old = b]
      /\ pc'[t] = FreeAt(b) /\ \A u \in Threads \ {t} : Same(u)
      /\ UNCHANGED <<used_map, arena, free_list, lock, page_idx, groups>>
  BY <1>0 DEF free, TypeOK, Same
<1>2. pc'[t] \in {"free", "freebig"} /\ req'[t].old = b /\ req'[t].desc = NULL /\ ~req'[t].raw
  BY <1>1 DEF FreeAt, NoReq
<1>3. Held(t)' = Held(t)
  BY <1>1, <1>2 DEF Held
<1>4. b \in Block /\ b # NULL
  BY <1>0, Constants DEF TypeOK, Block
<1>5. TypeOK'
  <2>1. req'[t] \in Requests
    <3>1. req'[t] = [desc |-> NULL, cnt |-> 0, raw |-> FALSE, old |-> b]
      BY <1>1 DEF NoReq
    <3>2. 0 \in 0 .. MaxGroup /\ b \in Pages \X Nat
      BY <1>4, Constants DEF Block
    <3> QED
      BY <3>1, <3>2 DEF Requests
  <2>2. req' \in [Threads -> Requests]
    BY <1>0, <2>1 DEF free, TypeOK
  <2>3. pc' \in [Threads -> {"run", "desc", "pool", "scan", "flip", "arena", "pop", "big",
                              "free", "freepage", "freebig"}]
    BY <1>0 DEF free, TypeOK, FreeAt
  <2>4. blocks' \in [Threads -> SUBSET (Pages \X Nat)]
    BY <1>0 DEF free, TypeOK
  <2> QED
    BY <1>0, <1>1, <2>2, <2>3, <2>4 DEF TypeOK
<1>6. LockInv'
  <2>1. LockOf(t)'
    BY <1>0, <1>1, <1>2 DEF LockInv, LockOf, InDesc
  <2>2. ASSUME NEW u \in Threads \ {t} PROVE LockOf(u)'
    <3>1. LockOf(u) /\ Same(u) /\ lock' = lock /\ arena' = arena
      BY <1>0, <1>1 DEF LockInv
    <3> QED
      BY <3>1, LockKept
  <2> QED
    BY <2>1, <2>2 DEF LockInv
<1>7. ReqOf(t)'
  BY <1>2, <1>4 DEF ReqOf, InCall, InDesc
<1>8. ScanOf(t)' /\ EmptyOf(t)'
  BY <1>2 DEF ScanOf, EmptyOf
<1>9. GiveOf(t)'
  BY <1>1, <1>2 DEF GiveOf, FreeAt, block_to_arena
<1> QED
  BY <1>1, <1>2, <1>3, <1>5, <1>6, <1>7, <1>8, <1>9, QuietStep

LEMMA RequestStep ==
  ASSUME MallocInv, NEW t \in Threads, NEW r \in Requests, Request(t, r),
         r.desc = NULL => r.cnt > 0, r.raw => r.desc = NULL /\ r.old = NULL,
         r.old # NULL => r.old \in blocks[t]
  PROVE  MallocInv'
<1>0. TypeOK /\ ReqOf(t) /\ LockInv
  BY DEF MallocInv, ReqInv
<1>1. /\ pc[t] = "run" /\ req'[t] = r /\ pc'[t] = IF r.desc # NULL THEN "desc" ELSE "pool"
      /\ \A u \in Threads \ {t} : Same(u)
      /\ UNCHANGED <<used_map, arena, free_list, lock, page_idx, blocks, groups>>
  BY <1>0 DEF Request, TypeOK, Same
<1>2. Held(t)' = Held(t)
  BY <1>1 DEF Held
<1>3. TypeOK'
  <2>1. req' \in [Threads -> Requests]
    BY <1>0 DEF Request, TypeOK
  <2>2. pc' \in [Threads -> {"run", "desc", "pool", "scan", "flip", "arena", "pop", "big",
                              "free", "freepage", "freebig"}]
    BY <1>0 DEF Request, TypeOK
  <2> QED
    BY <1>0, <1>1, <2>1, <2>2 DEF TypeOK
<1>4. LockInv'
  <2>1. LockOf(t)'
    BY <1>0, <1>1, Constants DEF LockInv, LockOf, InDesc
  <2>2. ASSUME NEW u \in Threads \ {t} PROVE LockOf(u)'
    <3>1. LockOf(u) /\ Same(u) /\ lock' = lock /\ arena' = arena
      BY <1>0, <1>1 DEF LockInv
    <3> QED
      BY <3>1, LockKept
  <2> QED
    BY <2>1, <2>2 DEF LockInv
<1>5. ReqOf(t)'
  BY <1>1 DEF ReqOf
<1>6. ScanOf(t)' /\ EmptyOf(t)' /\ GiveOf(t)'
  BY <1>1 DEF ScanOf, EmptyOf, GiveOf
<1> QED
  BY <1>1, <1>2, <1>3, <1>4, <1>5, <1>6, QuietStep

LEMMA CallStep ==
  ASSUME MallocInv, NEW t \in Threads, malloc(t) \/ realloc(t) \/ palloc_get_multiple(t)
  PROVE  MallocInv'
<1>1. blocks[t] \subseteq Block
  BY DEF MallocInv, TypeOK, Block
<1>2. ASSUME NEW r \in Sizes
      PROVE  /\ r \in Requests /\ ~r.raw /\ r.old = NULL /\ (r.desc = NULL => r.cnt > 0)
             /\ r = [desc |-> r.desc, cnt |-> r.cnt, raw |-> FALSE, old |-> NULL]
  <2>1. CASE \E d \in Descs : r = [NoReq EXCEPT !.desc = d]
    <3>1. PICK d \in Descs : r = [desc |-> d, cnt |-> 0, raw |-> FALSE, old |-> NULL]
      BY <2>1 DEF NoReq
    <3>2. 0 \in 0 .. MaxGroup /\ d # NULL
      BY Constants
    <3> QED
      BY <3>1, <3>2 DEF Requests
  <2>2. CASE \E n \in 1 .. MaxGroup : r = [NoReq EXCEPT !.cnt = n]
    <3>1. PICK n \in 1 .. MaxGroup : r = [desc |-> NULL, cnt |-> n, raw |-> FALSE, old |-> NULL]
      BY <2>2 DEF NoReq
    <3>2. n \in 0 .. MaxGroup /\ n > 0
      BY Constants
    <3> QED
      BY <3>1, <3>2 DEF Requests
  <2> QED
    BY <1>2, <2>1, <2>2 DEF Sizes
<1>3. CASE malloc(t)
  BY <1>2, <1>3, RequestStep DEF malloc
<1>4. CASE realloc(t)
  <2>1. PICK r \in Sizes, b \in blocks[t] : Request(t, [r EXCEPT !.old = b])
    BY <1>4 DEF realloc
  <2> DEFINE s == [r EXCEPT !.old = b]
  <2>2. s \in Requests /\ ~s.raw /\ s.old = b /\ s.desc = r.desc /\ s.cnt = r.cnt
    BY <1>1, <1>2 DEF Requests, Block
  <2> HIDE DEF s
  <2>3. (s.desc = NULL => s.cnt > 0) /\ s.old \in blocks[t]
    BY <1>2, <2>2
  <2>4. Request(t, s)
    BY <2>1 DEF s
  <2> QED
    BY <2>2, <2>3, <2>4, RequestStep
<1>5. CASE palloc_get_multiple(t)
  <2>1. PICK n, s : /\ n \in 1 .. MaxGroup
                    /\ s = [NoReq EXCEPT !.cnt = n, !.raw = TRUE] /\ Request(t, s)
    BY <1>5 DEF palloc_get_multiple
  <2>2. s = [desc |-> NULL, cnt |-> n, raw |-> TRUE, old |-> NULL]
    BY <2>1 DEF NoReq
  <2>3. n \in 0 .. MaxGroup /\ n > 0
    BY <2>1, Constants
  <2>4. s \in Requests /\ s.raw /\ s.old = NULL /\ s.desc = NULL /\ s.cnt > 0
    BY <2>2, <2>3 DEF Requests
  <2> QED
    BY <2>1, <2>4, RequestStep
<1> QED
  BY <1>3, <1>4, <1>5

(* The steps of malloc and palloc that take or release a lock, or scan. *)
LEMMA DescLockStep ==
  ASSUME MallocInv, NEW t \in Threads, DescLock(t)
  PROVE  MallocInv'
<1> DEFINE d == req[t].desc
<1>0. TypeOK /\ ReqOf(t) /\ LockInv
  BY DEF MallocInv, ReqInv
<1>1. pc[t] = "desc" /\ d \in Descs /\ d # "pool" /\ d # NULL /\ lock[d] = NULL
  BY <1>0, Constants DEF DescLock, TypeOK, ReqOf, Requests
<1>2. /\ lock'[d] = t /\ \A l \in (Descs \cup {"pool"}) \ {d} : lock'[l] = lock[l]
      /\ \A u \in Threads \ {t} : Same(u)
      /\ UNCHANGED <<used_map, arena, free_list, page_idx, blocks, groups>>
  BY <1>0, <1>1 DEF DescLock, TypeOK, Same
<1>3. /\ req'[t].desc = d /\ req'[t].old = req[t].old /\ req'[t].raw = req[t].raw
      /\ IF free_list[d] = <<>> THEN pc'[t] = "pool" /\ req'[t].cnt = 1
                                ELSE pc'[t] = "pop" /\ req'[t] = req[t]
  BY <1>0, <1>1 DEF DescLock, TypeOK, Requests
<1>4. Held(t)' = Held(t)
  BY <1>1, <1>2, <1>3 DEF Held
<1>5. TypeOK'
  <2>1. req' \in [Threads -> Requests]
    <3>1. 1 \in 0 .. MaxGroup
      BY MallocAssumption
    <3>2. ASSUME NEW r \in Requests, NEW s, s = [r EXCEPT !.cnt = 1] PROVE s \in Requests
      BY <3>1, <3>2 DEF Requests
    <3>3. PICK s : s = [req[t] EXCEPT !.cnt = 1]
      OBVIOUS
    <3>4. s \in Requests
      BY <1>0, <3>2, <3>3 DEF TypeOK
    <3>5. req' = [req EXCEPT ![t] = s] \/ req' = req
      BY <1>0, <3>3 DEF DescLock, TypeOK
    <3> QED
      BY <1>0, <3>4, <3>5 DEF TypeOK
  <2>2. pc' \in [Threads -> {"run", "desc", "pool", "scan", "flip", "arena", "pop", "big",
                              "free", "freepage", "freebig"}]
    <3>1. pc' = [pc EXCEPT ![t] = "pool"] \/ pc' = [pc EXCEPT ![t] = "pop"]
      BY DEF DescLock
    <3> QED
      BY <1>0, <3>1 DEF TypeOK
  <2>3. lock' \in [Descs \cup {"pool"} -> Threads \cup {NULL}]
    BY <1>0 DEF DescLock, TypeOK
  <2> QED
    BY <1>0, <1>2, <2>1, <2>2, <2>3 DEF TypeOK
<1>6. LockInv'
  <2>1. LockOf(t)'
    <3>1. LockOf(t)
      BY <1>0 DEF LockInv
    <3>2. \A e \in Descs \ {d} : lock'[e] # t
      BY <1>1, <1>2, <3>1 DEF LockOf, InDesc
    <3>3. lock'["pool"] # t
      BY <1>1, <1>2, <3>1 DEF LockOf
    <3> QED
      BY <1>2, <1>3, <3>2, <3>3 DEF LockOf, InDesc
  <2>2. ASSUME NEW u \in Threads \ {t} PROVE LockOf(u)'
    <3>1. LockOf(u) /\ Same(u) /\ u # NULL
      BY <1>0, <1>2, Constants DEF LockInv
    <3>2. \A l \in Descs \cup {"pool"} : lock'[l] = u <=> lock[l] = u
      BY <1>1, <1>2, <3>1
    <3> QED
      BY <1>2, <3>1, <3>2, LockKept
  <2> QED
    BY <2>1, <2>2 DEF LockInv
<1>7. ReqOf(t)'
  BY <1>0, <1>1, <1>2, <1>3 DEF ReqOf, InCall, InDesc
<1>8. ScanOf(t)' /\ EmptyOf(t)' /\ GiveOf(t)'
  BY <1>2, <1>3 DEF ScanOf, EmptyOf, GiveOf
<1>9. pc'[t] \notin {"arena", "big", "freepage"}
  BY <1>3
<1> QED
  BY <1>1, <1>2, <1>4, <1>5, <1>6, <1>7, <1>8, <1>9, QuietStep

LEMMA PoolLockStep ==
  ASSUME MallocInv, NEW t \in Threads, PoolLock(t)
  PROVE  MallocInv'
<1>0. TypeOK /\ ReqOf(t) /\ LockInv /\ EmptyOf(t)
  BY DEF MallocInv, ReqInv, EmptyInv
<1>1. /\ pc[t] = "pool" /\ pc'[t] = "scan" /\ lock["pool"] = NULL
      /\ lock'["pool"] = t /\ \A l \in Descs : lock'[l] = lock[l]
      /\ \A u \in Threads \ {t} : Same(u)
      /\ UNCHANGED <<used_map, arena, free_list, req, page_idx, blocks, groups>>
  BY <1>0, Constants DEF PoolLock, TypeOK, Same
<1>2. Held(t)' = Held(t)
  BY <1>1 DEF Held
<1>3. TypeOK'
  <2>1. pc' \in [Threads -> {"run", "desc", "pool", "scan", "flip", "arena", "pop", "big",
                              "free", "freepage", "freebig"}]
    BY <1>0 DEF PoolLock, TypeOK
  <2>2. lock' \in [Descs \cup {"pool"} -> Threads \cup {NULL}]
    BY <1>0 DEF PoolLock, TypeOK
  <2> QED
    BY <1>0, <1>1, <2>1, <2>2 DEF TypeOK
<1>4. LockInv'
  <2>1. LockOf(t)'
    <3>1. \A e \in Descs : lock[e] = t <=> req[t].desc = e
      BY <1>0, <1>1 DEF LockInv, LockOf, InDesc
    <3> QED
      BY <1>1, <3>1 DEF LockOf, InDesc
  <2>2. ASSUME NEW u \in Threads \ {t} PROVE LockOf(u)'
    <3>1. LockOf(u) /\ Same(u) /\ u # NULL
      BY <1>0, <1>1, Constants DEF LockInv
    <3>2. \A l \in Descs \cup {"pool"} : lock'[l] = u <=> lock[l] = u
      BY <1>1, <3>1
    <3> QED
      BY <1>1, <3>1, <3>2, LockKept
  <2> QED
    BY <2>1, <2>2 DEF LockInv
<1>5. ReqOf(t)'
  BY <1>0, <1>1 DEF ReqOf, InCall, InDesc
<1>6. ScanOf(t)' /\ EmptyOf(t)' /\ GiveOf(t)'
  BY <1>0, <1>1 DEF ScanOf, EmptyOf, GiveOf
<1> QED
  BY <1>1, <1>2, <1>3, <1>4, <1>5, <1>6, QuietStep

LEMMA ScanStep ==
  ASSUME MallocInv, NEW t \in Threads, bitmap_scan(t)
  PROVE  MallocInv'
<1>0. TypeOK /\ ReqOf(t) /\ LockInv /\ EmptyOf(t)
  BY DEF MallocInv, ReqInv, EmptyInv
<1>1. /\ pc[t] = "scan" /\ pc'[t] \in {"scan", "flip"}
      /\ \A u \in Threads \ {t} : Same(u)
      /\ UNCHANGED <<used_map, arena, free_list, lock, req, blocks, groups>>
  BY <1>0 DEF bitmap_scan, TypeOK, Same
<1>2. Held(t)' = Held(t)
  BY <1>1 DEF Held
<1>3. TypeOK'
  <2>1. pc' \in [Threads -> {"run", "desc", "pool", "scan", "flip", "arena", "pop", "big",
                              "free", "freepage", "freebig"}]
    BY <1>0 DEF bitmap_scan, TypeOK
  <2>2. page_idx' \in [Threads -> Nat]
    BY <1>0 DEF bitmap_scan, TypeOK
  <2> QED
    BY <1>0, <1>1, <2>1, <2>2 DEF TypeOK
<1>4. LockInv'
  <2>1. LockOf(t)'
    BY <1>0, <1>1 DEF LockInv, LockOf, InDesc
  <2>2. ASSUME NEW u \in Threads \ {t} PROVE LockOf(u)'
    <3>1. LockOf(u) /\ Same(u) /\ lock' = lock /\ arena' = arena
      BY <1>0, <1>1 DEF LockInv
    <3> QED
      BY <3>1, LockKept
  <2> QED
    BY <2>1, <2>2 DEF LockInv
<1>5. ReqOf(t)'
  BY <1>0, <1>1 DEF ReqOf, InCall, InDesc
<1>6. EmptyOf(t)' /\ GiveOf(t)'
  BY <1>0, <1>1 DEF EmptyOf, GiveOf
<1>7. ScanOf(t)'
  <2>1. SUFFICES ASSUME pc'[t] = "flip" PROVE InPool(t)' /\ ~ContainsUsed(t)'
    BY DEF ScanOf
  <2>2. InPool(t) /\ ~ContainsUsed(t) /\ page_idx' = page_idx
    BY <1>0, <1>1, <2>1 DEF bitmap_scan, TypeOK
  <2> QED
    BY <1>1, <2>2 DEF InPool, ContainsUsed
<1> QED
  BY <1>1, <1>2, <1>3, <1>4, <1>5, <1>6, <1>7, QuietStep

LEMMA NoPagesStep ==
  ASSUME MallocInv, NEW t \in Threads, NoPages(t)
  PROVE  MallocInv'
<1> DEFINE d == req[t].desc
<1>0. TypeOK /\ ReqOf(t) /\ LockInv
  BY DEF MallocInv, ReqInv
<1>1. /\ pc[t] = "scan" /\ pc'[t] = "run" /\ req'[t] = NoReq
      /\ lock'["pool"] = NULL /\ (d \in Descs => lock'[d] = NULL)
      /\ \A l \in Descs \ {d} : lock'[l] = lock[l]
      /\ \A u \in Threads \ {t} : Same(u)
      /\ UNCHANGED <<used_map, arena, free_list, blocks, groups>>
  BY <1>0, Constants DEF NoPages, TypeOK, Same
<1>2. Held(t)' = Held(t)
  BY <1>1 DEF Held
<1>3. TypeOK'
  <2>1. NoReq \in Requests
    BY Constants DEF NoReq, Requests
  <2>2. req' \in [Threads -> Requests] /\ page_idx' \in [Threads -> Nat]
    BY <1>0, <2>1 DEF NoPages, TypeOK
  <2>3. pc' \in [Threads -> {"run", "desc", "pool", "scan", "flip", "arena", "pop", "big",
                              "free", "freepage", "freebig"}]
    BY <1>0 DEF NoPages, TypeOK
  <2>4. lock' \in [Descs \cup {"pool"} -> Threads \cup {NULL}]
    BY <1>0 DEF NoPages, TypeOK
  <2> QED
    BY <1>0, <1>1, <2>2, <2>3, <2>4 DEF TypeOK
<1>4. LockInv'
  <2>1. LockOf(t)'
    <3>1. LockOf(t) /\ t # NULL
      BY <1>0, Constants DEF LockInv
    <3>2. \A e \in Descs : lock'[e] # t
      BY <1>1, <3>1 DEF LockOf, InDesc
    <3> QED
      BY <1>1, <3>1, <3>2 DEF LockOf, InDesc
  <2>2. ASSUME NEW u \in Threads \ {t} PROVE LockOf(u)'
    <3>1. LockOf(t) /\ LockOf(u) /\ Same(u) /\ u # NULL /\ u # t
      BY <1>0, <1>1, Constants DEF LockInv
    <3>2. lock["pool"] # u /\ (d \in Descs => lock[d] # u)
      BY <1>1, <3>1 DEF LockOf, InDesc
    <3>3. \A l \in Descs \cup {"pool"} : lock'[l] = u <=> lock[l] = u
      BY <1>1, <3>1, <3>2
    <3> QED
      BY <1>1, <3>1, <3>3, LockKept
  <2> QED
    BY <2>1, <2>2 DEF LockInv
<1>5. ReqOf(t)'
  BY <1>1 DEF ReqOf, InCall, InDesc, NoReq
<1>6. ScanOf(t)' /\ EmptyOf(t)' /\ GiveOf(t)'
  BY <1>1 DEF ScanOf, EmptyOf, GiveOf, NoReq
<1> QED
  BY <1>1, <1>2, <1>3, <1>4, <1>5, <1>6, QuietStep

-----------------------------------------------------------------------------
-----------------------------------------------------------------------------
(* The invariant holds at first, and what it says of the pages. *)
LEMMA InitInv == Init => MallocInv
<1> SUFFICES ASSUME Init PROVE MallocInv
  OBVIOUS
<1>1. /\ \A t \in Threads : pc[t] = "run" /\ req[t] = NoReq /\ blocks[t] = {} /\ groups[t] = {}
      /\ \A p \in Pages : arena[p] = NULL
      /\ \A l \in Descs \cup {"pool"} : lock[l] = NULL
      /\ \A d \in Descs : free_list[d] = <<>>
      /\ used_map = {}
  BY DEF Init
<1>2. TypeOK
  <2>1. NoReq \in Requests
    BY Constants DEF NoReq, Requests
  <2> QED
    BY <2>1, Constants DEF Init, TypeOK
<1>3. ReqInv
  <2> SUFFICES ASSUME NEW t \in Threads PROVE ReqOf(t)
    BY DEF ReqInv
  <2>1. pc[t] = "run" /\ req[t] = NoReq
    BY <1>1
  <2>2. ~req[t].raw
    BY <2>1 DEF NoReq
  <2> QED
    BY <2>1, <2>2 DEF ReqOf, InCall, InDesc
<1>4. LockInv
  BY <1>1, Constants DEF LockInv, LockOf, InDesc
<1>5. ScanInv /\ GiveInv
  BY <1>1 DEF ScanInv, ScanOf, GiveInv, GiveOf
<1>6. EmptyInv
  BY <1>1 DEF EmptyInv, EmptyOf, NoReq
<1>7. (\A p \in Pages : ArenaAt(p) = {}) /\ \A t \in Threads : Pend(t) = {} /\ Held(t) = {}
  BY <1>1 DEF ArenaAt, Pend, Held
<1>8. PageInv
  BY <1>1, <1>7 DEF PageInv, PagesCovered, PagesUsed, PagesApart
<1>9. BigInv /\ \A p, d : ~ArenaOf(p, d)
  BY <1>1 DEF BigInv, ArenaOf
<1>10. FullInv
  BY <1>9 DEF FullInv
<1>11. \A d \in Descs : OnList(d) = {} /\ Once(free_list[d])
  <2>1. \A d \in Descs : DOMAIN free_list[d] = {} /\ Len(free_list[d]) = 0
    BY <1>1
  <2> QED
    BY <2>1 DEF OnList, Once
<1>12. HeldInv
  BY <1>7 DEF HeldInv
<1>13. ListInv
  BY <1>9, <1>11 DEF ListInv, ListOf
<1>14. CountInv
  BY <1>9 DEF CountInv, CountOf
<1> QED
  BY <1>2, <1>3, <1>4, <1>5, <1>6, <1>8, <1>9, <1>10, <1>12, <1>13, <1>14 DEF MallocInv, BlockInv

LEMMA InvPages == MallocInv => PagesAccounted
<1> SUFFICES ASSUME MallocInv PROVE PagesAccounted
  OBVIOUS
<1>0. TypeOK /\ PagesCovered /\ PagesUsed /\ PagesApart
  BY DEF MallocInv, PageInv
<1>1. \A t \in Threads : \A r : r \in PagesOf(t) <=> r \in Pend(t) \/ \E g \in groups[t] : r \in GroupOf(g)
  <2> SUFFICES ASSUME NEW t \in Threads, NEW r
               PROVE  r \in PagesOf(t) <=> r \in Pend(t) \/ \E g \in groups[t] : r \in GroupOf(g)
    OBVIOUS
  <2> DEFINE S == UNION {Group(g[1], g[2]) : g \in groups[t]}
  <2>1. PagesOf(t) = S \cup Pend(t)
    BY DEF PagesOf, Pend
  <2>2. r \in S <=> \E g \in groups[t] : r \in GroupOf(g)
    BY DEF GroupOf
  <2> HIDE DEF S
  <2> QED
    BY <2>1, <2>2
<1>2. \A r : r \in ArenaPages <=> \E p \in Pages : r \in ArenaAt(p)
  BY DEF ArenaPages, ArenaAt
<1>3. \A r : r \in used_map <=> r \in ArenaPages \/ \E t \in Threads : r \in PagesOf(t)
  <2>1. ASSUME NEW r \in used_map PROVE r \in ArenaPages \/ \E t \in Threads : r \in PagesOf(t)
    BY <1>0, <1>1, <1>2 DEF PagesCovered
  <2>2. ASSUME NEW r \in ArenaPages PROVE r \in used_map
    BY <1>0, <1>2 DEF PagesUsed
  <2>3. ASSUME NEW t \in Threads, NEW r \in PagesOf(t) PROVE r \in used_map
    BY <1>0, <1>1 DEF PagesUsed
  <2> QED
    BY <2>1, <2>2, <2>3
<1>4. used_map = ArenaPages \cup UNION {PagesOf(t) : t \in Threads}
  BY <1>3
<1>5. ASSUME NEW t \in Threads, NEW u \in Threads, NEW r, r \in PagesOf(t), r \in PagesOf(u) PROVE t = u
  <2>1. r \in used_map
    BY <1>3, <1>5
  <2>2. r \in Pend(t) \/ \E g \in groups[t] : r \in GroupOf(g)
    BY <1>1, <1>5
  <2>3. r \in Pend(u) \/ \E g \in groups[u] : r \in GroupOf(g)
    BY <1>1, <1>5
  <2> QED
    BY <1>0, <2>1, <2>2, <2>3 DEF PagesApart
<1>6. ASSUME NEW t \in Threads, NEW r, r \in PagesOf(t), r \in ArenaPages PROVE FALSE
  <2>1. r \in used_map
    BY <1>3, <1>6
  <2>2. r \in Pend(t) \/ \E g \in groups[t] : r \in GroupOf(g)
    BY <1>1, <1>6
  <2>3. \E p \in Pages : r \in ArenaAt(p)
    BY <1>2, <1>6
  <2> QED
    BY <1>0, <2>1, <2>2, <2>3 DEF PagesApart
<1> QED
  BY <1>0, <1>4, <1>5, <1>6 DEF PagesAccounted

(* What it says of the blocks. *)
LEMMA InvBlocks == MallocInv => BlocksAccounted
<1> SUFFICES ASSUME MallocInv PROVE BlocksAccounted
  OBVIOUS
<1>0. TypeOK /\ HeldInv /\ ListInv /\ CountInv /\ FullInv
  BY DEF MallocInv, BlockInv
<1>1. \A p : Open(p) <=> ~\E t \in Threads : pc[t] = "freepage" /\ block_to_arena(req[t].old) = p
  BY DEF Open, Closing, block_to_arena
<1>2. FreeCntCounts
  <2> SUFFICES ASSUME NEW p \in Pages, arena[p] # NULL, arena[p].desc # NULL
               PROVE  LET d == arena[p].desc
                          listed == OnList(d) \cap BlocksOf(p, d)
                      IN IF ~Open(p)
                           THEN arena[p].free_cnt = blocks_per_arena[d] /\ listed = {}
                           ELSE /\ arena[p].free_cnt = Cardinality(listed)
                                /\ arena[p].free_cnt = blocks_per_arena[d] =>
                                     \E t \in Threads : pc[t] = "pop" /\ req[t].desc = d
    BY <1>1 DEF FreeCntCounts
  <2>1. PICK d \in Descs : d = arena[p].desc
    BY <1>0 DEF TypeOK
  <2>2. ArenaOf(p, d)
    BY <2>1 DEF ArenaOf
  <2>3. arena[p].free_cnt = IF Open(p) THEN Cardinality(OnList(d) \cap BlocksOf(p, d)) ELSE blocks_per_arena[d]
    BY <1>0, <2>2 DEF CountInv, CountOf
  <2>4. CASE ~Open(p)
    <3>1. \A b \in OnList(d) : b[1] # p
      BY <1>0, <2>4 DEF ListInv, ListOf
    <3>2. OnList(d) \cap BlocksOf(p, d) = {}
      BY <3>1, BlockPages
    <3> QED
      BY <2>1, <2>3, <2>4, <3>2
  <2>5. CASE Open(p)
    <3>1. arena[p].free_cnt = blocks_per_arena[d] => \E t \in Threads : pc[t] = "pop" /\ req[t].desc = d
      BY <1>0, <2>2, <2>5 DEF FullInv
    <3> QED
      BY <2>1, <2>3, <2>5, <3>1
  <2> QED
    BY <2>4, <2>5
<1>3. \A t, u \in Threads : t # u => Held(t) \cap Held(u) = {}
  BY <1>0 DEF HeldInv
<1>4. ASSUME NEW d \in Descs
      PROVE  LET mine == {p \in Pages : arena[p] # NULL /\ arena[p].desc = d}
                 closing == {block_to_arena(req[t].old) : t \in {u \in Threads : pc[u] = "freepage"}}
             IN /\ Cardinality(OnList(d)) = Len(free_list[d])
                /\ \A t \in Threads : Held(t) \cap OnList(d) = {}
                /\ OnList(d) \cup ((UNION {Held(t) : t \in Threads}) \cap (mine \X Nat))
                     = UNION {BlocksOf(p, d) : p \in mine \ closing}
  <2> DEFINE mine == {p \in Pages : arena[p] # NULL /\ arena[p].desc = d}
             closing == {block_to_arena(req[t].old) : t \in {u \in Threads : pc[u] = "freepage"}}
  <2>0. ListOf(d)
    BY <1>0 DEF ListInv
  <2>1. Cardinality(OnList(d)) = Len(free_list[d])
    BY <1>0, <2>0, OnListFinite DEF ListOf
  <2>2. \A t \in Threads : Held(t) \cap OnList(d) = {}
    BY <2>0 DEF ListOf
  <2>3. \A p : p \in mine <=> ArenaOf(p, d)
    BY DEF ArenaOf
  <2>4. \A p : p \in closing <=> ~Open(p)
    BY <1>1
  <2> HIDE DEF mine, closing
  <2>5. ASSUME NEW b \in OnList(d) PROVE \E p \in mine \ closing : b \in BlocksOf(p, d)
    BY <2>0, <2>3, <2>4 DEF ListOf
  <2>6. ASSUME NEW t \in Threads, NEW b \in Held(t), b \in mine \X Nat
        PROVE  \E p \in mine \ closing : b \in BlocksOf(p, d)
    <3>1. ArenaOf(b[1], d)
      BY <2>3, <2>6
    <3>2. b \in Block /\ Open(b[1]) /\ b[2] < blocks_per_arena[d]
      BY <1>0, <3>1, Constants DEF HeldInv, ArenaOf
    <3>3. b \in BlocksOf(b[1], d)
      BY <3>2, BlockPages
    <3> QED
      BY <2>3, <2>4, <3>1, <3>2, <3>3
  <2>7. ASSUME NEW p \in mine \ closing, NEW b \in BlocksOf(p, d)
        PROVE  b \in OnList(d) \/ (b \in mine \X Nat /\ \E t \in Threads : b \in Held(t))
    <3>1. ArenaOf(p, d) /\ Open(p) /\ p \in Pages
      BY <2>3, <2>4 DEF ArenaOf
    <3>2. b \in OnList(d) \/ \E t \in Threads : b \in Held(t)
      BY <2>0, <3>1 DEF ListOf
    <3>3. b[1] = p /\ b \in Block
      BY <3>1, BlockPages, BlocksTyped
    <3>4. b \in mine \X Nat
      BY <3>3 DEF Block
    <3> QED
      BY <3>2, <3>4
  <2>8. OnList(d) \cup ((UNION {Held(t) : t \in Threads}) \cap (mine \X Nat))
          = UNION {BlocksOf(p, d) : p \in mine \ closing}
    <3> DEFINE H == UNION {Held(t) : t \in Threads}
               A == OnList(d) \cup (H \cap (mine \X Nat))
               B == UNION {BlocksOf(p, d) : p \in mine \ closing}
    <3>1. \A b : b \in A <=> b \in OnList(d) \/ (b \in mine \X Nat /\ \E t \in Threads : b \in Held(t))
      <4>1. \A b : b \in H <=> \E t \in Threads : b \in Held(t)
        OBVIOUS
      <4> HIDE DEF H
      <4> QED
        BY <4>1
    <3>2. \A b : b \in B <=> \E p \in mine \ closing : b \in BlocksOf(p, d)
      OBVIOUS
    <3> HIDE DEF A, B
    <3>3. \A b : b \in A => b \in B
      BY <2>5, <2>6, <3>1, <3>2
    <3>4. \A b : b \in B => b \in A
      BY <2>7, <3>1, <3>2
    <3>5. A = B
      BY <3>3, <3>4
    <3> QED
      BY <3>5 DEF A, B
  <2> QED
    BY <2>1, <2>2, <2>8 DEF mine, closing
<1> QED
  BY <1>2, <1>3, <1>4 DEF BlocksAccounted
================================================================================
