---------------------------- MODULE MallocProofs ----------------------------
(* Proofs about module Malloc, for any threads, pages and descriptors. *)
EXTENDS MallocInvariant

USE ZenonT(3), SMTT(30)

(* The steps that change the pages or the blocks. *)
LEMMA NewArenaStep ==
  ASSUME MallocInv, NEW t \in Threads, NewArena(t)
  PROVE  MallocInv'
<1>a. PICK d, p : d = req[t].desc /\ p = page_idx[t]
  OBVIOUS
<1> DEFINE n == blocks_per_arena[d]
           f == [i \in 1 .. n |-> arena_to_block(p, i - 1)]
<1>0. TypeOK /\ ReqOf(t) /\ LockInv /\ EmptyOf(t) /\ BigInv
  BY DEF MallocInv, ReqInv, EmptyInv
<1>1. pc[t] = "arena" /\ d \in Descs /\ d # NULL /\ req[t].cnt = 1 /\ ~req[t].raw /\ free_list[d] = <<>>
  BY <1>a, <1>0 DEF NewArena, TypeOK, ReqOf, EmptyOf, Requests
<1>2. p \in Pages /\ arena[p] = NULL /\ Open(p) /\ Pend(t) = Group(p, 1)
  BY <1>a, <1>1, PendFresh
<1>3. n \in Nat /\ n > 0
  BY <1>1, Constants
<1>4. f \in Seq(Block) /\ Len(f) = n
  <2>1. f \in [1 .. n -> Block]
    BY <1>2, <1>3 DEF Block, arena_to_block
  <2> HIDE DEF f, n
  <2> QED
    BY <1>3, <2>1
<1>5. /\ arena'[p] = [desc |-> d, free_cnt |-> n]
      /\ \A q \in Pages \ {p} : arena'[q] = arena[q]
      /\ free_list'[d] = <<>> \o f /\ \A e \in Descs \ {d} : free_list'[e] = free_list[e]
      /\ pc'[t] = "pop" /\ \A u \in Threads \ {t} : Same(u)
      /\ UNCHANGED <<used_map, lock, req, blocks, groups>>
  BY <1>a, <1>0, <1>1, <1>2 DEF NewArena, TypeOK, Same
<1>6. free_list'[d] = f
  BY <1>4, <1>5
<1>7. Once(f) /\ f # <<>> /\ Head(f)[1] = p
  <2>1. \A i \in 1 .. n : f[i] = <<p, i - 1>>
    BY DEF arena_to_block
  <2> HIDE DEF f, n
  <2>2. Once(f)
    BY <1>3, <1>4, <2>1 DEF Once
  <2>3. Head(f) = f[1] /\ 1 \in 1 .. n
    BY <1>3, <1>4
  <2> QED
    BY <1>3, <1>4, <2>1, <2>2, <2>3
<1>8. OnList(d)' = BlocksOf(p, d)
  <2>1. OnList(d)' = {f[i] : i \in 1 .. n}
    <3> HIDE DEF f, n
    <3>1. DOMAIN f = 1 .. n
      BY <1>4
    <3> QED
      BY <1>6, <3>1 DEF OnList
  <2>2. \A i \in 1 .. n : f[i] \in BlocksOf(p, d)
    <3>1. \A i \in 1 .. n : i - 1 \in 0 .. (n - 1)
      BY <1>3
    <3> QED
      BY <3>1 DEF BlocksOf
  <2>3. ASSUME NEW b \in BlocksOf(p, d) PROVE \E i \in 1 .. n : f[i] = b
    <3>1. PICK j \in 0 .. n - 1 : b = arena_to_block(p, j)
      BY DEF BlocksOf
    <3>2. j + 1 \in 1 .. n /\ (j + 1) - 1 = j
      BY <1>3
    <3> QED
      BY <3>1, <3>2
  <2> QED
    BY <2>1, <2>2, <2>3
<1> HIDE DEF f
<1>9. arena'[p] \in [desc : Descs \cup {NULL}, free_cnt : Nat] /\ arena'[p] # NULL /\ arena'[p].desc = d
  BY <1>1, <1>3, <1>5, Constants
<1>10. TypeOK'
  <2>1. arena' \in [Pages -> {NULL} \cup [desc : Descs \cup {NULL}, free_cnt : Nat]]
    <3>1. PICK a : arena' = [arena EXCEPT ![p] = a]
      BY <1>a DEF NewArena
    <3>2. a = arena'[p]
      BY <1>a, <1>0, <1>2, <3>1 DEF TypeOK
    <3> QED
      BY <1>a, <1>0, <1>9, <3>1, <3>2 DEF TypeOK
  <2>2. free_list' \in [Descs -> Seq(Pages \X Nat)]
    <3>1. PICK g : free_list' = [free_list EXCEPT ![d] = g]
      BY <1>a DEF NewArena
    <3>2. g \in Seq(Pages \X Nat)
      BY <1>a, <1>0, <1>1, <1>4, <1>6, <3>1 DEF TypeOK, Block
    <3> QED
      BY <1>a, <1>0, <3>1, <3>2 DEF TypeOK
  <2>3. pc' \in [Threads -> {"run", "desc", "pool", "scan", "flip", "arena", "pop", "big",
                              "free", "freepage", "freebig"}]
    BY <1>a, <1>0 DEF NewArena, TypeOK
  <2>4. page_idx' \in [Threads -> Nat]
    BY <1>a, <1>0 DEF NewArena, TypeOK
  <2> QED
    BY <1>a, <1>0, <1>5, <2>1, <2>2, <2>3, <2>4 DEF TypeOK
<1>11. \A u \in Threads \ {t} : ReqOf(u)' /\ LockOf(u)' /\ GiveOf(u)'
  <2>1. \A q \in Pages : arena[q] # NULL => arena'[q] # NULL /\ arena'[q].desc = arena[q].desc
    BY <1>2, <1>5
  <2> QED
    BY <1>5, <2>1, OthersKept
<1>12. ReqOf(t)' /\ LockOf(t)' /\ GiveOf(t)' /\ ScanOf(t)' /\ EmptyOf(t)'
  <2>1. ReqOf(t)'
    BY <1>a, <1>0, <1>1, <1>5 DEF ReqOf, InCall, InDesc
  <2>2. LockOf(t)'
    BY <1>a, <1>0, <1>1, <1>5 DEF LockInv, LockOf, InDesc
  <2>3. GiveOf(t)' /\ ScanOf(t)'
    BY <1>a, <1>5 DEF GiveOf, ScanOf
  <2>4. EmptyOf(t)'
    BY <1>a, <1>5, <1>6, <1>7 DEF EmptyOf
  <2> QED
    BY <2>1, <2>2, <2>3, <2>4
<1>13. ScanInv'
  BY <1>5, <1>12, SameThread DEF MallocInv, ScanInv
<1>14. lock[d] = t
  BY <1>a, <1>0, <1>1 DEF LockInv, LockOf, InDesc
<1>15. EmptyInv'
  <2>1. ASSUME NEW u \in Threads \ {t} PROVE EmptyOf(u)'
    <3>1. EmptyOf(u) /\ Same(u)
      BY <1>a, <1>5 DEF MallocInv, EmptyInv
    <3>2. ~(pc[u] \in InDesc /\ req[u].desc = d)
      BY <1>a, <1>0, <1>1, <1>14, OneInDesc
    <3>3. req[u].desc \in Descs \cup {NULL}
      BY <1>a, <1>0 DEF TypeOK, Requests
    <3> QED
      BY <1>5, <3>1, <3>2, <3>3 DEF EmptyOf, Same, InDesc
  <2> QED
    BY <1>12, <2>1 DEF EmptyInv
<1>16. \A u \in Threads, q \in Pages : Closing(u, q)' <=> Closing(u, q)
  <2>1. \A q \in Pages : ~Closing(t, q)' /\ ~Closing(t, q)
    BY <1>a, <1>1, <1>5 DEF Closing
  <2> QED
    BY <1>5, <2>1, SameThread
<1>17. \A u \in Threads : Held(u)' = Held(u)
  <2>1. Held(t)' = Held(t)
    BY <1>a, <1>1, <1>5 DEF Held
  <2> QED
    BY <1>5, <2>1, SameThread
<1>18. BlockInv'
  BY <1>1, <1>2, <1>5, <1>6, <1>7, <1>8, <1>16, <1>17, BlockNewArena DEF MallocInv
<1>19. PageInv'
  <2>0. ArenaAt(p) = {}
    BY <1>2 DEF ArenaAt
  <2>1. ArenaAt(p)' = Pend(t)
    <3>1. ArenaAt(p)' = Group(p, 1)
      BY <1>1, <1>9 DEF ArenaAt
    <3> QED
      BY <1>2, <3>1
  <2>2. Pend(t)' = {}
    BY <1>a, <1>5 DEF Pend
  <2>3. \A q \in Pages \ {p} : ArenaAt(q)' = ArenaAt(q)
    BY <1>a, <1>5 DEF ArenaAt
  <2>4. \A u \in Threads \ {t} : Pend(u)' = Pend(u)
    BY <1>5, SameThread
  <2> QED
    BY <1>2, <1>5, <2>0, <2>1, <2>2, <2>3, <2>4, PageMove DEF MallocInv
<1>20. BigInv'
  BY <1>a, <1>0, <1>1, <1>5, <1>9 DEF BigInv
<1>21. FullInv'
  <2>1. ASSUME NEW e \in Descs, NEW q \in Pages, ArenaOf(q, e)', Open(q)',
               arena'[q].free_cnt = blocks_per_arena[e]
        PROVE  \E u \in Threads : pc'[u] = "pop" /\ req'[u].desc = e /\ Head(free_list'[e])[1] = q
    <3>1. CASE q = p
      <4>1. e = d
        BY <1>9, <2>1, <3>1 DEF ArenaOf
      <4> QED
        BY <1>a, <1>5, <1>6, <1>7, <3>1, <4>1
    <3>2. CASE q # p
      <4>1. ArenaOf(q, e) /\ Open(q) /\ arena[q].free_cnt = blocks_per_arena[e]
        BY <1>5, <1>16, <2>1, <3>2, OpenSame DEF ArenaOf
      <4>2. PICK u \in Threads : pc[u] = "pop" /\ req[u].desc = e /\ Head(free_list[e])[1] = q
        BY <4>1 DEF MallocInv, FullInv
      <4>3. u # t
        BY <1>1, <4>2
      <4>4. e # d
        BY <1>a, <1>0, <1>1, <1>14, <4>2, <4>3, OneInDesc DEF InDesc
      <4> QED
        BY <1>5, <4>2, <4>3, <4>4 DEF Same
    <3> QED
      BY <3>1, <3>2
  <2> QED
    BY <2>1 DEF FullInv
<1> QED
  BY <1>10, <1>11, <1>12, <1>13, <1>15, <1>18, <1>19, <1>20, <1>21
  DEF MallocInv, ReqInv, LockInv, GiveInv

LEMMA PopStep ==
  ASSUME MallocInv, NEW t \in Threads, Pop(t)
  PROVE  MallocInv'
<1>a. PICK d, b, p : d = req[t].desc /\ b = Head(free_list[d]) /\ p = b[1]
  OBVIOUS
<1>0. TypeOK /\ ReqOf(t) /\ LockInv /\ EmptyOf(t) /\ BigInv /\ BlockInv
  BY DEF MallocInv, ReqInv, EmptyInv
<1>1. pc[t] = "pop" /\ d \in Descs /\ d # NULL /\ d # "pool" /\ free_list[d] # <<>> /\ lock[d] = t
  <2>1. pc[t] = "pop"
    BY DEF Pop
  <2>2. d \in Descs /\ d # NULL /\ d # "pool"
    BY <1>a, <1>0, <2>1, Constants DEF TypeOK, ReqOf, Requests
  <2>3. free_list[d] # <<>>
    BY <1>a, <1>0, <2>1, <2>2 DEF EmptyOf
  <2>4. lock[d] = t
    BY <1>a, <1>0, <2>1, <2>2 DEF LockInv, LockOf, InDesc
  <2> QED
    BY <2>1, <2>2, <2>3, <2>4
<1> DEFINE q == free_list[d]
<1>2. q \in Seq(Block) /\ Once(q)
  BY <1>0, <1>1 DEF TypeOK, Block, BlockInv, ListInv, ListOf
<1>3. /\ b \in Block /\ On(q, b) /\ Tail(q) \in Seq(Block) /\ Once(Tail(q))
      /\ \A x : On(Tail(q), x) <=> On(q, x) /\ x # b
  BY <1>a, <1>1, <1>2, FirstOff
<1>4. b \in OnList(d)
  BY <1>0, <1>1, <1>3, OnListOn
<1>5. ArenaOf(p, d) /\ p \in Pages /\ arena[p] # NULL /\ arena[p].desc = d /\ b \notin Held(t)
  <2>1. ArenaOf(p, d) /\ b \notin Held(t)
    BY <1>a, <1>0, <1>1, <1>4 DEF BlockInv, ListInv, ListOf
  <2> QED
    BY <2>1 DEF ArenaOf
<1>6. arena[p].free_cnt \in Nat /\ arena[p].free_cnt > 0 /\ arena[p].free_cnt <= blocks_per_arena[d]
  BY <1>a, <1>0, <1>1, <1>4, ListedCount
<1>7. arena[p] = [desc |-> d, free_cnt |-> arena[p].free_cnt]
  BY <1>0, <1>5 DEF TypeOK
<1>8. Got(t, b) /\ free_list' = [free_list EXCEPT ![d] = Tail(@)]
      /\ arena' = [arena EXCEPT ![p].free_cnt = @ - 1] /\ lock' = [lock EXCEPT ![d] = NULL]
      /\ UNCHANGED <<used_map, page_idx, groups>>
  BY <1>a DEF Pop, block_to_arena
<1>9. /\ arena'[p] = [desc |-> d, free_cnt |-> arena[p].free_cnt - 1]
      /\ \A r \in Pages \ {p} : arena'[r] = arena[r]
  <2>1. arena'[p] = [arena[p] EXCEPT !.free_cnt = arena[p].free_cnt - 1]
    BY <1>0, <1>5, <1>8 DEF TypeOK
  <2>2. \A a, c, n, m : a = [desc |-> c, free_cnt |-> n]
          => [a EXCEPT !.free_cnt = m] = [desc |-> c, free_cnt |-> m]
    OBVIOUS
  <2>3. arena'[p] = [desc |-> d, free_cnt |-> arena[p].free_cnt - 1]
    BY <1>7, <2>1, <2>2
  <2>4. \A r \in Pages \ {p} : arena'[r] = arena[r]
    BY <1>0, <1>8 DEF TypeOK
  <2> QED
    BY <2>3, <2>4
<1>10. /\ arena'[p] \in [desc : Descs \cup {NULL}, free_cnt : Nat]
       /\ arena'[p] # NULL /\ arena'[p].desc = d /\ arena'[p].free_cnt = arena[p].free_cnt - 1
  BY <1>1, <1>6, <1>9, Constants
<1>11. /\ free_list'[d] = Tail(q) /\ \A e \in Descs \ {d} : free_list'[e] = free_list[e]
       /\ lock'[d] = NULL /\ \A l \in (Descs \cup {"pool"}) \ {d} : lock'[l] = lock[l]
  BY <1>0, <1>1, <1>8 DEF TypeOK
<1>12. /\ \A u \in Threads \ {t} : Same(u)
       /\ blocks' \in [Threads -> SUBSET (Pages \X Nat)]
       /\ req' \in [Threads -> Requests]
       /\ pc' \in [Threads -> {"run", "desc", "pool", "scan", "flip", "arena", "pop", "big",
                               "free", "freepage", "freebig"}]
       /\ Held(t)' = Held(t) \cup {b}
       /\ pc'[t] \in {"run", "free", "freebig"}
       /\ req'[t].desc = NULL /\ req'[t].old = req[t].old
       /\ ReqOf(t)'
       /\ pc'[t] # "run" => /\ req[t].old \in Block /\ req[t].old \notin blocks'[t]
                            /\ req[t].old[1] \in Pages /\ arena[req[t].old[1]] # NULL
                            /\ pc'[t] = FreeAt(req[t].old)
  BY <1>1, <1>3, <1>5, <1>8, GotFacts
<1>13. TypeOK'
  <2>1. arena' \in [Pages -> {NULL} \cup [desc : Descs \cup {NULL}, free_cnt : Nat]]
    <3>1. PICK a : arena' = [arena EXCEPT ![p] = a]
      BY <1>8
    <3>2. a = arena'[p]
      BY <1>0, <1>5, <3>1 DEF TypeOK
    <3> QED
      BY <1>0, <1>10, <3>1, <3>2 DEF TypeOK
  <2>2. free_list' \in [Descs -> Seq(Pages \X Nat)]
    <3>1. Tail(q) \in Seq(Pages \X Nat) /\ free_list' = [free_list EXCEPT ![d] = Tail(q)]
      BY <1>3, <1>8 DEF Block
    <3> QED
      BY <1>0, <3>1 DEF TypeOK
  <2>3. lock' \in [Descs \cup {"pool"} -> Threads \cup {NULL}]
    BY <1>0, <1>8 DEF TypeOK
  <2> QED
    BY <1>0, <1>8, <1>12, <2>1, <2>2, <2>3 DEF TypeOK
<1>14. \A r \in Pages : arena[r] # NULL => arena'[r] # NULL /\ arena'[r].desc = arena[r].desc
  BY <1>5, <1>9, <1>10
<1>15. \A u \in Threads \ {t} : ReqOf(u)' /\ LockOf(u)' /\ GiveOf(u)'
  <2>1. \A u \in Threads \ {t}, l \in Descs \cup {"pool"} : lock'[l] = u <=> lock[l] = u
    BY <1>1, <1>11, Constants
  <2> QED
    BY <1>12, <1>14, <2>1, OthersKept
<1>16. LockOf(t)'
  <2>1. LockOf(t) /\ t # NULL
    BY <1>0, Constants DEF LockInv
  <2>2. lock'["pool"] # t /\ \A e \in Descs : lock'[e] # t
    BY <1>a, <1>1, <1>11, <2>1 DEF LockOf, InDesc
  <2> QED
    BY <1>12, <2>2 DEF LockOf, InDesc
<1>17. GiveOf(t)'
  <2>1. CASE pc'[t] = "run"
    BY <2>1 DEF GiveOf
  <2>2. CASE pc'[t] # "run"
    <3>1. arena'[req[t].old[1]].desc = arena[req[t].old[1]].desc
      BY <1>12, <1>14, <2>2
    <3>2. pc'[t] = "free" <=> arena[req[t].old[1]].desc # NULL
      BY <1>12, <2>2 DEF FreeAt, block_to_arena
    <3> QED
      BY <1>12, <2>2, <3>1, <3>2 DEF GiveOf
  <2> QED
    BY <2>1, <2>2
<1>18. ScanInv'
  <2>1. ScanOf(t)'
    BY <1>12 DEF ScanOf
  <2> QED
    BY <1>8, <1>12, <2>1, SameThread DEF MallocInv, ScanInv
<1>19. EmptyInv'
  <2>1. ASSUME NEW u \in Threads \ {t} PROVE EmptyOf(u)'
    <3>1. EmptyOf(u) /\ Same(u)
      BY <1>12 DEF MallocInv, EmptyInv
    <3>2. ~(pc[u] \in InDesc /\ req[u].desc = d)
      BY <1>0, <1>1, OneInDesc
    <3>3. req[u].desc \in Descs \cup {NULL}
      BY <1>0 DEF TypeOK, Requests
    <3> QED
      BY <1>11, <3>1, <3>2, <3>3 DEF EmptyOf, Same, InDesc
  <2>2. EmptyOf(t)'
    BY <1>12 DEF EmptyOf
  <2> QED
    BY <2>1, <2>2 DEF EmptyInv
<1>20. \A u \in Threads, r \in Pages : Closing(u, r)' <=> Closing(u, r)
  <2>1. \A r \in Pages : ~Closing(t, r)' /\ ~Closing(t, r)
    BY <1>1, <1>12 DEF Closing
  <2> QED
    BY <1>12, <2>1, SameThread
<1>21. BlockInv'
  <2>1. OnList(d)' = OnList(d) \ {b}
    <3>1. \A x : x \in OnList(d)' <=> On(free_list'[d], x)
      <4>1. free_list'[d] \in Seq(Block)
        BY <1>3, <1>11
      <4> QED
        BY <4>1, OnSet DEF OnList
    <3>2. \A x : x \in OnList(d) <=> On(q, x)
      BY <1>0, <1>1, OnListOn
    <3> QED
      BY <1>3, <1>11, <3>1, <3>2
  <2>2. IsFiniteSet(OnList(d))
    BY <1>0, <1>1, <1>2, OnListFinite
  <2>3. \A u \in Threads \ {t} : Held(u)' = Held(u)
    BY <1>12, SameThread
  <2>4. Once(free_list'[d]) /\ b[1] = p
    BY <1>a, <1>3, <1>11
  <2>5. d \in Descs /\ p \in Pages /\ arena[p].free_cnt \in Nat /\ b \in Block /\ arena'[p] # NULL
    BY <1>1, <1>3, <1>5, <1>6, <1>10
  <2>6. \A e \in Descs \ {d} : free_list'[e] = free_list[e]
    BY <1>11
  <2>7. Held(t)' = Held(t) \cup {b}
    BY <1>12
  <2> HIDE DEF q
  <2> QED
    BY <1>0, <1>4, <1>9, <1>20, <2>1, <2>2, <2>3, <2>4, <2>5, <2>6, <2>7, BlockPop
<1>22. PageInv'
  <2>1. \A r \in Pages : ArenaAt(r)' = ArenaAt(r)
    <3>1. ArenaAt(p)' = ArenaAt(p)
      BY <1>1, <1>5, <1>10 DEF ArenaAt
    <3>2. \A r \in Pages \ {p} : ArenaAt(r)' = ArenaAt(r)
      BY <1>9 DEF ArenaAt
    <3> QED
      BY <3>1, <3>2
  <2>2. Pend(t)' = {} /\ Pend(t) = {}
    BY <1>1, <1>12 DEF Pend
  <2>3. \A u \in Threads : Pend(u)' = Pend(u)
    BY <1>12, <2>2, SameThread
  <2> QED
    BY <1>8, <2>1, <2>3, PageKept DEF MallocInv
<1>23. BigInv'
  BY <1>0, <1>1, <1>9, <1>10 DEF BigInv
<1>24. FullInv'
  <2>1. ASSUME NEW e \in Descs, NEW r \in Pages, ArenaOf(r, e)', Open(r)',
               arena'[r].free_cnt = blocks_per_arena[e]
        PROVE  \E u \in Threads : pc'[u] = "pop" /\ req'[u].desc = e /\ Head(free_list'[e])[1] = r
    <3>1. r # p
      <4>1. ASSUME r = p PROVE FALSE
        <5>1. e = d
          BY <1>10, <2>1, <4>1 DEF ArenaOf
        <5> QED
          BY <1>6, <1>10, <2>1, <4>1, <5>1, Constants
      <4> QED
        BY <4>1
    <3>2. ArenaOf(r, e) /\ Open(r) /\ arena[r].free_cnt = blocks_per_arena[e]
      BY <1>9, <1>20, <2>1, <3>1, OpenSame DEF ArenaOf
    <3>3. PICK u \in Threads : pc[u] = "pop" /\ req[u].desc = e /\ Head(free_list[e])[1] = r
      BY <3>2 DEF MallocInv, FullInv
    <3>4. u # t
      BY <1>a, <3>1, <3>3
    <3>5. e # d
      BY <1>0, <1>1, <3>3, <3>4, OneInDesc DEF InDesc
    <3> QED
      BY <1>11, <1>12, <3>3, <3>4, <3>5 DEF Same
  <2> QED
    BY <2>1 DEF FullInv
<1> QED
  BY <1>12, <1>13, <1>15, <1>16, <1>17, <1>18, <1>19, <1>21, <1>22, <1>23, <1>24
  DEF MallocInv, ReqInv, LockInv, GiveInv

LEMMA BigBlockStep ==
  ASSUME MallocInv, NEW t \in Threads, BigBlock(t)
  PROVE  MallocInv'
<1>a. PICK p, n, b : p = page_idx[t] /\ n = req[t].cnt /\ b = <<p, 0>>
  OBVIOUS
<1>0. TypeOK /\ ReqOf(t) /\ LockInv /\ BigInv /\ BlockInv
  BY DEF MallocInv, ReqInv
<1>1. pc[t] = "big" /\ n \in Nat /\ n > 0 /\ req[t].desc = NULL
  BY <1>a, <1>0, Constants DEF BigBlock, TypeOK, ReqOf, Requests
<1>2. p \in Pages /\ arena[p] = NULL /\ Open(p) /\ Pend(t) = Group(p, n)
  BY <1>a, <1>1, PendFresh
<1>3. b \in Block /\ b[1] = p
  BY <1>a, <1>2 DEF Block
<1>4. b \notin Held(t)
  BY <1>0, <1>2, <1>3 DEF BlockInv, HeldInv
<1>5. /\ Got(t, b) /\ arena' = [arena EXCEPT ![p] = [desc |-> NULL, free_cnt |-> n]]
      /\ page_idx' = [page_idx EXCEPT ![t] = 0]
      /\ UNCHANGED <<used_map, free_list, lock, groups>>
  BY <1>a DEF BigBlock, arena_to_block
<1>6. /\ arena'[p] = [desc |-> NULL, free_cnt |-> n] /\ \A r \in Pages \ {p} : arena'[r] = arena[r]
      /\ page_idx'[t] = 0 /\ \A u \in Threads \ {t} : page_idx'[u] = page_idx[u]
  BY <1>0, <1>2, <1>5 DEF TypeOK
<1>7. /\ arena'[p] \in [desc : Descs \cup {NULL}, free_cnt : Nat]
      /\ arena'[p] # NULL /\ arena'[p].desc = NULL /\ arena'[p].free_cnt = n
  BY <1>1, <1>6, Constants
<1>8. /\ \A u \in Threads \ {t} : Same(u)
      /\ blocks' \in [Threads -> SUBSET (Pages \X Nat)]
      /\ req' \in [Threads -> Requests]
      /\ pc' \in [Threads -> {"run", "desc", "pool", "scan", "flip", "arena", "pop", "big",
                              "free", "freepage", "freebig"}]
      /\ Held(t)' = Held(t) \cup {b}
      /\ pc'[t] \in {"run", "free", "freebig"}
      /\ req'[t].desc = NULL /\ req'[t].old = req[t].old
      /\ ReqOf(t)'
      /\ pc'[t] # "run" => /\ req[t].old \in Block /\ req[t].old \notin blocks'[t]
                           /\ req[t].old[1] \in Pages /\ arena[req[t].old[1]] # NULL
                           /\ pc'[t] = FreeAt(req[t].old)
  BY <1>1, <1>3, <1>4, <1>5, <1>6, GotFacts
<1>9. TypeOK'
  <2>1. arena' \in [Pages -> {NULL} \cup [desc : Descs \cup {NULL}, free_cnt : Nat]]
    <3>1. PICK a : arena' = [arena EXCEPT ![p] = a]
      BY <1>5
    <3>2. a = arena'[p]
      BY <1>0, <1>2, <3>1 DEF TypeOK
    <3> QED
      BY <1>0, <1>7, <3>1, <3>2 DEF TypeOK
  <2>2. page_idx' \in [Threads -> Nat]
    BY <1>0, <1>5 DEF TypeOK
  <2> QED
    BY <1>0, <1>5, <1>8, <2>1, <2>2 DEF TypeOK
<1>10. \A r \in Pages : arena[r] # NULL => arena'[r] # NULL /\ arena'[r].desc = arena[r].desc
  BY <1>2, <1>6
<1>11. \A u \in Threads \ {t} : ReqOf(u)' /\ LockOf(u)' /\ GiveOf(u)'
  BY <1>5, <1>8, <1>10, OthersKept
<1>12. LockOf(t)'
  <2>1. LockOf(t)
    BY <1>0 DEF LockInv
  <2>2. lock'["pool"] # t /\ \A e \in Descs : lock'[e] # t
    BY <1>1, <1>5, <2>1 DEF LockOf, InDesc
  <2> QED
    BY <1>8, <2>2 DEF LockOf, InDesc
<1>13. GiveOf(t)'
  <2>1. CASE pc'[t] = "run"
    BY <2>1 DEF GiveOf
  <2>2. CASE pc'[t] # "run"
    <3>1. arena'[req[t].old[1]].desc = arena[req[t].old[1]].desc
      BY <1>8, <1>10, <2>2
    <3>2. pc'[t] = "free" <=> arena[req[t].old[1]].desc # NULL
      BY <1>8, <2>2 DEF FreeAt, block_to_arena
    <3> QED
      BY <1>8, <2>2, <3>1, <3>2 DEF GiveOf
  <2> QED
    BY <2>1, <2>2
<1>14. ScanInv' /\ EmptyInv'
  <2>1. ScanOf(t)' /\ EmptyOf(t)'
    BY <1>8 DEF ScanOf, EmptyOf
  <2>2. ScanInv'
    BY <1>5, <1>8, <2>1, SameThread DEF MallocInv, ScanInv
  <2>3. EmptyInv'
    BY <1>5, <1>8, <2>1, SameThread DEF MallocInv, EmptyInv
  <2> QED
    BY <2>2, <2>3
<1>15. \A u \in Threads, r \in Pages : Closing(u, r)' <=> Closing(u, r)
  <2>1. \A r \in Pages : ~Closing(t, r)' /\ ~Closing(t, r)
    BY <1>1, <1>8 DEF Closing
  <2> QED
    BY <1>8, <2>1, SameThread
<1>16. BlockInv'
  <2>1. \A u \in Threads \ {t} : Held(u)' = Held(u)
    BY <1>8, SameThread
  <2>2. Held(t)' = Held(t) \cup {<<p, 0>>}
    BY <1>a, <1>8
  <2>3. free_list' = free_list
    BY <1>5
  <2> QED
    BY <1>0, <1>2, <1>6, <1>7, <1>15, <2>1, <2>2, <2>3, BlockBig
<1>17. PageInv'
  <2>1. ArenaAt(p) = {}
    BY <1>2 DEF ArenaAt
  <2>2. ArenaAt(p)' = Pend(t)
    <3>1. ArenaAt(p)' = Group(p, n)
      BY <1>7 DEF ArenaAt
    <3> QED
      BY <1>2, <3>1
  <2>3. Pend(t)' = {}
    BY <1>8 DEF Pend
  <2>4. \A r \in Pages \ {p} : ArenaAt(r)' = ArenaAt(r)
    BY <1>6 DEF ArenaAt
  <2>5. \A u \in Threads \ {t} : Pend(u)' = Pend(u)
    BY <1>8, SameThread
  <2> QED
    BY <1>2, <1>5, <2>1, <2>2, <2>3, <2>4, <2>5, PageMove DEF MallocInv
<1>18. BigInv'
  BY <1>0, <1>1, <1>6, <1>7 DEF BigInv
<1>19. FullInv'
  <2>1. ASSUME NEW e \in Descs, NEW r \in Pages, ArenaOf(r, e)', Open(r)',
               arena'[r].free_cnt = blocks_per_arena[e]
        PROVE  \E u \in Threads : pc'[u] = "pop" /\ req'[u].desc = e /\ Head(free_list'[e])[1] = r
    <3>1. r # p
      BY <1>7, <2>1, Constants DEF ArenaOf
    <3>2. ArenaOf(r, e) /\ Open(r) /\ arena[r].free_cnt = blocks_per_arena[e]
      BY <1>6, <1>15, <2>1, <3>1, OpenSame DEF ArenaOf
    <3>3. PICK u \in Threads : pc[u] = "pop" /\ req[u].desc = e /\ Head(free_list[e])[1] = r
      BY <3>2 DEF MallocInv, FullInv
    <3>4. u # t
      BY <1>1, <3>3
    <3> QED
      BY <1>5, <1>8, <3>3, <3>4 DEF Same
  <2> QED
    BY <2>1 DEF FullInv
<1> QED
  BY <1>8, <1>9, <1>11, <1>12, <1>13, <1>14, <1>16, <1>17, <1>18, <1>19
  DEF MallocInv, ReqInv, LockInv, GiveInv

LEMMA FlipStep ==
  ASSUME MallocInv, NEW t \in Threads, Flip(t)
  PROVE  MallocInv'
<1>a. PICK p, n, S : p = page_idx[t] /\ n = req[t].cnt /\ S = Group(p, n)
  OBVIOUS
<1>0. TypeOK /\ ReqOf(t) /\ LockInv /\ ScanOf(t) /\ EmptyOf(t) /\ BigInv /\ BlockInv
  BY DEF MallocInv, ReqInv, ScanInv, EmptyInv
<1>1. /\ pc[t] = "flip" /\ used_map' = used_map \cup S
      /\ lock' = [lock EXCEPT !["pool"] = NULL] /\ UNCHANGED <<arena, free_list, blocks>>
  BY <1>a DEF Flip
<1>2. p \in Nat /\ n \in 1 .. MaxGroup /\ n > 0 /\ p + n <= page_cnt /\ S \cap used_map = {}
  BY <1>a, <1>0, <1>1, Constants DEF TypeOK, ReqOf, Requests, ScanOf, InPool, ContainsUsed
<1>3. p \in Pages /\ S \subseteq Pages
  <2>1. S = p .. (p + n - 1)
    BY <1>a DEF Group
  <2> QED
    BY <1>2, <2>1, Constants DEF Pages
<1>4. lock["pool"] = t /\ lock'["pool"] = NULL /\ \A d \in Descs : lock'[d] = lock[d]
  BY <1>0, <1>1, Constants DEF LockInv, LockOf, TypeOK
<1>5. \A u \in Threads \ {t} : Same(u)
  BY <1>0, <1>1 DEF Flip, TypeOK, Same
<1>6. \/ /\ req[t].raw /\ pc'[t] = "run" /\ req'[t] = NoReq /\ req[t].desc = NULL
         /\ groups' = [groups EXCEPT ![t] = @ \cup {<<p, n>>}]
      \/ /\ ~req[t].raw /\ UNCHANGED <<req, page_idx, groups>>
         /\ pc'[t] = IF req[t].desc # NULL THEN "arena" ELSE "big"
  <2>1. CASE req[t].raw
    BY <1>a, <1>0, <2>1 DEF Flip, TypeOK, ReqOf
  <2>2. CASE ~req[t].raw
    BY <1>0, <2>2 DEF Flip, TypeOK
  <2> QED
    BY <2>1, <2>2
<1>7. TypeOK'
  <2>1. NoReq \in Requests
    BY Constants DEF NoReq, Requests
  <2>2. req' \in [Threads -> Requests]
    BY <1>0, <2>1 DEF Flip, TypeOK
  <2>3. page_idx' \in [Threads -> Nat]
    <3>1. page_idx' = [page_idx EXCEPT ![t] = 0] \/ page_idx' = page_idx
      BY DEF Flip
    <3> QED
      BY <1>0, <3>1 DEF TypeOK
  <2>4. pc' \in [Threads -> {"run", "desc", "pool", "scan", "flip", "arena", "pop", "big",
                              "free", "freepage", "freebig"}]
    <3>1. \E x \in {"run", "arena", "big"} : pc' = [pc EXCEPT ![t] = x]
      BY DEF Flip
    <3> QED
      BY <1>0, <3>1 DEF TypeOK
  <2>5. groups' \in [Threads -> SUBSET (Pages \X (1 .. MaxGroup))]
    <3>1. <<p, n>> \in Pages \X (1 .. MaxGroup)
      BY <1>2, <1>3
    <3>2. PICK g \in Pages \X (1 .. MaxGroup) :
            groups' = [groups EXCEPT ![t] = groups[t] \cup {g}] \/ groups' = groups
      BY <1>6, <3>1
    <3> QED
      BY <1>0, <3>2 DEF TypeOK
  <2>6. lock' \in [Descs \cup {"pool"} -> Threads \cup {NULL}]
    BY <1>0, <1>1 DEF TypeOK
  <2>7. used_map' \subseteq Pages
    BY <1>0, <1>1, <1>3 DEF TypeOK
  <2> QED
    BY <1>0, <1>1, <2>2, <2>3, <2>4, <2>5, <2>6, <2>7 DEF TypeOK
<1>8. \A u \in Threads \ {t} : ReqOf(u)' /\ LockOf(u)' /\ GiveOf(u)'
  <2>1. \A u \in Threads \ {t}, l \in Descs \cup {"pool"} : lock'[l] = u <=> lock[l] = u
    BY <1>4, Constants
  <2>2. \A q \in Pages : arena[q] # NULL => arena'[q] # NULL /\ arena'[q].desc = arena[q].desc
    BY <1>1
  <2> QED
    BY <1>5, <2>1, <2>2, OthersKept
<1>9. ReqOf(t)'
  <2>1. CASE req[t].raw
    BY <1>6, <2>1 DEF ReqOf, InCall, InDesc, NoReq
  <2>2. CASE ~req[t].raw
    BY <1>0, <1>1, <1>6, <2>2 DEF ReqOf, InCall, InDesc
  <2> QED
    BY <2>1, <2>2
<1>10. LockOf(t)'
  <2>1. LockOf(t) /\ t # NULL
    BY <1>0, Constants DEF LockInv
  <2>2. \A d \in Descs : lock[d] = t <=> req[t].desc = d
    BY <1>1, <2>1 DEF LockOf, InDesc
  <2>3. \A d \in Descs : lock'[d] = t <=> pc'[t] = "arena" /\ req'[t].desc = d
    BY <1>4, <1>6, <2>2, Constants
  <2>4. lock'["pool"] # t /\ pc'[t] \in {"run", "arena", "big"}
    BY <1>4, <1>6, <2>1
  <2>5. \A d \in Descs : pc'[t] = "big" => req'[t].desc # d
    BY <1>6, Constants
  <2> QED
    BY <2>3, <2>4, <2>5 DEF LockOf, InDesc
<1>11. GiveOf(t)' /\ ScanOf(t)'
  BY <1>6 DEF GiveOf, ScanOf
<1>12. EmptyOf(t)'
  BY <1>0, <1>1, <1>6 DEF EmptyOf
<1>13. ScanInv'
  <2>1. ASSUME NEW u \in Threads \ {t} PROVE ScanOf(u)'
    <3>1. pc[u] # "flip"
      BY <1>0, <1>4 DEF LockInv, LockOf
    <3> QED
      BY <1>5, <3>1 DEF ScanOf, Same
  <2> QED
    BY <1>11, <2>1 DEF ScanInv
<1>14. EmptyInv'
  BY <1>1, <1>5, <1>12, SameThread DEF MallocInv, EmptyInv
<1>15. \A u \in Threads, q \in Pages : Closing(u, q)' <=> Closing(u, q)
  <2>1. \A q \in Pages : ~Closing(t, q)' /\ ~Closing(t, q)
    BY <1>1, <1>6 DEF Closing
  <2> QED
    BY <1>5, <2>1, SameThread
<1>16. BlockInv'
  <2>1. Held(t)' = Held(t)
    BY <1>1, <1>6 DEF Held
  <2>2. \A u \in Threads : Held(u)' = Held(u)
    BY <1>5, <2>1, SameThread
  <2> QED
    BY <1>0, <1>1, <1>15, <2>2, BlockKept
<1>17. PageInv'
  <2>1. \A q \in Pages : ArenaAt(q)' = ArenaAt(q)
    BY <1>1 DEF ArenaAt
  <2>2. \A u \in Threads \ {t} : Pend(u)' = Pend(u)
    BY <1>5, SameThread
  <2>3. Pend(t) = {}
    BY <1>1 DEF Pend
  <2>4. PageInv
    BY DEF MallocInv
  <2>5. CASE req[t].raw
    <3>1. Pend(t)' = {}
      BY <1>6, <2>5 DEF Pend
    <3>2. \A u \in Threads : Pend(u)' = Pend(u)
      BY <2>2, <2>3, <3>1
    <3>3. groups'[t] = groups[t] \cup {<<p, n>>} /\ \A u \in Threads \ {t} : groups'[u] = groups[u]
      BY <1>0, <1>6, <2>5 DEF TypeOK
    <3>4. GroupOf(<<p, n>>) = S
      BY <1>a DEF GroupOf
    <3>5. PICK g : g = <<p, n>>
      OBVIOUS
    <3>6. /\ GroupOf(g) \cap used_map = {} /\ used_map' = used_map \cup GroupOf(g)
          /\ groups'[t] = groups[t] \cup {g}
      BY <1>1, <1>2, <3>3, <3>4, <3>5
    <3> QED
      BY <2>1, <2>4, <3>2, <3>3, <3>6, PageTakeGroup
  <2>6. CASE ~req[t].raw
    <3>1. UNCHANGED groups /\ pc'[t] \in {"arena", "big"} /\ page_idx'[t] = p /\ req'[t].cnt = n
      BY <1>a, <1>6, <2>6
    <3>2. Pend(t)' = S
      BY <1>a, <3>1 DEF Pend
    <3> QED
      BY <1>1, <1>2, <2>1, <2>2, <2>3, <2>4, <3>1, <3>2, PageTakePend
  <2> QED
    BY <2>5, <2>6
<1>18. BigInv'
  BY <1>0, <1>1 DEF BigInv
<1>19. FullInv'
  <2>1. ASSUME NEW e \in Descs, NEW r \in Pages, ArenaOf(r, e)', Open(r)',
               arena'[r].free_cnt = blocks_per_arena[e]
        PROVE  \E u \in Threads : pc'[u] = "pop" /\ req'[u].desc = e /\ Head(free_list'[e])[1] = r
    <3>1. ArenaOf(r, e) /\ Open(r) /\ arena[r].free_cnt = blocks_per_arena[e]
      BY <1>1, <1>15, <2>1, OpenSame DEF ArenaOf
    <3>2. PICK u \in Threads : pc[u] = "pop" /\ req[u].desc = e /\ Head(free_list[e])[1] = r
      BY <3>1 DEF MallocInv, FullInv
    <3> QED
      BY <1>1, <1>5, <3>2 DEF Same
  <2> QED
    BY <2>1 DEF FullInv
<1> QED
  BY <1>7, <1>8, <1>9, <1>10, <1>11, <1>13, <1>14, <1>16, <1>17, <1>18, <1>19
  DEF MallocInv, ReqInv, LockInv, GiveInv

(* free's step under the descriptor's lock. *)
LEMMA FreeLockStep ==
  ASSUME MallocInv, NEW t \in Threads, FreeLock(t)
  PROVE  MallocInv'
<1>a. PICK b, p, d, n, list : /\ b = req[t].old /\ p = b[1] /\ d = arena[p].desc
                              /\ n = arena[p].free_cnt + 1 /\ list = <<b>> \o free_list[d]
  OBVIOUS
<1>0. TypeOK /\ ReqOf(t) /\ LockInv /\ GiveOf(t) /\ BigInv /\ BlockInv
  BY DEF MallocInv, ReqInv, GiveInv
<1>1. pc[t] = "free" /\ lock[d] = NULL
  BY <1>a DEF FreeLock, block_to_arena
<1>2. b \in Block /\ p \in Pages /\ arena[p] # NULL /\ b \in Held(t)
  BY <1>a, <1>1, OldArena
<1>3. d \in Descs /\ d # NULL /\ d # "pool" /\ b \notin blocks[t] /\ arena[p].free_cnt \in Nat
  <2>1. arena[p] \in [desc : Descs \cup {NULL}, free_cnt : Nat]
    BY <1>0, <1>2 DEF TypeOK
  <2>2. d # NULL /\ b \notin blocks[t]
    BY <1>a, <1>0, <1>1 DEF GiveOf
  <2> QED
    BY <1>a, <2>1, <2>2, Constants
<1>4. arena[p] = [desc |-> d, free_cnt |-> arena[p].free_cnt] /\ n \in Nat /\ blocks_per_arena[d] \in Nat
  <2>1. arena[p] \in [desc : Descs \cup {NULL}, free_cnt : Nat]
    BY <1>0, <1>2 DEF TypeOK
  <2>2. arena[p] = [desc |-> arena[p].desc, free_cnt |-> arena[p].free_cnt]
    BY <2>1
  <2>3. n \in Nat
    <3>1. n = arena[p].free_cnt + 1 /\ arena[p].free_cnt \in Nat
      BY <1>a, <1>3
    <3> QED
      BY <3>1
  <2>4. blocks_per_arena[d] \in Nat
    BY <1>3, Constants
  <2> QED
    BY <1>a, <2>2, <2>3, <2>4
<1>5. ArenaOf(p, d)
  BY <1>a, <1>2 DEF ArenaOf
<1>6. /\ arena' = [arena EXCEPT ![p].free_cnt = n]
      /\ \/ /\ n >= blocks_per_arena[d]
            /\ free_list' = [free_list EXCEPT ![d] = Unlist(list, p, d)]
            /\ lock' = [lock EXCEPT ![d] = t]
            /\ pc' = [pc EXCEPT ![t] = "freepage"]
            /\ UNCHANGED req
         \/ /\ ~(n >= blocks_per_arena[d])
            /\ free_list' = [free_list EXCEPT ![d] = list]
            /\ pc' = [pc EXCEPT ![t] = "run"]
            /\ req' = [req EXCEPT ![t] = NoReq]
            /\ UNCHANGED lock
      /\ UNCHANGED <<used_map, page_idx, blocks, groups>>
  BY <1>a DEF FreeLock, block_to_arena
<1>7. /\ arena'[p] = [desc |-> d, free_cnt |-> n] /\ \A r \in Pages \ {p} : arena'[r] = arena[r]
      /\ arena'[p] \in [desc : Descs \cup {NULL}, free_cnt : Nat]
      /\ arena'[p] # NULL /\ arena'[p].desc = d /\ arena'[p].free_cnt = n
  <2>1. arena'[p] = [arena[p] EXCEPT !.free_cnt = n]
    BY <1>0, <1>2, <1>6 DEF TypeOK
  <2>2. \A a, c, k, m : a = [desc |-> c, free_cnt |-> k]
          => [a EXCEPT !.free_cnt = m] = [desc |-> c, free_cnt |-> m]
    OBVIOUS
  <2>3. arena'[p] = [desc |-> d, free_cnt |-> n]
    BY <1>4, <2>1, <2>2
  <2>4. \A r \in Pages \ {p} : arena'[r] = arena[r]
    BY <1>0, <1>6 DEF TypeOK
  <2> QED
    BY <1>3, <1>4, <2>3, <2>4, Constants
<1>8. /\ \A u \in Threads \ {t} : Same(u)
      /\ \A e \in Descs \ {d} : free_list'[e] = free_list[e]
      /\ \A l \in (Descs \cup {"pool"}) \ {d} : lock'[l] = lock[l]
      /\ lock'[d] \in {t, NULL}
      /\ pc'[t] \in {"run", "freepage"}
      /\ UNCHANGED <<used_map, page_idx, blocks, groups>>
  BY <1>0, <1>1, <1>3, <1>6 DEF TypeOK, Same
<1> DEFINE q == free_list[d]
<1>9. q \in Seq(Block) /\ Once(q) /\ IsFiniteSet(OnList(d))
  <2>1. q \in Seq(Block) /\ Once(q)
    BY <1>0, <1>3 DEF TypeOK, Block, BlockInv, ListInv, ListOf
  <2> QED
    BY <1>0, <1>3, <2>1, OnListFinite
<1>10. (\A x : x \in OnList(d) <=> On(q, x)) /\ ~On(q, b)
  <2>1. \A x : x \in OnList(d) <=> On(q, x)
    BY <1>0, <1>3, OnListOn
  <2>2. b \notin OnList(d)
    BY <1>0, <1>2, <1>3 DEF BlockInv, ListInv, ListOf
  <2> QED
    BY <2>1, <2>2
<1>11. /\ list \in Seq(Block) /\ Once(list)
       /\ \A x : On(list, x) <=> x \in OnList(d) \/ x = b
  <2>1. list = <<b>> \o q
    BY <1>a
  <2> HIDE DEF q
  <2>2. /\ list \in Seq(Block) /\ Once(list)
        /\ \A x : On(list, x) <=> On(q, x) \/ x = b
    BY <1>2, <1>9, <1>10, <2>1, PushFront
  <2> QED
    BY <1>10, <2>2
<1> HIDE DEF q
<1>12. \A r \in Pages : arena[r] # NULL => arena'[r] # NULL /\ arena'[r].desc = arena[r].desc
  BY <1>a, <1>7
<1>13. \A u \in Threads \ {t} : ReqOf(u)' /\ LockOf(u)' /\ GiveOf(u)'
  <2>1. \A u \in Threads \ {t}, l \in Descs \cup {"pool"} : lock'[l] = u <=> lock[l] = u
    BY <1>1, <1>8, Constants
  <2> QED
    BY <1>8, <1>12, <2>1, OthersKept
<1>14. Held(t)' = Held(t) \ {b} /\ \A u \in Threads \ {t} : Held(u)' = Held(u)
  <2>1. Held(t) = blocks[t] \cup {b}
    BY <1>a, <1>1 DEF Held
  <2>2. Held(t)' = blocks[t]
    BY <1>8 DEF Held
  <2>3. Held(t)' = Held(t) \ {b}
    BY <1>3, <2>1, <2>2
  <2> QED
    BY <1>8, <2>3, SameThread
<1>15. \A u \in Threads : ~(pc[u] \in InDesc /\ req[u].desc = d)
  BY <1>0, <1>1, <1>3, Constants DEF LockInv, LockOf
<1>16. EmptyInv' /\ ScanInv'
  <2>1. ASSUME NEW u \in Threads \ {t} PROVE EmptyOf(u)'
    <3>1. EmptyOf(u) /\ Same(u)
      BY <1>8 DEF MallocInv, EmptyInv
    <3>2. req[u].desc \in Descs \cup {NULL}
      BY <1>0 DEF TypeOK, Requests
    <3> QED
      BY <1>8, <1>15, <3>1, <3>2 DEF EmptyOf, Same, InDesc
  <2>2. EmptyOf(t)' /\ ScanOf(t)'
    BY <1>8 DEF EmptyOf, ScanOf
  <2>3. ScanInv'
    BY <1>8, <2>2, SameThread DEF MallocInv, ScanInv
  <2> QED
    BY <2>1, <2>2, <2>3 DEF EmptyInv
<1>17. PageInv'
  <2>1. \A r \in Pages : ArenaAt(r)' = ArenaAt(r)
    <3>1. ArenaAt(p)' = ArenaAt(p)
      BY <1>a, <1>2, <1>3, <1>7 DEF ArenaAt
    <3>2. \A r \in Pages \ {p} : ArenaAt(r)' = ArenaAt(r)
      BY <1>7 DEF ArenaAt
    <3> QED
      BY <3>1, <3>2
  <2>2. Pend(t)' = {} /\ Pend(t) = {}
    BY <1>1, <1>8 DEF Pend
  <2>3. \A u \in Threads : Pend(u)' = Pend(u)
    BY <1>8, <2>2, SameThread
  <2> QED
    BY <1>8, <2>1, <2>3, PageKept DEF MallocInv
<1>18. BigInv'
  BY <1>0, <1>3, <1>7 DEF BigInv
<1>19. arena' \in [Pages -> {NULL} \cup [desc : Descs \cup {NULL}, free_cnt : Nat]]
  <2>1. PICK a : arena' = [arena EXCEPT ![p] = a]
    BY <1>6
  <2>2. a = arena'[p]
    BY <1>0, <1>2, <2>1 DEF TypeOK
  <2> QED
    BY <1>0, <1>7, <2>1, <2>2 DEF TypeOK
<1>20. CASE n >= blocks_per_arena[d]
  <2> DEFINE r == Unlist(list, p, d)
  <2>1. /\ free_list' = [free_list EXCEPT ![d] = r] /\ lock' = [lock EXCEPT ![d] = t]
        /\ pc' = [pc EXCEPT ![t] = "freepage"] /\ req' = req
    BY <1>6, <1>20
  <2>2. BlocksOf(p, d) \subseteq OnList(d) \cup {b} /\ n = blocks_per_arena[d]
    <3>1. b[1] = p /\ arena[p].free_cnt + 1 >= blocks_per_arena[d]
      BY <1>a, <1>20
    <3>2. BlocksOf(p, d) \subseteq OnList(d) \cup {b} /\ arena[p].free_cnt + 1 = blocks_per_arena[d]
      BY <1>0, <1>2, <1>3, <1>5, <1>9, <3>1, ArenaFull
    <3> QED
      BY <1>a, <3>2
  <2>3. /\ r \in Seq(Block) /\ Once(r)
        /\ \A x : On(r, x) <=> On(list, x) /\ x \notin BlocksOf(p, d)
    <3> DEFINE k == blocks_per_arena[d]
    <3>1. \A x : x \in BlocksOf(p, d) <=> \E i \in 0 .. k - 1 : x = arena_to_block(p, i)
      BY DEF BlocksOf
    <3>2. \A i \in 0 .. k - 1 : On(list, arena_to_block(p, i))
      BY <1>11, <2>2, <3>1
    <3>3. k \in Nat /\ r = Without(list, p, k)
      BY <1>4 DEF Unlist
    <3> HIDE DEF k, r
    <3>4. /\ r \in Seq(Block) /\ Once(r)
          /\ \A x : On(r, x) <=> On(list, x) /\ \A i \in 0 .. k - 1 : x # arena_to_block(p, i)
      BY <1>11, <3>2, <3>3, WithoutAll
    <3> QED
      BY <3>1, <3>4
  <2> HIDE DEF r
  <2>4. free_list'[d] = r /\ lock'[d] = t /\ pc'[t] = "freepage" /\ req'[t] = req[t]
    BY <1>0, <1>3, <2>1 DEF TypeOK
  <2>5. OnList(d)' = OnList(d) \ BlocksOf(p, d) /\ Once(free_list'[d])
    <3>1. \A x : x \in OnList(d)' <=> On(r, x)
      BY <2>3, <2>4, OnSet DEF OnList
    <3>2. b \in BlocksOf(p, d)
      <4>1. b[2] < blocks_per_arena[d]
        BY <1>a, <1>0, <1>2, <1>3 DEF BlockInv, HeldInv
      <4> QED
        BY <1>a, <1>2, <1>3, <4>1, BlockPages
    <3> QED
      BY <1>11, <2>3, <2>4, <3>1, <3>2
  <2>6. TypeOK'
    <3>1. free_list' \in [Descs -> Seq(Pages \X Nat)]
      BY <1>0, <2>1, <2>3 DEF TypeOK, Block
    <3>2. lock' \in [Descs \cup {"pool"} -> Threads \cup {NULL}]
      BY <1>0, <2>1 DEF TypeOK
    <3>3. pc' \in [Threads -> {"run", "desc", "pool", "scan", "flip", "arena", "pop", "big",
                                "free", "freepage", "freebig"}]
      BY <1>0, <2>1 DEF TypeOK
    <3> QED
      BY <1>0, <1>8, <1>19, <2>1, <3>1, <3>2, <3>3 DEF TypeOK
  <2>7. ReqOf(t)'
    BY <1>0, <1>1, <1>8, <2>4 DEF ReqOf, InCall, InDesc
  <2>8. LockOf(t)'
    <3>1. LockOf(t) /\ t # NULL
      BY <1>0, Constants DEF LockInv
    <3>2. lock'["pool"] # t /\ \A e \in Descs \ {d} : lock'[e] # t
      BY <1>1, <1>3, <1>8, <3>1 DEF LockOf, InDesc
    <3>3. arena'[req'[t].old[1]].desc = d
      BY <1>a, <1>7, <2>4
    <3> QED
      BY <2>4, <3>2, <3>3 DEF LockOf, InDesc
  <2>9. GiveOf(t)'
    <3>1. req'[t].old = b
      BY <1>a, <2>4
    <3>2. ArenaOf(p, d)'
      BY <1>2, <1>7 DEF ArenaOf
    <3> QED
      BY <1>a, <1>2, <1>3, <2>4, <3>1, <3>2 DEF GiveOf
  <2>10. \A u \in Threads, s \in Pages : Closing(u, s)' <=> Closing(u, s) \/ (u = t /\ s = p)
    <3>1. \A s \in Pages : ~Closing(t, s) /\ (Closing(t, s)' <=> s = p)
      BY <1>a, <1>1, <2>4 DEF Closing
    <3> QED
      BY <1>8, <3>1, SameThread
  <2>11. BlockInv'
    <3>1. arena'[p] = [desc |-> d, free_cnt |-> blocks_per_arena[d]] /\ b[1] = p
      BY <1>a, <1>7, <2>2
    <3>2. (\A s \in Pages \ {p} : arena'[s] = arena[s]) /\ arena'[p] # NULL
      BY <1>7
    <3>3. \A e \in Descs \ {d} : free_list'[e] = free_list[e]
      BY <1>8
    <3>4. BlocksOf(p, d) \subseteq OnList(d) \cup {b}
      BY <2>2
    <3> QED
      BY <1>0, <1>2, <1>3, <1>5, <1>14, <2>5, <2>10, <3>1, <3>2, <3>3, <3>4, BlockClose
  <2>12. FullInv'
    <3>1. ASSUME NEW e \in Descs, NEW s \in Pages, ArenaOf(s, e)', Open(s)',
                 arena'[s].free_cnt = blocks_per_arena[e]
          PROVE  \E u \in Threads : pc'[u] = "pop" /\ req'[u].desc = e /\ Head(free_list'[e])[1] = s
      <4>1. s # p
        BY <2>10, <3>1 DEF Open
      <4>2. Open(s)
        BY <2>10, <3>1 DEF Open
      <4>3. ArenaOf(s, e) /\ arena[s].free_cnt = blocks_per_arena[e]
        BY <1>7, <3>1, <4>1 DEF ArenaOf
      <4>4. PICK u \in Threads : pc[u] = "pop" /\ req[u].desc = e /\ Head(free_list[e])[1] = s
        BY <4>2, <4>3 DEF MallocInv, FullInv
      <4>5. u # t /\ e # d
        BY <1>1, <1>15, <4>4 DEF InDesc
      <4> QED
        BY <1>8, <4>4, <4>5 DEF Same
    <3> QED
      BY <3>1 DEF FullInv
  <2> QED
    BY <1>13, <1>16, <1>17, <1>18, <2>6, <2>7, <2>8, <2>9, <2>11, <2>12
    DEF MallocInv, ReqInv, LockInv, GiveInv
<1>21. CASE ~(n >= blocks_per_arena[d])
  <2>1. /\ free_list' = [free_list EXCEPT ![d] = list] /\ lock' = lock
        /\ pc' = [pc EXCEPT ![t] = "run"] /\ req' = [req EXCEPT ![t] = NoReq]
    BY <1>6, <1>21
  <2>2. free_list'[d] = list /\ pc'[t] = "run" /\ req'[t] = NoReq
    BY <1>0, <1>3, <2>1 DEF TypeOK
  <2>3. OnList(d)' = OnList(d) \cup {b} /\ Once(free_list'[d])
    <3>1. \A x : x \in OnList(d)' <=> On(list, x)
      BY <1>11, <2>2, OnSet DEF OnList
    <3> QED
      BY <1>11, <2>2, <3>1
  <2>4. TypeOK'
    <3>1. free_list' \in [Descs -> Seq(Pages \X Nat)]
      BY <1>0, <1>11, <2>1 DEF TypeOK, Block
    <3>2. NoReq \in Requests
      BY Constants DEF NoReq, Requests
    <3>3. req' \in [Threads -> Requests]
      BY <1>0, <2>1, <3>2 DEF TypeOK
    <3>4. pc' \in [Threads -> {"run", "desc", "pool", "scan", "flip", "arena", "pop", "big",
                                "free", "freepage", "freebig"}]
      BY <1>0, <2>1 DEF TypeOK
    <3> QED
      BY <1>0, <1>8, <1>19, <2>1, <3>1, <3>3, <3>4 DEF TypeOK
  <2>5. ReqOf(t)'
    BY <2>2 DEF ReqOf, InCall, InDesc, NoReq
  <2>6. LockOf(t)'
    <3>1. LockOf(t)
      BY <1>0 DEF LockInv
    <3> QED
      BY <1>1, <2>1, <2>2, <3>1 DEF LockOf, InDesc
  <2>7. GiveOf(t)'
    BY <2>2 DEF GiveOf
  <2>8. \A u \in Threads, s \in Pages : Closing(u, s)' <=> Closing(u, s)
    <3>1. \A s \in Pages : ~Closing(t, s) /\ ~Closing(t, s)'
      BY <1>1, <2>2 DEF Closing
    <3> QED
      BY <1>8, <3>1, SameThread
  <2>9. BlockInv'
    <3>1. arena'[p] = [desc |-> d, free_cnt |-> arena[p].free_cnt + 1] /\ b[1] = p
      BY <1>a, <1>7
    <3>2. (\A s \in Pages \ {p} : arena'[s] = arena[s]) /\ arena'[p] # NULL
      BY <1>7
    <3>3. \A e \in Descs \ {d} : free_list'[e] = free_list[e]
      BY <1>8
    <3> QED
      BY <1>0, <1>2, <1>3, <1>5, <1>9, <1>14, <2>3, <2>8, <3>1, <3>2, <3>3, BlockFree
  <2>10. FullInv'
    <3>1. ASSUME NEW e \in Descs, NEW s \in Pages, ArenaOf(s, e)', Open(s)',
                 arena'[s].free_cnt = blocks_per_arena[e]
          PROVE  \E u \in Threads : pc'[u] = "pop" /\ req'[u].desc = e /\ Head(free_list'[e])[1] = s
      <4>1. s # p
        <5>1. ASSUME s = p PROVE FALSE
          <6>1. e = d
            BY <1>7, <3>1, <5>1 DEF ArenaOf
          <6> QED
            BY <1>4, <1>7, <1>21, <3>1, <5>1, <6>1
        <5> QED
          BY <5>1
      <4>2. Open(s)
        BY <2>8, <3>1 DEF Open
      <4>3. ArenaOf(s, e) /\ arena[s].free_cnt = blocks_per_arena[e]
        BY <1>7, <3>1, <4>1 DEF ArenaOf
      <4>4. PICK u \in Threads : pc[u] = "pop" /\ req[u].desc = e /\ Head(free_list[e])[1] = s
        BY <4>2, <4>3 DEF MallocInv, FullInv
      <4>5. u # t /\ e # d
        BY <1>1, <1>15, <4>4 DEF InDesc
      <4> QED
        BY <1>8, <4>4, <4>5 DEF Same
    <3> QED
      BY <3>1 DEF FullInv
  <2> QED
    BY <1>13, <1>16, <1>17, <1>18, <2>4, <2>5, <2>6, <2>7, <2>9, <2>10
    DEF MallocInv, ReqInv, LockInv, GiveInv
<1> QED
  BY <1>20, <1>21

(* What free gives back, once the arena has no block in use. *)
LEMMA FreePageStep ==
  ASSUME MallocInv, NEW t \in Threads, FreePage(t)
  PROVE  MallocInv'
<1>a. PICK p, d : p = req[t].old[1] /\ d = arena[p].desc
  OBVIOUS
<1>0. TypeOK /\ LockInv /\ LockOf(t) /\ GiveOf(t) /\ BlockInv
  BY DEF MallocInv, LockInv, GiveInv
<1>1. /\ pc[t] = "freepage" /\ lock' = [lock EXCEPT ![d] = NULL]
      /\ arena' = [q \in Pages |-> IF q \in Group(p, 1) THEN NULL ELSE arena[q]]
      /\ used_map' = used_map \ Group(p, 1)
      /\ pc' = [pc EXCEPT ![t] = "run"] /\ req' = [req EXCEPT ![t] = NoReq]
      /\ UNCHANGED <<free_list, page_idx, blocks, groups>>
  BY <1>a DEF FreePage, block_to_arena, ReleaseGroup
<1>2. p \in Pages /\ arena[p] # NULL
  BY <1>a, <1>1, OldArena
<1>3. d \in Descs
  BY <1>a, <1>0, <1>1 DEF GiveOf, ArenaOf
<1>4. Group(p, 1) = {p} /\ ArenaAt(p) = Group(p, 1)
  <2>1. p \in Nat
    BY <1>2, Constants
  <2>2. Group(p, 1) = {p}
    BY <2>1 DEF Group
  <2> QED
    BY <1>a, <1>2, <1>3, <2>2, Constants DEF ArenaAt
<1>5. arena'[p] = NULL /\ \A q \in Pages \ {p} : arena'[q] = arena[q]
  BY <1>1, <1>2, <1>4
<1>6. lock[d] = t
  BY <1>a, <1>0, <1>1, <1>3 DEF LockOf
<1>7. /\ \A u \in Threads \ {t} : Same(u)
      /\ pc'[t] = "run" /\ req'[t] = NoReq
      /\ lock'[d] = NULL /\ \A l \in (Descs \cup {"pool"}) \ {d} : lock'[l] = lock[l]
  BY <1>0, <1>1, <1>3 DEF TypeOK, Same
<1>8. \A u \in Threads \ {t}, l \in Descs \cup {"pool"} : lock'[l] = u <=> lock[l] = u
  BY <1>6, <1>7, Constants
<1>9. LockOf(t)'
  <2>1. t # NULL /\ lock["pool"] # t /\ \A e \in Descs \ {d} : lock[e] # t
    BY <1>a, <1>0, <1>1, Constants DEF LockOf, InDesc
  <2>2. lock'["pool"] # t /\ \A e \in Descs : lock'[e] # t
    BY <1>3, <1>7, <2>1, Constants
  <2> QED
    BY <1>7, <2>2 DEF LockOf, InDesc
<1>10. TypeOK'
  <2>1. used_map' \subseteq Pages
    BY <1>0, <1>1 DEF TypeOK
  <2>2. arena' \in [Pages -> {NULL} \cup [desc : Descs \cup {NULL}, free_cnt : Nat]]
    BY <1>0, <1>1 DEF TypeOK
  <2>3. lock' \in [Descs \cup {"pool"} -> Threads \cup {NULL}]
    BY <1>0, <1>1 DEF TypeOK
  <2>4. NoReq \in Requests
    BY Constants DEF NoReq, Requests
  <2>5. req' \in [Threads -> Requests]
    BY <1>0, <1>1, <2>4 DEF TypeOK
  <2>6. pc' \in [Threads -> {"run", "desc", "pool", "scan", "flip", "arena", "pop", "big",
                              "free", "freepage", "freebig"}]
    BY <1>0, <1>1 DEF TypeOK
  <2> QED
    BY <1>0, <1>1, <2>1, <2>2, <2>3, <2>5, <2>6 DEF TypeOK
<1>11. Closing(t, p) /\ ~Open(p)
  BY <1>a, <1>1 DEF Closing, Open
<1>12. \A e \in Descs : \A c \in OnList(e) : c[1] # p
  BY <1>0, <1>11 DEF BlockInv, ListInv, ListOf
<1>13. \A u \in Threads : \A c : c \in Held(u)' <=> c \in Held(u) /\ c[1] # p
  <2>1. \A u \in Threads : Held(u)' = Held(u)
    <3>1. Held(t)' = blocks[t] /\ Held(t) = blocks[t]
      BY <1>1, <1>7 DEF Held
    <3> QED
      BY <1>7, <3>1, SameThread
  <2>2. \A u \in Threads : \A c \in Held(u) : c[1] # p
    BY <1>0, <1>11 DEF BlockInv, HeldInv
  <2> QED
    BY <2>1, <2>2
<1>14. \A u \in Threads \ {t} : ~Closing(u, p)
  BY <1>a, <1>0, <1>3, <1>6, OneInDesc DEF Closing
<1>15. \A q \in Pages \ {p} : ~Closing(t, q)
  BY <1>a DEF Closing
<1>16. pc[t] \in {"freepage", "freebig"} /\ used_map' = used_map \ ArenaAt(p) /\ UNCHANGED <<free_list, groups>>
  BY <1>1, <1>4
<1> QED
  BY <1>2, <1>5, <1>7, <1>8, <1>9, <1>10, <1>12, <1>13, <1>14, <1>15, <1>16, ArenaGone

LEMMA FreeBigStep ==
  ASSUME MallocInv, NEW t \in Threads, FreeBig(t)
  PROVE  MallocInv'
<1>a. PICK b, p, n : b = req[t].old /\ p = b[1] /\ n = arena[p].free_cnt
  OBVIOUS
<1>0. TypeOK /\ LockOf(t) /\ GiveOf(t) /\ BlockInv /\ BigInv
  BY DEF MallocInv, LockInv, GiveInv
<1>1. /\ pc[t] = "freebig" /\ lock' = lock
      /\ arena' = [q \in Pages |-> IF q \in Group(p, n) THEN NULL ELSE arena[q]]
      /\ used_map' = used_map \ Group(p, n)
      /\ pc' = [pc EXCEPT ![t] = "run"] /\ req' = [req EXCEPT ![t] = NoReq]
      /\ UNCHANGED <<free_list, page_idx, blocks, groups>>
  BY <1>a DEF FreeBig, block_to_arena, ReleaseGroup
<1>2. b \in Block /\ p \in Pages /\ arena[p] # NULL /\ b \in Held(t)
  BY <1>a, <1>1, OldArena
<1>3. arena[p].desc = NULL /\ b \notin blocks[t]
  BY <1>a, <1>0, <1>1 DEF GiveOf
<1>4. ArenaAt(p) = Group(p, n) /\ p \in ArenaAt(p)
  <2>1. ArenaAt(p) = Group(p, n)
    BY <1>a, <1>2, <1>3 DEF ArenaAt
  <2> QED
    BY <1>0, <1>2, <2>1, ArenaHere
<1>5. arena'[p] = NULL /\ \A q \in Pages \ {p} : arena'[q] = arena[q]
  <2>1. \A q \in Pages \ {p} : q \in Group(p, n) => arena[q] = NULL
    BY <1>2, <1>4, OneArena
  <2> QED
    BY <1>1, <1>2, <1>4, <2>1
<1>7. /\ \A u \in Threads \ {t} : Same(u)
      /\ pc'[t] = "run" /\ req'[t] = NoReq
  BY <1>0, <1>1 DEF TypeOK, Same
<1>8. \A u \in Threads \ {t}, l \in Descs \cup {"pool"} : lock'[l] = u <=> lock[l] = u
  BY <1>1
<1>9. LockOf(t)'
  <2>1. lock["pool"] # t /\ \A e \in Descs : lock[e] # t
    BY <1>0, <1>1 DEF LockOf, InDesc
  <2> QED
    BY <1>1, <1>7, <2>1 DEF LockOf, InDesc
<1>10. TypeOK'
  <2>1. used_map' \subseteq Pages
    BY <1>0, <1>1 DEF TypeOK
  <2>2. arena' \in [Pages -> {NULL} \cup [desc : Descs \cup {NULL}, free_cnt : Nat]]
    BY <1>0, <1>1 DEF TypeOK
  <2>4. NoReq \in Requests
    BY Constants DEF NoReq, Requests
  <2>5. req' \in [Threads -> Requests]
    BY <1>0, <1>1, <2>4 DEF TypeOK
  <2>6. pc' \in [Threads -> {"run", "desc", "pool", "scan", "flip", "arena", "pop", "big",
                              "free", "freepage", "freebig"}]
    BY <1>0, <1>1 DEF TypeOK
  <2> QED
    BY <1>0, <1>1, <2>1, <2>2, <2>5, <2>6 DEF TypeOK
<1>11. Open(p)
  BY <1>a, <1>0, <1>2 DEF BlockInv, HeldInv
<1>12. \A e \in Descs : \A c \in OnList(e) : c[1] # p
  BY <1>0, <1>3, Constants DEF BlockInv, ListInv, ListOf, ArenaOf
<1>13. \A u \in Threads : \A c : c \in Held(u)' <=> c \in Held(u) /\ c[1] # p
  <2>1. Held(t) = blocks[t] \cup {b}
    BY <1>a, <1>1 DEF Held
  <2>2. Held(t)' = blocks[t]
    BY <1>1, <1>7 DEF Held
  <2>3. ASSUME NEW u \in Threads, NEW c \in Held(u), c[1] = p PROVE c = b /\ u = t
    <3>1. c \in Block /\ c[2] = 0 /\ b[2] = 0
      BY <1>a, <1>0, <1>2, <1>3, <2>3 DEF BlockInv, HeldInv
    <3>2. c = b
      BY <1>a, <1>2, <2>3, <3>1 DEF Block
    <3> QED
      BY <1>0, <1>2, <2>3, <3>2 DEF BlockInv, HeldInv
  <2>4. \A c : c \in Held(t)' <=> c \in Held(t) /\ c[1] # p
    BY <1>a, <1>3, <2>1, <2>2, <2>3
  <2>5. \A u \in Threads \ {t} : \A c : c \in Held(u)' <=> c \in Held(u) /\ c[1] # p
    BY <1>7, <2>3, SameThread
  <2> QED
    BY <2>4, <2>5
<1>14. (\A u \in Threads \ {t} : ~Closing(u, p)) /\ \A q \in Pages \ {p} : ~Closing(t, q)
  BY <1>1, <1>11 DEF Closing, Open
<1>16. pc[t] \in {"freepage", "freebig"} /\ used_map' = used_map \ ArenaAt(p) /\ UNCHANGED <<free_list, groups>>
  BY <1>1, <1>4
<1> QED
  BY <1>2, <1>5, <1>7, <1>8, <1>9, <1>10, <1>12, <1>13, <1>14, <1>16, ArenaGone

(* palloc_free_multiple. *)
LEMMA FreeGroupStep ==
  ASSUME MallocInv, NEW t \in Threads, palloc_free_multiple(t)
  PROVE  MallocInv'
<1>0. TypeOK /\ PageInv /\ BlockInv
  BY DEF MallocInv
<1>1. PICK g \in groups[t] : /\ ReleaseGroup(g[1], g[2])
                             /\ groups' = [groups EXCEPT ![t] = @ \ {g}]
  BY DEF palloc_free_multiple
<1>2. pc[t] = "run" /\ UNCHANGED <<free_list, lock, pc, req, page_idx, blocks>>
  BY DEF palloc_free_multiple
<1>3. \A q \in Pages : q \in GroupOf(g) => arena[q] = NULL
  <2> SUFFICES ASSUME NEW q \in Pages, q \in GroupOf(g), arena[q] # NULL PROVE FALSE
    OBVIOUS
  <2>1. q \in ArenaAt(q)
    BY ArenaHere DEF MallocInv
  <2>2. q \in used_map
    BY <1>0 DEF PageInv, PagesUsed
  <2> QED
    BY <1>0, <2>1, <2>2 DEF PageInv, PagesApart
<1>4. used_map' = used_map \ GroupOf(g) /\ arena' = arena
  <2>1. arena' = [q \in Pages |-> IF q \in GroupOf(g) THEN NULL ELSE arena[q]]
    BY <1>1 DEF ReleaseGroup, GroupOf
  <2>2. arena = [q \in Pages |-> arena[q]]
    BY <1>0 DEF TypeOK
  <2> QED
    BY <1>1, <1>3, <2>1, <2>2 DEF ReleaseGroup, GroupOf
<1>5. groups'[t] = groups[t] \ {g} /\ \A u \in Threads \ {t} : groups'[u] = groups[u]
  BY <1>0, <1>1 DEF TypeOK
<1>6. \A u \in Threads : Held(u)' = Held(u) /\ Pend(u)' = Pend(u)
  BY <1>2 DEF Held, Pend
<1>7. TypeOK'
  <2>1. groups' \in [Threads -> SUBSET (Pages \X (1 .. MaxGroup))]
    BY <1>0, <1>1 DEF TypeOK
  <2>2. used_map' \subseteq Pages
    BY <1>0, <1>4 DEF TypeOK
  <2> QED
    BY <1>0, <1>2, <1>4, <2>1, <2>2 DEF TypeOK
<1>8. ReqInv' /\ ScanInv' /\ EmptyInv' /\ GiveInv'
  <2>1. ReqInv'
    BY <1>2 DEF MallocInv, ReqInv, ReqOf
  <2>2. ScanInv'
    BY <1>2, <1>4 DEF MallocInv, ScanInv, ScanOf, InPool, ContainsUsed
  <2>3. EmptyInv'
    BY <1>2 DEF MallocInv, EmptyInv, EmptyOf
  <2>4. GiveInv'
    BY <1>2, <1>4 DEF MallocInv, GiveInv, GiveOf, ArenaOf
  <2> QED
    BY <2>1, <2>2, <2>3, <2>4
<1>9. LockInv'
  BY <1>2, <1>4 DEF MallocInv, LockInv, LockOf
<1>10. PageInv'
  <2>1. \A q \in Pages : ArenaAt(q)' = ArenaAt(q)
    BY <1>4 DEF ArenaAt
  <2>2. \A u \in Threads : Pend(u)' = Pend(u)
    BY <1>6
  <2>3. used_map' = used_map \ GroupOf(g)
    BY <1>4
  <2> QED
    BY <1>0, <1>5, <2>1, <2>2, <2>3, PageGiveGroup
<1>11. \A u \in Threads, q \in Pages : Closing(u, q)' <=> Closing(u, q)
  BY <1>2 DEF Closing
<1>12. BlockInv'
  BY <1>0, <1>2, <1>4, <1>6, <1>11, BlockKept
<1>13. BigInv'
  BY <1>4 DEF MallocInv, BigInv
<1>14. FullInv'
  BY <1>2, <1>4 DEF MallocInv, FullInv, ArenaOf, Open, Closing
<1> QED
  BY <1>7, <1>8, <1>9, <1>10, <1>12, <1>13, <1>14 DEF MallocInv

-----------------------------------------------------------------------------
(* Every step keeps the invariant. *)
LEMMA NextInv == MallocInv /\ [Next]_vars => MallocInv'
<1> SUFFICES ASSUME MallocInv, [Next]_vars PROVE MallocInv'
  OBVIOUS
<1>1. CASE Next
  <2>1. PICK t \in Threads :
          \/ malloc(t) \/ realloc(t) \/ palloc_get_multiple(t)
          \/ palloc_free_multiple(t)
          \/ \E b \in blocks[t] : free(t, b)
          \/ Inside(t)
    BY <1>1 DEF Next
  <2>2. CASE malloc(t) \/ realloc(t) \/ palloc_get_multiple(t)
    BY <2>2, CallStep
  <2>3. CASE palloc_free_multiple(t)
    BY <2>3, FreeGroupStep
  <2>4. CASE \E b \in blocks[t] : free(t, b)
    BY <2>4, FreeCallStep
  <2>5. CASE Inside(t)
    <3>1. CASE DescLock(t) \/ NewArena(t) \/ Pop(t) \/ BigBlock(t)
      BY <3>1, DescLockStep, NewArenaStep, PopStep, BigBlockStep
    <3>2. CASE PoolLock(t) \/ bitmap_scan(t) \/ Flip(t) \/ NoPages(t)
      BY <3>2, PoolLockStep, ScanStep, FlipStep, NoPagesStep
    <3>3. CASE FreeLock(t) \/ FreePage(t) \/ FreeBig(t)
      BY <3>3, FreeLockStep, FreePageStep, FreeBigStep
    <3> QED
      BY <2>5, <3>1, <3>2, <3>3 DEF Inside
  <2> QED
    BY <2>1, <2>2, <2>3, <2>4, <2>5
<1>2. CASE UNCHANGED vars
  <2> USE <1>2 DEF vars
  <2>1. TypeOK' /\ BigInv'
    BY DEF MallocInv, TypeOK, BigInv
  <2>2. ReqInv' /\ LockInv'
    <3>1. ReqInv'
      BY DEF MallocInv, ReqInv, ReqOf
    <3>2. LockInv'
      BY DEF MallocInv, LockInv, LockOf
    <3> QED
      BY <3>1, <3>2
  <2>3. ScanInv' /\ EmptyInv' /\ GiveInv'
    BY DEF MallocInv, ScanInv, ScanOf, InPool, ContainsUsed, EmptyInv, EmptyOf, GiveInv, GiveOf, ArenaOf
  <2>4. \A u \in Threads : Held(u)' = Held(u) /\ Pend(u)' = Pend(u) /\ \A p : Closing(u, p)' <=> Closing(u, p)
    BY DEF Held, Pend, Closing
  <2>5. PageInv'
    <3>1. PageInv /\ UNCHANGED <<used_map, groups>> /\ \A p \in Pages : ArenaAt(p)' = ArenaAt(p)
      BY DEF MallocInv, ArenaAt
    <3> QED
      BY <2>4, <3>1, PageKept
  <2>6. BlockInv'
    BY <2>4, BlockKept DEF MallocInv
  <2>7. FullInv'
    BY DEF MallocInv, FullInv, ArenaOf, Open, Closing
  <2> QED
    BY <2>1, <2>2, <2>3, <2>5, <2>6, <2>7 DEF MallocInv
<1> QED
  BY <1>1, <1>2

LEMMA InvariantHolds == Spec => []MallocInv
BY InitInv, NextInv, PTL DEF Spec

(* For any threads, pool and descriptors: no page is handed out twice and none
   is lost, although palloc_free_multiple clears bits of used_map without the
   lock under which palloc_get_multiple tests and sets them. *)
THEOREM PagesAreAccounted == Spec => []PagesAccounted
BY InvariantHolds, InvPages, PTL

(* For any threads, pool and descriptors: each block of an arena is with one
   thread or once on its descriptor's free list, free_cnt counts the latter,
   and free takes exactly blocks_per_arena blocks off the list before it gives
   an arena's page back. *)
THEOREM BlocksAreAccounted == Spec => []BlocksAccounted
BY InvariantHolds, InvBlocks, PTL
=============================================================================
