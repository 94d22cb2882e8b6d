-------------------------- MODULE SemaphoreProofs --------------------------
(* Proofs about module Semaphore, for any threads and semaphores. *)
EXTENDS Semaphore, FiniteSetTheorems, TLAPS

USE ZenonT(3), SMTT(30)

(* The three conjuncts are inductive together: NoLostWakeup needs to know   *)
(* that the thread sema_up wakes was blocked on that very semaphore.        *)
SemaInv == SemaTypeOK /\ WaitersBlocked /\ NoLostWakeup

(* What list_push_back (Append) and list_pop_front (Head, Tail) do to a list. *)
LEMMA PushBack ==
  ASSUME NEW q \in Seq(Threads), NEW t \in Threads
  PROVE  /\ Append(q, t) \in Seq(Threads)
         /\ Append(q, t) # <<>>
         /\ Len(q) \in Nat
         /\ Len(Append(q, t)) = Len(q) + 1
         /\ \A i \in 1 .. Len(q) : Append(q, t)[i] = q[i]
         /\ Append(q, t)[Len(q) + 1] = t
OBVIOUS

LEMMA PopFront ==
  ASSUME NEW q \in Seq(Threads), q # <<>>
  PROVE  /\ Head(q) \in Threads
         /\ Head(q) = q[1]
         /\ Tail(q) \in Seq(Threads)
         /\ Len(q) \in Nat \ {0}
         /\ Len(Tail(q)) = Len(q) - 1
         /\ \A i \in 1 .. Len(q) - 1 : Tail(q)[i] = q[i + 1]
OBVIOUS

(* Updating one entry of a function keeps its type. *)
LEMMA UpdateType ==
  ASSUME NEW S, NEW T, NEW f \in [S -> T], NEW x \in S, NEW e \in T
  PROVE  [f EXCEPT ![x] = e] \in [S -> T]
OBVIOUS

(* Thread t is on the list q; q holds no thread twice. *)
Listed(q, t) == \E i \in 1 .. Len(q) : q[i] = t
Once(q) == \A i, j \in 1 .. Len(q) : q[i] = q[j] => i = j

LEMMA EmptyLists == <<>> \in Seq(Threads) /\ Once(<<>>) /\ \A u : ~Listed(<<>>, u)
<1>1. Len(<<>>) = 0 /\ 1 .. 0 = {}
  OBVIOUS
<1> QED
  BY <1>1 DEF Once, Listed

LEMMA PushLists ==
  ASSUME NEW q \in Seq(Threads), NEW t \in Threads, Once(q), ~Listed(q, t)
  PROVE  /\ Append(q, t) \in Seq(Threads)
         /\ Once(Append(q, t))
         /\ \A u \in Threads : Listed(Append(q, t), u) <=> (Listed(q, u) \/ u = t)
<1> DEFINE n == Len(q)
           r == Append(q, t)
<1>1. /\ r \in Seq(Threads) /\ n \in Nat /\ Len(r) = n + 1
      /\ \A i \in 1 .. n : r[i] = q[i]
      /\ r[n + 1] = t
  BY PushBack
<1>2. /\ \A i, j \in 1 .. n : q[i] = q[j] => i = j
      /\ \A i \in 1 .. n : q[i] # t
  BY DEF Once, Listed
<1>3. /\ Once(r) <=> \A i, j \in 1 .. n + 1 : r[i] = r[j] => i = j
      /\ \A u \in Threads : /\ Listed(r, u) <=> \E i \in 1 .. n + 1 : r[i] = u
                            /\ Listed(q, u) <=> \E i \in 1 .. n : q[i] = u
  BY <1>1 DEF Once, Listed
<1> HIDE DEF n, r
<1>4. \A i, j \in 1 .. n + 1 : r[i] = r[j] => i = j
  BY <1>1, <1>2
<1>5. \A u \in Threads : (\E i \in 1 .. n + 1 : r[i] = u) <=> ((\E i \in 1 .. n : q[i] = u) \/ u = t)
  BY <1>1
<1> QED
  BY <1>1, <1>3, <1>4, <1>5 DEF r

LEMMA PopLists ==
  ASSUME NEW q \in Seq(Threads), q # <<>>, Once(q)
  PROVE  /\ Head(q) \in Threads /\ Listed(q, Head(q))
         /\ Tail(q) \in Seq(Threads)
         /\ Once(Tail(q))
         /\ \A u \in Threads : Listed(Tail(q), u) <=> (Listed(q, u) /\ u # Head(q))
<1> DEFINE n == Len(q)
           h == Head(q)
           r == Tail(q)
<1>1. /\ h \in Threads /\ h = q[1] /\ r \in Seq(Threads)
      /\ n \in Nat \ {0} /\ Len(r) = n - 1
      /\ \A i \in 1 .. n - 1 : r[i] = q[i + 1]
  BY PopFront
<1>2. \A i, j \in 1 .. n : q[i] = q[j] => i = j
  BY DEF Once
<1>3. /\ Once(r) <=> \A i, j \in 1 .. n - 1 : r[i] = r[j] => i = j
      /\ \A u \in Threads : Listed(r, u) <=> \E i \in 1 .. n - 1 : r[i] = u
      /\ \A u \in Threads : Listed(q, u) <=> \E i \in 1 .. n : q[i] = u
  BY <1>1 DEF Once, Listed
<1> HIDE DEF n, h, r
<1>4. /\ 1 \in 1 .. n
      /\ \A i \in 1 .. n - 1 : i + 1 \in 1 .. n /\ i + 1 # 1
      /\ \A i \in 1 .. n : i = 1 \/ (i - 1 \in 1 .. n - 1 /\ (i - 1) + 1 = i)
  BY <1>1
<1>5. \A i, j \in 1 .. n - 1 : r[i] = r[j] => i = j
  <2> SUFFICES ASSUME NEW i \in 1 .. n - 1, NEW j \in 1 .. n - 1, r[i] = r[j] PROVE i = j
    OBVIOUS
  <2>1. i + 1 = j + 1
    BY <1>1, <1>2, <1>4
  <2> QED
    BY <1>1, <2>1
<1>6. \A u \in Threads : (\E i \in 1 .. n - 1 : r[i] = u) <=> ((\E i \in 1 .. n : q[i] = u) /\ u # h)
  <2> TAKE u \in Threads
  <2>1. ASSUME NEW i \in 1 .. n - 1, r[i] = u PROVE i + 1 \in 1 .. n /\ q[i + 1] = u /\ u # h
    BY <1>1, <1>2, <1>4, <2>1
  <2>2. ASSUME NEW i \in 1 .. n, q[i] = u, u # h PROVE i - 1 \in 1 .. n - 1 /\ r[i - 1] = u
    BY <1>1, <1>4, <2>2
  <2> QED
    BY <2>1, <2>2
<1>7. \E i \in 1 .. n : q[i] = h
  BY <1>1, <1>4
<1>8. Listed(q, h)
  BY <1>1, <1>3, <1>7
<1> QED
  BY <1>1, <1>3, <1>5, <1>6, <1>8 DEF h, r

(* One list after another. *)
LEMMA Concat ==
  ASSUME NEW a \in Seq(Threads), NEW b \in Seq(Threads)
  PROVE  /\ a \o b \in Seq(Threads)
         /\ Len(a \o b) = Len(a) + Len(b)
         /\ \A i \in 1 .. Len(a) + Len(b) : (a \o b)[i] = IF i <= Len(a) THEN a[i] ELSE b[i - Len(a)]
<1>1. a \o b \in Seq(Threads)
  OBVIOUS
<1>2. Len(a \o b) = Len(a) + Len(b)
  OBVIOUS
<1>3. ASSUME NEW i \in 1 .. Len(a) + Len(b), i <= Len(a) PROVE (a \o b)[i] = a[i]
  BY <1>3
<1>4. ASSUME NEW i \in 1 .. Len(a) + Len(b), ~(i <= Len(a)) PROVE (a \o b)[i] = b[i - Len(a)]
  BY <1>4
<1> QED
  BY <1>1, <1>2, <1>3, <1>4, Zenon

(* Every nonempty set of naturals has a least element. *)
LEMMA LeastNatural ==
  ASSUME NEW T, T \subseteq Nat, T # {}
  PROVE  \E x \in T : \A y \in T : x <= y
<1>1. PICK x \in T : \A y \in T : ~(<<y, x>> \in OpToRel(<, Nat))
  BY WFMin, NatLessThanWellFounded, Zenon
<1>2. \A y \in T : x <= y
  <2> TAKE y \in T
  <2>1. x \in Nat /\ y \in Nat
    OBVIOUS
  <2>2. ~(<<y, x>> \in {ss \in Nat \X Nat : ss[1] < ss[2]})
    BY <1>1 DEF OpToRel
  <2> QED
    BY <2>1, <2>2
<1> QED
  BY <1>2

LEMMA NowhereType == Nowhere \in Semas
BY SemaphoreAssumption DEF Nowhere

LEMMA SemaInitInv == SemaInit => SemaInv
<1> SUFFICES ASSUME SemaInit PROVE SemaInv
  OBVIOUS
<1>1. SemaTypeOK
  BY SemaphoreAssumption, NowhereType DEF SemaInit, SemaTypeOK
<1>2. \A s \in Semas : waiters[s] = <<>> /\ Len(waiters[s]) = 0
  BY DEF SemaInit
<1> QED
  BY <1>1, <1>2 DEF SemaInit, SemaInv, WaitersBlocked, NoLostWakeup

(* Every operation keeps the types. *)
LEMMA DownType ==
  ASSUME SemaTypeOK, NEW t \in Threads, NEW s \in Semas, DownLoop(t, s)
  PROVE  SemaTypeOK'
<1> USE DEF SemaTypeOK
<1>1. CASE value[s] > 0
  <2>1. /\ value' = [value EXCEPT ![s] = @ - 1]
        /\ pc' = [pc EXCEPT ![t] = "run"]
        /\ waiters' = waiters /\ on' = [on EXCEPT ![t] = Nowhere]
    BY <1>1 DEF DownLoop
  <2>2. /\ value' \in [Semas -> Nat]
        /\ pc' \in [Threads -> {"run", "blocked", "woken"}]
        /\ on' \in [Threads -> Semas]
    BY <1>1, <2>1, NowhereType
  <2> QED
    BY <2>1, <2>2
<1>2. CASE value[s] = 0
  <2>1. waiters' = [waiters EXCEPT ![s] = Append(@, t)]
    BY <1>2 DEF DownLoop
  <2>2. waiters' \in [Semas -> Seq(Threads)]
    BY <2>1, PushBack, UpdateType
  <2>3. /\ pc' = [pc EXCEPT ![t] = "blocked"]
        /\ on' = [on EXCEPT ![t] = s]
        /\ value' = value
    BY <1>2 DEF DownLoop
  <2>4. pc' \in [Threads -> {"run", "blocked", "woken"}] /\ on' \in [Threads -> Semas]
    BY <2>3
  <2> QED
    BY <2>2, <2>3, <2>4
<1> QED
  BY <1>1, <1>2 DEF DownLoop

LEMMA UpType ==
  ASSUME SemaTypeOK, NEW s \in Semas, sema_up(s)
  PROVE  SemaTypeOK'
<1> USE DEF SemaTypeOK
<1>1. CASE waiters[s] # <<>>
  <2>1. waiters' = [waiters EXCEPT ![s] = Tail(@)]
    BY <1>1 DEF sema_up
  <2>2. waiters' \in [Semas -> Seq(Threads)]
    BY <1>1, <2>1, PopFront, UpdateType
  <2>3. /\ pc' = [pc EXCEPT ![Head(waiters[s])] = "woken"]
        /\ on' = on
        /\ value' = [value EXCEPT ![s] = @ + 1]
    BY <1>1 DEF sema_up
  <2>4. pc' \in [Threads -> {"run", "blocked", "woken"}]
    BY <1>1, <2>3, PopFront, UpdateType
  <2>5. value' \in [Semas -> Nat]
    BY <2>3
  <2> QED
    BY <2>2, <2>3, <2>4, <2>5
<1>2. CASE waiters[s] = <<>>
  BY <1>2 DEF sema_up
<1> QED
  BY <1>1, <1>2

LEMMA SemaTypeStep == SemaTypeOK /\ [SemaNext]_sema_vars => SemaTypeOK'
<1> SUFFICES ASSUME SemaTypeOK, [SemaNext]_sema_vars PROVE SemaTypeOK'
  OBVIOUS
<1>1. ASSUME NEW t \in Threads, NEW s \in Semas, sema_down(t, s) PROVE SemaTypeOK'
  BY <1>1, DownType DEF sema_down
<1>2. ASSUME NEW t \in Threads, NEW s \in Semas, sema_try_down(t, s) PROVE SemaTypeOK'
  BY <1>2 DEF sema_try_down, SemaTypeOK
<1>3. ASSUME NEW s \in Semas, sema_up(s) PROVE SemaTypeOK'
  BY <1>3, UpType
<1>4. ASSUME NEW t \in Threads, Resume(t) PROVE SemaTypeOK'
  <2>1. on[t] \in Semas /\ DownLoop(t, on[t])
    BY <1>4 DEF Resume, SemaTypeOK
  <2> QED
    BY <2>1, DownType
<1>5. CASE UNCHANGED sema_vars
  BY <1>5 DEF sema_vars, SemaTypeOK
<1> QED
  BY <1>1, <1>2, <1>3, <1>4, <1>5 DEF SemaNext

(* The type invariant of the semaphores (value, waiters, pc, on). *)
THEOREM SemaTypeCorrect == SemaSpec => []SemaTypeOK
BY SemaInitInv, SemaTypeStep, PTL DEF SemaSpec, SemaInv
-----------------------------------------------------------------------------
(* The set of woken threads is finite, and how it changes size. *)
LEMMA WokenFinite ==
  ASSUME NEW s \in Semas
  PROVE  IsFiniteSet(Woken(s)) /\ Cardinality(Woken(s)) \in Nat
BY FS_Subset, FS_CardinalityType, SemaphoreAssumption DEF Woken

(* A thread that takes a token, or goes (back) to sleep, leaves the set of  *)
(* woken threads of that semaphore and of no other.                         *)
LEMMA WokenAfterDown ==
  ASSUME SemaTypeOK, NEW t \in Threads, NEW s \in Semas, DownLoop(t, s),
         pc[t] = "run" \/ (pc[t] = "woken" /\ on[t] = s)
  PROVE  /\ Woken(s)' = Woken(s) \ {t}
         /\ \A r \in Semas \ {s} : Woken(r)' = Woken(r)
<1>1. /\ pc'[t] # "woken"
      /\ \A u \in Threads \ {t} : pc'[u] = pc[u] /\ on'[u] = on[u]
  BY DEF SemaTypeOK, DownLoop
<1> QED
  BY <1>1 DEF Woken

(* NoLostWakeup after one pass through the loop of sema_down. *)
LEMMA DownNoLostWakeup ==
  ASSUME SemaInv, NEW t \in Threads, NEW s \in Semas, DownLoop(t, s),
         pc[t] = "run" \/ (pc[t] = "woken" /\ on[t] = s)
  PROVE  NoLostWakeup'
<1> USE DEF SemaInv, SemaTypeOK
<1>1. /\ Woken(s)' = Woken(s) \ {t}
      /\ \A r \in Semas \ {s} : Woken(r)' = Woken(r)
  BY WokenAfterDown
<1>2. SUFFICES ASSUME NEW r \in Semas, waiters'[r] # <<>>
               PROVE  value'[r] <= Cardinality(Woken(r)')
  BY DEF NoLostWakeup
<1>3. CASE r # s
  <2>1. value'[r] = value[r] /\ waiters'[r] = waiters[r]
    BY <1>3 DEF DownLoop
  <2> QED
    BY <1>1, <1>2, <1>3, <2>1 DEF NoLostWakeup
<1>4. CASE r = s
  <2>1. /\ IsFiniteSet(Woken(s))
        /\ Cardinality(Woken(s) \ {t}) =
             IF t \in Woken(s) THEN Cardinality(Woken(s)) - 1 ELSE Cardinality(Woken(s))
        /\ Cardinality(Woken(s) \ {t}) \in Nat
        /\ Cardinality(Woken(s)) \in Nat
    BY WokenFinite, FS_RemoveElement, FS_CardinalityType
  <2>2. CASE value[s] = 0
    <3>1. value' = value
      BY <2>2 DEF DownLoop
    <3>2. value'[s] <= Cardinality(Woken(s) \ {t})
      BY <2>1, <2>2, <3>1
    <3> QED
      BY <1>1, <1>4, <3>2
  <2>3. CASE value[s] > 0
    <3>1. value'[s] = value[s] - 1 /\ waiters' = waiters
      BY <2>3 DEF DownLoop
    <3>2. value[s] <= Cardinality(Woken(s))
      BY <1>2, <1>4, <3>1 DEF NoLostWakeup
    <3>3. value'[s] <= Cardinality(Woken(s) \ {t})
      BY <2>1, <3>1, <3>2
    <3> QED
      BY <1>1, <1>4, <3>3
  <2> QED
    BY <2>2, <2>3
<1> QED
  BY <1>3, <1>4

(* WaitersBlocked after one pass through the loop of sema_down: a thread    *)
(* that was not blocked is on no list, and joins the one it sleeps on.      *)
LEMMA DownWaitersBlocked ==
  ASSUME SemaTypeOK, WaitersBlocked, NEW t \in Threads, NEW s \in Semas,
         DownLoop(t, s), pc[t] # "blocked"
  PROVE  WaitersBlocked'
<1>1. \A r \in Semas : /\ Len(waiters[r]) \in Nat
                       /\ \A i \in 1 .. Len(waiters[r]) : waiters[r][i] \in Threads \ {t}
  BY DEF WaitersBlocked, SemaTypeOK
<1>2. CASE value[s] > 0
  <2>1. /\ waiters' = waiters
        /\ pc'[t] = "run"
        /\ \A u \in Threads \ {t} : pc'[u] = pc[u] /\ on'[u] = on[u]
    BY <1>2 DEF DownLoop, SemaTypeOK
  <2> QED
    BY <1>1, <2>1 DEF WaitersBlocked
<1>3. CASE value[s] = 0
  <2> DEFINE n == Len(waiters[s])
  <2>1. /\ waiters'[s] = Append(waiters[s], t)
        /\ \A r \in Semas \ {s} : waiters'[r] = waiters[r]
        /\ pc'[t] = "blocked" /\ on'[t] = s
        /\ \A u \in Threads \ {t} : pc'[u] = pc[u] /\ on'[u] = on[u] /\ on[u] \in Semas
    BY <1>3 DEF DownLoop, SemaTypeOK
  <2>2. /\ n \in Nat
        /\ Len(waiters'[s]) = n + 1
        /\ \A i \in 1 .. n : waiters'[s][i] = waiters[s][i]
        /\ waiters'[s][n + 1] = t
    BY <2>1, PushBack DEF SemaTypeOK
  <2>3. ASSUME NEW r \in Semas, NEW i \in 1 .. Len(waiters'[r])
        PROVE  /\ pc'[waiters'[r][i]] = "blocked"
               /\ on'[waiters'[r][i]] = r
               /\ \A j \in 1 .. Len(waiters'[r]) : waiters'[r][i] = waiters'[r][j] => i = j
    <3>1. CASE r # s
      BY <1>1, <2>1, <2>3, <3>1 DEF WaitersBlocked
    <3>2. CASE r = s
      <4> HIDE DEF n
      <4>1. i \in 1 .. n \/ i = n + 1
        BY <2>2, <2>3, <3>2
      <4>2. \A j \in 1 .. n + 1 : j \in 1 .. n \/ j = n + 1
        BY <2>2
      <4>3. \A j \in 1 .. n : /\ waiters[s][j] \in Threads \ {t}
                              /\ pc[waiters[s][j]] = "blocked" /\ on[waiters[s][j]] = s
                              /\ \A k \in 1 .. n : waiters[s][j] = waiters[s][k] => j = k
        BY <1>1 DEF WaitersBlocked, n
      <4>4. /\ Len(waiters'[r]) = n + 1
            /\ n + 1 \notin 1 .. n
        BY <2>2, <3>2
      <4>5. CASE i \in 1 .. n
        <5>1. waiters'[r][i] = waiters[s][i] /\ waiters[s][i] \in Threads \ {t}
          BY <2>2, <3>2, <4>3, <4>5
        <5>2. pc'[waiters'[r][i]] = "blocked" /\ on'[waiters'[r][i]] = r
          BY <2>1, <3>2, <4>3, <4>5, <5>1
        <5>3. ASSUME NEW j \in 1 .. n + 1, waiters'[r][i] = waiters'[r][j]
              PROVE  i = j
          <6>1. j \in 1 .. n
            BY <2>2, <3>2, <4>2, <5>1, <5>3
          <6> QED
            BY <2>2, <3>2, <4>3, <4>5, <5>1, <5>3, <6>1
        <5> QED
          BY <4>4, <5>2, <5>3
      <4>6. CASE i = n + 1
        <5>1. waiters'[r][i] = t
          BY <2>2, <3>2, <4>6
        <5>2. pc'[waiters'[r][i]] = "blocked" /\ on'[waiters'[r][i]] = r
          BY <2>1, <3>2, <5>1
        <5>3. ASSUME NEW j \in 1 .. n + 1, waiters'[r][i] = waiters'[r][j]
              PROVE  i = j
          <6>1. CASE j \in 1 .. n
            BY <2>2, <3>2, <4>3, <5>1, <5>3, <6>1
          <6> QED
            BY <4>2, <4>6, <6>1
        <5> QED
          BY <4>4, <5>2, <5>3
      <4> QED
        BY <4>1, <4>5, <4>6
    <3> QED
      BY <3>1, <3>2
  <2>4. ASSUME NEW u \in Threads, pc'[u] = "blocked"
        PROVE  \E i \in 1 .. Len(waiters'[on'[u]]) : waiters'[on'[u]][i] = u
    <3> HIDE DEF n
    <3>1. CASE u = t
      <4>1. n + 1 \in 1 .. Len(waiters'[s]) /\ waiters'[s][n + 1] = t
        BY <2>2
      <4> QED
        BY <2>1, <3>1, <4>1
    <3>2. CASE u # t
      <4>1. PICK i \in 1 .. Len(waiters[on[u]]) : waiters[on[u]][i] = u
        BY <2>1, <2>4, <3>2 DEF WaitersBlocked
      <4>2. on'[u] = on[u] /\ on[u] \in Semas
        BY <2>1, <3>2
      <4>3. CASE on[u] = s
        <5>1. i \in 1 .. n /\ waiters[s][i] = u
          BY <4>1, <4>3 DEF n
        <5>2. i \in 1 .. Len(waiters'[s]) /\ waiters'[s][i] = u
          BY <2>2, <5>1
        <5> QED
          BY <4>2, <4>3, <5>2
      <4>4. CASE on[u] # s
        BY <2>1, <4>1, <4>2, <4>4
      <4> QED
        BY <4>3, <4>4
    <3> QED
      BY <3>1, <3>2
  <2> QED
    BY <2>3, <2>4 DEF WaitersBlocked
<1>4. value[s] > 0 \/ value[s] = 0
  BY DEF SemaTypeOK
<1> QED
  BY <1>2, <1>3, <1>4

(* What sema_up does when it finds a waiter. *)
LEMMA UpWakes ==
  ASSUME SemaTypeOK, WaitersBlocked, NEW s \in Semas, sema_up(s), waiters[s] # <<>>
  PROVE  /\ waiters[s][1] \in Threads
         /\ pc[waiters[s][1]] = "blocked" /\ on[waiters[s][1]] = s
         /\ pc'[waiters[s][1]] = "woken"
         /\ \A u \in Threads \ {waiters[s][1]} : pc'[u] = pc[u]
         /\ on' = on /\ \A u \in Threads : on[u] \in Semas
         /\ \A r \in Semas \ {s} : waiters'[r] = waiters[r]
         /\ Len(waiters[s]) \in Nat \ {0}
         /\ Len(waiters'[s]) = Len(waiters[s]) - 1
         /\ \A i \in 1 .. Len(waiters[s]) - 1 : waiters'[s][i] = waiters[s][i + 1]
<1>1. /\ pc' = [pc EXCEPT ![Head(waiters[s])] = "woken"]
      /\ waiters' = [waiters EXCEPT ![s] = Tail(@)]
      /\ on' = on
  BY DEF sema_up
<1>2. /\ waiters[s] \in Seq(Threads)
      /\ waiters \in [Semas -> Seq(Threads)]
      /\ pc \in [Threads -> {"run", "blocked", "woken"}]
      /\ on \in [Threads -> Semas]
  BY DEF SemaTypeOK
<1>3. /\ Head(waiters[s]) = waiters[s][1] /\ waiters[s][1] \in Threads
      /\ Len(waiters[s]) \in Nat \ {0}
      /\ Len(Tail(waiters[s])) = Len(waiters[s]) - 1
      /\ \A i \in 1 .. Len(waiters[s]) - 1 : Tail(waiters[s])[i] = waiters[s][i + 1]
  BY <1>2, PopFront
<1>4. waiters'[s] = Tail(waiters[s]) /\ \A r \in Semas \ {s} : waiters'[r] = waiters[r]
  BY <1>1, <1>2
<1>5. pc'[waiters[s][1]] = "woken" /\ \A u \in Threads \ {waiters[s][1]} : pc'[u] = pc[u]
  BY <1>1, <1>2, <1>3
<1>6. 1 \in 1 .. Len(waiters[s])
  BY <1>3
<1>7. pc[waiters[s][1]] = "blocked" /\ on[waiters[s][1]] = s
  BY <1>6 DEF WaitersBlocked
<1> QED
  BY <1>1, <1>2, <1>3, <1>4, <1>5, <1>7

(* The values of the semaphores and the threads, without the waiter lists. *)
LEMMA DownEffect ==
  ASSUME SemaTypeOK, NEW t \in Threads, NEW s \in Semas, DownLoop(t, s)
  PROVE  /\ \A u \in Threads \ {t} : pc'[u] = pc[u] /\ on'[u] = on[u]
         /\ \A r \in Semas \ {s} : value'[r] = value[r]
         /\ \/ value[s] > 0 /\ value'[s] = value[s] - 1 /\ pc'[t] = "run"
            \/ value[s] = 0 /\ value'[s] = 0 /\ pc'[t] = "blocked" /\ on'[t] = s
<1> USE DEF SemaTypeOK
<1>1. CASE value[s] > 0
  <2>1. /\ value' = [value EXCEPT ![s] = @ - 1]
        /\ pc' = [pc EXCEPT ![t] = "run"] /\ on' = [on EXCEPT ![t] = Nowhere]
    BY <1>1 DEF DownLoop
  <2> QED
    BY <1>1, <2>1
<1>2. CASE value[s] = 0
  <2>1. /\ value' = value
        /\ pc' = [pc EXCEPT ![t] = "blocked"] /\ on' = [on EXCEPT ![t] = s]
    BY <1>2 DEF DownLoop
  <2> QED
    BY <1>2, <2>1
<1> QED
  BY <1>1, <1>2 DEF DownLoop

LEMMA UpEffect ==
  ASSUME SemaTypeOK, WaitersBlocked, NEW s \in Semas, sema_up(s)
  PROVE  /\ on' = on
         /\ value'[s] = value[s] + 1
         /\ \A r \in Semas \ {s} : value'[r] = value[r]
         /\ \A u \in Threads : pc'[u] = "run" <=> pc[u] = "run"
<1>1. /\ value' = [value EXCEPT ![s] = @ + 1] /\ on' = on
  BY DEF sema_up
<1>2. value'[s] = value[s] + 1 /\ \A r \in Semas \ {s} : value'[r] = value[r]
  BY <1>1 DEF SemaTypeOK
<1>3. CASE waiters[s] = <<>>
  BY <1>1, <1>2, <1>3 DEF sema_up
<1>4. CASE waiters[s] # <<>>
  BY <1>1, <1>2, <1>4, UpWakes
<1> QED
  BY <1>3, <1>4

(* WaitersBlocked after sema_up: the front waiter leaves the list and is no *)
(* longer blocked, the others move up one place.                            *)
LEMMA UpWaitersBlocked ==
  ASSUME SemaTypeOK, WaitersBlocked, NEW s \in Semas, sema_up(s)
  PROVE  WaitersBlocked'
<1>1. CASE waiters[s] = <<>>
  <2>1. waiters' = waiters /\ pc' = pc /\ on' = on
    BY <1>1 DEF sema_up
  <2> QED
    BY <2>1 DEF WaitersBlocked
<1>2. CASE waiters[s] # <<>>
  <2> DEFINE n == Len(waiters[s])
             h == waiters[s][1]
  <2>1. /\ h \in Threads /\ pc[h] = "blocked" /\ on[h] = s /\ pc'[h] = "woken"
        /\ \A u \in Threads \ {h} : pc'[u] = pc[u]
        /\ on' = on /\ \A u \in Threads : on[u] \in Semas
        /\ \A r \in Semas \ {s} : waiters'[r] = waiters[r]
        /\ n \in Nat \ {0} /\ Len(waiters'[s]) = n - 1
        /\ \A i \in 1 .. n - 1 : waiters'[s][i] = waiters[s][i + 1]
    BY <1>2, UpWakes
  <2>2. \A r \in Semas : \A i \in 1 .. Len(waiters[r]) :
           /\ waiters[r][i] \in Threads
           /\ pc[waiters[r][i]] = "blocked" /\ on[waiters[r][i]] = r
           /\ \A j \in 1 .. Len(waiters[r]) : waiters[r][i] = waiters[r][j] => i = j
    BY DEF WaitersBlocked, SemaTypeOK
  <2>3. ASSUME NEW r \in Semas, NEW i \in 1 .. Len(waiters'[r])
        PROVE  /\ pc'[waiters'[r][i]] = "blocked"
               /\ on'[waiters'[r][i]] = r
               /\ \A j \in 1 .. Len(waiters'[r]) : waiters'[r][i] = waiters'[r][j] => i = j
    <3>1. CASE r # s
      <4>1. waiters'[r][i] # h
        BY <2>1, <2>2, <2>3, <3>1
      <4> QED
        BY <2>1, <2>2, <2>3, <3>1, <4>1
    <3>2. CASE r = s
      <4>1. \A j \in 1 .. n : /\ waiters[s][j] \in Threads
                              /\ pc[waiters[s][j]] = "blocked" /\ on[waiters[s][j]] = s
                              /\ \A k \in 1 .. n : waiters[s][j] = waiters[s][k] => j = k
        BY <2>2
      <4> HIDE DEF n
      <4>2. \A j \in 1 .. n - 1 : /\ j + 1 \in 1 .. n
                                  /\ 1 \in 1 .. n
                                  /\ j + 1 # 1
        BY <2>1
      <4>3. i \in 1 .. n - 1
        BY <2>1, <2>3, <3>2
      <4>4. waiters[s][i + 1] \in Threads \ {h}
        BY <4>1, <4>2, <4>3
      <4>5. \A j \in 1 .. n - 1 : waiters'[s][i] = waiters'[s][j] => i = j
        <5>1. SUFFICES ASSUME NEW j \in 1 .. n - 1, waiters'[s][i] = waiters'[s][j] PROVE i = j
          OBVIOUS
        <5>2. i + 1 = j + 1
          BY <2>1, <4>1, <4>2, <4>3, <5>1
        <5> QED
          BY <2>1, <4>3, <5>2
      <4> QED
        BY <2>1, <3>2, <4>1, <4>2, <4>3, <4>4, <4>5
    <3> QED
      BY <3>1, <3>2
  <2>4. ASSUME NEW u \in Threads, pc'[u] = "blocked"
        PROVE  \E i \in 1 .. Len(waiters'[on'[u]]) : waiters'[on'[u]][i] = u
    <3>1. u # h /\ pc[u] = "blocked" /\ on'[u] = on[u] /\ on[u] \in Semas
      BY <2>1, <2>4
    <3>2. PICK i \in 1 .. Len(waiters[on[u]]) : waiters[on[u]][i] = u
      BY <3>1 DEF WaitersBlocked
    <3>3. CASE on[u] = s
      <4>1. i \in 1 .. n /\ waiters[s][i] = u
        BY <3>2, <3>3
      <4> HIDE DEF n
      <4>2. i # 1
        BY <3>1, <4>1
      <4>3. i - 1 \in 1 .. n - 1 /\ (i - 1) + 1 = i
        BY <2>1, <4>1, <4>2
      <4>4. waiters'[s][i - 1] = u
        BY <2>1, <4>1, <4>3
      <4> QED
        BY <2>1, <3>1, <3>3, <4>3, <4>4
    <3>4. CASE on[u] # s
      BY <2>1, <3>1, <3>2, <3>4
    <3> QED
      BY <3>3, <3>4
  <2> QED
    BY <2>3, <2>4 DEF WaitersBlocked
<1> QED
  BY <1>1, <1>2

(* NoLostWakeup after sema_up: the new token is matched by the thread woken *)
(* for it.                                                                  *)
LEMMA UpNoLostWakeup ==
  ASSUME SemaInv, NEW s \in Semas, sema_up(s)
  PROVE  NoLostWakeup'
<1>1. /\ value \in [Semas -> Nat]
      /\ value' = [value EXCEPT ![s] = @ + 1]
  BY DEF SemaInv, SemaTypeOK, sema_up
<1>2. CASE waiters[s] = <<>>
  <2>1. waiters' = waiters /\ \A r \in Semas : Woken(r)' = Woken(r)
    BY <1>2 DEF sema_up, Woken
  <2> QED
    BY <1>1, <1>2, <2>1 DEF SemaInv, NoLostWakeup
<1>3. CASE waiters[s] # <<>>
  <2> DEFINE h == waiters[s][1]
  <2>1. /\ h \in Threads /\ pc[h] = "blocked" /\ on[h] = s /\ pc'[h] = "woken"
        /\ \A u \in Threads \ {h} : pc'[u] = pc[u]
        /\ on' = on
        /\ \A r \in Semas \ {s} : waiters'[r] = waiters[r]
    BY <1>3, UpWakes DEF SemaInv
  <2>2. /\ Woken(s)' = Woken(s) \cup {h}
        /\ h \notin Woken(s)
        /\ \A r \in Semas \ {s} : Woken(r)' = Woken(r)
    BY <2>1 DEF Woken
  <2>3. Cardinality(Woken(s) \cup {h}) = Cardinality(Woken(s)) + 1 /\ Cardinality(Woken(s)) \in Nat
    BY <2>2, WokenFinite, FS_AddElement
  <2>4. value[s] <= Cardinality(Woken(s))
    BY <1>3 DEF SemaInv, NoLostWakeup
  <2>5. value'[s] <= Cardinality(Woken(s)')
    <3>1. value'[s] = value[s] + 1 /\ value[s] \in Nat
      BY <1>1
    <3>2. value'[s] <= Cardinality(Woken(s) \cup {h})
      BY <2>3, <2>4, <3>1
    <3> QED
      BY <2>2, <3>2
  <2>6. ASSUME NEW r \in Semas \ {s}, waiters'[r] # <<>>
        PROVE  value'[r] <= Cardinality(Woken(r)')
    BY <1>1, <2>1, <2>2, <2>6 DEF SemaInv, NoLostWakeup
  <2> QED
    BY <2>5, <2>6 DEF NoLostWakeup
<1> QED
  BY <1>2, <1>3

(* What touches neither the threads nor the lists keeps the invariant. *)
LEMMA SemaKept ==
  ASSUME SemaTypeOK, WaitersBlocked, value' \in [Semas -> Nat],
         waiters' = waiters, pc' = pc, on' = on
  PROVE  SemaTypeOK' /\ WaitersBlocked'
<1>1. SemaTypeOK'
  BY DEF SemaTypeOK
<1>2. WaitersBlocked'
  BY DEF WaitersBlocked
<1> QED
  BY <1>1, <1>2

LEMMA SemaSame ==
  ASSUME SemaTypeOK, WaitersBlocked, value' = value, waiters' = waiters, pc' = pc, on' = on
  PROVE  SemaTypeOK' /\ WaitersBlocked'
<1>1. value' \in [Semas -> Nat]
  BY DEF SemaTypeOK
<1> QED
  BY <1>1, SemaKept

(* A successful sema_try_down only takes a token. *)
LEMMA TryDownInv ==
  ASSUME SemaInv, NEW t \in Threads, NEW s \in Semas, sema_try_down(t, s)
  PROVE  WaitersBlocked' /\ NoLostWakeup'
<1>1. /\ waiters' = waiters /\ pc' = pc /\ on' = on
      /\ \A r \in Semas : Woken(r)' = Woken(r)
  BY DEF sema_try_down, Woken
<1>2. \A r \in Semas : value'[r] \in Nat /\ value'[r] <= value[r] /\ value[r] \in Nat
  BY DEF SemaInv, SemaTypeOK, sema_try_down
<1>3. WaitersBlocked'
  BY <1>1 DEF SemaInv, WaitersBlocked
<1>4. ASSUME NEW r \in Semas, waiters'[r] # <<>>
      PROVE  value'[r] <= Cardinality(Woken(r)')
  <2>1. value[r] <= Cardinality(Woken(r)) /\ Cardinality(Woken(r)) \in Nat
    BY <1>1, <1>4, WokenFinite DEF SemaInv, NoLostWakeup
  <2>2. value'[r] <= Cardinality(Woken(r))
    BY <1>2, <2>1
  <2> QED
    BY <1>1, <2>2
<1> QED
  BY <1>3, <1>4 DEF NoLostWakeup

LEMMA SemaInvStep == SemaInv /\ [SemaNext]_sema_vars => SemaInv'
<1> SUFFICES ASSUME SemaInv, [SemaNext]_sema_vars PROVE SemaInv'
  OBVIOUS
<1>1. SemaTypeOK'
  BY SemaTypeStep DEF SemaInv
<1>2. ASSUME NEW t \in Threads, NEW s \in Semas, sema_down(t, s)
      PROVE  WaitersBlocked' /\ NoLostWakeup'
  BY <1>2, DownWaitersBlocked, DownNoLostWakeup DEF sema_down, SemaInv
<1>3. ASSUME NEW t \in Threads, NEW s \in Semas, sema_try_down(t, s)
      PROVE  WaitersBlocked' /\ NoLostWakeup'
  BY <1>3, TryDownInv
<1>4. ASSUME NEW s \in Semas, sema_up(s)
      PROVE  WaitersBlocked' /\ NoLostWakeup'
  BY <1>4, UpWaitersBlocked, UpNoLostWakeup DEF SemaInv
<1>5. ASSUME NEW t \in Threads, Resume(t)
      PROVE  WaitersBlocked' /\ NoLostWakeup'
  <2>1. on[t] \in Semas /\ pc[t] = "woken" /\ pc[t] # "blocked" /\ DownLoop(t, on[t])
    BY <1>5 DEF Resume, SemaInv, SemaTypeOK
  <2> QED
    BY <2>1, DownWaitersBlocked, DownNoLostWakeup DEF SemaInv
<1>6. CASE UNCHANGED sema_vars
  <2>1. value' = value /\ waiters' = waiters /\ pc' = pc /\ on' = on
    BY <1>6 DEF sema_vars
  <2>2. \A r \in Semas : Woken(r)' = Woken(r)
    BY <2>1 DEF Woken
  <2> QED
    BY <1>1, <2>1, <2>2 DEF SemaInv, WaitersBlocked, NoLostWakeup
<1> QED
  BY <1>1, <1>2, <1>3, <1>4, <1>5, <1>6 DEF SemaNext, SemaInv

(* Semaphores never lose a wakeup: while a thread sleeps in sema_down,      *)
(* every token of that semaphore is matched by a woken thread.              *)
THEOREM NoWakeupIsLost == SemaSpec => []NoLostWakeup
BY SemaInitInv, SemaInvStep, PTL DEF SemaSpec, SemaInv

(* A thread is on a waiter list exactly while it is blocked in sema_down on *)
(* that semaphore, and at most once.                                        *)
THEOREM WaitersAreBlocked == SemaSpec => []WaitersBlocked
BY SemaInitInv, SemaInvStep, PTL DEF SemaSpec, SemaInv
=============================================================================
