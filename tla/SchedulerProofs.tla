-------------------------- MODULE SchedulerProofs --------------------------
(* Proofs about module Scheduler, for any threads, priorities and slices. *)
EXTENDS Scheduler, SemaphoreProofs

USE ZenonT(3), SMTT(30)

(* The list q is in descending order of the priorities pri. *)
Sorted(q, pri) == \A i, j \in 1 .. Len(q) : i < j => pri[q[i]] >= pri[q[j]]

(* A thread's status agrees with where the lists, cur and sema_down have it. *)
StatusAgrees ==
  \A t \in Threads :
    /\ status[t] = "READY" <=> Listed(ready_list, t)
    /\ status[t] = "RUNNING" <=> cur = t
    /\ status[t] = "BLOCKED" <=> pc[t] = "blocked"
    /\ status[t] \in {"free", "DYING"} => pc[t] = "run"

(* The inductive invariant.  It has that of the semaphores: only so is the   *)
(* thread sema_up moves to the ready list known not to be on it already.     *)
SchedInv ==
  /\ SemaInv /\ TypeOK
  /\ Once(ready_list) /\ Sorted(ready_list, priority)
  /\ StatusAgrees

-----------------------------------------------------------------------------
(* The list q with t put in at place k. *)
Inserted(q, t, k) == SubSeq(q, 1, k - 1) \o <<t>> \o SubSeq(q, k, Len(q))

LEMMA InsertAt ==
  ASSUME NEW q \in Seq(Threads), NEW t \in Threads, NEW k \in 1 .. Len(q) + 1
  PROVE  /\ Inserted(q, t, k) \in Seq(Threads)
         /\ Len(q) \in Nat
         /\ Len(Inserted(q, t, k)) = Len(q) + 1
         /\ \A i \in 1 .. Len(q) + 1 :
              Inserted(q, t, k)[i] = IF i < k THEN q[i] ELSE IF i = k THEN t ELSE q[i - 1]
<1> DEFINE n == Len(q)
           a == SubSeq(q, 1, k - 1)
           b == SubSeq(q, k, n)
           e == <<t>>
           ae == a \o e
           r == ae \o b
<1>1. n \in Nat /\ k \in Nat /\ k >= 1 /\ k <= n + 1
  OBVIOUS
<1>2. a \in Seq(Threads) /\ Len(a) = k - 1 /\ \A i \in 1 .. k - 1 : a[i] = q[i]
  <2>1. \A i \in 1 .. k - 1 : i \in 1 .. n
    BY <1>1
  <2> QED
    BY <1>1, <2>1
<1>3. b \in Seq(Threads) /\ Len(b) = n - k + 1 /\ \A i \in 1 .. n - k + 1 : b[i] = q[k + i - 1]
  <2>1. \A i \in k .. n : i \in 1 .. n
    BY <1>1
  <2> QED
    BY <1>1, <2>1
<1>4. e \in Seq(Threads) /\ Len(e) = 1 /\ e[1] = t
  OBVIOUS
<1>5. Inserted(q, t, k) = r
  BY DEF Inserted
<1> HIDE DEF n, a, b, e
<1>6. /\ ae \in Seq(Threads)
      /\ Len(ae) = Len(a) + Len(e)
      /\ \A i \in 1 .. Len(a) + Len(e) : ae[i] = IF i <= Len(a) THEN a[i] ELSE e[i - Len(a)]
  BY <1>2, <1>4, Concat
<1> HIDE DEF ae
<1>7. /\ r \in Seq(Threads)
      /\ Len(r) = Len(ae) + Len(b)
      /\ \A i \in 1 .. Len(ae) + Len(b) : r[i] = IF i <= Len(ae) THEN ae[i] ELSE b[i - Len(ae)]
  BY <1>3, <1>6, Concat
<1> HIDE DEF r
<1>8. Len(ae) = k /\ Len(r) = n + 1
  BY <1>1, <1>2, <1>3, <1>4, <1>6, <1>7
<1>9. ASSUME NEW i \in 1 .. n + 1
      PROVE  r[i] = IF i < k THEN q[i] ELSE IF i = k THEN t ELSE q[i - 1]
  <2>1. r[i] = IF i <= k THEN ae[i] ELSE b[i - k]
    BY <1>7, <1>8
  <2>2. CASE i < k
    <3>1. i \in 1 .. k - 1 /\ i \in 1 .. Len(a) + Len(e) /\ i <= Len(a)
      BY <1>1, <1>2, <1>4, <2>2
    <3> QED
      BY <1>1, <1>2, <1>6, <2>1, <2>2, <3>1
  <2>3. CASE i = k
    <3>1. i \in 1 .. Len(a) + Len(e) /\ ~(i <= Len(a)) /\ i - Len(a) = 1
      BY <1>1, <1>2, <1>4, <2>3
    <3> QED
      BY <1>1, <1>4, <1>6, <2>1, <2>3, <3>1
  <2>4. CASE i > k
    <3>1. i - k \in 1 .. n - k + 1 /\ k + (i - k) - 1 = i - 1
      BY <1>1, <2>4
    <3>2. b[i - k] = q[i - 1]
      BY <1>3, <3>1
    <3> QED
      BY <1>1, <2>1, <2>4, <3>2
  <2> QED
    BY <1>1, <2>2, <2>3, <2>4
<1> QED
  BY <1>1, <1>5, <1>7, <1>8, <1>9 DEF n

(* Inserting a thread that is not on the list adds it, once. *)
LEMMA InsertLists ==
  ASSUME NEW q \in Seq(Threads), NEW t \in Threads, NEW k \in 1 .. Len(q) + 1,
         Once(q), ~Listed(q, t)
  PROVE  /\ Once(Inserted(q, t, k))
         /\ \A u \in Threads : Listed(Inserted(q, t, k), u) <=> (Listed(q, u) \/ u = t)
<1> DEFINE n == Len(q)
           r == Inserted(q, t, k)
<1>0. k \in 1 .. n + 1
  OBVIOUS
<1>1. /\ n \in Nat /\ Len(r) = n + 1
      /\ \A i \in 1 .. n + 1 : r[i] = IF i < k THEN q[i] ELSE IF i = k THEN t ELSE q[i - 1]
  BY InsertAt
<1>2. /\ \A i, j \in 1 .. n : q[i] = q[j] => i = j
      /\ \A i \in 1 .. n : q[i] # t
  BY DEF Once, Listed
<1>3. Once(r) <=> \A i, j \in 1 .. n + 1 : r[i] = r[j] => i = j
  BY <1>1 DEF Once
<1>4. \A u \in Threads : /\ Listed(r, u) <=> \E i \in 1 .. n + 1 : r[i] = u
                         /\ Listed(q, u) <=> \E i \in 1 .. n : q[i] = u
  BY <1>1 DEF Listed
<1> HIDE DEF n, r
<1>5. \A i \in 1 .. n + 1 : \/ i < k /\ i \in 1 .. n /\ r[i] = q[i]
                            \/ i = k /\ r[i] = t
                            \/ i > k /\ i - 1 \in 1 .. n /\ r[i] = q[i - 1]
  BY <1>0, <1>1
<1>6. \A i, j \in 1 .. n + 1 : r[i] = r[j] => i = j
  BY <1>0, <1>1, <1>2, <1>5
<1>7. ASSUME NEW u \in Threads
      PROVE  (\E i \in 1 .. n + 1 : r[i] = u) <=> ((\E i \in 1 .. n : q[i] = u) \/ u = t)
  <2>1. r[k] = t /\ k \in 1 .. n + 1
    BY <1>0, <1>1
  <2>2. \A i \in 1 .. n : \/ i < k /\ i \in 1 .. n + 1 /\ r[i] = q[i]
                          \/ i + 1 \in 1 .. n + 1 /\ r[i + 1] = q[i]
    BY <1>0, <1>1
  <2> QED
    BY <1>5, <2>1, <2>2
<1> QED
  BY <1>3, <1>4, <1>6, <1>7 DEF r

(* Where list_insert_ordered puts t: behind every thread of its own or a    *)
(* higher priority, before the first of a lower one.                        *)
LEMMA InsertOrderedPlace ==
  ASSUME NEW q \in Seq(Threads), NEW t \in Threads, NEW pri
  PROVE  \E k \in 1 .. Len(q) + 1 :
           /\ list_insert_ordered(q, t, pri) = Inserted(q, t, k)
           /\ \A j \in 1 .. k - 1 : ~prioritycmp(pri[t], pri[q[j]])
           /\ k = Len(q) + 1 \/ prioritycmp(pri[t], pri[q[k]])
<1> DEFINE n == Len(q)
           Stop(i) == i = n + 1 \/ prioritycmp(pri[t], pri[q[i]])
           Place(i) == /\ \A j \in 1 .. i - 1 : ~prioritycmp(pri[t], pri[q[j]])
                       /\ Stop(i)
           T == {i \in 1 .. n + 1 : Stop(i)}
           k == CHOOSE i \in 1 .. n + 1 : Place(i)
<1>1. n \in Nat
  OBVIOUS
<1>2. T \subseteq Nat /\ n + 1 \in T
  BY <1>1
<1>3. PICK x \in T : \A y \in T : x <= y
  BY <1>2, LeastNatural
<1>4. x \in 1 .. n + 1 /\ Stop(x)
  BY <1>3
<1>5. ASSUME NEW j \in 1 .. x - 1 PROVE ~prioritycmp(pri[t], pri[q[j]])
  <2>1. j \in 1 .. n + 1 /\ ~(x <= j)
    BY <1>1, <1>4
  <2>2. j \notin T
    BY <1>3, <2>1
  <2> QED
    BY <2>1, <2>2
<1>6. \E i \in 1 .. n + 1 : Place(i)
  BY <1>4, <1>5
<1>7. k \in 1 .. n + 1 /\ Place(k)
  BY <1>6
<1>8. list_insert_ordered(q, t, pri) = Inserted(q, t, k)
  BY DEF list_insert_ordered, Inserted
<1> QED
  BY <1>7, <1>8

(* list_insert_ordered keeps the list in order and adds the thread once. *)
LEMMA InsertOrdered ==
  ASSUME NEW q \in Seq(Threads), NEW t \in Threads, NEW pri \in [Threads -> Priorities],
         Once(q), ~Listed(q, t), Sorted(q, pri)
  PROVE  LET r == list_insert_ordered(q, t, pri) IN
         /\ r \in Seq(Threads)
         /\ Once(r) /\ Sorted(r, pri)
         /\ \A u \in Threads : Listed(r, u) <=> (Listed(q, u) \/ u = t)
<1> DEFINE n == Len(q)
<1>1. PICK k \in 1 .. n + 1 :
           /\ list_insert_ordered(q, t, pri) = Inserted(q, t, k)
           /\ \A j \in 1 .. k - 1 : ~prioritycmp(pri[t], pri[q[j]])
           /\ k = n + 1 \/ prioritycmp(pri[t], pri[q[k]])
  BY InsertOrderedPlace
<1> DEFINE r == Inserted(q, t, k)
<1>2. /\ r \in Seq(Threads) /\ n \in Nat /\ Len(r) = n + 1
      /\ \A i \in 1 .. n + 1 : r[i] = IF i < k THEN q[i] ELSE IF i = k THEN t ELSE q[i - 1]
  BY InsertAt
<1>3. Once(r) /\ \A u \in Threads : Listed(r, u) <=> (Listed(q, u) \/ u = t)
  BY InsertLists
<1>4. Sorted(r, pri)
  <2>1. /\ \A i \in 1 .. n : q[i] \in Threads /\ pri[q[i]] \in Nat
        /\ pri[t] \in Nat
    <3>1. \A u \in Threads : pri[u] \in Nat
      BY SchedulerAssumption
    <3>2. \A i \in 1 .. n : q[i] \in Threads
      OBVIOUS
    <3> QED BY <3>1, <3>2
  <2>2. \A i, j \in 1 .. n : i < j => pri[q[i]] >= pri[q[j]]
    BY DEF Sorted
  <2>3. Sorted(r, pri) <=> \A i, j \in 1 .. n + 1 : i < j => pri[r[i]] >= pri[r[j]]
    BY <1>2 DEF Sorted
  <2> HIDE DEF n, r
  <2>4. \A i \in 1 .. n + 1 : \/ i < k /\ i \in 1 .. n /\ r[i] = q[i]
                              \/ i = k /\ r[i] = t
                              \/ i > k /\ i - 1 \in 1 .. n /\ r[i] = q[i - 1]
    BY <1>2
  <2>5. \A i \in 1 .. n : i < k => pri[q[i]] >= pri[t]
    <3> TAKE i \in 1 .. n
    <3> HAVE i < k
    <3>1. i \in 1 .. k - 1
      BY <1>2
    <3> QED
      BY <1>1, <2>1, <3>1 DEF prioritycmp
  <2>6. \A i \in 1 .. n : i >= k => pri[t] >= pri[q[i]]
    <3> TAKE i \in 1 .. n
    <3> HAVE i >= k
    <3>1. k \in 1 .. n /\ pri[t] > pri[q[k]]
      BY <1>1, <1>2 DEF prioritycmp
    <3>2. pri[q[k]] >= pri[q[i]]
      BY <2>1, <2>2, <3>1
    <3> QED
      BY <2>1, <3>1, <3>2
  <2>7. ASSUME NEW i \in 1 .. n + 1, NEW j \in 1 .. n + 1, i < j
        PROVE  pri[r[i]] >= pri[r[j]]
    <3>1. CASE i < k
      <4>1. i \in 1 .. n /\ r[i] = q[i]
        BY <2>4, <3>1
      <4>2. CASE j < k
        <5>1. j \in 1 .. n /\ r[j] = q[j]
          BY <2>4, <4>2
        <5> QED
          BY <2>2, <2>7, <4>1, <5>1
      <4>3. CASE j = k
        <5>1. r[j] = t
          BY <2>4, <4>3
        <5> QED
          BY <2>5, <3>1, <4>1, <5>1
      <4>4. CASE j > k
        <5>1. j - 1 \in 1 .. n /\ r[j] = q[j - 1] /\ i < j - 1
          BY <1>2, <2>4, <3>1, <4>4
        <5> QED
          BY <2>2, <4>1, <5>1
      <4> QED
        BY <1>2, <4>2, <4>3, <4>4
    <3>2. CASE i = k
      <4>1. j - 1 \in 1 .. n /\ j - 1 >= k /\ r[j] = q[j - 1] /\ r[i] = t
        BY <1>2, <2>4, <2>7, <3>2
      <4> QED
        BY <2>6, <4>1
    <3>3. CASE i > k
      <4>1. /\ i - 1 \in 1 .. n /\ r[i] = q[i - 1]
            /\ j - 1 \in 1 .. n /\ r[j] = q[j - 1]
            /\ i - 1 < j - 1
        BY <1>2, <2>4, <2>7, <3>3
      <4> QED
        BY <2>2, <4>1
    <3> QED
      BY <1>2, <3>1, <3>2, <3>3
  <2> QED
    BY <2>3, <2>7
<1> QED
  BY <1>1, <1>2, <1>3, <1>4

(* list_pop_front keeps the order of a list. *)
LEMMA PopSorted ==
  ASSUME NEW q \in Seq(Threads), q # <<>>, NEW pri, Sorted(q, pri)
  PROVE  Sorted(Tail(q), pri)
<1> DEFINE n == Len(q)
           r == Tail(q)
<1>1. /\ n \in Nat \ {0} /\ Len(r) = n - 1
      /\ \A i \in 1 .. n - 1 : r[i] = q[i + 1]
  BY PopFront
<1>2. /\ \A i, j \in 1 .. n : i < j => pri[q[i]] >= pri[q[j]]
      /\ Sorted(r, pri) <=> \A i, j \in 1 .. n - 1 : i < j => pri[r[i]] >= pri[r[j]]
  BY <1>1 DEF Sorted
<1> HIDE DEF n, r
<1>3. ASSUME NEW i \in 1 .. n - 1, NEW j \in 1 .. n - 1, i < j
      PROVE  pri[r[i]] >= pri[r[j]]
  <2>1. i + 1 < j + 1 /\ i + 1 \in 1 .. n /\ j + 1 \in 1 .. n
    BY <1>1, <1>3
  <2>2. r[i] = q[i + 1] /\ r[j] = q[j + 1]
    BY <1>1
  <2> QED
    BY <1>2, <2>1, <2>2
<1> QED
  BY <1>2, <1>3 DEF r

(* What schedule leaves, called with the running thread off the ready list  *)
(* q, or on it when it gives the CPU up but stays ready.                    *)
LEMMA ScheduleEffect ==
  ASSUME TypeOK, NEW q \in Seq(Threads), Once(q), Sorted(q, priority),
         NEW st \in {"READY", "BLOCKED", "DYING"}, schedule(st, q),
         \A t \in Threads : t # cur => /\ status[t] = "READY" <=> Listed(q, t)
                                       /\ status[t] # "RUNNING",
         cur \in Threads => (Listed(q, cur) <=> st = "READY")
  PROVE  /\ cur' \in Threads \cup {Idle}
         /\ status' \in [Threads \cup {Idle} -> {"free", "READY", "RUNNING", "BLOCKED", "DYING"}]
         /\ ready_list' \in Seq(Threads)
         /\ thread_ticks' \in 0 .. TIME_SLICE
         /\ Once(ready_list') /\ Sorted(ready_list', priority)
         /\ \A t \in Threads :
              /\ status'[t] = "READY" <=> Listed(ready_list', t)
              /\ status'[t] = "RUNNING" <=> cur' = t
              /\ status'[t] = "BLOCKED" <=> IF t = cur THEN st = "BLOCKED" ELSE status[t] = "BLOCKED"
              /\ status'[t] \in {"free", "DYING"} =>
                   IF t = cur THEN st = "DYING" ELSE status'[t] = status[t]
<1> DEFINE next == IF q = <<>> THEN Idle ELSE Head(q)
           old == IF st = "DYING" /\ cur # main THEN "free" ELSE st
<1>1. /\ cur' = next
      /\ ready_list' = IF q = <<>> THEN <<>> ELSE Tail(q)
      /\ status' = [status EXCEPT ![cur] = old, ![next] = "RUNNING"]
      /\ thread_ticks' = 0
  BY DEF schedule
<1>2. /\ ready_list' \in Seq(Threads) /\ Once(ready_list') /\ Sorted(ready_list', priority)
      /\ next \in Threads \cup {Idle}
      /\ next \in Threads <=> q # <<>>
      /\ next \in Threads => Listed(q, next)
      /\ \A u \in Threads : Listed(ready_list', u) <=> (Listed(q, u) /\ u # next)
  <2>1. CASE q = <<>>
    <3>1. Len(q) = 0 /\ 1 .. 0 = {} /\ ready_list' = <<>> /\ next = Idle /\ Idle \notin Threads
      BY <1>1, <2>1, SchedulerAssumption
    <3>2. <<>> \in Seq(Threads) /\ Once(<<>>) /\ Sorted(<<>>, priority)
          /\ \A u \in Threads : ~Listed(<<>>, u)
      BY DEF Once, Sorted, Listed
    <3> QED
      BY <2>1, <3>1, <3>2
  <2>2. CASE q # <<>>
    <3>1. next = Head(q) /\ ready_list' = Tail(q)
      BY <1>1, <2>2
    <3> QED
      BY <2>2, <3>1, PopLists, PopSorted
  <2> QED
    BY <2>1, <2>2
<1>3. /\ status \in [Threads \cup {Idle} -> {"free", "READY", "RUNNING", "BLOCKED", "DYING"}]
      /\ cur \in Threads \cup {Idle}
      /\ old \in {"free", "READY", "BLOCKED", "DYING"}
      /\ old = "READY" <=> st = "READY"
      /\ old = "BLOCKED" <=> st = "BLOCKED"
      /\ old \in {"free", "DYING"} => st = "DYING"
  BY DEF TypeOK
<1> HIDE DEF next, old
<1>4. /\ status'[next] = "RUNNING"
      /\ cur # next => status'[cur] = old
      /\ \A t \in Threads : t # cur /\ t # next => status'[t] = status[t]
  BY <1>1, <1>2, <1>3
<1>5. status' \in [Threads \cup {Idle} -> {"free", "READY", "RUNNING", "BLOCKED", "DYING"}]
  BY <1>1, <1>2, <1>3
<1>6. ASSUME NEW t \in Threads
      PROVE  /\ status'[t] = "READY" <=> Listed(ready_list', t)
             /\ status'[t] = "RUNNING" <=> cur' = t
             /\ status'[t] = "BLOCKED" <=> IF t = cur THEN st = "BLOCKED" ELSE status[t] = "BLOCKED"
             /\ status'[t] \in {"free", "DYING"} =>
                  IF t = cur THEN st = "DYING" ELSE status'[t] = status[t]
  <2>1. CASE t = next
    BY <1>1, <1>2, <1>4, <2>1
  <2>2. CASE t # next /\ t = cur
    BY <1>1, <1>2, <1>3, <1>4, <2>2
  <2>3. CASE t # next /\ t # cur
    BY <1>1, <1>2, <1>4, <2>3
  <2> QED
    BY <2>1, <2>2, <2>3
<1>7. thread_ticks' \in 0 .. TIME_SLICE
  BY <1>1, SchedulerAssumption
<1> QED
  BY <1>1, <1>2, <1>5, <1>6, <1>7

-----------------------------------------------------------------------------
(* Every step of the scheduler is a step of the semaphores or leaves them   *)
(* alone.                                                                   *)
LEMMA SchedStepIsSemaStep == [Next]_vars => [SemaNext]_sema_vars
<1> SUFFICES ASSUME [Next]_vars PROVE [SemaNext]_sema_vars
  OBVIOUS
<1>1. CASE UNCHANGED vars
  BY <1>1 DEF vars
<1>2. ASSUME NEW s \in Semas, Down(s) PROVE SemaNext
  BY <1>2 DEF Down, Running, SemaNext
<1>3. ASSUME NEW s \in Semas, TryDown(s) PROVE SemaNext
  BY <1>3 DEF TryDown, Running, SemaNext
<1>4. ASSUME NEW s \in Semas, Up(s) PROVE SemaNext
  BY <1>4 DEF Up, SemaNext
<1>5. CASE Wake
  BY <1>5 DEF Wake, SemaNext
<1>6. CASE \/ \E t \in Threads, p \in Priorities : thread_create(t, p)
           \/ \E p \in Priorities : thread_set_priority(p)
           \/ thread_exit \/ thread_yield \/ YieldGo \/ Tick \/ idle
  BY <1>6 DEF thread_create, thread_set_priority, thread_exit, thread_yield, YieldGo, Tick, idle
<1> QED
  BY <1>1, <1>2, <1>3, <1>4, <1>5, <1>6 DEF Next

(* The scheduler gives the threads no interleaving of the semaphore         *)
(* operations that module Semaphore does not have: thread switches, time    *)
(* slices and priorities only restrict it.                                  *)
THEOREM SchedulerImplementsSemaphore == Spec => ImplementsSemaphore
<1>1. Init => SemaInit
  BY DEF Init
<1> QED
  BY <1>1, SchedStepIsSemaStep, PTL DEF Spec, SemaSpec, ImplementsSemaphore

-----------------------------------------------------------------------------
LEMMA SchedInit == Init => SchedInv
<1> SUFFICES ASSUME Init PROVE SchedInv
  OBVIOUS
<1>1. SemaInv
  BY SemaInitInv DEF Init
<1>2. TypeOK
  BY <1>1, SchedulerAssumption DEF Init, TypeOK, SemaInv
<1>3. ready_list = <<>> /\ Len(ready_list) = 0 /\ 1 .. 0 = {}
  BY DEF Init
<1>4. Once(ready_list) /\ Sorted(ready_list, priority) /\ \A t \in Threads : ~Listed(ready_list, t)
  BY <1>3 DEF Once, Sorted, Listed
<1>5. ASSUME NEW t \in Threads
      PROVE  /\ pc[t] = "run"
             /\ status[t] = IF t = main THEN "RUNNING" ELSE "free"
             /\ cur = main
  BY SchedulerAssumption DEF Init, SemaInit
<1>6. StatusAgrees
  BY <1>4, <1>5 DEF StatusAgrees
<1> QED
  BY <1>1, <1>2, <1>4, <1>6 DEF SchedInv

(* A step that moves no thread from one list to another. *)
LEMMA NoMove ==
  ASSUME SchedInv, SemaInv', UNCHANGED <<cur, status, ready_list, priority>>,
         thread_ticks' \in 0 .. TIME_SLICE,
         yielding' \in [Threads -> {"no", "call", "go"}],
         \A t \in Threads : /\ pc'[t] = "blocked" <=> pc[t] = "blocked"
                            /\ pc'[t] = "run" \/ pc'[t] = pc[t]
  PROVE  SchedInv'
<1>1. /\ TypeOK /\ StatusAgrees /\ Once(ready_list) /\ Sorted(ready_list, priority)
      /\ cur' = cur /\ status' = status /\ ready_list' = ready_list /\ priority' = priority
      /\ SemaTypeOK'
  BY DEF SchedInv, SemaInv
<1>2. TypeOK'
  BY <1>1 DEF TypeOK
<1>3. StatusAgrees'
  BY <1>1 DEF StatusAgrees
<1>4. Once(ready_list') /\ Sorted(ready_list', priority')
  BY <1>1
<1> QED
  BY <1>2, <1>3, <1>4 DEF SchedInv

(* The running thread stops running: it blocks or exits. *)
LEMMA SwitchAway ==
  ASSUME SchedInv, SemaInv', NEW st \in {"BLOCKED", "DYING"}, schedule(st, ready_list),
         UNCHANGED <<priority, yielding>>,
         \A t \in Threads \ {cur} : pc'[t] = pc[t],
         cur \in Threads => pc'[cur] = IF st = "BLOCKED" THEN "blocked" ELSE "run"
  PROVE  SchedInv'
<1>1. /\ TypeOK /\ StatusAgrees /\ Once(ready_list) /\ Sorted(ready_list, priority)
      /\ ready_list \in Seq(Threads)
      /\ priority' = priority /\ yielding' = yielding /\ SemaTypeOK'
  BY DEF SchedInv, SemaInv, TypeOK
<1>2. /\ \A t \in Threads : t # cur => /\ status[t] = "READY" <=> Listed(ready_list, t)
                                       /\ status[t] # "RUNNING"
      /\ cur \in Threads => (Listed(ready_list, cur) <=> st = "READY")
  BY <1>1 DEF StatusAgrees
<1>3. /\ cur' \in Threads \cup {Idle}
      /\ status' \in [Threads \cup {Idle} -> {"free", "READY", "RUNNING", "BLOCKED", "DYING"}]
      /\ ready_list' \in Seq(Threads)
      /\ thread_ticks' \in 0 .. TIME_SLICE
      /\ Once(ready_list') /\ Sorted(ready_list', priority)
      /\ \A t \in Threads :
           /\ status'[t] = "READY" <=> Listed(ready_list', t)
           /\ status'[t] = "RUNNING" <=> cur' = t
           /\ status'[t] = "BLOCKED" <=> IF t = cur THEN st = "BLOCKED" ELSE status[t] = "BLOCKED"
           /\ status'[t] \in {"free", "DYING"} =>
                IF t = cur THEN st = "DYING" ELSE status'[t] = status[t]
  BY <1>1, <1>2, ScheduleEffect
<1>4. TypeOK'
  BY <1>1, <1>3 DEF TypeOK
<1>5. StatusAgrees'
  BY <1>1, <1>3 DEF StatusAgrees
<1> QED
  BY <1>1, <1>3, <1>4, <1>5 DEF SchedInv

(* The running thread gives up the CPU and stays ready. *)
LEMMA SwitchYield ==
  ASSUME SchedInv, SemaInv', YieldSwitch, UNCHANGED <<sema_vars, priority>>,
         yielding' \in [Threads -> {"no", "call", "go"}]
  PROVE  SchedInv'
<1> DEFINE q == IF cur = Idle THEN ready_list ELSE list_insert_ordered(ready_list, cur, priority)
<1>1. /\ TypeOK /\ StatusAgrees /\ Once(ready_list) /\ Sorted(ready_list, priority)
      /\ ready_list \in Seq(Threads) /\ priority \in [Threads -> Priorities]
      /\ cur \in Threads \cup {Idle}
      /\ priority' = priority /\ SemaTypeOK' /\ pc' = pc
  BY DEF SchedInv, SemaInv, TypeOK, sema_vars
<1>2. /\ q \in Seq(Threads) /\ Once(q) /\ Sorted(q, priority)
      /\ \A t \in Threads : Listed(q, t) <=> (Listed(ready_list, t) \/ t = cur)
  <2>1. CASE cur = Idle
    BY <1>1, <2>1, SchedulerAssumption
  <2>2. CASE cur # Idle
    <3>1. cur \in Threads /\ ~Listed(ready_list, cur)
      BY <1>1, <2>2 DEF StatusAgrees
    <3> QED
      BY <1>1, <2>2, <3>1, InsertOrdered
  <2> QED
    BY <2>1, <2>2
<1>3. schedule("READY", q)
  BY DEF YieldSwitch
<1> HIDE DEF q
<1>4. /\ \A t \in Threads : t # cur => /\ status[t] = "READY" <=> Listed(q, t)
                                       /\ status[t] # "RUNNING"
      /\ cur \in Threads => (Listed(q, cur) <=> "READY" = "READY")
  BY <1>1, <1>2 DEF StatusAgrees
<1>5. /\ cur' \in Threads \cup {Idle}
      /\ status' \in [Threads \cup {Idle} -> {"free", "READY", "RUNNING", "BLOCKED", "DYING"}]
      /\ ready_list' \in Seq(Threads)
      /\ thread_ticks' \in 0 .. TIME_SLICE
      /\ Once(ready_list') /\ Sorted(ready_list', priority)
      /\ \A t \in Threads :
           /\ status'[t] = "READY" <=> Listed(ready_list', t)
           /\ status'[t] = "RUNNING" <=> cur' = t
           /\ status'[t] = "BLOCKED" <=> IF t = cur THEN "READY" = "BLOCKED" ELSE status[t] = "BLOCKED"
           /\ status'[t] \in {"free", "DYING"} =>
                IF t = cur THEN "READY" = "DYING" ELSE status'[t] = status[t]
  BY <1>1, <1>2, <1>3, <1>4, ScheduleEffect
<1>6. TypeOK'
  BY <1>1, <1>5 DEF TypeOK
<1>7. StatusAgrees'
  <2> SUFFICES ASSUME NEW t \in Threads
               PROVE  /\ status'[t] = "BLOCKED" <=> pc[t] = "blocked"
                      /\ status'[t] \in {"free", "DYING"} => pc[t] = "run"
    BY <1>1, <1>5 DEF StatusAgrees
  <2>1. /\ status[t] = "BLOCKED" <=> pc[t] = "blocked"
        /\ status[t] = "RUNNING" <=> cur = t
        /\ status[t] \in {"free", "DYING"} => pc[t] = "run"
    BY <1>1 DEF StatusAgrees
  <2> QED
    BY <1>5, <2>1
<1> QED
  BY <1>1, <1>5, <1>6, <1>7 DEF SchedInv

(* thread_create and thread_unblock put a thread on the ready list that was *)
(* on no list.                                                              *)
LEMMA MakeReady ==
  ASSUME SchedInv, SemaInv', NEW t \in Threads, status[t] \notin {"READY", "RUNNING"},
         priority' \in [Threads -> Priorities],
         \A u \in Threads \ {t} : priority'[u] = priority[u],
         ready_list' = list_insert_ordered(ready_list, t, priority'),
         status' = [status EXCEPT ![t] = "READY"],
         UNCHANGED <<cur, thread_ticks, yielding>>,
         \A u \in Threads \ {t} : pc'[u] = pc[u],
         pc'[t] # "blocked"
  PROVE  SchedInv'
<1>1. /\ TypeOK /\ StatusAgrees /\ Once(ready_list) /\ Sorted(ready_list, priority)
      /\ ready_list \in Seq(Threads) /\ cur' = cur
      /\ status \in [Threads \cup {Idle} -> {"free", "READY", "RUNNING", "BLOCKED", "DYING"}]
      /\ thread_ticks' = thread_ticks /\ yielding' = yielding /\ SemaTypeOK'
  BY DEF SchedInv, SemaInv, TypeOK
<1>2. ~Listed(ready_list, t) /\ cur # t
  BY <1>1 DEF StatusAgrees
<1>3. Sorted(ready_list, priority')
  <2>1. \A i \in 1 .. Len(ready_list) :
          /\ ready_list[i] \in Threads \ {t}
          /\ priority'[ready_list[i]] = priority[ready_list[i]]
    BY <1>1, <1>2 DEF Listed
  <2> QED
    BY <1>1, <2>1 DEF Sorted
<1>4. /\ ready_list' \in Seq(Threads) /\ Once(ready_list') /\ Sorted(ready_list', priority')
      /\ \A u \in Threads : Listed(ready_list', u) <=> (Listed(ready_list, u) \/ u = t)
  BY <1>1, <1>2, <1>3, InsertOrdered
<1>5. TypeOK'
  BY <1>1, <1>4 DEF TypeOK
<1>6. /\ status'[t] = "READY"
      /\ \A u \in Threads \ {t} : status'[u] = status[u]
  BY <1>1
<1>7. StatusAgrees'
  BY <1>1, <1>2, <1>4, <1>6 DEF StatusAgrees
<1> QED
  BY <1>4, <1>5, <1>7 DEF SchedInv

(* One pass through the loop of sema_down by the running thread, with the   *)
(* switch to another thread if it goes to sleep.                            *)
LEMMA DownSwitch ==
  ASSUME SchedInv, SemaInv', cur \in Threads, NEW s \in Semas, DownLoop(cur, s), SwitchIfBlocked
  PROVE  SchedInv'
<1>1. /\ SemaTypeOK /\ TypeOK /\ StatusAgrees
  BY DEF SchedInv, SemaInv
<1>2. /\ \A u \in Threads \ {cur} : pc'[u] = pc[u]
      /\ pc'[cur] = "run" \/ pc'[cur] = "blocked"
  BY <1>1, DownEffect
<1>3. pc[cur] # "blocked"
  BY <1>1 DEF StatusAgrees
<1>4. CASE pc'[cur] = "blocked"
  <2>1. schedule("BLOCKED", ready_list) /\ UNCHANGED <<priority, yielding>>
    BY <1>4 DEF SwitchIfBlocked
  <2> QED
    BY <1>2, <1>4, <2>1, SwitchAway
<1>5. CASE pc'[cur] = "run"
  <2>1. UNCHANGED sched_vars
    BY <1>5 DEF SwitchIfBlocked
  <2>2. /\ UNCHANGED <<cur, status, ready_list, priority>>
        /\ thread_ticks' \in 0 .. TIME_SLICE
        /\ yielding' \in [Threads -> {"no", "call", "go"}]
    BY <1>1, <2>1 DEF sched_vars, TypeOK
  <2>3. \A t \in Threads : /\ pc'[t] = "blocked" <=> pc[t] = "blocked"
                           /\ pc'[t] = "run" \/ pc'[t] = pc[t]
    BY <1>2, <1>3, <1>5
  <2> QED
    BY <2>2, <2>3, NoMove
<1> QED
  BY <1>2, <1>4, <1>5

LEMMA SchedStep == SchedInv /\ [Next]_vars => SchedInv'
<1> SUFFICES ASSUME SchedInv, [Next]_vars PROVE SchedInv'
  OBVIOUS
<1>1. SemaInv /\ SemaInv'
  BY SchedStepIsSemaStep, SemaInvStep DEF SchedInv
<1>2. /\ TypeOK /\ StatusAgrees /\ Sorted(ready_list, priority) /\ Once(ready_list)
      /\ SemaTypeOK /\ WaitersBlocked
      /\ thread_ticks \in 0 .. TIME_SLICE /\ yielding \in [Threads -> {"no", "call", "go"}]
      /\ priority \in [Threads -> Priorities] /\ cur \in Threads \cup {Idle}
      /\ ready_list \in Seq(Threads)
  BY DEF SchedInv, SemaInv, TypeOK
<1>3. ASSUME NEW t \in Threads, NEW p \in Priorities, thread_create(t, p) PROVE SchedInv'
  <2>1. /\ status[t] = "free" /\ pc[t] = "run" /\ pc' = pc
        /\ priority' = [priority EXCEPT ![t] = p]
        /\ ready_list' = list_insert_ordered(ready_list, t, priority')
        /\ status' = [status EXCEPT ![t] = "READY"]
        /\ UNCHANGED <<cur, thread_ticks, yielding>>
    BY <1>2, <1>3 DEF thread_create, sema_vars, StatusAgrees
  <2>2. /\ priority' \in [Threads -> Priorities]
        /\ \A u \in Threads \ {t} : priority'[u] = priority[u]
    BY <1>2, <2>1
  <2> QED
    BY <1>1, <2>1, <2>2, MakeReady
<1>4. ASSUME NEW p \in Priorities, thread_set_priority(p) PROVE SchedInv'
  <2>1. /\ cur \in Threads /\ pc' = pc
        /\ priority' = [priority EXCEPT ![cur] = p]
        /\ yielding' = [yielding EXCEPT ![cur] = "call"]
        /\ cur' = cur /\ status' = status /\ ready_list' = ready_list
        /\ thread_ticks' = thread_ticks
    BY <1>4 DEF thread_set_priority, Running, sema_vars
  <2>2. /\ priority' \in [Threads -> Priorities]
        /\ yielding' \in [Threads -> {"no", "call", "go"}]
    BY <1>2, <2>1
  <2>3. TypeOK'
    BY <1>1, <1>2, <2>1, <2>2 DEF TypeOK, SemaInv
  <2>4. Sorted(ready_list', priority')
    <3>1. ~Listed(ready_list, cur)
      BY <1>2, <2>1 DEF StatusAgrees
    <3>2. \A i \in 1 .. Len(ready_list) : priority'[ready_list[i]] = priority[ready_list[i]]
      BY <1>2, <2>1, <3>1 DEF Listed
    <3> QED
      BY <1>2, <2>1, <3>2 DEF Sorted
  <2>5. StatusAgrees'
    BY <1>2, <2>1 DEF StatusAgrees
  <2> QED
    BY <1>1, <1>2, <2>1, <2>3, <2>4, <2>5 DEF SchedInv
<1>5. CASE thread_exit
  <2>1. /\ cur \in Threads /\ pc' = pc /\ pc[cur] = "run"
        /\ schedule("DYING", ready_list) /\ UNCHANGED <<priority, yielding>>
    BY <1>5 DEF thread_exit, Running, sema_vars
  <2> QED
    BY <1>1, <2>1, SwitchAway
<1>6. CASE thread_yield
  <2>1. /\ pc' = pc /\ UNCHANGED <<cur, status, ready_list, priority>>
        /\ thread_ticks' = thread_ticks
        /\ \/ yielding' = [yielding EXCEPT ![cur] = "no"]
           \/ yielding' = [yielding EXCEPT ![cur] = "go"]
    BY <1>6 DEF thread_yield, sema_vars
  <2>2. yielding' \in [Threads -> {"no", "call", "go"}]
    BY <1>2, <2>1
  <2> QED
    BY <1>1, <1>2, <2>1, <2>2, NoMove
<1>7. CASE YieldGo
  <2>1. yielding' \in [Threads -> {"no", "call", "go"}]
    BY <1>2, <1>7 DEF YieldGo
  <2> QED
    BY <1>1, <1>7, <2>1, SwitchYield DEF YieldGo
<1>8. CASE Tick
  <2>1. UNCHANGED <<sema_vars, priority, yielding>> /\ yielding' = yielding /\ pc' = pc
    BY <1>8 DEF Tick, sema_vars
  <2>2. CASE YieldSwitch
    BY <1>1, <1>2, <2>1, <2>2, SwitchYield
  <2>3. CASE /\ UNCHANGED <<cur, status, ready_list>>
             /\ \/ thread_ticks + 1 < TIME_SLICE /\ thread_ticks' = thread_ticks + 1
                \/ thread_ticks' = TIME_SLICE
    <3>1. thread_ticks' \in 0 .. TIME_SLICE
      BY <1>2, <2>3, SchedulerAssumption
    <3> QED
      BY <1>1, <1>2, <2>1, <2>3, <3>1, NoMove
  <2> QED
    BY <1>8, <2>2, <2>3 DEF Tick
<1>9. CASE idle
  <2>1. /\ cur \notin Threads /\ pc' = pc
        /\ schedule("BLOCKED", ready_list) /\ UNCHANGED <<priority, yielding>>
    BY <1>9, SchedulerAssumption DEF idle, sema_vars
  <2> QED
    BY <1>1, <2>1, SwitchAway
<1>10. CASE Wake
  <2>1. cur \in Threads /\ on[cur] \in Semas /\ DownLoop(cur, on[cur]) /\ SwitchIfBlocked
    BY <1>2, <1>10 DEF Wake, Resume, SemaTypeOK
  <2> QED
    BY <1>1, <2>1, DownSwitch
<1>11. ASSUME NEW s \in Semas, Down(s) PROVE SchedInv'
  BY <1>1, <1>11, DownSwitch DEF Down, Running, sema_down
<1>12. ASSUME NEW s \in Semas, TryDown(s) PROVE SchedInv'
  <2>1. /\ pc' = pc /\ UNCHANGED <<cur, status, ready_list, priority>>
        /\ thread_ticks' = thread_ticks /\ yielding' = yielding
    BY <1>12 DEF TryDown, sema_try_down, sched_vars
  <2> QED
    BY <1>1, <1>2, <2>1, NoMove
<1>13. ASSUME NEW s \in Semas, Up(s) PROVE SchedInv'
  <2>1. CASE waiters[s] = <<>>
    <3>1. /\ pc' = pc /\ UNCHANGED <<cur, status, ready_list, priority>>
          /\ thread_ticks' = thread_ticks /\ yielding' = yielding
      BY <1>13, <2>1 DEF Up, sema_up
    <3> QED
      BY <1>1, <1>2, <3>1, NoMove
  <2>2. CASE waiters[s] # <<>>
    <3> DEFINE h == waiters[s][1]
    <3>1. /\ h \in Threads /\ pc[h] = "blocked" /\ pc'[h] = "woken"
          /\ \A u \in Threads \ {h} : pc'[u] = pc[u]
      BY <1>2, <1>13, <2>2, UpWakes DEF Up
    <3>2. Head(waiters[s]) = h
      BY <1>2, <2>2, PopFront DEF SemaTypeOK
    <3>3. /\ ready_list' = list_insert_ordered(ready_list, h, priority)
          /\ status' = [status EXCEPT ![h] = "READY"]
          /\ UNCHANGED <<cur, thread_ticks, yielding>> /\ priority' = priority
      BY <1>13, <2>2, <3>2 DEF Up
    <3>4. status[h] = "BLOCKED"
      BY <1>2, <3>1 DEF StatusAgrees
    <3> HIDE DEF h
    <3> QED
      BY <1>1, <1>2, <3>1, <3>3, <3>4, MakeReady
  <2> QED
    BY <2>1, <2>2
<1>14. CASE UNCHANGED vars
  <2>1. /\ pc' = pc /\ UNCHANGED <<cur, status, ready_list, priority>>
        /\ thread_ticks' = thread_ticks /\ yielding' = yielding
    BY <1>14 DEF vars, sema_vars, sched_vars
  <2> QED
    BY <1>1, <1>2, <2>1, NoMove
<1> QED
  BY <1>3, <1>4, <1>5, <1>6, <1>7, <1>8, <1>9, <1>10, <1>11, <1>12, <1>13, <1>14 DEF Next

(* A list that holds a thread once has one place for it. *)
LEMMA OnePlace ==
  ASSUME NEW q \in Seq(Threads), Once(q), NEW t
  PROVE  Cardinality({i \in DOMAIN q : q[i] = t}) = IF Listed(q, t) THEN 1 ELSE 0
<1>1. DOMAIN q = 1 .. Len(q)
  OBVIOUS
<1>2. CASE Listed(q, t)
  <2>1. PICK i \in 1 .. Len(q) : q[i] = t
    BY <1>2 DEF Listed
  <2>2. {j \in DOMAIN q : q[j] = t} = {i}
    BY <1>1, <2>1 DEF Once
  <2> QED
    BY <1>2, <2>2, FS_Singleton
<1>3. CASE ~Listed(q, t)
  <2>1. {j \in DOMAIN q : q[j] = t} = {}
    BY <1>1, <1>3 DEF Listed
  <2> QED
    BY <1>3, <2>1, FS_EmptySet
<1> QED
  BY <1>2, <1>3

LEMMA SchedInvGives == SchedInv => OneListPerThread
<1> SUFFICES ASSUME SchedInv PROVE OneListPerThread
  OBVIOUS
<1>1. /\ TypeOK /\ StatusAgrees /\ Once(ready_list) /\ Sorted(ready_list, priority)
      /\ WaitersBlocked /\ SemaTypeOK /\ ready_list \in Seq(Threads)
  BY DEF SchedInv, SemaInv, TypeOK
<1>2. ReadySorted
  <2>1. DOMAIN ready_list = 1 .. Len(ready_list)
    BY <1>1
  <2> QED
    BY <1>1, <2>1 DEF ReadySorted, Sorted
<1>3. \A s \in Semas : DOMAIN waiters[s] = 1 .. Len(waiters[s])
  BY <1>1 DEF SemaTypeOK
<1>4. ASSUME NEW t \in Threads
      PROVE  Cardinality(UNION {{<<s, i>> : i \in {j \in DOMAIN waiters[s] : waiters[s][j] = t}} :
                                  s \in Semas}) = IF status[t] = "BLOCKED" THEN 1 ELSE 0
  <2> DEFINE In(s) == {<<s, i>> : i \in {j \in DOMAIN waiters[s] : waiters[s][j] = t}}
             asleep == UNION {In(s) : s \in Semas}
  <2>1. status[t] = "BLOCKED" <=> pc[t] = "blocked"
    BY <1>1 DEF StatusAgrees
  <2>2. CASE pc[t] = "blocked"
    <3>1. on[t] \in Semas
      BY <1>1 DEF SemaTypeOK
    <3>2. PICK i \in 1 .. Len(waiters[on[t]]) : waiters[on[t]][i] = t
      BY <1>1, <2>2 DEF WaitersBlocked
    <3>3. \A s \in Semas : \A j \in DOMAIN waiters[s] : waiters[s][j] = t => s = on[t] /\ j = i
      BY <1>1, <1>3, <3>2 DEF WaitersBlocked
    <3>4. In(on[t]) = {<<on[t], i>>}
      BY <1>3, <3>1, <3>2, <3>3
    <3>5. \A s \in Semas : s # on[t] => In(s) = {}
      BY <3>3
    <3>6. asleep = {<<on[t], i>>}
      <4> HIDE DEF In
      <4> QED
        BY <3>1, <3>4, <3>5
    <3> QED
      BY <2>1, <2>2, <3>6, FS_Singleton
  <2>3. CASE pc[t] # "blocked"
    <3>1. \A s \in Semas : In(s) = {}
      BY <1>1, <1>3, <2>3 DEF WaitersBlocked
    <3>2. asleep = {}
      <4> HIDE DEF In
      <4> QED
        BY <3>1
    <3> QED
      BY <2>1, <2>3, <3>2, FS_EmptySet
  <2> QED
    BY <2>2, <2>3
<1>5. ASSUME NEW t \in Threads
      PROVE  /\ Cardinality({i \in DOMAIN ready_list : ready_list[i] = t}) =
                  IF status[t] = "READY" THEN 1 ELSE 0
             /\ status[t] = "RUNNING" <=> cur = t
  BY <1>1, OnePlace DEF StatusAgrees
<1> QED
  BY <1>1, <1>2, <1>4, <1>5 DEF OneListPerThread

(* A thread is on the ready list exactly once while it is ready, on one     *)
(* waiter list exactly once while it is blocked and on none otherwise, only *)
(* cur is running, and the ready list stays in order of priority, whatever  *)
(* the threads, their priorities and the interrupts do.                     *)
THEOREM ThreadsAreOnOneList == Spec => []OneListPerThread
BY SchedInit, SchedStep, SchedInvGives, PTL DEF Spec
=============================================================================
