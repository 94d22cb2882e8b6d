--------------------------- MODULE MonitorProofs ---------------------------
(* Proofs about module Monitor, for any set of threads. *)
EXTENDS Monitor, SemaphoreProofs

(* Thread t is on the list of the condition variable. *)
OnList(t) == \E i \in 1 .. Len(cond_waiters) : cond_waiters[i] = t

OnceOnList ==
  \A i, j \in 1 .. Len(cond_waiters) : cond_waiters[i] = cond_waiters[j] => i = j

(* Where a thread can be inside a sema_down. *)
Sleeping ==
  \A t \in Threads : pc[t] # "run" =>
    \/ at[t] = "got" /\ on[t] = Lock
    \/ at[t] = "wacq" /\ on[t] = t

(* lock->holder is the thread between the two assignments to it. *)
Holding == \A t \in Threads : (holder = t) <=> (at[t] \in {"in", "bcast", "wait"})

(* A thread in cond_wait is on the list or has been signalled, not both. *)
Signalling ==
  /\ OnceOnList
  /\ \A t \in Threads :
       /\ value[t] \in {0, 1}
       /\ Waiting(t) <=> (OnList(t) \/ value[t] = 1)
       /\ ~(OnList(t) /\ value[t] = 1)

(* The inductive invariant: that of the semaphores, since a sema_up may only *)
(* wake a thread that sleeps, and the four facts that need each other.       *)
MonitorInv ==
  /\ SemaInv /\ TypeOK
  /\ Sleeping
  /\ value[Lock] \in {0, 1} /\ MutualExclusion
  /\ Holding
  /\ Signalling

(* list_push_back and list_pop_front on the list of the condition variable. *)
LEMMA PushOnList ==
  ASSUME cond_waiters \in Seq(Threads), NEW t \in Threads,
         cond_waiters' = Append(cond_waiters, t), OnceOnList, ~OnList(t)
  PROVE  /\ cond_waiters' \in Seq(Threads)
         /\ OnceOnList'
         /\ \A u \in Threads : OnList(u)' <=> (OnList(u) \/ u = t)
<1> DEFINE n == Len(cond_waiters)
<1>1. /\ cond_waiters' \in Seq(Threads)
      /\ n \in Nat /\ Len(cond_waiters') = n + 1
      /\ \A i \in 1 .. n : cond_waiters'[i] = cond_waiters[i]
      /\ cond_waiters'[n + 1] = t
  BY PushBack
<1>2. /\ \A i, j \in 1 .. n : cond_waiters[i] = cond_waiters[j] => i = j
      /\ \A i \in 1 .. n : cond_waiters[i] # t
  BY DEF OnceOnList, OnList
<1>3. OnceOnList' <=> \A i, j \in 1 .. n + 1 : cond_waiters'[i] = cond_waiters'[j] => i = j
  BY <1>1 DEF OnceOnList
<1>4. \A u \in Threads : /\ OnList(u)' <=> \E i \in 1 .. n + 1 : cond_waiters'[i] = u
                         /\ OnList(u) <=> \E i \in 1 .. n : cond_waiters[i] = u
  BY <1>1 DEF OnList
<1> HIDE DEF n
<1>5. \A i, j \in 1 .. n + 1 : cond_waiters'[i] = cond_waiters'[j] => i = j
  BY <1>1, <1>2
<1>6. \A u \in Threads : (\E i \in 1 .. n + 1 : cond_waiters'[i] = u)
                           <=> ((\E i \in 1 .. n : cond_waiters[i] = u) \/ u = t)
  BY <1>1
<1> QED
  BY <1>1, <1>3, <1>4, <1>5, <1>6

LEMMA PopOnList ==
  ASSUME cond_waiters \in Seq(Threads), cond_waiters # <<>>,
         cond_waiters' = Tail(cond_waiters), OnceOnList
  PROVE  /\ Head(cond_waiters) \in Threads /\ OnList(Head(cond_waiters))
         /\ cond_waiters' \in Seq(Threads)
         /\ OnceOnList'
         /\ \A u \in Threads : OnList(u)' <=> (OnList(u) /\ u # Head(cond_waiters))
<1> DEFINE n == Len(cond_waiters)
<1> DEFINE h == Head(cond_waiters)
<1>1. /\ cond_waiters' \in Seq(Threads)
      /\ n \in Nat \ {0} /\ Len(cond_waiters') = n - 1
      /\ \A i \in 1 .. n - 1 : cond_waiters'[i] = cond_waiters[i + 1]
      /\ cond_waiters[1] = h /\ h \in Threads
  BY PopFront
<1>2. \A i, j \in 1 .. n : cond_waiters[i] = cond_waiters[j] => i = j
  BY DEF OnceOnList
<1>3. OnceOnList' <=> \A i, j \in 1 .. n - 1 : cond_waiters'[i] = cond_waiters'[j] => i = j
  BY <1>1 DEF OnceOnList
<1>4. \A u \in Threads : /\ OnList(u)' <=> \E i \in 1 .. n - 1 : cond_waiters'[i] = u
                         /\ OnList(u) <=> \E i \in 1 .. n : cond_waiters[i] = u
  BY <1>1 DEF OnList
<1> HIDE DEF n, h
<1>5. \A i, j \in 1 .. n - 1 : cond_waiters'[i] = cond_waiters'[j] => i = j
  <2> TAKE i, j \in 1 .. n - 1
  <2>1. i + 1 \in 1 .. n /\ j + 1 \in 1 .. n
    BY <1>1
  <2> QED
    BY <1>1, <1>2, <2>1
<1>6. ASSUME NEW u \in Threads, NEW i \in 1 .. n - 1, cond_waiters'[i] = u
      PROVE  (\E k \in 1 .. n : cond_waiters[k] = u) /\ u # h
  <2>1. i + 1 \in 1 .. n /\ 1 \in 1 .. n /\ i + 1 # 1
    BY <1>1
  <2> QED
    BY <1>1, <1>2, <1>6, <2>1
<1>7. ASSUME NEW u \in Threads, NEW i \in 1 .. n, cond_waiters[i] = u, u # h
      PROVE  \E k \in 1 .. n - 1 : cond_waiters'[k] = u
  <2>1. i # 1 /\ i - 1 \in 1 .. n - 1 /\ (i - 1) + 1 = i
    BY <1>1, <1>7
  <2> QED
    BY <1>1, <1>7, <2>1
<1>8. OnList(h)
  <2>1. 1 \in 1 .. n
    BY <1>1
  <2> QED
    BY <1>1, <1>4, <2>1
<1> QED
  BY <1>1, <1>3, <1>4, <1>5, <1>6, <1>7, <1>8 DEF h

-----------------------------------------------------------------------------
(* A step that leaves the list and the threads' own semaphores alone.  *)
LEMMA SignallingKept ==
  ASSUME Signalling, UNCHANGED cond_waiters,
         \A u \in Threads : value'[u] = value[u] /\ (Waiting(u)' <=> Waiting(u))
  PROVE  Signalling'
BY DEF Signalling, OnceOnList, OnList

(* What an action does to the threads' places: t moves, the others stay. *)
LEMMA Moves ==
  ASSUME TypeOK, NEW t \in Threads, NEW from, NEW to, Goto(t, from, to)
  PROVE  /\ pc[t] = "run" /\ at[t] = from
         /\ at'[t] = to /\ \A u \in Threads \ {t} : at'[u] = at[u]
BY DEF Goto, TypeOK

LEMMA ThreadsAndLock ==
  /\ Lock \in Semas /\ Lock \notin Threads /\ NULL \notin Threads
  /\ Threads \subseteq Semas
BY MonitorAssumption

(* lock_acquire, and the lock_acquire at the end of cond_wait. *)
LEMMA AcquireKeeps ==
  ASSUME MonitorInv, NEW t \in Threads, lock_acquire(t) \/ WaitAcquire(t)
  PROVE  /\ Sleeping' /\ Holding' /\ Signalling'
         /\ value'[Lock] \in {0, 1} /\ MutualExclusion'
<1>1. /\ pc[t] = "run" /\ at[t] \in {"out", "wacq"}
      /\ at'[t] = "got" /\ \A u \in Threads \ {t} : at'[u] = at[u]
  BY Moves DEF lock_acquire, WaitAcquire, MonitorInv
<1>2. holder' = holder /\ cond_waiters' = cond_waiters /\ DownLoop(t, Lock)
  BY DEF lock_acquire, WaitAcquire, sema_down
<1>3. /\ \A u \in Threads \ {t} : pc'[u] = pc[u] /\ on'[u] = on[u]
      /\ \A u \in Threads : value'[u] = value[u]
      /\ \/ value[Lock] > 0 /\ value'[Lock] = value[Lock] - 1 /\ pc'[t] = "run"
         \/ value[Lock] = 0 /\ value'[Lock] = 0 /\ pc'[t] = "blocked" /\ on'[t] = Lock
  BY <1>2, DownEffect, ThreadsAndLock DEF MonitorInv, SemaInv
<1>4. Sleeping'
  BY <1>1, <1>3 DEF MonitorInv, Sleeping
<1>5. value'[Lock] \in {0, 1}
  BY <1>3 DEF MonitorInv
<1>6. MutualExclusion'
  <2>1. CASE value[Lock] > 0
    <3>1. value'[Lock] = 0 /\ \A u \in Threads : ~Owner(u)
      BY <1>3, <2>1 DEF MonitorInv, MutualExclusion
    <3>2. \A u \in Threads \ {t} : ~Owner(u)'
      BY <1>1, <1>3, <3>1 DEF Owner
    <3> QED
      BY <3>1, <3>2 DEF MutualExclusion
  <2>2. CASE value[Lock] = 0
    <3>1. value'[Lock] = 0 /\ ~Owner(t)'
      BY <1>1, <1>3, <2>2 DEF Owner
    <3>2. \A u \in Threads \ {t} : Owner(u)' <=> Owner(u)
      BY <1>1, <1>3 DEF Owner
    <3> QED
      BY <3>1, <3>2 DEF MonitorInv, MutualExclusion
  <2> QED
    BY <1>3, <2>1, <2>2
<1>7. Holding'
  BY <1>1, <1>2 DEF MonitorInv, Holding
<1>8. Signalling'
  <2>1. \A u \in Threads : Waiting(u)' <=> Waiting(u)
    BY <1>1, <1>3 DEF Waiting
  <2> QED
    BY <1>2, <1>3, <2>1, SignallingKept DEF MonitorInv
<1> QED
  BY <1>4, <1>5, <1>6, <1>7, <1>8

(* lock_try_acquire that succeeds. *)
LEMMA TryAcquireKeeps ==
  ASSUME MonitorInv, NEW t \in Threads, lock_try_acquire(t)
  PROVE  /\ Sleeping' /\ Holding' /\ Signalling'
         /\ value'[Lock] \in {0, 1} /\ MutualExclusion'
<1>1. /\ pc[t] = "run" /\ at[t] = "out"
      /\ at'[t] = "got" /\ \A u \in Threads \ {t} : at'[u] = at[u]
  BY Moves DEF lock_try_acquire, MonitorInv
<1>2. /\ holder' = holder /\ cond_waiters' = cond_waiters /\ pc' = pc /\ on' = on
      /\ value[Lock] > 0 /\ value' = [value EXCEPT ![Lock] = @ - 1]
  BY DEF lock_try_acquire, sema_try_down
<1>3. value'[Lock] = 0 /\ \A u \in Threads : value'[u] = value[u]
  BY <1>2, ThreadsAndLock DEF MonitorInv, TypeOK, SemaTypeOK
<1>4. Sleeping'
  BY <1>1, <1>2 DEF MonitorInv, Sleeping
<1>5. MutualExclusion'
  <2>1. \A u \in Threads : ~Owner(u)
    BY <1>2 DEF MonitorInv, MutualExclusion
  <2>2. \A u \in Threads \ {t} : ~Owner(u)'
    BY <1>1, <1>2, <2>1 DEF Owner
  <2> QED
    BY <1>3, <2>2 DEF MutualExclusion
<1>6. Holding'
  BY <1>1, <1>2 DEF MonitorInv, Holding
<1>7. Signalling'
  <2>1. \A u \in Threads : Waiting(u)' <=> Waiting(u)
    BY <1>1, <1>2 DEF Waiting
  <2> QED
    BY <1>2, <1>3, <2>1, SignallingKept DEF MonitorInv
<1> QED
  BY <1>3, <1>4, <1>5, <1>6, <1>7

(* thread_block returns in a sema_down on the lock. *)
LEMMA WakeOnLockKeeps ==
  ASSUME MonitorInv, NEW t \in Threads, Wake(t), at[t] = "got"
  PROVE  /\ Sleeping' /\ Holding' /\ Signalling'
         /\ value'[Lock] \in {0, 1} /\ MutualExclusion'
<1>1. /\ holder' = holder /\ cond_waiters' = cond_waiters /\ at' = at
      /\ pc[t] = "woken" /\ DownLoop(t, on[t])
  BY DEF Wake, Resume
<1>2. DownLoop(t, Lock)
  BY <1>1 DEF MonitorInv, Sleeping
<1>3. /\ \A u \in Threads \ {t} : pc'[u] = pc[u] /\ on'[u] = on[u]
      /\ \A u \in Threads : value'[u] = value[u]
      /\ \/ value[Lock] > 0 /\ value'[Lock] = value[Lock] - 1 /\ pc'[t] = "run"
         \/ value[Lock] = 0 /\ value'[Lock] = 0 /\ pc'[t] = "blocked" /\ on'[t] = Lock
  BY <1>2, DownEffect, ThreadsAndLock DEF MonitorInv, SemaInv
<1>4. Sleeping'
  BY <1>1, <1>3 DEF MonitorInv, Sleeping
<1>5. value'[Lock] \in {0, 1}
  BY <1>3 DEF MonitorInv
<1>6. MutualExclusion'
  <2>1. CASE value[Lock] > 0
    <3>1. value'[Lock] = 0 /\ \A u \in Threads : ~Owner(u)
      BY <1>3, <2>1 DEF MonitorInv, MutualExclusion
    <3>2. \A u \in Threads \ {t} : ~Owner(u)'
      BY <1>1, <1>3, <3>1 DEF Owner
    <3> QED
      BY <3>1, <3>2 DEF MutualExclusion
  <2>2. CASE value[Lock] = 0
    <3>1. value'[Lock] = 0 /\ ~Owner(t)'
      BY <1>1, <1>3, <2>2 DEF Owner
    <3>2. \A u \in Threads \ {t} : Owner(u)' <=> Owner(u)
      BY <1>1, <1>3 DEF Owner
    <3> QED
      BY <3>1, <3>2 DEF MonitorInv, MutualExclusion
  <2> QED
    BY <1>3, <2>1, <2>2
<1>7. Holding'
  BY <1>1 DEF MonitorInv, Holding
<1>8. Signalling'
  <2>1. \A u \in Threads : Waiting(u)' <=> Waiting(u)
    BY <1>1, <1>3 DEF Waiting
  <2> QED
    BY <1>1, <1>3, <2>1, SignallingKept DEF MonitorInv
<1> QED
  BY <1>4, <1>5, <1>6, <1>7, <1>8

(* The sema_down of cond_wait, when it is called and when thread_block      *)
(* returns in it: the thread takes its signal or sleeps.                    *)
LEMMA WaitDownKeeps ==
  ASSUME MonitorInv, NEW t \in Threads,
         WaitDown(t) \/ (Wake(t) /\ at[t] # "got")
  PROVE  /\ Sleeping' /\ Holding' /\ Signalling'
         /\ value'[Lock] \in {0, 1} /\ MutualExclusion'
<1>1. /\ holder' = holder /\ cond_waiters' = cond_waiters
      /\ DownLoop(t, t) /\ Waiting(t) /\ at[t] \in {"wdown", "wacq"}
      /\ at'[t] = "wacq" /\ \A u \in Threads \ {t} : at'[u] = at[u]
  <2>1. CASE WaitDown(t)
    BY <2>1, Moves DEF WaitDown, sema_down, Waiting, MonitorInv
  <2>2. CASE Wake(t) /\ at[t] # "got"
    <3>1. /\ holder' = holder /\ cond_waiters' = cond_waiters /\ at' = at
          /\ pc[t] = "woken" /\ DownLoop(t, on[t])
      BY <2>2 DEF Wake, Resume
    <3>2. at[t] = "wacq" /\ on[t] = t
      BY <2>2, <3>1 DEF MonitorInv, Sleeping
    <3> QED
      BY <3>1, <3>2 DEF Waiting
  <2> QED
    BY <2>1, <2>2
<1>2. /\ \A u \in Threads \ {t} : pc'[u] = pc[u] /\ on'[u] = on[u]
      /\ value'[Lock] = value[Lock]
      /\ \A u \in Threads \ {t} : value'[u] = value[u]
      /\ \/ value[t] > 0 /\ value'[t] = value[t] - 1 /\ pc'[t] = "run"
         \/ value[t] = 0 /\ value'[t] = 0 /\ pc'[t] = "blocked" /\ on'[t] = t
  BY <1>1, DownEffect, ThreadsAndLock DEF MonitorInv, SemaInv
<1>3. Sleeping'
  BY <1>1, <1>2 DEF MonitorInv, Sleeping
<1>4. MutualExclusion'
  <2>1. \A u \in Threads : Owner(u)' <=> Owner(u)
    BY <1>1, <1>2 DEF Owner
  <2> QED
    BY <1>2, <2>1 DEF MonitorInv, MutualExclusion
<1>5. Holding'
  BY <1>1 DEF MonitorInv, Holding
<1>6. Signalling'
  <2>1. \A u \in Threads : OnList(u)' <=> OnList(u)
    BY <1>1 DEF OnList
  <2>2. OnceOnList'
    BY <1>1 DEF OnceOnList, MonitorInv, Signalling
  <2>3. \A u \in Threads \ {t} : Waiting(u)' <=> Waiting(u)
    BY <1>1, <1>2 DEF Waiting
  <2>4. value[t] \in {0, 1} /\ (OnList(t) \/ value[t] = 1) /\ ~(OnList(t) /\ value[t] = 1)
    BY <1>1 DEF MonitorInv, Signalling
  <2>5. /\ value'[t] = 0
        /\ Waiting(t)' <=> OnList(t)
    BY <1>1, <1>2, <2>4 DEF Waiting
  <2> QED
    BY <1>2, <2>1, <2>2, <2>3, <2>5 DEF MonitorInv, Signalling
<1> QED
  BY <1>2, <1>3, <1>4, <1>5, <1>6 DEF MonitorInv

(* The sema_up of lock_release. *)
LEMMA ReleaseKeeps ==
  ASSUME MonitorInv, NEW t \in Threads, ReleaseUp(t) \/ WaitReleaseUp(t)
  PROVE  /\ Sleeping' /\ Holding' /\ Signalling'
         /\ value'[Lock] \in {0, 1} /\ MutualExclusion'
         /\ value[Lock] = 0
<1>1. /\ pc[t] = "run"
      /\ \/ at[t] = "release" /\ at'[t] = "out"
         \/ at[t] = "wrelease" /\ at'[t] = "wdown"
      /\ \A u \in Threads \ {t} : at'[u] = at[u]
  BY Moves DEF ReleaseUp, WaitReleaseUp, MonitorInv
<1>2. holder' = holder /\ cond_waiters' = cond_waiters /\ sema_up(Lock)
  BY DEF ReleaseUp, WaitReleaseUp
<1>3. /\ on' = on /\ value'[Lock] = value[Lock] + 1
      /\ \A u \in Threads : value'[u] = value[u]
      /\ \A u \in Threads : pc'[u] = "run" <=> pc[u] = "run"
  BY <1>2, UpEffect, ThreadsAndLock DEF MonitorInv, SemaInv
<1>4. value[Lock] = 0 /\ \A u \in Threads \ {t} : ~Owner(u)
  BY <1>1 DEF MonitorInv, MutualExclusion, Owner
<1>5. Sleeping'
  BY <1>1, <1>3 DEF MonitorInv, Sleeping
<1>6. MutualExclusion'
  <2>1. \A u \in Threads : ~Owner(u)'
    BY <1>1, <1>3, <1>4 DEF Owner
  <2> QED
    BY <2>1 DEF MutualExclusion
<1>7. Holding'
  BY <1>1, <1>2 DEF MonitorInv, Holding
<1>8. Signalling'
  <2>1. \A u \in Threads : Waiting(u)' <=> Waiting(u)
    BY <1>1, <1>3 DEF Waiting
  <2> QED
    BY <1>2, <1>3, <2>1, SignallingKept DEF MonitorInv
<1> QED
  BY <1>3, <1>4, <1>5, <1>6, <1>7, <1>8

(* The sema_up of cond_signal, and of each pass of cond_broadcast. *)
LEMMA SignalKeeps ==
  ASSUME MonitorInv, NEW t \in Threads,
         cond_signal(t) \/ (Broadcast(t) /\ cond_waiters # <<>>)
  PROVE  /\ Sleeping' /\ Holding' /\ Signalling'
         /\ value'[Lock] \in {0, 1} /\ MutualExclusion'
         /\ cond_waiters' \in Seq(Threads) /\ at' \in [Threads -> Locations]
         /\ Head(cond_waiters) \in Threads /\ value[Head(cond_waiters)] = 0
         /\ sema_up(Head(cond_waiters)) /\ holder' = holder
<1> DEFINE h == Head(cond_waiters)
<1>1. /\ cond_waiters # <<>> /\ cond_waiters' = Tail(cond_waiters)
      /\ sema_up(h) /\ holder' = holder /\ at' = at
  BY DEF cond_signal, Broadcast, Goto, MonitorInv, TypeOK
<1>2. /\ h \in Threads /\ OnList(h) /\ cond_waiters' \in Seq(Threads) /\ OnceOnList'
      /\ \A u \in Threads : OnList(u)' <=> (OnList(u) /\ u # h)
  BY <1>1, PopOnList DEF MonitorInv, TypeOK, Signalling
<1> HIDE DEF h
<1>3. /\ on' = on /\ value'[h] = value[h] + 1 /\ value'[Lock] = value[Lock]
      /\ \A u \in Threads \ {h} : value'[u] = value[u]
      /\ \A u \in Threads : pc'[u] = "run" <=> pc[u] = "run"
  BY <1>1, <1>2, UpEffect, ThreadsAndLock DEF MonitorInv, SemaInv
<1>4. value[h] = 0 /\ Waiting(h)
  BY <1>2 DEF MonitorInv, Signalling
<1>5. Sleeping'
  BY <1>1, <1>3 DEF MonitorInv, Sleeping
<1>6. MutualExclusion'
  <2>1. \A u \in Threads : Owner(u)' <=> Owner(u)
    BY <1>1, <1>3 DEF Owner
  <2> QED
    BY <1>3, <2>1 DEF MonitorInv, MutualExclusion
<1>7. Holding'
  BY <1>1 DEF MonitorInv, Holding
<1>8. Signalling'
  <2>1. \A u \in Threads : Waiting(u)' <=> Waiting(u)
    BY <1>1, <1>3 DEF Waiting
  <2>2. value'[h] = 1
    BY <1>3, <1>4
  <2> QED
    BY <1>2, <1>3, <1>4, <2>1, <2>2 DEF MonitorInv, Signalling
<1> QED
  BY <1>1, <1>2, <1>3, <1>4, <1>5, <1>6, <1>7, <1>8 DEF h, MonitorInv, TypeOK

(* The list_push_back of cond_wait; sema_init finds the semaphore at 0. *)
LEMMA CondWaitKeeps ==
  ASSUME MonitorInv, NEW t \in Threads, cond_wait(t)
  PROVE  /\ Sleeping' /\ Holding' /\ Signalling' /\ MutualExclusion'
         /\ UNCHANGED sema_vars /\ cond_waiters' \in Seq(Threads)
<1>1. /\ pc[t] = "run" /\ at[t] = "in"
      /\ at'[t] = "wait" /\ \A u \in Threads \ {t} : at'[u] = at[u]
  BY Moves DEF cond_wait, MonitorInv
<1>2. /\ value' = [value EXCEPT ![t] = 0] /\ cond_waiters' = Append(cond_waiters, t)
      /\ holder' = holder /\ waiters' = waiters /\ pc' = pc /\ on' = on
  BY DEF cond_wait
<1>3. value[t] = 0 /\ ~OnList(t)
  BY <1>1 DEF MonitorInv, Signalling, Waiting
<1>4. value' = value
  BY <1>2, <1>3 DEF MonitorInv, TypeOK, SemaTypeOK
<1>5. /\ cond_waiters' \in Seq(Threads) /\ OnceOnList'
      /\ \A u \in Threads : OnList(u)' <=> (OnList(u) \/ u = t)
  BY <1>2, <1>3, PushOnList DEF MonitorInv, TypeOK, Signalling
<1>6. Sleeping' /\ Holding'
  BY <1>1, <1>2 DEF MonitorInv, Sleeping, Holding
<1>7. MutualExclusion'
  <2>1. \A u \in Threads : Owner(u)' <=> Owner(u)
    BY <1>1, <1>2 DEF Owner
  <2> QED
    BY <1>4, <2>1 DEF MonitorInv, MutualExclusion
<1>8. Signalling'
  <2>1. /\ Waiting(t)'
        /\ \A u \in Threads \ {t} : Waiting(u)' <=> Waiting(u)
    BY <1>1, <1>2 DEF Waiting
  <2> QED
    BY <1>3, <1>4, <1>5, <2>1 DEF MonitorInv, Signalling
<1> QED
  BY <1>2, <1>4, <1>5, <1>6, <1>7, <1>8 DEF sema_vars

(* The steps that only move the owner of the lock and set or clear holder. *)
LEMMA OwnerStepKeeps ==
  ASSUME MonitorInv, NEW t \in Threads,
         \/ SetHolder(t) \/ ReleaseHolder(t) \/ WaitReleaseHolder(t)
         \/ cond_broadcast(t) \/ (Broadcast(t) /\ cond_waiters = <<>>)
  PROVE  /\ Sleeping' /\ Holding' /\ Signalling' /\ MutualExclusion'
         /\ UNCHANGED <<sema_vars, cond_waiters>>
<1>1. /\ pc[t] = "run"
      /\ \/ at[t] = "got" /\ at'[t] = "in" /\ holder' = t
         \/ at[t] = "in" /\ at'[t] = "release" /\ holder' = NULL
         \/ at[t] = "wait" /\ at'[t] = "wrelease" /\ holder' = NULL
         \/ at[t] = "in" /\ at'[t] = "bcast" /\ holder' = holder
         \/ at[t] = "bcast" /\ at'[t] = "in" /\ holder' = holder
      /\ \A u \in Threads \ {t} : at'[u] = at[u]
  BY Moves DEF SetHolder, ReleaseHolder, WaitReleaseHolder, cond_broadcast, Broadcast, MonitorInv
<1>2. /\ UNCHANGED <<sema_vars, cond_waiters>>
      /\ value' = value /\ pc' = pc /\ on' = on /\ cond_waiters' = cond_waiters
  BY DEF SetHolder, ReleaseHolder, WaitReleaseHolder, cond_broadcast, Broadcast, sema_vars
<1>3. Owner(t) /\ \A u \in Threads \ {t} : ~Owner(u)
  BY <1>1 DEF MonitorInv, MutualExclusion, Owner
<1>4. Sleeping'
  BY <1>1, <1>2 DEF MonitorInv, Sleeping
<1>5. \A u \in Threads : Owner(u)' <=> Owner(u)
  BY <1>1, <1>2, <1>3 DEF Owner
<1>6. MutualExclusion'
  BY <1>2, <1>5 DEF MonitorInv, MutualExclusion
<1>7. Holding'
  BY <1>1, <1>3, ThreadsAndLock DEF MonitorInv, Holding, Owner
<1>8. Signalling'
  <2>1. \A u \in Threads : Waiting(u)' <=> Waiting(u)
    BY <1>1, <1>2 DEF Waiting
  <2> QED
    BY <1>2, <2>1, SignallingKept DEF MonitorInv
<1> QED
  BY <1>2, <1>4, <1>6, <1>7, <1>8

-----------------------------------------------------------------------------
(* Every action is an operation of the semaphores or leaves them alone. *)
LEMMA StepIsSemaStep ==
  ASSUME MonitorInv, [Next]_vars
  PROVE  [SemaNext]_sema_vars
<1>1. ASSUME NEW t \in Threads, lock_acquire(t) \/ WaitAcquire(t) \/ WaitDown(t)
      PROVE  SemaNext
  BY <1>1, ThreadsAndLock DEF lock_acquire, WaitAcquire, WaitDown, SemaNext
<1>2. ASSUME NEW t \in Threads, lock_try_acquire(t) PROVE SemaNext
  BY <1>2, ThreadsAndLock DEF lock_try_acquire, SemaNext
<1>3. ASSUME NEW t \in Threads, Wake(t) PROVE SemaNext
  BY <1>3 DEF Wake, SemaNext
<1>4. ASSUME NEW s \in Semas, value[s] = 0, sema_up(s) PROVE SemaNext
  <2>1. value[s] < MaxValue
    BY <1>4, MonitorAssumption, SemaphoreAssumption
  <2> QED
    BY <1>4, <2>1 DEF SemaNext
<1>5. ASSUME NEW t \in Threads, ReleaseUp(t) \/ WaitReleaseUp(t) PROVE SemaNext
  BY <1>4, <1>5, ReleaseKeeps, ThreadsAndLock DEF ReleaseUp, WaitReleaseUp
<1>6. ASSUME NEW t \in Threads, cond_signal(t) \/ (Broadcast(t) /\ cond_waiters # <<>>)
      PROVE  SemaNext
  BY <1>4, <1>6, SignalKeeps, ThreadsAndLock
<1>7. ASSUME NEW t \in Threads, cond_wait(t) PROVE UNCHANGED sema_vars
  BY <1>7, CondWaitKeeps
<1>8. ASSUME NEW t \in Threads,
             \/ SetHolder(t) \/ ReleaseHolder(t) \/ WaitReleaseHolder(t)
             \/ cond_broadcast(t) \/ (Broadcast(t) /\ cond_waiters = <<>>)
      PROVE  UNCHANGED sema_vars
  BY <1>8, OwnerStepKeeps
<1>9. CASE UNCHANGED vars
  BY <1>9 DEF vars, sema_vars
<1> QED
  BY <1>1, <1>2, <1>3, <1>5, <1>6, <1>7, <1>8, <1>9 DEF Next, Continue, Call

(* The variables of the monitor itself keep their types. *)
LEMMA MonitorTypeStep ==
  ASSUME MonitorInv, [Next]_vars, SemaTypeOK'
  PROVE  TypeOK'
<1> USE DEF Locations
<1>1. at' \in [Threads -> Locations]
  <2>1. ASSUME NEW t \in Threads, NEW from, NEW to \in Locations, Goto(t, from, to)
        PROVE  at' \in [Threads -> Locations]
    BY <2>1 DEF Goto, MonitorInv, TypeOK
  <2>2. ASSUME NEW t \in Threads, Continue(t) PROVE at' \in [Threads -> Locations]
    BY <2>1, <2>2 DEF Continue, SetHolder, ReleaseUp, Broadcast, Wake, WaitReleaseHolder,
                      WaitReleaseUp, WaitDown, WaitAcquire, MonitorInv, TypeOK
  <2>3. ASSUME NEW t \in Threads, Call(t) PROVE at' \in [Threads -> Locations]
    BY <2>1, <2>3 DEF Call, lock_acquire, lock_try_acquire, ReleaseHolder, cond_wait,
                      cond_signal, cond_broadcast
  <2> QED
    BY <2>2, <2>3 DEF Next, vars, MonitorInv, TypeOK
<1>2. holder' \in Threads \cup {NULL}
  BY DEF Next, Continue, Call, SetHolder, ReleaseUp, Broadcast, Wake, WaitReleaseHolder,
         WaitReleaseUp, WaitDown, WaitAcquire, lock_acquire, lock_try_acquire,
         ReleaseHolder, cond_wait, cond_signal, cond_broadcast, vars, MonitorInv, TypeOK
<1>3. cond_waiters' \in Seq(Threads)
  <2>1. ASSUME NEW t \in Threads, cond_wait(t) PROVE cond_waiters' \in Seq(Threads)
    BY <2>1, CondWaitKeeps
  <2>2. ASSUME NEW t \in Threads, cond_signal(t) \/ (Broadcast(t) /\ cond_waiters # <<>>)
        PROVE  cond_waiters' \in Seq(Threads)
    BY <2>2, SignalKeeps
  <2>3. CASE cond_waiters' = cond_waiters
    BY <2>3 DEF MonitorInv, TypeOK
  <2> QED
    BY <2>1, <2>2, <2>3
    DEF Next, Continue, Call, SetHolder, ReleaseUp, Broadcast, Wake, WaitReleaseHolder,
        WaitReleaseUp, WaitDown, WaitAcquire, lock_acquire, lock_try_acquire,
        ReleaseHolder, cond_broadcast, vars
<1> QED
  BY <1>1, <1>2, <1>3 DEF TypeOK

LEMMA MonitorInitInv == Init => MonitorInv
<1> SUFFICES ASSUME Init PROVE MonitorInv
  OBVIOUS
<1>1. SemaInv /\ SemaTypeOK
  BY SemaInitInv DEF Init, SemaInv
<1>2. /\ value[Lock] = 1 /\ \A t \in Threads : value[t] = 0
      /\ pc = [t \in Threads |-> "run"] /\ at = [t \in Threads |-> "out"]
  BY MonitorAssumption, ThreadsAndLock DEF Init, SemaInit
<1>3. TypeOK
  BY <1>1, <1>2 DEF Init, TypeOK, Locations
<1>4. cond_waiters = <<>> /\ holder = NULL /\ Len(cond_waiters) = 0
  BY DEF Init
<1>5. Sleeping /\ MutualExclusion /\ Holding
  BY <1>2, <1>4, ThreadsAndLock DEF Sleeping, MutualExclusion, Holding, Owner
<1>6. Signalling
  <2>1. OnceOnList /\ \A t \in Threads : ~OnList(t)
    BY <1>4 DEF OnceOnList, OnList
  <2>2. \A t \in Threads : ~Waiting(t)
    BY <1>2 DEF Waiting
  <2> QED
    BY <1>2, <2>1, <2>2 DEF Signalling
<1> QED
  BY <1>1, <1>2, <1>3, <1>5, <1>6 DEF MonitorInv

LEMMA MonitorInvStep == MonitorInv /\ [Next]_vars => MonitorInv'
<1> SUFFICES ASSUME MonitorInv, [Next]_vars PROVE MonitorInv'
  OBVIOUS
<1> DEFINE Rest == /\ Sleeping /\ Holding /\ Signalling
                   /\ value[Lock] \in {0, 1} /\ MutualExclusion
<1>1. SemaInv'
  BY StepIsSemaStep, SemaInvStep DEF MonitorInv
<1>2. TypeOK'
  BY <1>1, MonitorTypeStep DEF SemaInv
<1>3. ASSUME NEW t \in Threads, UNCHANGED sema_vars PROVE (value[Lock] \in {0, 1})'
  BY <1>3 DEF sema_vars, MonitorInv
<1>4. ASSUME NEW t \in Threads, Continue(t) PROVE Rest'
  <2>1. CASE WaitAcquire(t)
    BY <2>1, AcquireKeeps
  <2>2. CASE Wake(t)
    BY <2>2, WakeOnLockKeeps, WaitDownKeeps
  <2>3. CASE WaitDown(t)
    BY <2>3, WaitDownKeeps
  <2>4. CASE ReleaseUp(t) \/ WaitReleaseUp(t)
    BY <2>4, ReleaseKeeps
  <2>5. CASE Broadcast(t)
    <3>1. CASE cond_waiters # <<>>
      BY <2>5, <3>1, SignalKeeps
    <3>2. CASE cond_waiters = <<>>
      BY <1>3, <2>5, <3>2, OwnerStepKeeps
    <3> QED
      BY <3>1, <3>2
  <2>6. CASE SetHolder(t) \/ WaitReleaseHolder(t)
    BY <1>3, <2>6, OwnerStepKeeps
  <2> QED
    BY <1>4, <2>1, <2>2, <2>3, <2>4, <2>5, <2>6 DEF Continue
<1>5. ASSUME NEW t \in Threads, Call(t) PROVE Rest'
  <2>1. CASE lock_acquire(t)
    BY <2>1, AcquireKeeps
  <2>2. CASE lock_try_acquire(t)
    BY <2>2, TryAcquireKeeps
  <2>3. CASE cond_wait(t)
    BY <1>3, <2>3, CondWaitKeeps
  <2>4. CASE cond_signal(t)
    BY <2>4, SignalKeeps
  <2>5. CASE ReleaseHolder(t) \/ cond_broadcast(t)
    BY <1>3, <2>5, OwnerStepKeeps
  <2> QED
    BY <1>5, <2>1, <2>2, <2>3, <2>4, <2>5 DEF Call
<1>6. CASE UNCHANGED vars
  <2>1. /\ value' = value /\ pc' = pc /\ on' = on
        /\ holder' = holder /\ cond_waiters' = cond_waiters /\ at' = at
    BY <1>6 DEF vars, sema_vars
  <2> QED
    BY <1>1, <1>2, <2>1
    DEF MonitorInv, Sleeping, Holding, Signalling, MutualExclusion, Owner, Waiting,
        OnList, OnceOnList
<1> QED
  BY <1>1, <1>2, <1>4, <1>5, <1>6 DEF Next, MonitorInv

LEMMA MonitorInvariant == Spec => []MonitorInv
BY MonitorInitInv, MonitorInvStep, PTL DEF Spec

(* The variables of locks and condition variables keep their types. *)
THEOREM MonitorTypeCorrect == Spec => []TypeOK
BY MonitorInvariant, PTL DEF MonitorInv

(* At most one thread owns a lock, from the sema_down of lock_acquire to    *)
(* the sema_up of lock_release and across cond_wait.                        *)
THEOREM LocksExclude == Spec => []MutualExclusion
BY MonitorInvariant, PTL DEF MonitorInv

(* The assertions on lock_held_by_current_thread hold. *)
THEOREM LockAssertsHold == Spec => []AssertsHold
<1>1. MonitorInv => AssertsHold
  BY DEF MonitorInv, Holding, AssertsHold
<1> QED
  BY <1>1, MonitorInvariant, PTL

(* A thread in cond_wait is on the list, once, until it is signalled, and   *)
(* from then on its semaphore is up.                                        *)
THEOREM NoSignalIsLost == Spec => []SignalNotLost
<1>1. ASSUME MonitorInv PROVE SignalNotLost
  <2> SUFFICES ASSUME NEW t \in Threads
               PROVE  LET places == {i \in DOMAIN cond_waiters : cond_waiters[i] = t} IN
                      IF Waiting(t) THEN Cardinality(places) + value[t] = 1
                                    ELSE places = {} /\ value[t] = 0
    BY DEF SignalNotLost
  <2> DEFINE places == {i \in DOMAIN cond_waiters : cond_waiters[i] = t}
  <2>1. DOMAIN cond_waiters = 1 .. Len(cond_waiters)
    BY <1>1 DEF MonitorInv, TypeOK
  <2>2. /\ \A i, j \in places : i = j
        /\ OnList(t) <=> places # {}
    BY <1>1, <2>1 DEF MonitorInv, Signalling, OnceOnList, OnList
  <2>3. /\ value[t] \in {0, 1}
        /\ Waiting(t) <=> (OnList(t) \/ value[t] = 1)
        /\ ~(OnList(t) /\ value[t] = 1)
    BY <1>1 DEF MonitorInv, Signalling
  <2> HIDE DEF places
  <2>4. CASE OnList(t)
    <3>1. PICK i : places = {i}
      BY <2>2, <2>4
    <3>2. Cardinality(places) = 1
      BY <3>1, FS_Singleton
    <3>3. Waiting(t) /\ value[t] = 0
      BY <2>3, <2>4
    <3> QED
      BY <3>2, <3>3 DEF places
  <2>5. CASE ~OnList(t)
    <3>1. places = {} /\ Cardinality(places) = 0
      BY <2>2, <2>5, FS_EmptySet
    <3>2. CASE Waiting(t)
      <4>1. value[t] = 1
        BY <2>3, <2>5, <3>2
      <4> QED
        BY <3>1, <3>2, <4>1 DEF places
    <3>3. CASE ~Waiting(t)
      <4>1. value[t] = 0
        BY <2>3, <3>3
      <4> QED
        BY <3>1, <3>3, <4>1 DEF places
    <3> QED
      BY <3>2, <3>3
  <2> QED
    BY <2>4, <2>5
<1> QED
  BY <1>1, MonitorInvariant, PTL

(* A broadcast leaves no thread on the list: whoever is still in cond_wait  *)
(* has been signalled.                                                      *)
THEOREM BroadcastReachesAll == Spec => BroadcastWakesAll
<1>1. ASSUME MonitorInv, MonitorInv', [Next]_vars PROVE [BroadcastReturns]_vars
  <2> SUFFICES ASSUME Next, NEW t \in Threads, at[t] = "bcast", at'[t] = "in"
               PROVE  cond_waiters' = <<>> /\ \A u \in Threads : Waiting(u)' => value'[u] = 1
    BY <1>1 DEF BroadcastReturns
  <2>1. PICK u \in Threads : Continue(u) \/ Call(u)
    BY DEF Next
  <2>2. ASSUME NEW from, NEW to, Goto(u, from, to) PROVE u = t /\ from = "bcast" /\ to = "in"
    BY <1>1, <2>2, Moves DEF MonitorInv
  <2>3. ~Wake(u)
    BY DEF Wake
  <2>4. ~Call(u)
    <3>1. ~lock_acquire(u) /\ ~lock_try_acquire(u) /\ ~ReleaseHolder(u)
      BY <2>2 DEF lock_acquire, lock_try_acquire, ReleaseHolder
    <3>2. ~cond_wait(u) /\ ~cond_signal(u) /\ ~cond_broadcast(u)
      BY <2>2 DEF cond_wait, cond_signal, cond_broadcast
    <3> QED
      BY <3>1, <3>2 DEF Call
  <2>5. Broadcast(u)
    <3>1. ~SetHolder(u) /\ ~ReleaseUp(u)
      BY <2>2 DEF SetHolder, ReleaseUp
    <3>2. ~WaitReleaseHolder(u) /\ ~WaitReleaseUp(u) /\ ~WaitDown(u) /\ ~WaitAcquire(u)
      BY <2>2 DEF WaitReleaseHolder, WaitReleaseUp, WaitDown, WaitAcquire
    <3> QED
      BY <2>1, <2>3, <2>4, <3>1, <3>2 DEF Continue
  <2>6. cond_waiters' = <<>>
    BY <2>2, <2>5 DEF Broadcast
  <2>7. \A v \in Threads : ~OnList(v)'
    BY <2>6 DEF OnList
  <2> QED
    BY <1>1, <2>6, <2>7 DEF MonitorInv, Signalling
<1> QED
  BY <1>1, MonitorInvariant, PTL DEF Spec, BroadcastWakesAll

(* Locks and condition variables use the semaphores as their specification  *)
(* says: every step is a semaphore operation or none, and no semaphore goes *)
(* beyond 1.                                                                *)
THEOREM MonitorImplementsSemaphore == Spec => ImplementsSemaphore
<1>1. Init => SemaInit
  BY DEF Init
<1> QED
  BY <1>1, MonitorInvariant, StepIsSemaStep, PTL DEF Spec, SemaSpec, ImplementsSemaphore
=============================================================================
