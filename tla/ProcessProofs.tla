--------------------------- MODULE ProcessProofs ---------------------------
(* Proofs about module Process, for any number of pages. *)
EXTENDS Process, SemaphoreProofs

USE ZenonT(3), SMTT(30)

(* Where a process can be inside a sema_down. *)
Sleeping ==
  \A t \in Threads : pc[t] # "run" =>
    \/ at[t] = "loaded" /\ on[t] = exec_block(t)
    \/ at[t] = "stat" /\ on[t] = sema_parent_block(t)
    \/ at[t] = "die" /\ on[t] = wait_block(t)

(* The list of children, and the child that process_execute or process_wait *)
(* has a pointer to.                                                        *)
Lists ==
  \A p \in Threads :
    /\ Once(children[p])
    /\ at[p] \in {"free", "new", "failed", "tell", "wait", "die"} => children[p] = <<>>
    /\ at[p] = "stat" => target[p] \in Threads /\ ~Listed(children[p], target[p])
    /\ at[p] \in {"exec", "loaded"} => target[p] \in Threads /\ Listed(children[p], target[p])

(* p has c on its list, or is in process_wait for it. *)
Uses(p, c) == Listed(children[p], c) \/ (at[p] = "stat" /\ target[p] = c)

(* A child in use has its parent, has not been let go and so has not left    *)
(* the sema_down on its wait_block.                                          *)
InUse ==
  \A p, c \in Threads : Uses(p, c) =>
    /\ at[c] # "free" /\ parent[c] = p
    /\ value[wait_block(c)] = 0
    /\ ~(at[c] = "die" /\ pc[c] = "run")

LetGo ==
  \A c \in Threads : /\ value[wait_block(c)] \in {0, 1}
                     /\ at[c] = "free" => value[wait_block(c)] = 0

(* p is before or in the sema_down on its exec_block. *)
AwaitsLoad(p) == at[p] = "exec" \/ (at[p] = "loaded" /\ pc[p] # "run")

(* While a child loads, its parent waits for that child and has not been     *)
(* told; the exec_block has a token only for the process_execute under way.  *)
Loading ==
  \A p \in Threads :
    /\ value[exec_block(p)] \in {0, 1}
    /\ ~AwaitsLoad(p) => value[exec_block(p)] = 0
    /\ at[p] = "new" => /\ parent[p] \in Threads
                        /\ AwaitsLoad(parent[p]) /\ target[parent[p]] = p
                        /\ value[exec_block(parent[p])] = 0

(* process_exit tells the parent it found, unless that has orphaned it since. *)
Telling ==
  \A t \in Threads : at[t] = "tell" => target[t] \in Threads /\ parent[t] \in {target[t], NULL}

(* The processes that may still raise p's sema_parent_block: its children,   *)
(* and those an earlier process in p's page left with a pointer to it.       *)
Untold(p) ==
  {t \in Threads :
     \/ /\ at[t] \in {"new", "failed", "user", "exec", "loaded", "stat", "exit", "next"}
        /\ parent[t] = p
     \/ at[t] = "tell" /\ target[t] = p}

(* The children p may still take a token for. *)
Owed(p) == {c \in Threads : \/ Listed(children[p], c)
                            \/ at[p] = "stat" /\ pc[p] # "run" /\ target[p] = c}

Ending(p) == at[p] \in {"exit", "next", "tell", "wait", "die"}

(* A page that is not a thread has no tokens. *)
FreeIsDown(p) == at[p] = "free" => value[sema_parent_block(p)] = 0

FreeDown == \A p \in Threads : FreeIsDown(p)

ProcType ==
  /\ at \in [Threads -> Locations]
  /\ parent \in [Threads -> Threads \cup {NULL}]
  /\ children \in [Threads -> Seq(Threads)]
  /\ load \in [Threads -> {0, 1}]
  /\ target \in [Threads -> Threads \cup {NULL}]
  /\ fault \in Faults

(* The inductive invariant, but for the number of tokens. *)
ProcInv ==
  /\ SemaTypeOK /\ WaitersBlocked /\ ProcType
  /\ Sleeping /\ Lists /\ InUse /\ LetGo /\ Loading /\ Telling
  /\ FreeDown

(* What a step may do with the tokens of p's sema_parent_block: nothing, or  *)
(* p gets a child, is told of an exit, takes a token, or starts afresh.      *)
NoneMoved(p) ==
  /\ value'[sema_parent_block(p)] = value[sema_parent_block(p)]
  /\ Untold(p)' \subseteq Untold(p)
  /\ Ending(p)' \/ (~Ending(p) /\ Owed(p) \subseteq Owed(p)')

ChildMade(p) ==
  \E c \in Threads \ Owed(p) :
    /\ value'[sema_parent_block(p)] = value[sema_parent_block(p)]
    /\ Untold(p)' \subseteq Untold(p) \cup {c}
    /\ ~Ending(p) /\ ~Ending(p)' /\ Owed(p)' = Owed(p) \cup {c}

Told(p) ==
  \E c \in Untold(p) :
    /\ value'[sema_parent_block(p)] = value[sema_parent_block(p)] + 1
    /\ Untold(p)' \subseteq Untold(p) \ {c}
    /\ (Ending(p)' <=> Ending(p)) /\ Owed(p)' = Owed(p)

Taken(p) ==
  \E c \in Owed(p) :
    /\ value[sema_parent_block(p)] > 0
    /\ value'[sema_parent_block(p)] = value[sema_parent_block(p)] - 1
    /\ Untold(p)' \subseteq Untold(p)
    /\ ~Ending(p) /\ ~Ending(p)' /\ Owed(p) \ {c} \subseteq Owed(p)'

Fresh(p) == value'[sema_parent_block(p)] = 0 /\ ~Ending(p)'

TokenStep(p) ==
  /\ FreeIsDown(p)'
  /\ NoneMoved(p) \/ ChildMade(p) \/ Told(p) \/ Taken(p) \/ Fresh(p)

(* What is proved of every action. *)
ProcKept == ProcInv' /\ \A p \in Threads : TokenStep(p)

-----------------------------------------------------------------------------
(* The semaphores of a struct thread are its own. *)
LEMMA SemaNames ==
  /\ \A t \in Threads : /\ wait_block(t) \in Semas
                        /\ sema_parent_block(t) \in Semas
                        /\ exec_block(t) \in Semas
  /\ \A t, u \in Threads : /\ wait_block(t) = wait_block(u) => t = u
                           /\ sema_parent_block(t) = sema_parent_block(u) => t = u
                           /\ exec_block(t) = exec_block(u) => t = u
                           /\ wait_block(t) # sema_parent_block(u)
                           /\ wait_block(t) # exec_block(u)
                           /\ sema_parent_block(t) # exec_block(u)
BY ProcessAssumption DEF wait_block, sema_parent_block, exec_block

LEMMA SemaIsNamed ==
  ASSUME NEW s \in Semas
  PROVE  \E t \in Threads : s = wait_block(t) \/ s = sema_parent_block(t) \/ s = exec_block(t)
<1>1. PICK n \in {"wait_block", "sema_parent_block", "exec_block"}, t \in Threads : s = <<n, t>>
  BY ProcessAssumption
<1> QED
  BY <1>1 DEF wait_block, sema_parent_block, exec_block

(* list_remove takes one child off a list. *)
Removed(q, k) == SubSeq(q, 1, k - 1) \o SubSeq(q, k + 1, Len(q))

LEMMA RemoveAt ==
  ASSUME NEW q \in Seq(Threads), NEW k \in 1 .. Len(q)
  PROVE  /\ Removed(q, k) \in Seq(Threads)
         /\ Len(q) \in Nat /\ Len(Removed(q, k)) = Len(q) - 1
         /\ \A i \in 1 .. Len(q) - 1 : Removed(q, k)[i] = IF i < k THEN q[i] ELSE q[i + 1]
<1> DEFINE n == Len(q)
           a == SubSeq(q, 1, k - 1)
           b == SubSeq(q, k + 1, n)
           r == a \o b
<1>1. n \in Nat /\ k \in Nat /\ k >= 1 /\ k <= n
  OBVIOUS
<1>2. a \in Seq(Threads) /\ Len(a) = k - 1 /\ \A i \in 1 .. k - 1 : a[i] = q[i]
  <2>1. \A i \in 1 .. k - 1 : i \in 1 .. n
    BY <1>1
  <2> QED
    BY <1>1, <2>1
<1>3. b \in Seq(Threads) /\ Len(b) = n - k /\ \A i \in 1 .. n - k : b[i] = q[k + i]
  <2>1. \A i \in k + 1 .. n : i \in 1 .. n
    BY <1>1
  <2>2. \A i \in 1 .. n - k : (k + 1) + i - 1 = k + i
    BY <1>1
  <2> QED
    BY <1>1, <2>1, <2>2
<1>4. Removed(q, k) = r
  BY DEF Removed
<1> HIDE DEF n, a, b
<1>5. /\ r \in Seq(Threads)
      /\ Len(r) = Len(a) + Len(b)
      /\ \A i \in 1 .. Len(a) + Len(b) : r[i] = IF i <= Len(a) THEN a[i] ELSE b[i - Len(a)]
  BY <1>2, <1>3, Concat
<1> HIDE DEF r
<1>6. Len(r) = n - 1
  BY <1>1, <1>2, <1>3, <1>5
<1>7. ASSUME NEW i \in 1 .. n - 1
      PROVE  r[i] = IF i < k THEN q[i] ELSE q[i + 1]
  <2>1. r[i] = IF i <= k - 1 THEN a[i] ELSE b[i - (k - 1)]
    BY <1>1, <1>2, <1>3, <1>5
  <2>2. CASE i < k
    <3>1. i \in 1 .. k - 1 /\ i <= k - 1
      BY <1>1, <2>2
    <3> QED
      BY <1>2, <2>1, <2>2, <3>1
  <2>3. CASE ~(i < k)
    <3>1. i - (k - 1) \in 1 .. n - k /\ k + (i - (k - 1)) = i + 1 /\ ~(i <= k - 1)
      BY <1>1, <2>3
    <3> QED
      BY <1>3, <2>1, <2>3, <3>1
  <2> QED
    BY <2>2, <2>3
<1> QED
  BY <1>1, <1>4, <1>5, <1>6, <1>7 DEF n

LEMMA RemoveLists ==
  ASSUME NEW q \in Seq(Threads), NEW k \in 1 .. Len(q), Once(q)
  PROVE  /\ Removed(q, k) \in Seq(Threads)
         /\ Once(Removed(q, k))
         /\ \A u \in Threads : Listed(Removed(q, k), u) <=> (Listed(q, u) /\ u # q[k])
<1> DEFINE n == Len(q)
           r == Removed(q, k)
<1>0. k \in 1 .. n
  OBVIOUS
<1>1. /\ r \in Seq(Threads) /\ n \in Nat /\ Len(r) = n - 1
      /\ \A i \in 1 .. n - 1 : r[i] = IF i < k THEN q[i] ELSE q[i + 1]
  BY RemoveAt
<1>2. \A i, j \in 1 .. n : q[i] = q[j] => i = j
  BY DEF Once
<1>3. /\ Once(r) <=> \A i, j \in 1 .. n - 1 : r[i] = r[j] => i = j
      /\ \A u \in Threads : Listed(r, u) <=> \E i \in 1 .. n - 1 : r[i] = u
      /\ \A u \in Threads : Listed(q, u) <=> \E i \in 1 .. n : q[i] = u
  BY <1>1 DEF Once, Listed
<1> HIDE DEF n, r
<1>4. \A i \in 1 .. n - 1 : \/ i < k /\ i \in 1 .. n /\ r[i] = q[i]
                            \/ i >= k /\ i + 1 \in 1 .. n /\ r[i] = q[i + 1]
  BY <1>0, <1>1
<1>5. \A i, j \in 1 .. n - 1 : r[i] = r[j] => i = j
  BY <1>0, <1>1, <1>2, <1>4
<1>6. ASSUME NEW u \in Threads
      PROVE  (\E i \in 1 .. n - 1 : r[i] = u) <=> ((\E i \in 1 .. n : q[i] = u) /\ u # q[k])
  <2>1. ASSUME NEW i \in 1 .. n - 1, r[i] = u PROVE (\E j \in 1 .. n : q[j] = u) /\ u # q[k]
    BY <1>0, <1>1, <1>2, <1>4, <2>1
  <2>2. ASSUME NEW i \in 1 .. n, q[i] = u, u # q[k] PROVE \E j \in 1 .. n - 1 : r[j] = u
    <3>1. CASE i < k
      BY <1>0, <1>1, <2>2, <3>1
    <3>2. CASE i > k
      <4>1. i - 1 \in 1 .. n - 1 /\ ~(i - 1 < k) /\ (i - 1) + 1 = i
        BY <1>0, <1>1, <3>2
      <4>2. r[i - 1] = q[i]
        BY <1>1, <4>1
      <4> QED
        BY <2>2, <4>1, <4>2
    <3>3. i # k
      BY <2>2
    <3> QED
      BY <1>0, <1>1, <3>1, <3>2, <3>3
  <2> QED
    BY <2>1, <2>2
<1> QED
  BY <1>1, <1>3, <1>5, <1>6 DEF r

-----------------------------------------------------------------------------
(* Steps that leave p's tokens alone. *)
LEMMA CountKept ==
  ASSUME NEW p \in Threads, FreeIsDown(p),
         value'[sema_parent_block(p)] = value[sema_parent_block(p)],
         at'[p] = "free" => at[p] = "free",
         Untold(p)' \subseteq Untold(p),
         Ending(p)' \/ (~Ending(p) /\ Owed(p) \subseteq Owed(p)')
  PROVE  TokenStep(p)
BY DEF TokenStep, NoneMoved, FreeIsDown

(* A step that changes nothing but fault. *)
LEMMA ProcSame ==
  ASSUME ProcInv, fault' \in Faults,
         value' = value, waiters' = waiters, pc' = pc, on' = on,
         at' = at, parent' = parent, children' = children, load' = load, target' = target
  PROVE  ProcKept
<1>1. SemaTypeOK' /\ WaitersBlocked'
  BY SemaSame DEF ProcInv
<1>2. ProcType'
  BY DEF ProcInv, ProcType
<1>3. Sleeping' /\ Lists' /\ LetGo' /\ Telling'
  BY DEF ProcInv, Sleeping, Lists, LetGo, Telling
<1>4. InUse' /\ Loading'
  BY DEF ProcInv, InUse, Uses, Loading, AwaitsLoad
<1>5. ASSUME NEW p \in Threads PROVE TokenStep(p)
  <2>1. FreeIsDown(p) /\ Untold(p)' = Untold(p) /\ Owed(p)' = Owed(p) /\ (Ending(p)' <=> Ending(p))
    BY DEF ProcInv, FreeDown, Untold, Owed, Ending
  <2> QED
    BY <2>1, CountKept
<1> QED
  BY <1>1, <1>2, <1>3, <1>4, <1>5 DEF ProcKept, ProcInv, FreeDown, TokenStep

(* exit, an exception, and the end of a failed start_process. *)
LEMMA ExitInv ==
  ASSUME ProcInv, NEW t \in Threads, Exit(t) \/ LoadFailed(t)
  PROVE  ProcKept
<1>1. /\ pc[t] = "run" /\ at[t] \in {"user", "failed"}
      /\ at' = [at EXCEPT ![t] = "exit"]
      /\ parent' = parent /\ children' = children /\ target' = target /\ fault' = fault
      /\ value' = value /\ waiters' = waiters /\ pc' = pc /\ on' = on
      /\ load' = load \/ load' = [load EXCEPT ![t] = 0]
  BY DEF Exit, LoadFailed, At, sema_vars
<1>2. /\ at'[t] = "exit" /\ \A u \in Threads \ {t} : at'[u] = at[u]
      /\ at' \in [Threads -> Locations]
  BY <1>1 DEF ProcInv, ProcType, Locations
<1>3. SemaTypeOK' /\ WaitersBlocked'
  BY <1>1, SemaSame DEF ProcInv
<1>4. ProcType'
  BY <1>1, <1>2 DEF ProcInv, ProcType
<1>5. Sleeping'
  BY <1>1, <1>2 DEF ProcInv, Sleeping
<1>6. Lists'
  BY <1>1, <1>2 DEF ProcInv, Lists
<1>7. InUse'
  BY <1>1, <1>2 DEF ProcInv, InUse, Uses
<1>8. LetGo'
  BY <1>1, <1>2 DEF ProcInv, LetGo
<1>9. Loading'
  BY <1>1, <1>2 DEF ProcInv, Loading, AwaitsLoad
<1>10. Telling'
  BY <1>1, <1>2 DEF ProcInv, Telling
<1>11. ASSUME NEW p \in Threads PROVE TokenStep(p)
  <2>1. FreeIsDown(p) /\ value \in [Semas -> Nat]
    BY DEF ProcInv, FreeDown, SemaTypeOK
  <2>2. Untold(p)' \subseteq Untold(p)
    BY <1>1, <1>2 DEF Untold
  <2>3. Ending(p)' \/ (~Ending(p) /\ Owed(p) \subseteq Owed(p)')
    BY <1>1, <1>2 DEF Ending, Owed
  <2>4. at'[p] = "free" => at[p] = "free"
    BY <1>1, <1>2
  <2> QED
    BY <1>1, <2>1, <2>2, <2>3, <2>4, CountKept
<1> QED
  BY <1>3, <1>4, <1>5, <1>6, <1>7, <1>8, <1>9, <1>10, <1>11 DEF ProcKept, ProcInv, FreeDown, TokenStep

(* process_execute returns. *)
LEMMA ExecReturnInv ==
  ASSUME ProcInv, NEW t \in Threads, ExecReturn(t)
  PROVE  ProcKept
<1>1. /\ pc[t] = "run" /\ at[t] = "loaded"
      /\ at' = [at EXCEPT ![t] = "user"] /\ target' = [target EXCEPT ![t] = NULL]
      /\ parent' = parent /\ children' = children /\ load' = load /\ fault' = fault
      /\ value' = value /\ waiters' = waiters /\ pc' = pc /\ on' = on
  BY DEF ExecReturn, At, sema_vars
<1>2. /\ at'[t] = "user" /\ \A u \in Threads \ {t} : at'[u] = at[u] /\ target'[u] = target[u]
      /\ at' \in [Threads -> Locations] /\ target' \in [Threads -> Threads \cup {NULL}]
  BY <1>1 DEF ProcInv, ProcType, Locations
<1>3. SemaTypeOK' /\ WaitersBlocked'
  BY <1>1, SemaSame DEF ProcInv
<1>4. ProcType'
  BY <1>1, <1>2 DEF ProcInv, ProcType
<1>5. Sleeping'
  BY <1>1, <1>2 DEF ProcInv, Sleeping
<1>6. Lists'
  BY <1>1, <1>2 DEF ProcInv, Lists
<1>7. InUse'
  BY <1>1, <1>2 DEF ProcInv, InUse, Uses
<1>8. LetGo'
  BY <1>1, <1>2 DEF ProcInv, LetGo
<1>9. Loading'
  BY <1>1, <1>2 DEF ProcInv, Loading, AwaitsLoad
<1>10. Telling'
  BY <1>1, <1>2 DEF ProcInv, Telling
<1>11. ASSUME NEW p \in Threads PROVE TokenStep(p)
  <2>1. FreeIsDown(p) /\ value \in [Semas -> Nat]
    BY DEF ProcInv, FreeDown, SemaTypeOK
  <2>2. Untold(p)' \subseteq Untold(p)
    BY <1>1, <1>2 DEF Untold
  <2>3. Ending(p)' \/ (~Ending(p) /\ Owed(p) \subseteq Owed(p)')
    BY <1>1, <1>2 DEF Ending, Owed
  <2>4. at'[p] = "free" => at[p] = "free"
    BY <1>1, <1>2
  <2> QED
    BY <1>1, <2>1, <2>2, <2>3, <2>4, CountKept
<1> QED
  BY <1>3, <1>4, <1>5, <1>6, <1>7, <1>8, <1>9, <1>10, <1>11 DEF ProcKept, ProcInv, FreeDown, TokenStep

(* process_exit orphans the next child on the list. *)
LEMMA OrphanInv ==
  ASSUME ProcInv, NEW t \in Threads, Orphan(t)
  PROVE  ProcKept
<1> DEFINE h == Head(children[t])
<1>1. /\ pc[t] = "run" /\ at[t] = "exit" /\ children[t] # <<>>
      /\ parent' = [parent EXCEPT ![h] = NULL] /\ children' = [children EXCEPT ![t] = Tail(@)]
      /\ at' = [at EXCEPT ![t] = "next"] /\ target' = [target EXCEPT ![t] = h]
      /\ load' = load /\ fault' = fault
      /\ value' = value /\ waiters' = waiters /\ pc' = pc /\ on' = on
  BY DEF Orphan, At, sema_vars
<1>2. /\ h \in Threads /\ Listed(children[t], h)
      /\ Tail(children[t]) \in Seq(Threads) /\ Once(Tail(children[t]))
      /\ \A u \in Threads : Listed(Tail(children[t]), u) <=> (Listed(children[t], u) /\ u # h)
  BY <1>1, PopLists DEF ProcInv, ProcType, Lists
<1> HIDE DEF h
<1>3. /\ parent'[h] = NULL /\ \A u \in Threads \ {h} : parent'[u] = parent[u]
      /\ children'[t] = Tail(children[t]) /\ \A u \in Threads \ {t} : children'[u] = children[u]
      /\ parent' \in [Threads -> Threads \cup {NULL}]
      /\ children' \in [Threads -> Seq(Threads)]
      /\ at'[t] = "next" /\ \A u \in Threads \ {t} : at'[u] = at[u] /\ target'[u] = target[u]
      /\ at' \in [Threads -> Locations] /\ target' \in [Threads -> Threads \cup {NULL}]
  BY <1>1, <1>2 DEF ProcInv, ProcType, Locations
<1>4. parent[h] = t /\ at[h] # "new"
  <2>1. parent[h] = t
    BY <1>2 DEF ProcInv, InUse, Uses
  <2> QED
    BY <1>1, <1>2, <2>1 DEF ProcInv, Loading, AwaitsLoad
<1>5. SemaTypeOK' /\ WaitersBlocked'
  BY <1>1, SemaSame DEF ProcInv
<1>6. ProcType'
  BY <1>1, <1>3 DEF ProcInv, ProcType
<1>7. Sleeping'
  BY <1>1, <1>3 DEF ProcInv, Sleeping
<1>8. Lists'
  BY <1>1, <1>2, <1>3 DEF ProcInv, Lists
<1>9. InUse'
  <2> SUFFICES ASSUME NEW p \in Threads, NEW c \in Threads, Uses(p, c)'
               PROVE  Uses(p, c) /\ c # h
    BY <1>1, <1>3 DEF ProcInv, InUse
  <2>1. CASE p = t
    BY <1>1, <1>2, <1>3, <2>1 DEF Uses
  <2>2. CASE p # t
    <3>1. Uses(p, c)
      BY <1>1, <1>3, <2>2 DEF Uses
    <3> QED
      BY <1>4, <2>2, <3>1 DEF ProcInv, InUse
  <2> QED
    BY <2>1, <2>2
<1>10. LetGo'
  BY <1>1, <1>3 DEF ProcInv, LetGo
<1>11. Loading'
  BY <1>1, <1>3, <1>4 DEF ProcInv, Loading, AwaitsLoad
<1>12. Telling'
  BY <1>1, <1>2, <1>3 DEF ProcInv, Telling
<1>13. ASSUME NEW p \in Threads PROVE TokenStep(p)
  <2>1. FreeIsDown(p) /\ value \in [Semas -> Nat]
    BY DEF ProcInv, FreeDown, SemaTypeOK
  <2>2. Untold(p)' \subseteq Untold(p)
    <3>1. NULL # p
      BY ProcessAssumption
    <3> QED
      BY <1>1, <1>3, <3>1 DEF Untold
  <2>3. Ending(p)' \/ (~Ending(p) /\ Owed(p) \subseteq Owed(p)')
    BY <1>1, <1>3 DEF Ending, Owed
  <2>4. at'[p] = "free" => at[p] = "free"
    BY <1>1, <1>3
  <2> QED
    BY <1>1, <2>1, <2>2, <2>3, <2>4, CountKept
<1> QED
  BY <1>5, <1>6, <1>7, <1>8, <1>9, <1>10, <1>11, <1>12, <1>13 DEF ProcKept, ProcInv, FreeDown, TokenStep

(* process_exit goes on to the next child, or is lost. *)
LEMMA NextChildInv ==
  ASSUME ProcInv, NEW t \in Threads, NextChild(t)
  PROVE  ProcKept
<1>1. /\ pc[t] = "run" /\ at[t] = "next"
      /\ parent' = parent /\ children' = children /\ load' = load
      /\ value' = value /\ waiters' = waiters /\ pc' = pc /\ on' = on
      /\ \/ at' = at /\ target' = target /\ fault' = "process_exit"
         \/ /\ at' = [at EXCEPT ![t] = "exit"] /\ target' = [target EXCEPT ![t] = NULL]
            /\ fault' = fault
  BY DEF NextChild, At, sema_vars
<1>2. /\ at'[t] \in {"next", "exit"}
      /\ \A u \in Threads \ {t} : at'[u] = at[u] /\ target'[u] = target[u]
      /\ at' \in [Threads -> Locations] /\ target' \in [Threads -> Threads \cup {NULL}]
      /\ fault' \in Faults
  BY <1>1 DEF ProcInv, ProcType, Locations, Faults
<1>3. SemaTypeOK' /\ WaitersBlocked'
  BY <1>1, SemaSame DEF ProcInv
<1>4. ProcType'
  BY <1>1, <1>2 DEF ProcInv, ProcType
<1>5. Sleeping'
  BY <1>1, <1>2 DEF ProcInv, Sleeping
<1>6. Lists'
  BY <1>1, <1>2 DEF ProcInv, Lists
<1>7. InUse'
  BY <1>1, <1>2 DEF ProcInv, InUse, Uses
<1>8. LetGo'
  BY <1>1, <1>2 DEF ProcInv, LetGo
<1>9. Loading'
  BY <1>1, <1>2 DEF ProcInv, Loading, AwaitsLoad
<1>10. Telling'
  BY <1>1, <1>2 DEF ProcInv, Telling
<1>11. ASSUME NEW p \in Threads PROVE TokenStep(p)
  <2>1. FreeIsDown(p) /\ value \in [Semas -> Nat]
    BY DEF ProcInv, FreeDown, SemaTypeOK
  <2>2. Untold(p)' \subseteq Untold(p)
    BY <1>1, <1>2 DEF Untold
  <2>3. Ending(p)' \/ (~Ending(p) /\ Owed(p) \subseteq Owed(p)')
    BY <1>1, <1>2 DEF Ending, Owed
  <2>4. at'[p] = "free" => at[p] = "free"
    BY <1>1, <1>2
  <2> QED
    BY <1>1, <2>1, <2>2, <2>3, <2>4, CountKept
<1> QED
  BY <1>3, <1>4, <1>5, <1>6, <1>7, <1>8, <1>9, <1>10, <1>11 DEF ProcKept, ProcInv, FreeDown, TokenStep

(* process_exit tests the parent. *)
LEMMA ProcessExitInv ==
  ASSUME ProcInv, NEW t \in Threads, process_exit(t)
  PROVE  ProcKept
<1>1. /\ pc[t] = "run" /\ at[t] = "exit" /\ children[t] = <<>>
      /\ target' = [target EXCEPT ![t] = parent[t]]
      /\ at' = [at EXCEPT ![t] = IF parent[t] = NULL THEN "die" ELSE "tell"]
      /\ parent' = parent /\ children' = children /\ load' = load /\ fault' = fault
      /\ value' = value /\ waiters' = waiters /\ pc' = pc /\ on' = on
  BY DEF process_exit, At, sema_vars
<1>2. /\ at'[t] = IF parent[t] = NULL THEN "die" ELSE "tell"
      /\ target'[t] = parent[t] /\ parent[t] \in Threads \cup {NULL}
      /\ \A u \in Threads \ {t} : at'[u] = at[u] /\ target'[u] = target[u]
      /\ at' \in [Threads -> Locations] /\ target' \in [Threads -> Threads \cup {NULL}]
  BY <1>1 DEF ProcInv, ProcType, Locations
<1>3. SemaTypeOK' /\ WaitersBlocked'
  BY <1>1, SemaSame DEF ProcInv
<1>4. ProcType'
  BY <1>1, <1>2 DEF ProcInv, ProcType
<1>5. Sleeping'
  BY <1>1, <1>2 DEF ProcInv, Sleeping
<1>6. Lists'
  BY <1>1, <1>2 DEF ProcInv, Lists
<1>7. InUse'
  <2> SUFFICES ASSUME NEW p \in Threads, NEW c \in Threads, Uses(p, c)'
               PROVE  /\ at'[c] # "free" /\ parent[c] = p
                      /\ value[wait_block(c)] = 0
                      /\ ~(at'[c] = "die" /\ pc[c] = "run")
    BY <1>1 DEF InUse
  <2>1. Uses(p, c)
    BY <1>1, <1>2 DEF Uses
  <2>2. /\ at[c] # "free" /\ parent[c] = p
        /\ value[wait_block(c)] = 0
        /\ ~(at[c] = "die" /\ pc[c] = "run")
    BY <2>1 DEF ProcInv, InUse
  <2>3. p # NULL
    BY ProcessAssumption
  <2> QED
    BY <1>2, <2>2, <2>3
<1>8. LetGo'
  BY <1>1, <1>2 DEF ProcInv, LetGo
<1>9. Loading'
  BY <1>1, <1>2 DEF ProcInv, Loading, AwaitsLoad
<1>10. Telling'
  BY <1>1, <1>2 DEF ProcInv, Telling
<1>11. ASSUME NEW p \in Threads PROVE TokenStep(p)
  <2>1. FreeIsDown(p) /\ value \in [Semas -> Nat]
    BY DEF ProcInv, FreeDown, SemaTypeOK
  <2>2. Untold(p)' \subseteq Untold(p)
    BY <1>1, <1>2 DEF Untold
  <2>3. Ending(p)' \/ (~Ending(p) /\ Owed(p) \subseteq Owed(p)')
    BY <1>1, <1>2 DEF Ending, Owed
  <2>4. at'[p] = "free" => at[p] = "free"
    BY <1>1, <1>2
  <2> QED
    BY <1>1, <2>1, <2>2, <2>3, <2>4, CountKept
<1> QED
  BY <1>3, <1>4, <1>5, <1>6, <1>7, <1>8, <1>9, <1>10, <1>11 DEF ProcKept, ProcInv, FreeDown, TokenStep

(* process_execute creates a child. *)
LEMMA ExecuteInv ==
  ASSUME ProcInv, NEW t \in Threads, NEW c \in Threads, process_execute(t, c)
  PROVE  ProcKept
<1>1. /\ pc[t] = "run" /\ at[t] = "user" /\ at[c] = "free" /\ t # c
      /\ at' = [at EXCEPT ![t] = "exec", ![c] = "new"]
      /\ parent' = [parent EXCEPT ![c] = t]
      /\ children' = [children EXCEPT ![t] = Append(@, c)]
      /\ target' = [target EXCEPT ![t] = c]
      /\ load' = load /\ fault' = fault
      /\ value' = value /\ waiters' = waiters /\ pc' = pc /\ on' = on
  BY DEF process_execute, At, sema_vars
<1>2. \A p \in Threads : ~Uses(p, c)
  BY <1>1 DEF ProcInv, InUse
<1>3. /\ Append(children[t], c) \in Seq(Threads) /\ Once(Append(children[t], c))
      /\ \A u \in Threads : Listed(Append(children[t], c), u) <=> (Listed(children[t], u) \/ u = c)
  <2>1. children[t] \in Seq(Threads) /\ Once(children[t]) /\ ~Listed(children[t], c)
    BY <1>2 DEF ProcInv, ProcType, Lists, Uses
  <2> QED
    BY <2>1, PushLists
<1>4. /\ at'[t] = "exec" /\ at'[c] = "new" /\ \A u \in Threads \ {t, c} : at'[u] = at[u]
      /\ at' \in [Threads -> Locations]
  BY <1>1 DEF ProcInv, ProcType, Locations
<1>5. /\ parent'[c] = t /\ \A u \in Threads \ {c} : parent'[u] = parent[u]
      /\ parent' \in [Threads -> Threads \cup {NULL}]
      /\ target'[t] = c /\ \A u \in Threads \ {t} : target'[u] = target[u]
      /\ target' \in [Threads -> Threads \cup {NULL}]
  BY <1>1 DEF ProcInv, ProcType
<1>6. /\ \A u \in Threads : Listed(children'[t], u) <=> (Listed(children[t], u) \/ u = c)
      /\ Once(children'[t])
      /\ \A u \in Threads \ {t} : children'[u] = children[u]
      /\ children' \in [Threads -> Seq(Threads)]
  BY <1>1, <1>3 DEF ProcInv, ProcType
<1>7. SemaTypeOK' /\ WaitersBlocked'
  BY <1>1, SemaSame DEF ProcInv
<1>8. ProcType'
  BY <1>1, <1>4, <1>5, <1>6 DEF ProcInv, ProcType
<1>9. Sleeping'
  BY <1>1, <1>4 DEF ProcInv, Sleeping
<1>10. Lists'
  BY <1>1, <1>4, <1>5, <1>6 DEF ProcInv, Lists
<1>11. InUse'
  <2> SUFFICES ASSUME NEW p \in Threads, NEW d \in Threads, Uses(p, d)'
               PROVE  /\ at'[d] # "free" /\ parent'[d] = p
                      /\ value[wait_block(d)] = 0
                      /\ ~(at'[d] = "die" /\ pc[d] = "run")
    BY <1>1 DEF InUse
  <2>1. Uses(p, d) \/ (p = t /\ d = c)
    BY <1>4, <1>5, <1>6 DEF Uses
  <2>2. CASE p = t /\ d = c
    BY <1>1, <1>4, <1>5, <2>2 DEF ProcInv, LetGo
  <2>3. CASE Uses(p, d)
    <3>1. d # c
      BY <1>2, <2>3
    <3>2. /\ at[d] # "free" /\ parent[d] = p
          /\ value[wait_block(d)] = 0
          /\ ~(at[d] = "die" /\ pc[d] = "run")
      BY <2>3 DEF ProcInv, InUse
    <3> QED
      BY <1>4, <1>5, <3>1, <3>2
  <2> QED
    BY <2>1, <2>2, <2>3
<1>12. LetGo'
  BY <1>1, <1>4 DEF ProcInv, LetGo
<1>13. Loading'
  <2>1. \A p \in Threads : ~AwaitsLoad(p)' => value[exec_block(p)] = 0
    BY <1>1, <1>4 DEF ProcInv, Loading, AwaitsLoad
  <2>2. AwaitsLoad(t)' /\ value[exec_block(t)] = 0
    BY <1>1, <1>4 DEF ProcInv, Loading, AwaitsLoad
  <2>3. ASSUME NEW p \in Threads, at'[p] = "new"
        PROVE  /\ parent'[p] \in Threads
               /\ AwaitsLoad(parent[p])' /\ target'[parent'[p]] = p
               /\ value[exec_block(parent'[p])] = 0
    <3>1. CASE p = c
      BY <1>5, <2>2, <3>1 DEF AwaitsLoad
    <3>2. CASE p # c
      <4>1. /\ at[p] = "new" /\ parent'[p] = parent[p]
        BY <1>4, <1>5, <2>3, <3>2
      <4>2. /\ parent[p] \in Threads
            /\ AwaitsLoad(parent[p]) /\ target[parent[p]] = p
            /\ value[exec_block(parent[p])] = 0
        BY <4>1 DEF ProcInv, Loading
      <4>3. parent[p] # t /\ parent[p] # c
        BY <1>1, <4>2 DEF AwaitsLoad
      <4> QED
        BY <1>1, <1>4, <1>5, <4>1, <4>2, <4>3 DEF AwaitsLoad
    <3> QED
      BY <3>1, <3>2
  <2> QED
    BY <1>1, <2>1, <2>3 DEF ProcInv, Loading
<1>14. Telling'
  BY <1>1, <1>4, <1>5 DEF ProcInv, Telling
<1>15. ASSUME NEW p \in Threads PROVE TokenStep(p)
  <2>1. FreeIsDown(p) /\ value \in [Semas -> Nat] /\ value[sema_parent_block(p)] \in Nat
    BY SemaNames DEF ProcInv, FreeDown, SemaTypeOK
  <2>2. CASE p # t /\ p # c
    <3>1. Untold(p)' \subseteq Untold(p)
      BY <1>1, <1>4, <1>5, <2>2 DEF Untold
    <3>2. Ending(p)' \/ (~Ending(p) /\ Owed(p) \subseteq Owed(p)')
      BY <1>1, <1>4, <1>5, <1>6, <2>2 DEF Ending, Owed
    <3>3. at'[p] = "free" => at[p] = "free"
      BY <1>4, <2>2
    <3> QED
      BY <1>1, <2>1, <3>1, <3>2, <3>3, CountKept
  <2>3. CASE p = t
    <3>1. Untold(p)' \subseteq Untold(p) \cup {c} /\ ~Ending(p)' /\ ~Ending(p)
      BY <1>1, <1>4, <1>5, <2>3 DEF Untold, Ending
    <3>2. Owed(p)' = Owed(p) \cup {c} /\ c \notin Owed(p)
      BY <1>1, <1>2, <1>4, <1>6, <2>3 DEF Owed, Uses
    <3> QED
      BY <1>1, <1>4, <2>3, <3>1, <3>2 DEF TokenStep, ChildMade, FreeIsDown
  <2>4. CASE p = c
    <3>1. value[sema_parent_block(p)] = 0 /\ ~Ending(p)'
      BY <1>1, <1>4, <2>1, <2>4 DEF FreeIsDown, Ending
    <3> QED
      BY <1>1, <3>1 DEF TokenStep, Fresh, FreeIsDown
  <2> QED
    BY <2>2, <2>3, <2>4
<1> QED
  BY <1>7, <1>8, <1>9, <1>10, <1>11, <1>12, <1>13, <1>14, <1>15 DEF ProcKept, ProcInv, FreeDown, TokenStep

(* process_execute finds no page. *)
LEMMA NoPageInv ==
  ASSUME ProcInv, NEW t \in Threads, ExecuteNoPage(t)
  PROVE  ProcKept
<1>1. /\ at' = at /\ fault' = "process_execute"
      /\ parent' = parent /\ children' = children /\ load' = load /\ target' = target
      /\ value' = value /\ waiters' = waiters /\ pc' = pc /\ on' = on
  BY DEF ExecuteNoPage, sema_vars
<1> QED
  BY <1>1, ProcSame DEF Faults

(* setup_stack finds no page. *)
LEMMA NoStackInv ==
  ASSUME ProcInv, NEW t \in Threads, LoadNoStack(t)
  PROVE  ProcKept
<1>1. /\ at' = at /\ fault' = "load"
      /\ parent' = parent /\ children' = children /\ load' = load /\ target' = target
      /\ value' = value /\ waiters' = waiters /\ pc' = pc /\ on' = on
  BY DEF LoadNoStack, sema_vars
<1> QED
  BY <1>1, ProcSame DEF Faults

-----------------------------------------------------------------------------
(* One pass through the loop of the sema_down on exec_block. *)
LEMMA ExecDownInv ==
  ASSUME ProcInv, NEW t \in Threads, DownLoop(t, exec_block(t)), pc[t] # "blocked", AwaitsLoad(t),
         at' = [at EXCEPT ![t] = "loaded"], UNCHANGED <<parent, children, load, target, fault>>
  PROVE  ProcKept
<1> DEFINE x == exec_block(t)
<1>1. /\ parent' = parent /\ children' = children /\ load' = load /\ target' = target /\ fault' = fault
      /\ SemaTypeOK /\ x \in Semas
  BY SemaNames DEF ProcInv
<1>2. /\ \A u \in Threads \ {t} : pc'[u] = pc[u] /\ on'[u] = on[u]
      /\ \A r \in Semas \ {x} : value'[r] = value[r]
      /\ \/ value[x] > 0 /\ value'[x] = value[x] - 1 /\ pc'[t] = "run"
         \/ value[x] = 0 /\ value'[x] = 0 /\ pc'[t] = "blocked" /\ on'[t] = x
  BY <1>1, DownEffect
<1>3. /\ at'[t] = "loaded" /\ \A u \in Threads \ {t} : at'[u] = at[u]
      /\ at' \in [Threads -> Locations] /\ at[t] \in {"exec", "loaded"}
  BY DEF ProcInv, ProcType, Locations, AwaitsLoad
<1>4. /\ \A u \in Threads : /\ value'[wait_block(u)] = value[wait_block(u)]
                            /\ value'[sema_parent_block(u)] = value[sema_parent_block(u)]
                            /\ u # t => value'[exec_block(u)] = value[exec_block(u)]
  BY <1>2, SemaNames
<1>5. SemaTypeOK' /\ WaitersBlocked'
  BY <1>1, DownType, DownWaitersBlocked DEF ProcInv
<1>6. ProcType'
  BY <1>1, <1>3 DEF ProcInv, ProcType
<1>7. Sleeping'
  BY <1>2, <1>3 DEF ProcInv, Sleeping
<1>8. Lists'
  BY <1>1, <1>3 DEF ProcInv, Lists
<1>9. InUse'
  BY <1>1, <1>2, <1>3, <1>4 DEF ProcInv, InUse, Uses
<1>10. LetGo'
  BY <1>3, <1>4 DEF ProcInv, LetGo
<1>11. Loading'
  <2>1. value[x] \in {0, 1} /\ value'[x] = 0
    BY <1>2 DEF ProcInv, Loading
  <2>2. \A p \in Threads \ {t} : AwaitsLoad(p)' <=> AwaitsLoad(p)
    BY <1>2, <1>3 DEF AwaitsLoad
  <2>3. ASSUME NEW p \in Threads, at'[p] = "new"
        PROVE  /\ parent'[p] \in Threads
               /\ AwaitsLoad(parent[p])' /\ target'[parent'[p]] = p
               /\ value'[exec_block(parent'[p])] = 0
    <3>1. at[p] = "new"
      BY <1>3, <2>3
    <3>2. /\ parent[p] \in Threads /\ AwaitsLoad(parent[p]) /\ target[parent[p]] = p
          /\ value[exec_block(parent[p])] = 0
      BY <3>1 DEF ProcInv, Loading
    <3>3. CASE parent[p] = t
      BY <1>1, <1>2, <1>3, <2>1, <3>2, <3>3 DEF AwaitsLoad
    <3>4. CASE parent[p] # t
      BY <1>1, <1>2, <1>3, <1>4, <3>2, <3>4 DEF AwaitsLoad
    <3> QED
      BY <3>3, <3>4
  <2> QED
    BY <1>4, <2>1, <2>2, <2>3 DEF ProcInv, Loading
<1>12. Telling'
  BY <1>1, <1>3 DEF ProcInv, Telling
<1>13. ASSUME NEW p \in Threads PROVE TokenStep(p)
  <2>1. FreeIsDown(p) /\ value \in [Semas -> Nat]
    BY DEF ProcInv, FreeDown, SemaTypeOK
  <2>2. Untold(p)' \subseteq Untold(p)
    BY <1>1, <1>3 DEF Untold
  <2>3. Ending(p)' \/ (~Ending(p) /\ Owed(p) \subseteq Owed(p)')
    BY <1>1, <1>2, <1>3 DEF Ending, Owed
  <2>4. at'[p] = "free" => at[p] = "free"
    BY <1>3
  <2> QED
    BY <1>4, <2>1, <2>2, <2>3, <2>4, CountKept
<1> QED
  BY <1>5, <1>6, <1>7, <1>8, <1>9, <1>10, <1>11, <1>12, <1>13 DEF ProcKept, ProcInv, FreeDown, TokenStep

(* One pass through the loop of the sema_down on wait_block: only a child   *)
(* that has been let go gets past it.                                       *)
LEMMA ExitDownInv ==
  ASSUME ProcInv, NEW t \in Threads, DownLoop(t, wait_block(t)), pc[t] # "blocked",
         at[t] \in {"wait", "die"},
         at' = [at EXCEPT ![t] = "die"], UNCHANGED <<parent, children, load, target, fault>>
  PROVE  ProcKept
<1> DEFINE x == wait_block(t)
<1>1. /\ parent' = parent /\ children' = children /\ load' = load /\ target' = target /\ fault' = fault
      /\ SemaTypeOK /\ x \in Semas
  BY SemaNames DEF ProcInv
<1>2. /\ \A u \in Threads \ {t} : pc'[u] = pc[u] /\ on'[u] = on[u]
      /\ \A r \in Semas \ {x} : value'[r] = value[r]
      /\ \/ value[x] > 0 /\ value'[x] = value[x] - 1 /\ pc'[t] = "run"
         \/ value[x] = 0 /\ value'[x] = 0 /\ pc'[t] = "blocked" /\ on'[t] = x
  BY <1>1, DownEffect
<1>3. /\ at'[t] = "die" /\ \A u \in Threads \ {t} : at'[u] = at[u]
      /\ at' \in [Threads -> Locations]
  BY DEF ProcInv, ProcType, Locations
<1>4. /\ \A u \in Threads : /\ value'[exec_block(u)] = value[exec_block(u)]
                            /\ value'[sema_parent_block(u)] = value[sema_parent_block(u)]
                            /\ u # t => value'[wait_block(u)] = value[wait_block(u)]
  BY <1>2, SemaNames
<1>5. SemaTypeOK' /\ WaitersBlocked'
  BY <1>1, DownType, DownWaitersBlocked DEF ProcInv
<1>6. ProcType'
  BY <1>1, <1>3 DEF ProcInv, ProcType
<1>7. Sleeping'
  BY <1>2, <1>3 DEF ProcInv, Sleeping
<1>8. Lists'
  BY <1>1, <1>3 DEF ProcInv, Lists
<1>9. value[x] \in {0, 1} /\ value'[x] = 0
  BY <1>2 DEF ProcInv, LetGo
<1>10. InUse'
  <2> SUFFICES ASSUME NEW p \in Threads, NEW d \in Threads, Uses(p, d)'
               PROVE  /\ at'[d] # "free" /\ parent[d] = p
                      /\ value'[wait_block(d)] = 0
                      /\ ~(at'[d] = "die" /\ pc'[d] = "run")
    BY <1>1 DEF InUse
  <2>1. Uses(p, d)
    BY <1>1, <1>3 DEF Uses
  <2>2. /\ at[d] # "free" /\ parent[d] = p
        /\ value[wait_block(d)] = 0
        /\ ~(at[d] = "die" /\ pc[d] = "run")
    BY <2>1 DEF ProcInv, InUse
  <2> QED
    BY <1>2, <1>3, <1>4, <1>9, <2>2
<1>11. LetGo'
  BY <1>3, <1>4, <1>9 DEF ProcInv, LetGo
<1>12. Loading'
  BY <1>1, <1>2, <1>3, <1>4 DEF ProcInv, Loading, AwaitsLoad
<1>13. Telling'
  BY <1>1, <1>3 DEF ProcInv, Telling
<1>14. ASSUME NEW p \in Threads PROVE TokenStep(p)
  <2>1. FreeIsDown(p) /\ value \in [Semas -> Nat]
    BY DEF ProcInv, FreeDown, SemaTypeOK
  <2>2. Untold(p)' \subseteq Untold(p)
    BY <1>1, <1>3 DEF Untold
  <2>3. Ending(p)' \/ (~Ending(p) /\ Owed(p) \subseteq Owed(p)')
    BY <1>1, <1>2, <1>3 DEF Ending, Owed
  <2>4. at'[p] = "free" => at[p] = "free"
    BY <1>3
  <2> QED
    BY <1>4, <2>1, <2>2, <2>3, <2>4, CountKept
<1> QED
  BY <1>5, <1>6, <1>7, <1>8, <1>10, <1>11, <1>12, <1>13, <1>14 DEF ProcKept, ProcInv, FreeDown, TokenStep

(* p takes a token of its sema_parent_block for a child it is owed. *)
LEMMA TokenTaken ==
  ASSUME NEW p \in Threads, NEW c \in Owed(p),
         value[sema_parent_block(p)] > 0,
         value'[sema_parent_block(p)] = value[sema_parent_block(p)] - 1,
         at'[p] # "free", ~Ending(p), ~Ending(p)',
         Untold(p)' \subseteq Untold(p), Owed(p) \ {c} \subseteq Owed(p)'
  PROVE  TokenStep(p)
BY DEF TokenStep, Taken, FreeIsDown

(* process_wait takes the child off the list and, if its parent has a token, *)
(* goes on to read the status.                                               *)
LEMMA ProcessWaitInv ==
  ASSUME ProcInv, NEW t \in Threads, NEW c \in Threads, process_wait(t, c)
  PROVE  ProcKept
<1> DEFINE x == sema_parent_block(t)
<1>1. /\ pc[t] = "run" /\ at[t] = "user"
      /\ target' = [target EXCEPT ![t] = c] /\ at' = [at EXCEPT ![t] = "stat"]
      /\ DownLoop(t, x)
      /\ parent' = parent /\ load' = load /\ fault' = fault
      /\ SemaTypeOK /\ x \in Semas
  BY SemaNames DEF ProcInv, process_wait, At, sema_down
<1>2. PICK k \in DOMAIN children[t] :
         /\ children[t][k] = c
         /\ children' = [children EXCEPT ![t] = Removed(children[t], k)]
  BY ZenonT(20) DEF process_wait, Removed
<1>3. /\ children[t] \in Seq(Threads) /\ Once(children[t])
      /\ k \in 1 .. Len(children[t])
  BY <1>2 DEF ProcInv, ProcType, Lists
<1>4. /\ Removed(children[t], k) \in Seq(Threads) /\ Once(Removed(children[t], k))
      /\ \A u \in Threads : Listed(Removed(children[t], k), u) <=> (Listed(children[t], u) /\ u # c)
  BY <1>2, <1>3, RemoveLists
<1>5. Listed(children[t], c)
  BY <1>2, <1>3 DEF Listed
<1>6. /\ children' \in [Threads -> Seq(Threads)]
      /\ \A u \in Threads \ {t} : children'[u] = children[u]
      /\ Once(children'[t])
      /\ \A u \in Threads : Listed(children'[t], u) <=> (Listed(children[t], u) /\ u # c)
  BY <1>2, <1>4 DEF ProcInv, ProcType
<1>7. /\ \A u \in Threads \ {t} : pc'[u] = pc[u] /\ on'[u] = on[u]
      /\ \A r \in Semas \ {x} : value'[r] = value[r]
      /\ \/ value[x] > 0 /\ value'[x] = value[x] - 1 /\ pc'[t] = "run"
         \/ value[x] = 0 /\ value'[x] = 0 /\ pc'[t] = "blocked" /\ on'[t] = x
  BY <1>1, DownEffect
<1>8. /\ at'[t] = "stat" /\ target'[t] = c
      /\ \A u \in Threads \ {t} : at'[u] = at[u] /\ target'[u] = target[u]
      /\ at' \in [Threads -> Locations] /\ target' \in [Threads -> Threads \cup {NULL}]
  BY <1>1 DEF ProcInv, ProcType, Locations
<1>9. /\ \A u \in Threads : /\ value'[exec_block(u)] = value[exec_block(u)]
                            /\ value'[wait_block(u)] = value[wait_block(u)]
                            /\ u # t => value'[sema_parent_block(u)] = value[sema_parent_block(u)]
  BY <1>7, SemaNames
<1>10. SemaTypeOK' /\ WaitersBlocked'
  BY <1>1, DownType, DownWaitersBlocked DEF ProcInv
<1>11. ProcType'
  BY <1>1, <1>6, <1>8 DEF ProcInv, ProcType
<1>12. Sleeping'
  BY <1>7, <1>8 DEF ProcInv, Sleeping
<1>13. Lists'
  BY <1>1, <1>6, <1>8 DEF ProcInv, Lists
<1>14. InUse'
  <2> SUFFICES ASSUME NEW p \in Threads, NEW d \in Threads, Uses(p, d)'
               PROVE  /\ at'[d] # "free" /\ parent[d] = p
                      /\ value[wait_block(d)] = 0
                      /\ ~(at'[d] = "die" /\ pc'[d] = "run")
    BY <1>1, <1>9 DEF InUse
  <2>1. Uses(p, d)
    BY <1>5, <1>6, <1>8, ZenonT(20) DEF Uses
  <2>2. /\ at[d] # "free" /\ parent[d] = p
        /\ value[wait_block(d)] = 0
        /\ ~(at[d] = "die" /\ pc[d] = "run")
    BY <2>1 DEF ProcInv, InUse
  <2> QED
    BY <1>1, <1>7, <1>8, <2>2
<1>15. LetGo'
  BY <1>8, <1>9 DEF ProcInv, LetGo
<1>16. Loading'
  BY <1>1, <1>7, <1>8, <1>9 DEF ProcInv, Loading, AwaitsLoad
<1>17. Telling'
  BY <1>1, <1>8 DEF ProcInv, Telling
<1>18. ASSUME NEW p \in Threads PROVE TokenStep(p)
  <2>1. FreeIsDown(p) /\ value \in [Semas -> Nat]
    BY DEF ProcInv, FreeDown, SemaTypeOK
  <2>2. Untold(p)' \subseteq Untold(p)
    BY <1>1, <1>8 DEF Untold
  <2>3. at'[p] = "free" => at[p] = "free"
    BY <1>8
  <2>4. CASE p # t
    <3>1. Ending(p)' \/ (~Ending(p) /\ Owed(p) \subseteq Owed(p)')
      BY <1>6, <1>7, <1>8, <2>4 DEF Ending, Owed
    <3> QED
      BY <1>9, <2>1, <2>2, <2>3, <2>4, <3>1, CountKept
  <2>5. CASE p = t /\ value[x] = 0
    <3>1. ~Ending(p) /\ Owed(p) \subseteq Owed(p)'
      BY <1>1, <1>6, <1>7, <1>8, <2>5 DEF Ending, Owed
    <3>2. value'[x] = value[x]
      BY <1>7, <2>5
    <3> QED
      BY <2>1, <2>2, <2>3, <2>5, <3>1, <3>2, CountKept
  <2>6. CASE p = t /\ value[x] > 0
    <3>1. ~Ending(p) /\ ~Ending(p)' /\ c \in Owed(p) /\ Owed(p) \ {c} \subseteq Owed(p)' /\ at'[p] # "free"
      BY <1>1, <1>5, <1>6, <1>7, <1>8, <2>6 DEF Ending, Owed
    <3>2. value'[x] = value[x] - 1
      BY <1>7, <2>6
    <3> QED
      BY <2>1, <2>2, <2>6, <3>1, <3>2, TokenTaken
  <2> QED
    BY <1>7, <2>4, <2>5, <2>6
<1> QED
  BY <1>10, <1>11, <1>12, <1>13, <1>14, <1>15, <1>16, <1>17, <1>18 DEF ProcKept, ProcInv, FreeDown, TokenStep

(* The parent woken in process_wait tests its sema_parent_block again. *)
LEMMA WaitResumesInv ==
  ASSUME ProcInv, NEW t \in Threads, DownLoop(t, sema_parent_block(t)), pc[t] = "woken",
         at[t] = "stat", UNCHANGED proc_vars
  PROVE  ProcKept
<1> DEFINE x == sema_parent_block(t)
<1>1. /\ parent' = parent /\ children' = children /\ load' = load /\ target' = target
      /\ fault' = fault /\ at' = at
      /\ SemaTypeOK /\ x \in Semas
  BY SemaNames DEF ProcInv, proc_vars
<1>2. /\ \A u \in Threads \ {t} : pc'[u] = pc[u] /\ on'[u] = on[u]
      /\ \A r \in Semas \ {x} : value'[r] = value[r]
      /\ \/ value[x] > 0 /\ value'[x] = value[x] - 1 /\ pc'[t] = "run"
         \/ value[x] = 0 /\ value'[x] = 0 /\ pc'[t] = "blocked" /\ on'[t] = x
  BY <1>1, DownEffect
<1>3. /\ \A u \in Threads : /\ value'[exec_block(u)] = value[exec_block(u)]
                            /\ value'[wait_block(u)] = value[wait_block(u)]
                            /\ u # t => value'[sema_parent_block(u)] = value[sema_parent_block(u)]
  BY <1>2, SemaNames
<1>4. SemaTypeOK' /\ WaitersBlocked'
  BY <1>1, DownType, DownWaitersBlocked DEF ProcInv
<1>5. ProcType' /\ Lists' /\ Telling'
  BY <1>1 DEF ProcInv, ProcType, Lists, Telling
<1>6. Sleeping'
  BY <1>1, <1>2 DEF ProcInv, Sleeping
<1>7. InUse'
  BY <1>1, <1>2, <1>3 DEF ProcInv, InUse, Uses
<1>8. LetGo'
  BY <1>1, <1>3 DEF ProcInv, LetGo
<1>9. Loading'
  BY <1>1, <1>2, <1>3 DEF ProcInv, Loading, AwaitsLoad
<1>10. ASSUME NEW p \in Threads PROVE TokenStep(p)
  <2>1. FreeIsDown(p) /\ value \in [Semas -> Nat]
    BY DEF ProcInv, FreeDown, SemaTypeOK
  <2>2. Untold(p)' \subseteq Untold(p)
    BY <1>1 DEF Untold
  <2>3. CASE p # t
    <3>1. Ending(p)' \/ (~Ending(p) /\ Owed(p) \subseteq Owed(p)')
      BY <1>1, <1>2, <2>3 DEF Ending, Owed
    <3> QED
      BY <1>1, <1>3, <2>1, <2>2, <2>3, <3>1, CountKept
  <2>4. CASE p = t /\ value[x] = 0
    <3>1. ~Ending(p) /\ Owed(p) \subseteq Owed(p)'
      BY <1>1, <1>2, <2>4 DEF Ending, Owed
    <3>2. value'[x] = value[x]
      BY <1>2, <2>4
    <3> QED
      BY <1>1, <2>1, <2>2, <2>4, <3>1, <3>2, CountKept
  <2>5. CASE p = t /\ value[x] > 0
    <3>1. target[t] \in Threads
      BY DEF ProcInv, Lists
    <3>2. /\ ~Ending(p) /\ ~Ending(p)' /\ target[t] \in Owed(p)
          /\ Owed(p) \ {target[t]} \subseteq Owed(p)' /\ at'[p] # "free"
      BY <1>1, <1>2, <2>5, <3>1 DEF Ending, Owed
    <3>3. value'[x] = value[x] - 1
      BY <1>2, <2>5
    <3> QED
      BY <2>1, <2>2, <2>5, <3>2, <3>3, TokenTaken
  <2> QED
    BY <1>2, <2>3, <2>4, <2>5
<1> QED
  BY <1>4, <1>5, <1>6, <1>7, <1>8, <1>9, <1>10 DEF ProcKept, ProcInv, FreeDown, TokenStep

(* process_wait reads the status and lets the child go. *)
LEMMA WaitReturnInv ==
  ASSUME ProcInv, NEW t \in Threads, WaitReturn(t)
  PROVE  ProcKept
<1> DEFINE c == target[t]
           x == wait_block(c)
<1>1. /\ pc[t] = "run" /\ at[t] = "stat"
      /\ at' = [at EXCEPT ![t] = "user"] /\ target' = [target EXCEPT ![t] = NULL]
      /\ sema_up(x)
      /\ parent' = parent /\ children' = children /\ load' = load /\ fault' = fault
  BY DEF WaitReturn, At
<1>2. /\ c \in Threads /\ ~Listed(children[t], c) /\ Uses(t, c)
      /\ SemaTypeOK /\ WaitersBlocked /\ x \in Semas
  BY <1>1, SemaNames DEF ProcInv, Lists, Uses
<1>3. /\ at[c] # "free" /\ parent[c] = t /\ value[x] = 0
  BY <1>2 DEF ProcInv, InUse
<1>4. /\ on' = on /\ value'[x] = value[x] + 1
      /\ \A r \in Semas \ {x} : value'[r] = value[r]
      /\ \A u \in Threads : pc'[u] = "run" <=> pc[u] = "run"
  BY <1>1, <1>2, UpEffect
<1>5. /\ at'[t] = "user" /\ \A u \in Threads \ {t} : at'[u] = at[u] /\ target'[u] = target[u]
      /\ at' \in [Threads -> Locations] /\ target' \in [Threads -> Threads \cup {NULL}]
  BY <1>1 DEF ProcInv, ProcType, Locations
<1> HIDE DEF c
<1>6. \A u \in Threads : /\ value'[exec_block(u)] = value[exec_block(u)]
                         /\ value'[sema_parent_block(u)] = value[sema_parent_block(u)]
                         /\ u # c => value'[wait_block(u)] = value[wait_block(u)]
  BY <1>2, <1>4, SemaNames
<1>7. SemaTypeOK' /\ WaitersBlocked'
  BY <1>1, <1>2, UpType, UpWaitersBlocked
<1>8. ProcType'
  BY <1>1, <1>5 DEF ProcInv, ProcType
<1>9. Sleeping'
  BY <1>1, <1>4, <1>5 DEF ProcInv, Sleeping
<1>10. Lists'
  BY <1>1, <1>5 DEF ProcInv, Lists
<1>11. InUse'
  <2> SUFFICES ASSUME NEW p \in Threads, NEW d \in Threads, Uses(p, d)'
               PROVE  /\ at'[d] # "free" /\ parent[d] = p
                      /\ value'[wait_block(d)] = 0
                      /\ ~(at'[d] = "die" /\ pc'[d] = "run")
    BY <1>1 DEF InUse
  <2>1. Uses(p, d) /\ (p = t => Listed(children[t], d))
    BY <1>1, <1>5 DEF Uses
  <2>2. /\ at[d] # "free" /\ parent[d] = p
        /\ value[wait_block(d)] = 0
        /\ ~(at[d] = "die" /\ pc[d] = "run")
    BY <2>1 DEF ProcInv, InUse
  <2>3. d # c
    BY <1>2, <1>3, <2>1, <2>2
  <2> QED
    BY <1>4, <1>5, <1>6, <2>2, <2>3
<1>12. LetGo'
  <2>1. value'[wait_block(c)] = 1 /\ at'[c] # "free"
    BY <1>2, <1>3, <1>4, <1>5
  <2> QED
    BY <1>1, <1>5, <1>6, <2>1 DEF ProcInv, LetGo
<1>13. Loading'
  BY <1>1, <1>4, <1>5, <1>6 DEF ProcInv, Loading, AwaitsLoad
<1>14. Telling'
  BY <1>1, <1>5 DEF ProcInv, Telling
<1>15. ASSUME NEW p \in Threads PROVE TokenStep(p)
  <2>1. FreeIsDown(p) /\ value \in [Semas -> Nat]
    BY DEF ProcInv, FreeDown, SemaTypeOK
  <2>2. Untold(p)' \subseteq Untold(p)
    BY <1>1, <1>5 DEF Untold
  <2>3. Ending(p)' \/ (~Ending(p) /\ Owed(p) \subseteq Owed(p)')
    BY <1>1, <1>4, <1>5 DEF Ending, Owed
  <2>4. at'[p] = "free" => at[p] = "free"
    BY <1>1, <1>5
  <2> QED
    BY <1>6, <2>1, <2>2, <2>3, <2>4, CountKept
<1> QED
  BY <1>7, <1>8, <1>9, <1>10, <1>11, <1>12, <1>13, <1>14, <1>15 DEF ProcKept, ProcInv, FreeDown, TokenStep

(* A child ends its load and tells its parent, which waits for that. *)
LEMMA LoadInv ==
  ASSUME ProcInv, NEW t \in Threads, Load(t)
  PROVE  ProcKept
<1> DEFINE q == parent[t]
           x == exec_block(q)
<1>1. /\ pc[t] = "run" /\ at[t] = "new"
      /\ \E l \in {"user", "failed"} : at' = [at EXCEPT ![t] = l]
      /\ sema_up(x)
      /\ parent' = parent /\ children' = children /\ load' = load /\ target' = target /\ fault' = fault
  BY DEF Load, At
<1>2. /\ q \in Threads /\ AwaitsLoad(q) /\ target[q] = t /\ value[x] = 0
      /\ SemaTypeOK /\ WaitersBlocked /\ x \in Semas
  BY <1>1, SemaNames DEF ProcInv, Loading
<1>3. /\ on' = on /\ value'[x] = value[x] + 1
      /\ \A r \in Semas \ {x} : value'[r] = value[r]
      /\ \A u \in Threads : pc'[u] = "run" <=> pc[u] = "run"
  BY <1>1, <1>2, UpEffect
<1>4. /\ at'[t] \in {"user", "failed"} /\ \A u \in Threads \ {t} : at'[u] = at[u]
      /\ at' \in [Threads -> Locations]
  BY <1>1 DEF ProcInv, ProcType, Locations
<1> HIDE DEF q
<1>5. \A u \in Threads : /\ value'[wait_block(u)] = value[wait_block(u)]
                         /\ value'[sema_parent_block(u)] = value[sema_parent_block(u)]
                         /\ u # q => value'[exec_block(u)] = value[exec_block(u)]
  BY <1>2, <1>3, SemaNames
<1>6. SemaTypeOK' /\ WaitersBlocked'
  BY <1>1, <1>2, UpType, UpWaitersBlocked
<1>7. ProcType'
  BY <1>1, <1>4 DEF ProcInv, ProcType
<1>8. Sleeping'
  BY <1>1, <1>3, <1>4 DEF ProcInv, Sleeping
<1>9. Lists'
  BY <1>1, <1>4 DEF ProcInv, Lists
<1>10. InUse'
  BY <1>1, <1>3, <1>4, <1>5 DEF ProcInv, InUse, Uses
<1>11. LetGo'
  BY <1>1, <1>4, <1>5 DEF ProcInv, LetGo
<1>12. Loading'
  <2>1. \A p \in Threads : AwaitsLoad(p)' <=> AwaitsLoad(p)
    BY <1>1, <1>3, <1>4 DEF AwaitsLoad
  <2>2. value'[exec_block(q)] = 1 /\ AwaitsLoad(q)
    BY <1>2, <1>3
  <2>3. ASSUME NEW p \in Threads, at'[p] = "new"
        PROVE  /\ parent'[p] \in Threads
               /\ AwaitsLoad(parent[p])' /\ target'[parent'[p]] = p
               /\ value'[exec_block(parent'[p])] = 0
    <3>1. at[p] = "new" /\ p # t
      BY <1>4, <2>3
    <3>2. /\ parent[p] \in Threads /\ AwaitsLoad(parent[p]) /\ target[parent[p]] = p
          /\ value[exec_block(parent[p])] = 0
      BY <3>1 DEF ProcInv, Loading
    <3>3. parent[p] # q
      BY <1>2, <3>1, <3>2
    <3>4. AwaitsLoad(parent[p])'
      BY <1>1, <1>3, <1>4, <3>2 DEF AwaitsLoad
    <3> QED
      BY <1>1, <1>5, <3>2, <3>3, <3>4
  <2> QED
    BY <1>5, <2>1, <2>2, <2>3 DEF ProcInv, Loading
<1>13. Telling'
  BY <1>1, <1>4 DEF ProcInv, Telling
<1>14. ASSUME NEW p \in Threads PROVE TokenStep(p)
  <2>1. FreeIsDown(p) /\ value \in [Semas -> Nat]
    BY DEF ProcInv, FreeDown, SemaTypeOK
  <2>2. Untold(p)' \subseteq Untold(p)
    BY <1>1, <1>4 DEF Untold
  <2>3. Ending(p)' \/ (~Ending(p) /\ Owed(p) \subseteq Owed(p)')
    BY <1>1, <1>3, <1>4 DEF Ending, Owed
  <2>4. at'[p] = "free" => at[p] = "free"
    BY <1>1, <1>4
  <2> QED
    BY <1>5, <2>1, <2>2, <2>3, <2>4, CountKept
<1> QED
  BY <1>6, <1>7, <1>8, <1>9, <1>10, <1>11, <1>12, <1>13, <1>14 DEF ProcKept, ProcInv, FreeDown, TokenStep

(* process_exit tells the parent it found. *)
LEMMA ExitUpInv ==
  ASSUME ProcInv, NEW t \in Threads, ExitUp(t)
  PROVE  ProcKept
<1>1. PICK q \in {target[t], parent[t]} :
        IF q = NULL \/ at[q] = "free"
        THEN fault' = "process_exit" /\ UNCHANGED <<sema_vars, at>>
        ELSE /\ at' = [at EXCEPT ![t] = "wait"]
             /\ sema_up(sema_parent_block(q))
             /\ UNCHANGED fault
  BY DEF ExitUp
<1>2. /\ pc[t] = "run" /\ at[t] = "tell"
      /\ parent' = parent /\ children' = children /\ load' = load /\ target' = target
  BY DEF ExitUp, At
<1>3. CASE q = NULL \/ at[q] = "free"
  <2>1. /\ fault' = "process_exit" /\ at' = at
        /\ value' = value /\ waiters' = waiters /\ pc' = pc /\ on' = on
    BY <1>1, <1>3 DEF sema_vars
  <2> QED
    BY <1>2, <2>1, ProcSame DEF Faults
<1>4. CASE q # NULL /\ at[q] # "free"
  <2> DEFINE x == sema_parent_block(q)
  <2>1. at' = [at EXCEPT ![t] = "wait"] /\ sema_up(x) /\ fault' = fault
    BY <1>1, <1>4
  <2>2. q \in Threads /\ target[t] = q
    BY <1>2, <1>4 DEF ProcInv, Telling
  <2>3. SemaTypeOK /\ WaitersBlocked /\ x \in Semas
    BY <2>2, SemaNames DEF ProcInv
  <2>4. /\ on' = on /\ value'[x] = value[x] + 1
        /\ \A r \in Semas \ {x} : value'[r] = value[r]
        /\ \A u \in Threads : pc'[u] = "run" <=> pc[u] = "run"
    BY <2>1, <2>3, UpEffect
  <2>5. /\ at'[t] = "wait" /\ \A u \in Threads \ {t} : at'[u] = at[u]
        /\ at' \in [Threads -> Locations]
    BY <2>1 DEF ProcInv, ProcType, Locations
  <2>6. \A u \in Threads : /\ value'[wait_block(u)] = value[wait_block(u)]
                           /\ value'[exec_block(u)] = value[exec_block(u)]
                           /\ u # q => value'[sema_parent_block(u)] = value[sema_parent_block(u)]
    BY <2>2, <2>4, SemaNames
  <2>7. SemaTypeOK' /\ WaitersBlocked'
    BY <2>1, <2>3, UpType, UpWaitersBlocked
  <2>8. ProcType'
    BY <1>2, <2>1, <2>5 DEF ProcInv, ProcType
  <2>9. Sleeping'
    BY <1>2, <2>4, <2>5 DEF ProcInv, Sleeping
  <2>10. Lists'
    BY <1>2, <2>5 DEF ProcInv, Lists
  <2>11. InUse'
    BY <1>2, <2>4, <2>5, <2>6 DEF ProcInv, InUse, Uses
  <2>12. LetGo'
    BY <1>2, <2>5, <2>6 DEF ProcInv, LetGo
  <2>13. Loading'
    BY <1>2, <2>4, <2>5, <2>6 DEF ProcInv, Loading, AwaitsLoad
  <2>14. Telling'
    BY <1>2, <2>5 DEF ProcInv, Telling
  <2>15. ASSUME NEW p \in Threads PROVE TokenStep(p)
    <3>1. FreeIsDown(p) /\ value \in [Semas -> Nat]
      BY DEF ProcInv, FreeDown, SemaTypeOK
    <3>2. Untold(p)' \subseteq Untold(p) \ {t}
      BY <1>2, <2>5 DEF Untold
    <3>3. Ending(p)' \/ (~Ending(p) /\ Owed(p) \subseteq Owed(p)')
      BY <1>2, <2>4, <2>5 DEF Ending, Owed
    <3>4. at'[p] = "free" => at[p] = "free"
      BY <2>5
    <3>5. CASE p # q
      BY <2>6, <3>1, <3>2, <3>3, <3>4, <3>5, CountKept
    <3>6. CASE p = q
      <4>1. t \in Untold(p)
        BY <1>2, <2>2, <3>6 DEF Untold
      <4>2. (Ending(p)' <=> Ending(p)) /\ Owed(p)' = Owed(p)
        BY <1>2, <2>4, <2>5 DEF Ending, Owed
      <4>3. value'[sema_parent_block(p)] = value[sema_parent_block(p)] + 1 /\ at'[p] # "free"
        BY <1>4, <2>4, <3>4, <3>6
      <4> QED
        BY <3>2, <4>1, <4>2, <4>3 DEF TokenStep, Told, FreeIsDown
    <3> QED
      BY <3>5, <3>6
  <2> QED
    BY <2>7, <2>8, <2>9, <2>10, <2>11, <2>12, <2>13, <2>14, <2>15 DEF ProcKept, ProcInv, FreeDown, TokenStep
<1> QED
  BY <1>3, <1>4

(* The page of a process that has ended is freed. *)
LEMMA DieInv ==
  ASSUME ProcInv, NEW t \in Threads, Die(t)
  PROVE  ProcKept
<1>1. /\ pc[t] = "run" /\ at[t] = "die"
      /\ at' = [at EXCEPT ![t] = "free"] /\ parent' = [parent EXCEPT ![t] = NULL]
      /\ load' = [load EXCEPT ![t] = 1] /\ target' \in [Threads -> Threads \cup {NULL}]
      /\ \A u \in Threads \ {t} : at[u] # "next" => target'[u] = target[u]
      /\ value' = [s \in Semas |-> IF s[2] = t THEN 0 ELSE value[s]]
      /\ waiters' = waiters /\ pc' = pc /\ on' = on /\ children' = children /\ fault' = fault
  BY DEF Die, At, ProcInv, ProcType
<1>2. /\ at'[t] = "free" /\ parent'[t] = NULL
      /\ \A u \in Threads \ {t} : at'[u] = at[u] /\ parent'[u] = parent[u]
      /\ at' \in [Threads -> Locations]
      /\ parent' \in [Threads -> Threads \cup {NULL}] /\ load' \in [Threads -> {0, 1}]
  BY <1>1 DEF ProcInv, ProcType, Locations
<1>3. \A u \in Threads :
        /\ value'[wait_block(u)] = IF u = t THEN 0 ELSE value[wait_block(u)]
        /\ value'[sema_parent_block(u)] = IF u = t THEN 0 ELSE value[sema_parent_block(u)]
        /\ value'[exec_block(u)] = IF u = t THEN 0 ELSE value[exec_block(u)]
  <2>1. \A u \in Threads : /\ wait_block(u) \in Semas /\ wait_block(u)[2] = u
                           /\ sema_parent_block(u) \in Semas /\ sema_parent_block(u)[2] = u
                           /\ exec_block(u) \in Semas /\ exec_block(u)[2] = u
    BY SemaNames DEF wait_block, sema_parent_block, exec_block
  <2> QED
    BY <1>1, <2>1
<1>4. ~\E p \in Threads : Uses(p, t)
  BY <1>1 DEF ProcInv, InUse
<1>5. value' \in [Semas -> Nat]
  BY <1>1 DEF ProcInv, SemaTypeOK
<1>6. SemaTypeOK' /\ WaitersBlocked'
  BY <1>1, <1>5, SemaKept DEF ProcInv
<1>7. ProcType'
  BY <1>1, <1>2 DEF ProcInv, ProcType
<1>8. Sleeping'
  BY <1>1, <1>2 DEF ProcInv, Sleeping
<1>9. Lists'
  BY <1>1, <1>2 DEF ProcInv, Lists
<1>10. InUse'
  <2> SUFFICES ASSUME NEW p \in Threads, NEW d \in Threads, Uses(p, d)'
               PROVE  /\ at'[d] # "free" /\ parent'[d] = p
                      /\ value'[wait_block(d)] = 0
                      /\ ~(at'[d] = "die" /\ pc[d] = "run")
    BY <1>1 DEF InUse
  <2>1. Uses(p, d)
    BY <1>1, <1>2 DEF Uses
  <2>2. d # t
    BY <1>4, <2>1
  <2>3. /\ at[d] # "free" /\ parent[d] = p
        /\ value[wait_block(d)] = 0
        /\ ~(at[d] = "die" /\ pc[d] = "run")
    BY <2>1 DEF ProcInv, InUse
  <2> QED
    BY <1>2, <1>3, <2>2, <2>3
<1>11. LetGo'
  BY <1>2, <1>3 DEF ProcInv, LetGo
<1>12. Loading'
  <2>1. \A p \in Threads : AwaitsLoad(p)' <=> AwaitsLoad(p)
    BY <1>1, <1>2 DEF AwaitsLoad
  <2>2. ASSUME NEW p \in Threads, at'[p] = "new"
        PROVE  /\ parent'[p] \in Threads
               /\ AwaitsLoad(parent[p])' /\ target'[parent'[p]] = p
               /\ value'[exec_block(parent'[p])] = 0
    <3>1. at[p] = "new" /\ p # t
      BY <1>2, <2>2
    <3>2. /\ parent[p] \in Threads /\ AwaitsLoad(parent[p]) /\ target[parent[p]] = p
          /\ value[exec_block(parent[p])] = 0
      BY <3>1 DEF ProcInv, Loading
    <3>3. parent[p] # t
      BY <1>1, <3>2 DEF AwaitsLoad
    <3>4. parent'[p] = parent[p] /\ AwaitsLoad(parent[p])'
      BY <1>1, <1>2, <3>1, <3>2, <3>3 DEF AwaitsLoad
    <3> QED
      BY <1>1, <1>2, <1>3, <3>2, <3>3, <3>4 DEF AwaitsLoad
  <2>3. \A p \in Threads : /\ value'[exec_block(p)] \in {0, 1}
                           /\ ~AwaitsLoad(p)' => value'[exec_block(p)] = 0
    BY <1>3, <2>1 DEF ProcInv, Loading
  <2> QED
    BY <2>2, <2>3 DEF Loading
<1>13. Telling'
  BY <1>1, <1>2 DEF ProcInv, Telling
<1>14. ASSUME NEW p \in Threads PROVE TokenStep(p)
  <2>1. FreeIsDown(p) /\ value \in [Semas -> Nat]
    BY DEF ProcInv, FreeDown, SemaTypeOK
  <2>2. Untold(p)' \subseteq Untold(p)
    BY <1>1, <1>2 DEF Untold
  <2>3. CASE p # t
    <3>1. Ending(p)' \/ (~Ending(p) /\ Owed(p) \subseteq Owed(p)')
      BY <1>1, <1>2, <2>3 DEF Ending, Owed
    <3>2. value'[sema_parent_block(p)] = value[sema_parent_block(p)] /\ (at'[p] = "free" => at[p] = "free")
      BY <1>2, <1>3, <2>3
    <3> QED
      BY <2>1, <2>2, <3>1, <3>2, CountKept
  <2>4. CASE p = t
    <3>1. value'[sema_parent_block(p)] = 0 /\ ~Ending(p)'
      BY <1>2, <1>3, <2>4 DEF Ending
    <3> QED
      BY <3>1 DEF TokenStep, Fresh, FreeIsDown
  <2> QED
    BY <2>3, <2>4
<1> QED
  BY <1>6, <1>7, <1>8, <1>9, <1>10, <1>11, <1>12, <1>13, <1>14 DEF ProcKept, ProcInv, FreeDown, TokenStep

(* A sleeping sema_down goes on where the process was. *)
LEMMA WakeInv ==
  ASSUME ProcInv, NEW t \in Threads, Wake(t)
  PROVE  ProcKept
<1>1. /\ pc[t] = "woken" /\ DownLoop(t, on[t]) /\ UNCHANGED proc_vars
      /\ at' = at /\ UNCHANGED <<parent, children, load, target, fault>>
  BY DEF Wake, Resume, proc_vars
<1>2. \/ at[t] = "loaded" /\ on[t] = exec_block(t)
      \/ at[t] = "stat" /\ on[t] = sema_parent_block(t)
      \/ at[t] = "die" /\ on[t] = wait_block(t)
  BY <1>1 DEF ProcInv, Sleeping
<1>3. \A l : at[t] = l => at' = [at EXCEPT ![t] = l]
  BY <1>1 DEF ProcInv, ProcType
<1>4. CASE at[t] = "loaded" /\ on[t] = exec_block(t)
  <2>1. DownLoop(t, exec_block(t)) /\ AwaitsLoad(t) /\ at' = [at EXCEPT ![t] = "loaded"]
    BY <1>1, <1>3, <1>4 DEF AwaitsLoad
  <2> QED
    BY <1>1, <2>1, ExecDownInv
<1>5. CASE at[t] = "stat" /\ on[t] = sema_parent_block(t)
  <2>1. DownLoop(t, sema_parent_block(t))
    BY <1>1, <1>5
  <2> QED
    BY <1>1, <1>5, <2>1, WaitResumesInv
<1>6. CASE at[t] = "die" /\ on[t] = wait_block(t)
  <2>1. DownLoop(t, wait_block(t)) /\ at' = [at EXCEPT ![t] = "die"]
    BY <1>1, <1>3, <1>6
  <2> QED
    BY <1>1, <1>6, <2>1, ExitDownInv
<1> QED
  BY <1>2, <1>4, <1>5, <1>6

-----------------------------------------------------------------------------
LEMMA ProcInit == Init => ProcInv
<1> SUFFICES ASSUME Init PROVE ProcInv
  OBVIOUS
<1>1. /\ value = [s \in Semas |-> 0] /\ waiters = [s \in Semas |-> <<>>]
      /\ pc = [t \in Threads |-> "run"] /\ on = [t \in Threads |-> Nowhere]
  BY ProcessAssumption DEF Init, SemaInit
<1>2. /\ at = [t \in Threads |-> IF t = first THEN "user" ELSE "free"]
      /\ parent = [t \in Threads |-> NULL] /\ children = [t \in Threads |-> <<>>]
      /\ load = [t \in Threads |-> 1] /\ target = [t \in Threads |-> NULL] /\ fault = "no"
  BY DEF Init
<1>3. SemaTypeOK
  <2>1. waiters \in [Semas -> Seq(Threads)]
    BY <1>1, EmptyLists
  <2>2. value \in [Semas -> Nat]
    BY <1>1
  <2>3. Nowhere \in Semas
    BY NowhereType
  <2>4. pc \in [Threads -> {"run", "blocked", "woken"}] /\ on \in [Threads -> Semas]
    BY <1>1, <2>3
  <2> QED
    BY <2>1, <2>2, <2>4 DEF SemaTypeOK
<1>4. WaitersBlocked
  BY <1>1 DEF WaitersBlocked
<1>5. ProcType
  <2>1. children \in [Threads -> Seq(Threads)]
    BY <1>2, EmptyLists
  <2> QED
    BY <1>2, <2>1 DEF ProcType, Locations, Faults
<1>6. Sleeping /\ Telling
  BY <1>1, <1>2 DEF Sleeping, Telling
<1>7. Lists
  BY <1>2, EmptyLists DEF Lists
<1>8. InUse
  BY <1>2, EmptyLists DEF InUse, Uses
<1>9. \A t \in Threads : /\ value[wait_block(t)] = 0 /\ value[exec_block(t)] = 0
                         /\ value[sema_parent_block(t)] = 0
  BY <1>1, SemaNames
<1>10. LetGo /\ Loading
  BY <1>2, <1>9 DEF LetGo, Loading
<1>11. FreeDown
  BY <1>9 DEF FreeDown, FreeIsDown
<1> QED
  BY <1>3, <1>4, <1>5, <1>6, <1>7, <1>8, <1>10, <1>11 DEF ProcInv

LEMMA ProcStep == ProcInv /\ [Next]_vars => ProcKept
<1> SUFFICES ASSUME ProcInv, [Next]_vars PROVE ProcKept
  OBVIOUS
<1>1. CASE Next
  <2>1. PICK t \in Threads :
          \/ Kernel(t) \/ Exit(t) \/ ExecuteNoPage(t) \/ LoadNoStack(t)
          \/ \E c \in Threads : process_execute(t, c) \/ process_wait(t, c)
    BY <1>1, Zenon DEF Next
  <2>2. CASE ExecDown(t)
    <3>1. /\ DownLoop(t, exec_block(t)) /\ pc[t] # "blocked" /\ AwaitsLoad(t)
          /\ at' = [at EXCEPT ![t] = "loaded"] /\ UNCHANGED <<parent, children, load, target, fault>>
      BY <2>2 DEF ExecDown, At, sema_down, AwaitsLoad
    <3> QED
      BY <3>1, ExecDownInv
  <2>3. CASE ExitDown(t)
    <3>1. /\ DownLoop(t, wait_block(t)) /\ pc[t] # "blocked" /\ at[t] \in {"wait", "die"}
          /\ at' = [at EXCEPT ![t] = "die"] /\ UNCHANGED <<parent, children, load, target, fault>>
      BY <2>3 DEF ExitDown, At, sema_down
    <3> QED
      BY <3>1, ExitDownInv
  <2>4. CASE Kernel(t)
    BY <2>2, <2>3, <2>4, ExecReturnInv, LoadInv, ExitInv, WaitReturnInv, OrphanInv, NextChildInv,
       ProcessExitInv,
       ExitUpInv, DieInv, WakeInv DEF Kernel
  <2> QED
    BY <2>1, <2>4, ExitInv, NoPageInv, NoStackInv, ExecuteInv, ProcessWaitInv
<1>2. CASE UNCHANGED vars
  <2>1. /\ value' = value /\ waiters' = waiters /\ pc' = pc /\ on' = on
        /\ at' = at /\ parent' = parent /\ children' = children /\ load' = load
        /\ target' = target /\ fault' = fault
    BY <1>2 DEF vars, sema_vars, proc_vars
  <2>2. fault' \in Faults
    BY <2>1 DEF ProcInv, ProcType
  <2> QED
    BY <2>1, <2>2, ProcSame
<1> QED
  BY <1>1, <1>2

LEMMA ProcInvGives == ProcInv => (TypeOK => ChildOutlivesUse) /\ ExecWaitsForLoad /\ LetGoOnce
<1> SUFFICES ASSUME ProcInv PROVE (TypeOK => ChildOutlivesUse) /\ ExecWaitsForLoad /\ LetGoOnce
  OBVIOUS
<1>2. \A p \in Threads : children[p] \in Seq(Threads) /\ DOMAIN children[p] = 1 .. Len(children[p])
  BY DEF ProcInv, ProcType
<1>3. ASSUME NEW p \in Threads, NEW i \in DOMAIN children[p]
      PROVE  children[p][i] \in Threads /\ Uses(p, children[p][i])
  BY <1>2 DEF Uses, Listed
<1>4. ASSUME NEW p \in Threads, at[p] \in {"exec", "loaded", "stat"}
      PROVE  target[p] \in Threads /\ Uses(p, target[p])
  BY <1>4 DEF ProcInv, Lists, Uses
<1>5. TypeOK => ChildOutlivesUse
  <2> SUFFICES ASSUME NEW p \in Threads, at[p] # "free",
                      NEW c \in {children[p][i] : i \in DOMAIN children[p]}
                         \cup (IF at[p] \in {"exec", "loaded", "stat"} THEN {target[p]} ELSE {})
               PROVE  at[c] # "free" /\ parent[c] = p
    BY DEF ChildOutlivesUse
  <2>1. c \in Threads /\ Uses(p, c)
    <3>1. CASE c \in {children[p][i] : i \in DOMAIN children[p]}
      BY <1>3, <3>1
    <3>2. CASE c \notin {children[p][i] : i \in DOMAIN children[p]}
      BY <1>4, <3>2
    <3> QED
      BY <3>1, <3>2
  <2> QED
    BY <2>1 DEF ProcInv, InUse
<1>6. ExecWaitsForLoad
  <2> SUFFICES ASSUME NEW p \in Threads, at[p] = "loaded", pc[p] = "run", at[target[p]] = "new"
               PROVE  FALSE
    BY DEF ExecWaitsForLoad
  <2>1. target[p] \in Threads /\ parent[target[p]] = p
    BY <1>4 DEF ProcInv, InUse
  <2>2. AwaitsLoad(p)
    BY <2>1 DEF ProcInv, Loading
  <2> QED
    BY <2>2 DEF AwaitsLoad
<1>7. LetGoOnce
  <2>1. \A c \in Threads : value[wait_block(c)] <= 1
    BY DEF ProcInv, LetGo
  <2>2. ASSUME NEW c \in Threads, value[wait_block(c)] = 1,
               NEW p \in Threads, NEW i \in DOMAIN children[p]
        PROVE  children[p][i] # c
    BY <1>3, <2>2 DEF ProcInv, InUse
  <2> QED
    BY <2>1, <2>2 DEF LetGoOnce
<1> QED
  BY <1>5, <1>6, <1>7

-----------------------------------------------------------------------------
(* The number of tokens. *)

(* Sets of processes are finite. *)
LEMMA CountFacts ==
  ASSUME NEW p \in Threads
  PROVE  /\ Cardinality(Threads) \in Nat /\ Cardinality(Threads) >= 1
         /\ IsFiniteSet(Untold(p)) /\ Cardinality(Untold(p)) \in Nat
         /\ Cardinality(Untold(p)) <= Cardinality(Threads)
         /\ IsFiniteSet(Owed(p)) /\ Cardinality(Owed(p)) \in Nat
         /\ Cardinality(Owed(p)) <= Cardinality(Threads)
<1>1. IsFiniteSet(Threads) /\ Threads # {}
  BY SemaphoreAssumption, ProcessAssumption
<1>2. Untold(p) \subseteq Threads /\ Owed(p) \subseteq Threads
  BY DEF Untold, Owed
<1>3. Cardinality(Threads) \in Nat /\ Cardinality(Threads) # 0
  BY <1>1, FS_CardinalityType, FS_EmptySet
<1>4. /\ IsFiniteSet(Untold(p)) /\ Cardinality(Untold(p)) \in Nat
      /\ Cardinality(Untold(p)) <= Cardinality(Threads)
  BY <1>1, <1>2, FS_Subset, FS_CardinalityType
<1>5. /\ IsFiniteSet(Owed(p)) /\ Cardinality(Owed(p)) \in Nat
      /\ Cardinality(Owed(p)) <= Cardinality(Threads)
  BY <1>1, <1>2, FS_Subset, FS_CardinalityType
<1> QED
  BY <1>3, <1>4, <1>5

(* A token of p's sema_parent_block comes from a child that p may still wait *)
(* for, or from one of the processes that had a pointer to p's page before.  *)
CountOf(p) ==
  value[sema_parent_block(p)] + Cardinality(Untold(p)) <=
    Cardinality(Threads) + (IF Ending(p) THEN Cardinality(Threads) ELSE Cardinality(Owed(p)))

Counted == \A p \in Threads : CountOf(p)

LEMMA CountStep ==
  ASSUME SemaTypeOK, NEW p \in Threads, CountOf(p), TokenStep(p)
  PROVE  CountOf(p)'
<1> DEFINE N == Cardinality(Threads)
           v == value[sema_parent_block(p)]
           w == value'[sema_parent_block(p)]
           a == Cardinality(Untold(p))
           b == Cardinality(Untold(p)')
           c == Cardinality(Owed(p))
           d == Cardinality(Owed(p)')
<1>1. /\ N \in Nat /\ a \in Nat /\ c \in Nat /\ c <= N /\ v \in Nat
      /\ IsFiniteSet(Untold(p)) /\ IsFiniteSet(Owed(p))
  BY CountFacts, SemaNames DEF SemaTypeOK
<1>2. IsFiniteSet(Untold(p)') /\ IsFiniteSet(Owed(p)') /\ b \in Nat /\ d \in Nat /\ b <= N
  <2>1. Untold(p)' \subseteq Threads /\ Owed(p)' \subseteq Threads
    BY DEF Untold, Owed
  <2> QED
    BY <2>1, SemaphoreAssumption, FS_Subset, FS_CardinalityType
<1>3. v + a <= N + (IF Ending(p) THEN N ELSE c)
  BY DEF CountOf
<1>4. \A c0 : /\ IsFiniteSet(Untold(p) \cup {c0}) /\ Cardinality(Untold(p) \cup {c0}) <= a + 1
              /\ c0 \in Untold(p) => IsFiniteSet(Untold(p) \ {c0}) /\ Cardinality(Untold(p) \ {c0}) = a - 1
              /\ c0 \notin Owed(p) => Cardinality(Owed(p) \cup {c0}) = c + 1
              /\ c0 \in Owed(p) => Cardinality(Owed(p) \ {c0}) = c - 1
  <2> TAKE c0
  <2>1. /\ IsFiniteSet(Untold(p) \cup {c0})
        /\ Cardinality(Untold(p) \cup {c0}) = IF c0 \in Untold(p) THEN a ELSE a + 1
    BY <1>1, FS_AddElement
  <2>2. c0 \in Untold(p) => IsFiniteSet(Untold(p) \ {c0}) /\ Cardinality(Untold(p) \ {c0}) = a - 1
    BY <1>1, FS_RemoveElement
  <2>3. c0 \notin Owed(p) => Cardinality(Owed(p) \cup {c0}) = c + 1
    BY <1>1, FS_AddElement
  <2>4. c0 \in Owed(p) => Cardinality(Owed(p) \ {c0}) = c - 1
    BY <1>1, FS_RemoveElement
  <2> HIDE DEF a
  <2>5. Cardinality(Untold(p) \cup {c0}) <= a + 1
    BY <1>1, <2>1
  <2> QED
    BY <2>1, <2>2, <2>3, <2>4, <2>5
<1>5. SUFFICES w + b <= N + (IF Ending(p)' THEN N ELSE d)
  BY DEF CountOf
<1>6. CASE NoneMoved(p)
  <2>1. w = v /\ b <= a /\ (~Ending(p)' => ~Ending(p) /\ c <= d)
    BY <1>1, <1>2, <1>6, FS_Subset DEF NoneMoved
  <2> HIDE DEF N, v, w, a, b, c, d
  <2> QED
    BY <1>1, <1>2, <1>3, <2>1
<1>7. CASE ChildMade(p)
  <2>1. PICK e \in Threads \ Owed(p) :
          /\ w = v /\ Untold(p)' \subseteq Untold(p) \cup {e}
          /\ ~Ending(p) /\ ~Ending(p)' /\ Owed(p)' = Owed(p) \cup {e}
    BY <1>7 DEF ChildMade
  <2>2. b <= Cardinality(Untold(p) \cup {e}) /\ Cardinality(Untold(p) \cup {e}) \in Nat
    BY <1>4, <2>1, FS_Subset, FS_CardinalityType
  <2>3. Cardinality(Untold(p) \cup {e}) <= a + 1 /\ d = c + 1
    BY <1>4, <2>1
  <2> HIDE DEF N, v, w, a, b, c, d
  <2> QED
    BY <1>1, <1>2, <1>3, <2>1, <2>2, <2>3
<1>8. CASE Told(p)
  <2>1. PICK e \in Untold(p) :
          /\ w = v + 1 /\ Untold(p)' \subseteq Untold(p) \ {e}
          /\ (Ending(p)' <=> Ending(p)) /\ Owed(p)' = Owed(p)
    BY <1>8 DEF Told
  <2>2. b <= Cardinality(Untold(p) \ {e}) /\ d = c
    BY <1>4, <2>1, FS_Subset
  <2>3. Cardinality(Untold(p) \ {e}) = a - 1
    BY <1>4
  <2> HIDE DEF N, v, w, a, b, c, d
  <2> QED
    BY <1>1, <1>2, <1>3, <2>1, <2>2, <2>3
<1>9. CASE Taken(p)
  <2>1. PICK e \in Owed(p) :
          /\ v > 0 /\ w = v - 1 /\ Untold(p)' \subseteq Untold(p)
          /\ ~Ending(p) /\ ~Ending(p)' /\ Owed(p) \ {e} \subseteq Owed(p)'
    BY <1>9 DEF Taken
  <2>2. b <= a /\ Cardinality(Owed(p) \ {e}) <= d
    BY <1>1, <1>2, <2>1, FS_Subset
  <2>3. Cardinality(Owed(p) \ {e}) = c - 1
    BY <1>4
  <2> HIDE DEF N, v, w, a, b, c, d
  <2> QED
    BY <1>1, <1>2, <1>3, <2>1, <2>2, <2>3
<1>10. CASE Fresh(p)
  <2>1. w = 0 /\ ~Ending(p)'
    BY <1>10 DEF Fresh
  <2> HIDE DEF N, w, b, d
  <2> QED
    BY <1>1, <1>2, <2>1
<1> QED
  BY <1>6, <1>7, <1>8, <1>9, <1>10 DEF TokenStep

LEMMA CountInit == Init => Counted
<1> SUFFICES ASSUME Init, NEW p \in Threads PROVE CountOf(p)
  BY DEF Counted
<1>1. /\ Cardinality(Threads) \in Nat /\ Cardinality(Untold(p)) \in Nat
      /\ Cardinality(Untold(p)) <= Cardinality(Threads)
      /\ Cardinality(Owed(p)) \in Nat
  BY CountFacts
<1>2. value[sema_parent_block(p)] = 0
  BY SemaNames, ProcessAssumption DEF Init, SemaInit
<1> QED
  BY <1>1, <1>2 DEF CountOf

LEMMA CountedStep == ProcInv /\ Counted /\ [Next]_vars => ProcInv' /\ Counted'
<1> SUFFICES ASSUME ProcInv, Counted, [Next]_vars PROVE ProcInv' /\ Counted'
  OBVIOUS
<1>1. ProcInv' /\ \A p \in Threads : TokenStep(p)
  BY ProcStep DEF ProcKept
<1>2. ASSUME NEW p \in Threads PROVE CountOf(p)'
  BY <1>1, CountStep DEF ProcInv, Counted
<1> QED
  BY <1>1, <1>2 DEF Counted

(* The values of the semaphores, from the tokens counted. *)
LEMMA FewTokens ==
  ASSUME ProcInv, Counted, NEW s \in Semas
  PROVE  value[s] <= 2 * Cardinality(Threads)
<1> DEFINE N == Cardinality(Threads)
<1>1. PICK t \in Threads : s = wait_block(t) \/ s = sema_parent_block(t) \/ s = exec_block(t)
  BY SemaIsNamed
<1>2. N \in Nat /\ N >= 1 /\ value[s] \in Nat
  BY CountFacts DEF ProcInv, SemaTypeOK
<1>3. CASE s = wait_block(t) \/ s = exec_block(t)
  <2>1. value[s] \in {0, 1}
    BY <1>3 DEF ProcInv, LetGo, Loading
  <2> HIDE DEF N
  <2>2. value[s] <= 2 * N
    BY <1>2, <2>1
  <2> QED
    BY <2>2 DEF N
<1>4. CASE s = sema_parent_block(t)
  <2>1. value[s] + Cardinality(Untold(t)) <= N + (IF Ending(t) THEN N ELSE Cardinality(Owed(t)))
    BY <1>4 DEF Counted, CountOf
  <2>2. Cardinality(Untold(t)) \in Nat /\ Cardinality(Owed(t)) \in Nat /\ Cardinality(Owed(t)) <= N
    BY CountFacts
  <2> HIDE DEF N
  <2>3. value[s] <= 2 * N
    BY <1>2, <2>1, <2>2
  <2> QED
    BY <2>3 DEF N
<1> QED
  BY <1>1, <1>3, <1>4

LEMMA Typed == ProcInv /\ Counted => TypeOK
BY FewTokens DEF TypeOK, ProcInv, ProcType

(* A child that process_exit's loop has not reached is not freed while its  *)
(* parent has it on its list, executes it or waits for it, and has that     *)
(* parent, whoever exits, waits or is created in a page used before, and    *)
(* however many processes there are; no semaphore ever holds more than      *)
(* twice as many tokens as there are pages.  The child that the loop has    *)
(* just orphaned is the parent's no more: its list_next may find it freed.  *)
THEOREM ChildrenOutliveUse == Spec => []ChildOutlivesUse
BY ProcInit, CountInit, CountedStep, ProcInvGives, Typed, PTL DEF Spec

(* process_execute does not go on while its child still loads. *)
THEOREM ExecWaits == Spec => []ExecWaitsForLoad
BY ProcInit, CountInit, CountedStep, ProcInvGives, PTL DEF Spec

(* The wait_block of a child is raised at most once, and only when no list  *)
(* has the child any more.                                                  *)
THEOREM ChildrenAreLetGoOnce == Spec => []LetGoOnce
BY ProcInit, CountInit, CountedStep, ProcInvGives, PTL DEF Spec
=============================================================================
