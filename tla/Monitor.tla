------------------------------- MODULE Monitor -------------------------------
(***************************************************************************)
(* The locks and condition variables of threads/synch.c, built on its      *)
(* semaphores: one lock, one condition variable, and threads that acquire, *)
(* release, wait, signal and broadcast in any order the assertions allow.  *)
(*                                                                         *)
(* Only the semaphore operations are atomic in the code; the assignments   *)
(* to lock->holder are steps of their own.  The semaphore_elem on the      *)
(* stack of a thread in cond_wait is the semaphore named after the thread. *)
(***************************************************************************)
EXTENDS Semaphore

CONSTANTS Lock, NULL

ASSUME MonitorAssumption ==
  /\ Lock \notin Threads /\ NULL \notin Threads
  /\ Semas = Threads \cup {Lock}
  /\ MaxValue >= 1
  /\ InitValue = [s \in Semas |-> IF s = Lock THEN 1 ELSE 0]   \* lock_init

VARIABLES
  holder,       \* lock->holder
  cond_waiters, \* cond->waiters: the threads whose semaphore_elem is on it
  at            \* at[t]: where t is in the lock and condition variable code

vars == <<sema_vars, holder, cond_waiters, at>>

(* Locations: "out" has not got the lock, "got" is behind the sema_down of   *)
(* lock_acquire, "in" holds the lock, "release" is before the sema_up of     *)
(* lock_release, "bcast" is in cond_broadcast; "wait" to "wacq" are the       *)
(* calls of cond_wait after its list_push_back.                              *)
Locations ==
  {"out", "got", "in", "release", "bcast", "wait", "wrelease", "wdown", "wacq"}

Goto(t, from, to) ==
  /\ pc[t] = "run"
  /\ at[t] = from
  /\ at' = [at EXCEPT ![t] = to]

Init ==
  /\ SemaInit
  /\ holder = NULL
  /\ cond_waiters = <<>>
  /\ at = [t \in Threads |-> "out"]

(* Mutants. *)

\* Leaves lock->holder set.
ReleaseHolder_keep(t) ==
  /\ Goto(t, "in", "release")
  /\ UNCHANGED <<sema_vars, holder, cond_waiters>>

\* Signals without list_pop_front.
cond_signal_no_pop(t) ==
  /\ Goto(t, "in", "in")
  /\ cond_waiters # <<>>
  /\ sema_up(Head(cond_waiters))
  /\ UNCHANGED <<holder, cond_waiters>>

\* Returns from cond_wait without taking the lock again.
WaitAcquire_skip(t) ==
  /\ Goto(t, "wacq", "got")
  /\ UNCHANGED <<sema_vars, holder, cond_waiters>>

\* Signals every waiter but the last.
Broadcast_stops_early(t) ==
  /\ IF Len(cond_waiters) > 1
     THEN /\ Goto(t, "bcast", "bcast")
          /\ sema_up(Head(cond_waiters))
          /\ cond_waiters' = Tail(cond_waiters)
          /\ UNCHANGED holder
     ELSE Goto(t, "bcast", "in") /\ UNCHANGED <<sema_vars, holder, cond_waiters>>

-----------------------------------------------------------------------------
(* lock_acquire, up to the return of sema_down; Resume completes a call     *)
(* that slept.                                                              *)
lock_acquire(t) ==
  /\ Goto(t, "out", "got")
  /\ sema_down(t, Lock)
  /\ UNCHANGED <<holder, cond_waiters>>

lock_try_acquire(t) ==
  /\ Goto(t, "out", "got")
  /\ sema_try_down(t, Lock)
  /\ UNCHANGED <<holder, cond_waiters>>

(* The last statement of lock_acquire and lock_try_acquire. *)
SetHolder(t) ==
  /\ Goto(t, "got", "in")
  /\ holder' = t
  /\ UNCHANGED <<sema_vars, cond_waiters>>

(* The two statements of lock_release. *)
ReleaseHolder(t) ==
  /\ Goto(t, "in", "release")
  /\ holder' = NULL
  /\ UNCHANGED <<sema_vars, cond_waiters>>

ReleaseUp(t) ==
  /\ Goto(t, "release", "out")
  /\ sema_up(Lock)
  /\ UNCHANGED <<holder, cond_waiters>>

(* cond_wait: sema_init of the waiter and list_push_back, ...               *)
cond_wait(t) ==
  /\ Goto(t, "in", "wait")
  /\ value' = [value EXCEPT ![t] = 0]
  /\ cond_waiters' = Append(cond_waiters, t)
  /\ UNCHANGED <<waiters, pc, on, holder>>

(* ... lock_release, ...                                                    *)
WaitReleaseHolder(t) ==
  /\ Goto(t, "wait", "wrelease")
  /\ holder' = NULL
  /\ UNCHANGED <<sema_vars, cond_waiters>>

WaitReleaseUp(t) ==
  /\ Goto(t, "wrelease", "wdown")
  /\ sema_up(Lock)
  /\ UNCHANGED <<holder, cond_waiters>>

(* ... sema_down of its own semaphore, ...                                  *)
WaitDown(t) ==
  /\ Goto(t, "wdown", "wacq")
  /\ sema_down(t, t)
  /\ UNCHANGED <<holder, cond_waiters>>

(* ... and lock_acquire.                                                    *)
WaitAcquire(t) ==
  /\ Goto(t, "wacq", "got")
  /\ sema_down(t, Lock)
  /\ UNCHANGED <<holder, cond_waiters>>

(* list_pop_front and sema_up are one step: the list belongs to the holder  *)
(* of the lock.  On an empty list the function does nothing.                *)
cond_signal(t) ==
  /\ Goto(t, "in", "in")
  /\ cond_waiters # <<>>
  /\ sema_up(Head(cond_waiters))
  /\ cond_waiters' = Tail(cond_waiters)
  /\ UNCHANGED holder

cond_broadcast(t) ==
  /\ Goto(t, "in", "bcast")
  /\ UNCHANGED <<sema_vars, holder, cond_waiters>>

(* One test of the while condition of cond_broadcast. *)
Broadcast(t) ==
  \/ /\ Goto(t, "bcast", "bcast")
     /\ cond_waiters # <<>>
     /\ sema_up(Head(cond_waiters))
     /\ cond_waiters' = Tail(cond_waiters)
     /\ UNCHANGED holder
  \/ /\ Goto(t, "bcast", "in")
     /\ cond_waiters = <<>>
     /\ UNCHANGED <<sema_vars, holder, cond_waiters>>

(* thread_block returns inside a sema_down. *)
Wake(t) == Resume(t) /\ UNCHANGED <<holder, cond_waiters, at>>

(* The steps inside a call, which the thread takes when it runs. *)
Continue(t) ==
  \/ SetHolder(t) \/ ReleaseUp(t) \/ Broadcast(t) \/ Wake(t)
  \/ WaitReleaseHolder(t) \/ WaitReleaseUp(t) \/ WaitDown(t) \/ WaitAcquire(t)

Call(t) ==
  \/ lock_acquire(t) \/ lock_try_acquire(t) \/ ReleaseHolder(t)
  \/ cond_wait(t) \/ cond_signal(t) \/ cond_broadcast(t)

Next == \E t \in Threads : Continue(t) \/ Call(t)

Spec == Init /\ [][Next]_vars

(* Every runnable thread is run (round robin among equals); nothing makes a *)
(* thread call anything, except that a holder leaves the monitor some day.  *)
FairSpec ==
  /\ Spec
  /\ \A t \in Threads : WF_vars(Continue(t))
  /\ \A t \in Threads : SF_vars(ReleaseHolder(t) \/ cond_wait(t))

-----------------------------------------------------------------------------
(* The type of the variables. *)
TypeOK ==
  /\ SemaTypeOK
  /\ holder \in Threads \cup {NULL}
  /\ cond_waiters \in Seq(Threads)
  /\ at \in [Threads -> Locations]

(* The threads that own the lock: behind the sema_down, before the sema_up. *)
Owner(t) ==
  \/ at[t] = "got" /\ pc[t] = "run"
  \/ at[t] \in {"in", "release", "bcast", "wait", "wrelease"}

(* "A lock can be held by at most a single thread at any given time", from  *)
(* the return of the sema_down to the sema_up, across every cond_wait.      *)
MutualExclusion ==
  /\ \A t, u \in Threads : Owner(t) /\ Owner(u) => t = u
  /\ value[Lock] > 0 => \A t \in Threads : ~Owner(t)

(* The assertions on lock_held_by_current_thread: it holds in lock_release, *)
(* cond_wait, cond_signal and cond_broadcast, and not in lock_acquire,      *)
(* although lock->holder is assigned outside the semaphore operations.      *)
AssertsHold ==
  \A t \in Threads :
    /\ at[t] \in {"in", "bcast", "wait"} => holder = t
    /\ at[t] \in {"out", "got", "wdown", "wacq"} => holder # t

(* t is in cond_wait and has not returned from the sema_down on its waiter. *)
Waiting(t) ==
  \/ at[t] \in {"wait", "wrelease", "wdown"}
  \/ at[t] = "wacq" /\ pc[t] # "run"

(* cond_wait releases the lock and waits atomically: a thread in cond_wait  *)
(* is on the list, once, until it is signalled, and from then on its        *)
(* semaphore is up: no signal falls between the release and the sleep.      *)
SignalNotLost ==
  \A t \in Threads :
    LET places == {i \in DOMAIN cond_waiters : cond_waiters[i] = t} IN
    IF Waiting(t) THEN Cardinality(places) + value[t] = 1
                  ELSE places = {} /\ value[t] = 0

(* A thread that has been signalled gets out of its sleep, whatever the     *)
(* other threads do: its semaphore is its own.                              *)
SignalledWakes ==
  \A t \in Threads : (Waiting(t) /\ value[t] = 1) ~> ~Waiting(t)

(* Someone gets the lock when threads sleep for it: releases are not lost.  *)
LockProgress == waiters[Lock] # <<>> ~> \E t \in Threads : holder = t

(* Waits end: signalled threads wake, and the lock passes on to one of the  *)
(* threads that sleep for it.                                               *)
Progress == SignalledWakes /\ LockProgress

(* The return of cond_broadcast with no thread left unsignalled. *)
BroadcastReturns ==
  \A t \in Threads : at[t] = "bcast" /\ at'[t] = "in" =>
    cond_waiters' = <<>> /\ \A u \in Threads : Waiting(u)' => value'[u] = 1

(* A holder that broadcasts returns with no thread left on the list. *)
BroadcastWakesAll == [][BroadcastReturns]_vars

(* Every step of the locks and condition variables is a step of the         *)
(* semaphores (the sema_init in cond_wait finds the semaphore at 0).        *)
ImplementsSemaphore == SemaSpec
=============================================================================
