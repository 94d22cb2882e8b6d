------------------------------ MODULE Semaphore ------------------------------
(***************************************************************************)
(* The counting semaphores of threads/synch.c, as the rest of the kernel   *)
(* sees them.  The code runs each operation with interrupts disabled, and  *)
(* there is one CPU, so an operation is one atomic step up to the point    *)
(* where thread_block gives the CPU away.  Between steps the timer may     *)
(* switch to any other thread: threads interleave.                         *)
(*                                                                         *)
(* The ready list, priorities and thread switches are in module Scheduler, *)
(* which implements this one.                                              *)
(***************************************************************************)
EXTENDS Naturals, Sequences, FiniteSets

CONSTANTS
  Threads,   \* the threads
  Semas,     \* the semaphores
  InitValue, \* the value each semaphore was initialised with (sema_init)
  MaxValue   \* bound on a semaphore's value (an unsigned in the code)

ASSUME SemaphoreAssumption ==
  /\ IsFiniteSet(Threads)
  /\ Semas # {}
  /\ MaxValue \in Nat
  /\ InitValue \in [Semas -> 0 .. MaxValue]

VARIABLES
  value,   \* value[s]: struct semaphore's value
  waiters, \* waiters[s]: struct semaphore's waiters, front first
  pc,      \* pc[t]: "run", "blocked" in thread_block called by sema_down, or
           \* "woken": unblocked by sema_up but not yet back at the while test
  on       \* on[t]: the semaphore whose sema_down t is in, while t is not "run"

sema_vars == <<value, waiters, pc, on>>

(* What on[t] is while it means nothing. *)
Nowhere == CHOOSE s \in Semas : TRUE

SemaInit ==
  /\ value = InitValue
  /\ waiters = [s \in Semas |-> <<>>]
  /\ pc = [t \in Threads |-> "run"]
  /\ on = [t \in Threads |-> Nowhere]

(* Mutants: an operation as a plausible mistake would leave it. *)

\* Counts the token and wakes nobody.
sema_up_no_wake(s) ==
  /\ value' = [value EXCEPT ![s] = @ + 1]
  /\ UNCHANGED <<waiters, pc, on>>

(* One pass through the while test of sema_down by thread t. *)
DownLoop(t, s) ==
  \/ /\ value[s] > 0
     /\ value' = [value EXCEPT ![s] = @ - 1]
     /\ pc' = [pc EXCEPT ![t] = "run"]
     /\ on' = [on EXCEPT ![t] = Nowhere]
     /\ UNCHANGED waiters
  \/ /\ value[s] = 0
     /\ waiters' = [waiters EXCEPT ![s] = Append(@, t)]
     /\ pc' = [pc EXCEPT ![t] = "blocked"]
     /\ on' = [on EXCEPT ![t] = s]
     /\ UNCHANGED value

sema_down(t, s) ==
  /\ pc[t] = "run"
  /\ DownLoop(t, s)

(* thread_block returns in a woken thread, which tests the value again: the *)
(* token it was woken for may be gone by then.                              *)
Resume(t) ==
  /\ pc[t] = "woken"
  /\ DownLoop(t, on[t])

sema_try_down(t, s) ==
  /\ pc[t] = "run"
  /\ value[s] > 0
  /\ value' = [value EXCEPT ![s] = @ - 1]
  /\ UNCHANGED <<waiters, pc, on>>

(* Called by a thread or by an interrupt handler. *)
sema_up(s) ==
  /\ IF waiters[s] # <<>>
     THEN /\ pc' = [pc EXCEPT ![Head(waiters[s])] = "woken"]
          /\ waiters' = [waiters EXCEPT ![s] = Tail(@)]
     ELSE UNCHANGED <<pc, waiters>>
  /\ value' = [value EXCEPT ![s] = @ + 1]
  /\ UNCHANGED on

SemaNext ==
  \/ \E t \in Threads, s \in Semas : sema_down(t, s)
  \/ \E t \in Threads, s \in Semas : sema_try_down(t, s)
  \/ \E s \in Semas : value[s] < MaxValue /\ sema_up(s)
  \/ \E t \in Threads : Resume(t)

SemaSpec == SemaInit /\ [][SemaNext]_sema_vars

-----------------------------------------------------------------------------
(* The type of the variables. *)
SemaTypeOK ==
  /\ value \in [Semas -> Nat]
  /\ waiters \in [Semas -> Seq(Threads)]
  /\ pc \in [Threads -> {"run", "blocked", "woken"}]
  /\ on \in [Threads -> Semas]

(* A thread is blocked exactly while it is on the waiter list of the one    *)
(* semaphore it called sema_down on, and it is there once: thread.elem is a *)
(* single list element, shared with the ready list (thread.h).              *)
WaitersBlocked ==
  /\ \A s \in Semas : \A i \in 1 .. Len(waiters[s]) :
       /\ pc[waiters[s][i]] = "blocked"
       /\ on[waiters[s][i]] = s
       /\ \A j \in 1 .. Len(waiters[s]) : waiters[s][i] = waiters[s][j] => i = j
  /\ \A t \in Threads : pc[t] = "blocked" =>
       \E i \in 1 .. Len(waiters[on[t]]) : waiters[on[t]][i] = t

(* The threads that sema_up has woken from s and that have not retried yet. *)
Woken(s) == {t \in Threads : pc[t] = "woken" /\ on[t] = s}

(* No wakeup is lost: while a thread sleeps on s, every token of s is       *)
(* matched by a woken thread that is still to retry.  sema_down retries     *)
(* after thread_block, sema_up wakes one waiter per token.                  *)
NoLostWakeup ==
  \A s \in Semas : waiters[s] # <<>> => value[s] <= Cardinality(Woken(s))
=============================================================================
