------------------------------ MODULE Scheduler ------------------------------
(***************************************************************************)
(* The thread scheduler of threads/thread.c on one CPU: the running        *)
(* thread, the ready list ordered by priority, the idle thread, time       *)
(* slices ended by the timer interrupt, voluntary yields, creation, exit,  *)
(* and the semaphore operations with the thread switches they make.        *)
(*                                                                         *)
(* Code that runs with interrupts disabled is one step.  A thread that     *)
(* comes back from thread_block inside sema_down (pc "woken") still has    *)
(* interrupts disabled: nothing else happens before its next step.         *)
(***************************************************************************)
EXTENDS Semaphore

CONSTANTS
  Idle,       \* the idle thread
  main,       \* the initial thread, which is never freed
  Priorities, \* the priorities threads are given
  TIME_SLICE  \* timer ticks a thread gets

ASSUME SchedulerAssumption ==
  /\ main \in Threads /\ Idle \notin Threads
  /\ Priorities \subseteq Nat /\ Priorities # {}
  /\ TIME_SLICE \in Nat \ {0}

VARIABLES
  cur,          \* the running thread
  status,       \* enum thread_status, or "free": the page is not a thread
  priority,     \* struct thread's priority
  ready_list,   \* front first
  thread_ticks, \* ticks of the current slice; stays at TIME_SLICE once there
  yielding      \* yielding[t]: "call" at the entry of thread_yield, "go" past
                \* its priority test, else "no"

sched_vars == <<cur, status, priority, ready_list, thread_ticks, yielding>>
vars == <<sema_vars, sched_vars>>

(* The state after thread_start: main runs, the idle thread has blocked. *)
Init ==
  /\ SemaInit
  /\ cur = main
  /\ status = [t \in Threads \cup {Idle} |->
                 IF t = main THEN "RUNNING" ELSE IF t = Idle THEN "BLOCKED" ELSE "free"]
  /\ priority \in {p \in [Threads -> Priorities] : \A t, u \in Threads : p[t] = p[u]}
  /\ ready_list = <<>>
  /\ thread_ticks = 0
  /\ yielding = [t \in Threads |-> "no"]

-----------------------------------------------------------------------------
(* Mutants. *)

\* Inserts in front of threads of the same priority.
prioritycmp_ge(p, q) == p >= q

\* Does not put the yielding thread on the ready list.
YieldSwitch_drop ==
  /\ cur' = IF ready_list = <<>> THEN Idle ELSE Head(ready_list)
  /\ ready_list' = IF ready_list = <<>> THEN <<>> ELSE Tail(ready_list)
  /\ status' = [status EXCEPT ![cur] = "READY", ![cur'] = "RUNNING"]
  /\ thread_ticks' = 0

\* A woken thread returns from sema_down without testing the value again.
Wake_if ==
  /\ cur \in Threads /\ pc[cur] = "woken"
  /\ pc' = [pc EXCEPT ![cur] = "run"]
  /\ UNCHANGED <<value, waiters, on, sched_vars>>

-----------------------------------------------------------------------------
(* True when an element of priority p goes before one of priority q. *)
prioritycmp(p, q) == p > q

(* q with t inserted before the first thread that t goes before. *)
list_insert_ordered(q, t, pri) ==
  LET k == CHOOSE i \in 1 .. Len(q) + 1 :
             /\ \A j \in 1 .. i - 1 : ~prioritycmp(pri[t], pri[q[j]])
             /\ i = Len(q) + 1 \/ prioritycmp(pri[t], pri[q[i]])
  IN SubSeq(q, 1, k - 1) \o <<t>> \o SubSeq(q, k, Len(q))

(* schedule, next_thread_to_run and thread_schedule_tail, called by cur     *)
(* with its status set to st and the ready list being q: the next thread    *)
(* runs, gets a new time slice, and frees cur's page if cur is dying.       *)
schedule(st, q) ==
  LET next == IF q = <<>> THEN Idle ELSE Head(q) IN
  /\ cur' = next
  /\ ready_list' = IF q = <<>> THEN <<>> ELSE Tail(q)
  /\ status' = [status EXCEPT ![cur] = IF st = "DYING" /\ cur # main THEN "free" ELSE st,
                              ![next] = "RUNNING"]
  /\ thread_ticks' = 0

(* Interrupts are enabled: cur is not inside sema_down. *)
IntrOn == cur \in Threads => pc[cur] = "run"

(* The running thread is in code of its own, with interrupts enabled. *)
Running == cur \in Threads /\ pc[cur] = "run" /\ yielding[cur] = "no"

(* The priority test of thread_yield.  On an empty list the code reads the  *)
(* priority of a thread that is not there: either outcome is possible.      *)
KeepsCPU ==
  cur \in Threads /\ ready_list # <<>> /\ priority[cur] > priority[Head(ready_list)]

MayKeepCPU == ready_list = <<>> \/ KeepsCPU

(* thread_yield after its test: the idle thread stays off the ready list.   *)
YieldSwitch ==
  schedule("READY", IF cur = Idle THEN ready_list
                    ELSE list_insert_ordered(ready_list, cur, priority))

thread_create(t, p) ==
  /\ Running
  /\ status[t] = "free"
  /\ priority' = [priority EXCEPT ![t] = p]
  /\ ready_list' = list_insert_ordered(ready_list, t, priority')
  /\ status' = [status EXCEPT ![t] = "READY"]
  /\ UNCHANGED <<sema_vars, cur, thread_ticks, yielding>>

thread_exit ==
  /\ Running
  /\ schedule("DYING", ready_list)
  /\ UNCHANGED <<sema_vars, priority, yielding>>

(* A voluntary thread_yield makes its test with interrupts enabled, so what *)
(* it found may be out of date when it goes on.                             *)
thread_yield ==
  /\ cur \in Threads /\ pc[cur] = "run" /\ yielding[cur] # "go"
  /\ \/ MayKeepCPU /\ yielding' = [yielding EXCEPT ![cur] = "no"]
     \/ ~KeepsCPU /\ yielding' = [yielding EXCEPT ![cur] = "go"]
  /\ UNCHANGED <<sema_vars, cur, status, priority, ready_list, thread_ticks>>

YieldGo ==
  /\ cur \in Threads /\ yielding[cur] = "go"
  /\ yielding' = [yielding EXCEPT ![cur] = "no"]
  /\ YieldSwitch
  /\ UNCHANGED <<sema_vars, priority>>

thread_set_priority(p) ==
  /\ Running
  /\ priority' = [priority EXCEPT ![cur] = p]
  /\ yielding' = [yielding EXCEPT ![cur] = "call"]
  /\ UNCHANGED <<sema_vars, cur, status, ready_list, thread_ticks>>

(* timer_interrupt and thread_tick; past the slice the interrupt handler    *)
(* calls thread_yield, with interrupts disabled.                            *)
Tick ==
  /\ IntrOn
  /\ \/ /\ thread_ticks + 1 < TIME_SLICE
        /\ thread_ticks' = thread_ticks + 1
        /\ UNCHANGED <<cur, status, ready_list>>
     \/ /\ thread_ticks + 1 >= TIME_SLICE /\ MayKeepCPU
        /\ thread_ticks' = TIME_SLICE
        /\ UNCHANGED <<cur, status, ready_list>>
     \/ /\ thread_ticks + 1 >= TIME_SLICE /\ ~KeepsCPU
        /\ YieldSwitch
  /\ UNCHANGED <<sema_vars, priority, yielding>>

(* The idle thread blocks again whenever it gets the CPU or an interrupt    *)
(* has woken it from hlt.                                                   *)
idle ==
  /\ cur = Idle
  /\ schedule("BLOCKED", ready_list)
  /\ UNCHANGED <<sema_vars, priority, yielding>>

-----------------------------------------------------------------------------
(* sema_down, and thread_block where it sleeps. *)
SwitchIfBlocked ==
  IF pc'[cur] = "blocked"
  THEN schedule("BLOCKED", ready_list) /\ UNCHANGED <<priority, yielding>>
  ELSE UNCHANGED sched_vars

Down(s) == Running /\ sema_down(cur, s) /\ SwitchIfBlocked

(* cur comes back from thread_block and tests the semaphore again. *)
Wake == cur \in Threads /\ Resume(cur) /\ SwitchIfBlocked

TryDown(s) == Running /\ sema_try_down(cur, s) /\ UNCHANGED sched_vars

(* sema_up with its thread_unblock, by cur or by a device's interrupt       *)
(* handler while cur runs.                                                  *)
Up(s) ==
  /\ IntrOn /\ value[s] < MaxValue
  /\ sema_up(s)
  /\ IF waiters[s] = <<>> THEN UNCHANGED <<ready_list, status>>
     ELSE /\ ready_list' = list_insert_ordered(ready_list, Head(waiters[s]), priority)
          /\ status' = [status EXCEPT ![Head(waiters[s])] = "READY"]
  /\ UNCHANGED <<cur, priority, thread_ticks, yielding>>

Next ==
  \/ \E t \in Threads, p \in Priorities : thread_create(t, p)
  \/ \E p \in Priorities : thread_set_priority(p)
  \/ thread_exit
  \/ thread_yield
  \/ YieldGo
  \/ Tick
  \/ idle
  \/ Wake
  \/ \E s \in Semas : Down(s) \/ TryDown(s) \/ Up(s)

Spec == Init /\ [][Next]_vars

(* The timer goes on ticking, a woken thread that has the CPU goes on, and  *)
(* so does the idle thread.                                                 *)
FairSpec == Spec /\ WF_vars(Tick) /\ WF_vars(Wake) /\ WF_vars(idle)

-----------------------------------------------------------------------------
(* The type of the variables. *)
TypeOK ==
  /\ SemaTypeOK
  /\ cur \in Threads \cup {Idle}
  /\ status \in [Threads \cup {Idle} -> {"free", "READY", "RUNNING", "BLOCKED", "DYING"}]
  /\ priority \in [Threads -> Priorities]
  /\ ready_list \in Seq(Threads)
  /\ thread_ticks \in 0 .. TIME_SLICE
  /\ yielding \in [Threads -> {"no", "call", "go"}]

(* The ready list is in descending order of priority, so next_thread_to_run *)
(* takes a thread of the highest priority: no thread on it changes its      *)
(* priority.                                                                *)
ReadySorted ==
  \A i, j \in DOMAIN ready_list :
    i < j => priority[ready_list[i]] >= priority[ready_list[j]]

(* thread.h: a thread's one list element serves the run queue and the       *)
(* semaphore lists "because they are mutually exclusive: only a thread in   *)
(* the ready state is on the run queue, whereas only a thread in the        *)
(* blocked state is on a semaphore wait list"; only cur is running; and the *)
(* ready list stays in order.                                               *)
OneListPerThread ==
  /\ TypeOK /\ ReadySorted
  /\ \A t \in Threads :
       LET queued == {i \in DOMAIN ready_list : ready_list[i] = t}
           asleep == UNION {{<<s, i>> : i \in {j \in DOMAIN waiters[s] : waiters[s][j] = t}} :
                              s \in Semas}
       IN /\ Cardinality(queued) = IF status[t] = "READY" THEN 1 ELSE 0
          /\ Cardinality(asleep) = IF status[t] = "BLOCKED" THEN 1 ELSE 0
          /\ status[t] = "RUNNING" <=> cur = t

(* Round robin: a ready thread gets the CPU, unless some thread has a       *)
(* higher priority.                                                         *)
ReadyRuns ==
  \A t \in Threads :
    status[t] = "READY" ~>
      \/ status[t] = "RUNNING"
      \/ \E u \in Threads : status[u] \in {"READY", "RUNNING"} /\ priority[u] > priority[t]

(* The scheduler gives the threads the interleavings of module Semaphore.   *)
ImplementsSemaphore == SemaSpec

(* And its fairness, among threads of one priority: a woken thread gets to  *)
(* test the semaphore again.                                                *)
WokenRetries ==
  [](\A t, u \in Threads : priority[t] = priority[u])
    => \A t \in Threads : WF_sema_vars(Resume(t))

(* The CPU goes round: to the ready threads, and to the woken ones in time  *)
(* for the semaphores' own fairness.                                        *)
Progress == ReadyRuns /\ WokenRetries
=============================================================================
