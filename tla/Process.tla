------------------------------- MODULE Process -------------------------------
(***************************************************************************)
(* Processes: process_execute, start_process, process_wait and             *)
(* process_exit of userprog/process.c, over the semaphores wait_block,     *)
(* sema_parent_block and exec_block of every struct thread.                *)
(*                                                                         *)
(* A process is named by the page of its struct thread.  A page that       *)
(* thread_schedule_tail has freed may become another process, while other  *)
(* threads still hold pointers to it.  The model stops at the first access *)
(* to memory that is not a struct thread: fault says which.                *)
(*                                                                         *)
(* The model starts with one process whose parent has gone.  The kernel's  *)
(* main thread is like a process that executes one child and waits for it. *)
(***************************************************************************)
EXTENDS Semaphore

CONSTANTS
  first, \* the first process
  NULL

ASSUME ProcessAssumption ==
  /\ first \in Threads /\ NULL \notin Threads
  /\ Semas = {"wait_block", "sema_parent_block", "exec_block"} \X Threads
  /\ InitValue = [s \in Semas |-> 0]

VARIABLES
  at,       \* at[t]: where t is; "free" if the page is not a thread
  parent,   \* struct thread's parent
  children, \* struct thread's children, front first
  load,     \* struct thread's load
  target,   \* target[t]: the thread that t's current call has a pointer to
  fault     \* "no", or the call that left the kernel with a bad pointer

proc_vars == <<at, parent, children, load, target, fault>>
vars == <<sema_vars, proc_vars>>

wait_block(t) == <<"wait_block", t>>
sema_parent_block(t) == <<"sema_parent_block", t>>
exec_block(t) == <<"exec_block", t>>

Init ==
  /\ SemaInit
  /\ at = [t \in Threads |-> IF t = first THEN "user" ELSE "free"]
  /\ parent = [t \in Threads |-> NULL]
  /\ children = [t \in Threads |-> <<>>]
  /\ load = [t \in Threads |-> 1]
  /\ target = [t \in Threads |-> NULL]
  /\ fault = "no"

(* t is not asleep and is at location l. *)
At(t, l) == fault = "no" /\ pc[t] = "run" /\ at[t] = l

-----------------------------------------------------------------------------
(* Mutants. *)

\* Does not take the child off the list.
process_wait_keep(p, c) ==
  /\ At(p, "user")
  /\ \E i \in DOMAIN children[p] : children[p][i] = c
  /\ target' = [target EXCEPT ![p] = c]
  /\ at' = [at EXCEPT ![p] = "stat"]
  /\ sema_down(p, sema_parent_block(p))
  /\ UNCHANGED <<parent, children, load, fault>>

\* The child does not wait for its parent to read its status.
ExitDown_skip(t) ==
  /\ At(t, "wait")
  /\ at' = [at EXCEPT ![t] = "die"]
  /\ UNCHANGED <<sema_vars, parent, children, load, target, fault>>

\* The parent does not wait for the child to load.
ExecDown_skip(p) ==
  /\ At(p, "exec")
  /\ at' = [at EXCEPT ![p] = "loaded"]
  /\ UNCHANGED <<sema_vars, parent, children, load, target, fault>>

\* The parent is not told of the exit.
ExitUp_skip(t) ==
  /\ At(t, "tell")
  /\ at' = [at EXCEPT ![t] = "wait"]
  /\ UNCHANGED <<sema_vars, parent, children, load, target, fault>>

-----------------------------------------------------------------------------
(* thread_create: page c becomes a child of p. *)
process_execute(p, c) ==
  /\ At(p, "user") /\ at[c] = "free"
  /\ at' = [at EXCEPT ![p] = "exec", ![c] = "new"]
  /\ parent' = [parent EXCEPT ![c] = p]
  /\ children' = [children EXCEPT ![p] = Append(@, c)]
  /\ target' = [target EXCEPT ![p] = c]
  /\ UNCHANGED <<sema_vars, load, fault>>

(* There is no page for a struct thread: get_thread_tid returns a null      *)
(* pointer, which is used.                                                  *)
ExecuteNoPage(p) ==
  /\ At(p, "user") /\ \A c \in Threads : at[c] # "free"
  /\ fault' = "process_execute"
  /\ UNCHANGED <<sema_vars, at, parent, children, load, target>>

ExecDown(p) ==
  /\ At(p, "exec")
  /\ at' = [at EXCEPT ![p] = "loaded"]
  /\ sema_down(p, exec_block(p))
  /\ UNCHANGED <<parent, children, load, target, fault>>

(* process_execute looks at child->load and returns. *)
ExecReturn(p) ==
  /\ At(p, "loaded")
  /\ at' = [at EXCEPT ![p] = "user"]
  /\ target' = [target EXCEPT ![p] = NULL]
  /\ UNCHANGED <<sema_vars, parent, children, load, fault>>

(* load, which succeeds or not and in the end tells the parent. *)
Load(t) ==
  /\ At(t, "new")
  /\ \E l \in {"user", "failed"} : at' = [at EXCEPT ![t] = l]
  /\ sema_up(exec_block(parent[t]))
  /\ UNCHANGED <<parent, children, load, target, fault>>

(* There is no page for the stack: setup_stack stores through *esp = 0, and *)
(* the parent is not told.                                                  *)
LoadNoStack(t) ==
  /\ At(t, "new")
  /\ fault' = "load"
  /\ UNCHANGED <<sema_vars, at, parent, children, load, target>>

(* The rest of start_process after a load that failed. *)
LoadFailed(t) ==
  /\ At(t, "failed")
  /\ load' = [load EXCEPT ![t] = 0]
  /\ at' = [at EXCEPT ![t] = "exit"]
  /\ UNCHANGED <<sema_vars, parent, children, target, fault>>

(* process_wait for a child c on the list; for any other tid it returns -1. *)
process_wait(p, c) ==
  /\ At(p, "user")
  /\ \E i \in DOMAIN children[p] :
       /\ children[p][i] = c
       /\ children' = [children EXCEPT ![p] = SubSeq(@, 1, i - 1) \o SubSeq(@, i + 1, Len(@))]
  /\ target' = [target EXCEPT ![p] = c]
  /\ at' = [at EXCEPT ![p] = "stat"]
  /\ sema_down(p, sema_parent_block(p))
  /\ UNCHANGED <<parent, load, fault>>

(* Reads the exit status of the child and lets it go. *)
WaitReturn(p) ==
  /\ At(p, "stat")
  /\ at' = [at EXCEPT ![p] = "user"]
  /\ target' = [target EXCEPT ![p] = NULL]
  /\ sema_up(wait_block(target[p]))
  /\ UNCHANGED <<parent, children, load, fault>>

(* The exit system call, a bad pointer or an exception ends the process.    *)
Exit(t) ==
  /\ At(t, "user")
  /\ at' = [at EXCEPT ![t] = "exit"]
  /\ UNCHANGED <<sema_vars, parent, children, load, target, fault>>

(* The body of process_exit's loop; children is what is left to visit.      *)
Orphan(t) ==
  /\ At(t, "exit") /\ children[t] # <<>>
  /\ parent' = [parent EXCEPT ![Head(children[t])] = NULL]
  /\ children' = [children EXCEPT ![t] = Tail(@)]
  /\ target' = [target EXCEPT ![t] = Head(children[t])]
  /\ at' = [at EXCEPT ![t] = "next"]
  /\ UNCHANGED <<sema_vars, load, fault>>

(* The loop's list_next goes through the child that has just lost its       *)
(* parent, which may have exited since: Die leaves no target then.          *)
NextChild(t) ==
  /\ At(t, "next")
  /\ IF target[t] = NULL
     THEN fault' = "process_exit" /\ UNCHANGED <<at, target>>
     ELSE /\ at' = [at EXCEPT ![t] = "exit"]
          /\ target' = [target EXCEPT ![t] = NULL]
          /\ UNCHANGED fault
  /\ UNCHANGED <<sema_vars, parent, children, load>>

(* process_exit tests cur->parent. *)
process_exit(t) ==
  /\ At(t, "exit") /\ children[t] = <<>>
  /\ target' = [target EXCEPT ![t] = parent[t]]
  /\ at' = [at EXCEPT ![t] = IF parent[t] = NULL THEN "die" ELSE "tell"]
  /\ UNCHANGED <<sema_vars, parent, children, load, fault>>

(* Tells the parent: cur->parent as it was tested, or as read again, for    *)
(* nothing makes the compiler do the one or the other.                      *)
ExitUp(t) ==
  /\ At(t, "tell")
  /\ \E p \in {target[t], parent[t]} :
       IF p = NULL \/ at[p] = "free"
       THEN fault' = "process_exit" /\ UNCHANGED <<sema_vars, at>>
       ELSE /\ at' = [at EXCEPT ![t] = "wait"]
            /\ sema_up(sema_parent_block(p))
            /\ UNCHANGED fault
  /\ UNCHANGED <<parent, children, load, target>>

ExitDown(t) ==
  /\ At(t, "wait")
  /\ at' = [at EXCEPT ![t] = "die"]
  /\ sema_down(t, wait_block(t))
  /\ UNCHANGED <<parent, children, load, target, fault>>

(* The page directory is destroyed, and the next thread frees the page.     *)
(* What a free page holds is not read: Die gives it what init_thread will.  *)
(* The pointer that a NextChild has to it leads nowhere from here on, also  *)
(* when the page is made another thread.                                    *)
Die(t) ==
  /\ At(t, "die")
  /\ at' = [at EXCEPT ![t] = "free"]
  /\ parent' = [parent EXCEPT ![t] = NULL]
  /\ load' = [load EXCEPT ![t] = 1]
  /\ target' = [p \in Threads |-> IF p = t \/ (at[p] = "next" /\ target[p] = t)
                                  THEN NULL ELSE target[p]]
  /\ value' = [s \in Semas |-> IF s[2] = t THEN 0 ELSE value[s]]
  /\ UNCHANGED <<waiters, pc, on, children, fault>>

(* A sleeping sema_down goes on. *)
Wake(t) == fault = "no" /\ Resume(t) /\ UNCHANGED proc_vars

(* What the kernel does for t without a further request. *)
Kernel(t) ==
  \/ ExecDown(t) \/ ExecReturn(t) \/ Load(t) \/ LoadFailed(t)
  \/ WaitReturn(t)
  \/ Orphan(t) \/ NextChild(t) \/ process_exit(t) \/ ExitUp(t) \/ ExitDown(t) \/ Die(t)
  \/ Wake(t)

Next ==
  \E t \in Threads :
    \/ Kernel(t)
    \/ Exit(t)
    \/ ExecuteNoPage(t) \/ LoadNoStack(t)
    \/ \E c \in Threads : process_execute(t, c) \/ process_wait(t, c)

Spec == Init /\ [][Next]_vars

(* Threads of one priority share the CPU (module Scheduler), and every      *)
(* process exits in the end.                                                *)
FairSpec == Spec /\ \A t \in Threads : WF_vars(Kernel(t)) /\ SF_vars(Exit(t))

-----------------------------------------------------------------------------
Locations == {"free", "new", "failed", "user", "exec", "loaded", "stat",
              "exit", "next", "tell", "wait", "die"}

Faults == {"no", "process_execute", "load", "process_exit"}

(* The type of the variables; the semaphores' values stay small. *)
TypeOK ==
  /\ SemaTypeOK
  /\ \A s \in Semas : value[s] <= 2 * Cardinality(Threads)
  /\ at \in [Threads -> Locations]
  /\ parent \in [Threads -> Threads \cup {NULL}]
  /\ children \in [Threads -> Seq(Threads)]
  /\ load \in [Threads -> {0, 1}]
  /\ target \in [Threads -> Threads \cup {NULL}]
  /\ fault \in Faults

(* A child is not freed while its parent has not let it go: a child on the  *)
(* list that process_exit's loop has not reached, one being executed and    *)
(* one being waited for are threads and have not lost their parent.         *)
(* process_exit's handshake with process_wait is for it.  It says nothing   *)
(* of the child that the loop has just let go and still goes through: that  *)
(* one may be freed under it (NextChild).  The variables keep their types.  *)
ChildOutlivesUse ==
  /\ TypeOK
  /\ \A p \in Threads :
       LET used == {children[p][i] : i \in DOMAIN children[p]}
                     \cup (IF at[p] \in {"exec", "loaded", "stat"} THEN {target[p]} ELSE {})
       IN at[p] # "free" => \A c \in used : at[c] # "free" /\ parent[c] = p

(* process_execute goes on only after its own child has ended its load, for *)
(* it has just one child that loads.                                        *)
ExecWaitsForLoad ==
  \A p \in Threads :
    at[p] = "loaded" /\ pc[p] = "run" => at[target[p]] # "new"

(* A child is let go at most once, and then it can be waited for no more.   *)
LetGoOnce ==
  \A c \in Threads :
    /\ value[wait_block(c)] <= 1
    /\ value[wait_block(c)] = 1 =>
         \A p \in Threads : \A i \in DOMAIN children[p] :
           at[p] # "free" => children[p][i] # c

(* process_wait returns, if processes exit and the kernel does not fault.   *)
WaitReturns == \A p \in Threads : at[p] = "stat" ~> (at[p] # "stat" \/ fault # "no")

(* "Waits for thread TID to die and returns its exit status": process_wait  *)
(* reads the status of a child that has exited.                             *)
StatusIsFinal ==
  \A p \in Threads : At(p, "stat") => at[target[p]] \in {"exit", "next", "tell", "wait", "die"}

(* "The exec system call must return -1" when the load fails: load is       *)
(* looked at only when a failure has been recorded.                         *)
FailedLoadIsSeen ==
  \A p \in Threads : At(p, "loaded") => at[target[p]] # "failed"
=============================================================================
