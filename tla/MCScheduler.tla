---------------------------- MODULE MCScheduler ----------------------------
(* Three threads besides the idle thread, and a semaphore. *)
EXTENDS Scheduler, TLC

CONSTANTS t1, t2, s1

MCThreads == {main, t1, t2}
MCInitValue == [s \in Semas |-> 0]
=============================================================================
