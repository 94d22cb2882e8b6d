----------------------------- MODULE MCMonitor -----------------------------
(* Three threads sharing one lock and one condition variable. *)
EXTENDS Monitor

CONSTANTS t1, t2, t3

MCThreads == {t1, t2, t3}
MCSemas == MCThreads \cup {Lock}
MCInitValue == [s \in MCSemas |-> IF s = Lock THEN 1 ELSE 0]
=============================================================================
