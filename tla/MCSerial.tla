------------------------------ MODULE MCSerial ------------------------------
(* Two writers, two readers, and queues that hold two bytes. *)
EXTENDS Serial, TLC

CONSTANTS w1, w2, r1, r2
=============================================================================
