-------------------------------- MODULE MCIde --------------------------------
(* Two threads, two sectors and two values. *)
EXTENDS Ide, TLC

CONSTANTS t1, t2, s1, s2, v1, v2
=============================================================================
