------------------------------ MODULE MCMalloc ------------------------------
(* Two threads, two pages and two descriptors. *)
EXTENDS Malloc, TLC

CONSTANTS t1, t2, d1, d2

MCThreads == {t1, t2}
MCDescs == {d1, d2}
MCBlocks == [d \in Descs |-> IF d = d1 THEN 2 ELSE 1]
=============================================================================
