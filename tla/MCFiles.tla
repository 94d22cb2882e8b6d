------------------------------- MODULE MCFiles -------------------------------
(* Two or three processes, a file on the disk and one to be created. *)
EXTENDS Files, TLC

CONSTANTS p1, p2, p3, i1, i2, i3, a, b

\* Everything but the bytes of files.  A write changes them whatever they were
\* and no guard reads them, so a step changes them or not by the rest alone.
AllButContent ==
  <<disk, table, sema_files, pc, op, child, files, losses, fault>>

Symmetric == Permutations(Inodes) \cup Permutations(Procs)
=============================================================================
