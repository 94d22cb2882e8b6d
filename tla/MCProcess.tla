----------------------------- MODULE MCProcess -----------------------------
(* The first process and pages for two more: it can have two children, or a *)
(* child and a grandchild.                                                  *)
EXTENDS Process, TLC

CONSTANTS p1, p2

MCSemas == {"wait_block", "sema_parent_block", "exec_block"} \X Threads
MCInitValue == [s \in MCSemas |-> 0]
=============================================================================
