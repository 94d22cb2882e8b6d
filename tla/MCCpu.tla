------------------------------- MODULE MCCpu -------------------------------
(* Two processes and a kernel thread; two pages that one page table     *)
(* covers.                                                                  *)
EXTENDS Cpu, TLC
MCpd_no == [p \in Pages |-> 0]
Symmetry == Permutations(Procs)

\* CR2 counts only while a thread is in page_fault: every entry to it stores
\* CR2 and nothing else reads it.
AllButStaleCr2 ==
  <<cur, isr, cr3, tlb, esp0, thread_vars, mem_vars,
    IF \E t \in Procs : pc[t] = "page_fault" THEN cr2 ELSE NULL>>
=============================================================================
