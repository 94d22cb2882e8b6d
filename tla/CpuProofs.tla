-------------------------- MODULE CpuProofs --------------------------
(* Proofs about module Cpu, for any processes, pages and page frames: the    *)
(* types, where threads are and what the processor holds for them, that      *)
(* every page frame has one owner, and that the TLB holds what the page      *)
(* tables say.                                                               *)
EXTENDS Cpu, TLAPS

USE ZenonT(3), SMTT(30)

(* The types, with the pools the frames are from: an entry is present and   *)
(* maps a user page, or is empty.                                           *)
Entry == {NoEntry} \cup [kpage : UserPool, flags : {s \in SUBSET Flags : "P" \in s}]

CpuType ==
  /\ cur \in Threads /\ esp0 = cur
  /\ isr = {}
  /\ cr2 \in Pages \cup {NULL} /\ cr3 \in KernelPool \cup {init_page_dir}
  /\ tlb \in [Pages -> Entry]

ThreadType ==
  /\ pc \in [Threads -> Labels]
  /\ intr \in [Threads -> {"ON", "OFF"}]
  /\ kpage \in [Threads -> UserPool \cup {NULL}]
  /\ faulted \in [Threads -> Pages \cup {NULL}]
  /\ fault_addr \in [Threads -> Pages \cup {NULL}]

MemType ==
  /\ free \subseteq Frames
  /\ pagedir \in [Threads -> KernelPool \cup {NULL}]
  /\ dying \in [Threads -> KernelPool \cup {NULL}]
  /\ pde \in [Frames -> [Slots -> KernelPool \cup {NULL}]]
  /\ pte \in [Frames -> [Pages -> Entry]]

TypeInv == CpuType /\ ThreadType /\ MemType

(* Where a process has a page directory, and where it is taking one down.   *)
(* At "exit" it has one unless the load has failed early.                   *)
WithDirectory == {"activate", "segment", "read", "install", "user", "page_fault", "kill",
                  "invalidate", "cleared"}

ControlInv ==
  /\ pc[Kernel] = "kernel" /\ pagedir[Kernel] = NULL
  /\ pc[cur] # "dead"
  /\ \A t \in Threads :
       /\ pc[t] \in WithDirectory => pagedir[t] # NULL
       /\ t \in Procs /\ pc[t] = "kernel" => pagedir[t] # NULL
       /\ pagedir[t] # NULL => pc[t] \in WithDirectory \cup {"kernel", "exit"}
       /\ dying[t] # NULL <=> pc[t] \in {"deactivate", "destroy"}
       /\ pc[t] \in {"read", "install", "cleared"} => kpage[t] # NULL
       /\ kpage[t] # NULL => pc[t] \in {"read", "install", "invalidate", "cleared"}

(* Interrupts are off from a fault until its address has been read, so that *)
(* the faulting thread keeps the processor.                                 *)
FaultInv ==
  \A t \in Threads :
    /\ pc[t] = "page_fault" => cur = t /\ intr[t] = "OFF" /\ cr2 = faulted[t]
    /\ intr[t] = "OFF" => pc[t] \in {"page_fault", "exit", "deactivate", "destroy", "die", "dead"}
    /\ fault_addr[t] # NULL => pc[t] = "kill" /\ fault_addr[t] = faulted[t]

(* CR3 holds the running thread's page directory, but when load has not     *)
(* activated a new one or process_exit has not deactivated the old one.     *)
Cr3Inv ==
  /\ pc[cur] = "activate" => cr3 \in {init_page_dir, pagedir[cur]}
  /\ pc[cur] = "deactivate" => cr3 \in {init_page_dir, dying[cur]}
  /\ pc[cur] \notin {"activate", "deactivate"} =>
       cr3 = IF pagedir[cur] = NULL THEN init_page_dir ELSE pagedir[cur]

-----------------------------------------------------------------------------
LEMMA Constants ==
  /\ Kernel \in Threads /\ Kernel \notin Procs /\ Procs \subseteq Threads
  /\ NULL \notin Frames /\ NULL \notin KernelPool /\ NULL \notin UserPool
  /\ init_page_dir \notin Frames /\ init_page_dir \notin KernelPool /\ init_page_dir # NULL
  /\ KernelPool \cap UserPool = {}
  /\ KernelPool \subseteq Frames /\ UserPool \subseteq Frames
  /\ Frames = KernelPool \cup UserPool
  /\ NULL \notin Pages /\ Tracked \subseteq Flags /\ "P" \in Flags /\ "W" \in Flags
  /\ \A p \in Pages : pd_no[p] \in Slots
  /\ NoEntry \in Entry
  /\ "P" \notin Tracked
<1>1. KernelPool \cap UserPool = {}
  BY CpuAssumption DEF KernelPool, UserPool
<1>2. NoEntry \in Entry
  BY DEF Entry
<1> QED
  BY <1>1, <1>2, CpuAssumption DEF Threads, Frames, Flags, Slots

LEMMA EntryFields ==
  ASSUME NEW e \in Entry
  PROVE  /\ e.flags \subseteq Flags
         /\ "P" \in e.flags => e.kpage \in UserPool
         /\ "P" \notin e.flags => e.kpage = NULL /\ e.flags = {}
BY DEF Entry, NoEntry

(* What the processor and pagedir.c make of an entry that is present. *)
LEMMA EntryUpdates ==
  ASSUME NEW e \in Entry, "P" \in e.flags
  PROVE  /\ \A write \in BOOLEAN :
              /\ Touched(e, write) \in Entry /\ Touched(e, write).kpage = e.kpage
              /\ e.flags \subseteq Touched(e, write).flags
         /\ \A b \in Tracked :
              /\ [e EXCEPT !.flags = @ \cup {b}] \in Entry
              /\ [e EXCEPT !.flags = @ \cup {b}].kpage = e.kpage
              /\ [e EXCEPT !.flags = @ \cup {b}].flags = e.flags \cup {b}
              /\ [e EXCEPT !.flags = @ \ {b}] \in Entry
              /\ [e EXCEPT !.flags = @ \ {b}].kpage = e.kpage
              /\ [e EXCEPT !.flags = @ \ {b}].flags = e.flags \ {b}
<1>1. e \in [kpage : UserPool, flags : {s \in SUBSET Flags : "P" \in s}]
  BY DEF Entry, NoEntry
<1>2. ASSUME NEW s \in SUBSET Flags, "P" \in s
      PROVE  /\ [e EXCEPT !.flags = s] \in Entry
             /\ [e EXCEPT !.flags = s].kpage = e.kpage /\ [e EXCEPT !.flags = s].flags = s
  BY <1>1, <1>2 DEF Entry
<1>3. ASSUME NEW write \in BOOLEAN
      PROVE  e.flags \cup (Tracked \ IF write THEN {} ELSE {"D"}) \in SUBSET Flags
  BY <1>1, Constants
<1>4. ASSUME NEW b \in Tracked
      PROVE  e.flags \cup {b} \in SUBSET Flags /\ e.flags \ {b} \in SUBSET Flags /\ "P" \in e.flags \ {b}
  BY <1>1, Constants
<1> QED
  BY <1>2, <1>3, <1>4 DEF Touched

(* The page table of an address. *)
LEMMA TableTyped ==
  ASSUME MemType, NEW d \in Frames, NEW p \in Pages, TableOf(d, p) # NULL
  PROVE  TableOf(d, p) \in KernelPool /\ TableOf(d, p) \in Frames
BY Constants DEF MemType, TableOf

LEMMA EntryTyped ==
  ASSUME MemType, NEW f \in Frames, NEW p \in Pages
  PROVE  /\ pte[f][p] \in Entry /\ pte[f][p].kpage \in UserPool \cup {NULL}
         /\ pte[f][p].kpage # NULL <=> "P" \in pte[f][p].flags
<1>1. pte[f][p] \in Entry
  BY DEF MemType
<1> QED
  BY <1>1, EntryFields, Constants

(* Where a process runs with its own page directory. *)
LEMMA RunningDirectory ==
  ASSUME TypeInv, ControlInv, Cr3Inv, NEW t \in Procs, cur = t,
         pc[t] \in {"user", "kernel", "install", "invalidate"}
  PROVE  t \in Threads /\ cr3 = pagedir[t] /\ cr3 \in KernelPool /\ cr3 \in Frames
<1>1. t \in Threads /\ pagedir[t] # NULL
  BY Constants DEF ControlInv, WithDirectory
<1>2. pagedir[t] \in KernelPool
  BY <1>1 DEF TypeInv, MemType
<1> QED
  BY <1>1, <1>2, Constants DEF Cr3Inv

LEMMA TypeInit == Init => TypeInv
<1> SUFFICES ASSUME Init PROVE TypeInv
  OBVIOUS
<1>1. CpuType
  BY Constants DEF Init, CpuType
<1>2. ThreadType
  BY Constants DEF Init, ThreadType, Labels
<1>3. MemType
  BY Constants DEF Init, MemType
<1> QED
  BY <1>1, <1>2, <1>3 DEF TypeInv

LEMMA GoSteps ==
  ASSUME ThreadType, NEW t \in Threads, NEW l \in Labels, Go(t, l)
  PROVE  /\ pc' \in [Threads -> Labels] /\ pc'[t] = l
         /\ \A u \in Threads \ {t} : pc'[u] = pc[u]
BY DEF ThreadType, Go

-----------------------------------------------------------------------------
(* Every step keeps the types.  First the processor's part. *)
LEMMA CpuTypeStep == TypeInv /\ ControlInv /\ Cr3Inv /\ [Next]_vars => CpuType'
<1> SUFFICES ASSUME TypeInv, ControlInv, Cr3Inv, [Next]_vars PROVE CpuType'
  OBVIOUS
<1>0. [p \in Pages |-> NoEntry] \in [Pages -> Entry]
  BY Constants
<1>1. ASSUME NEW n \in Threads, SwitchTo(n), UNCHANGED cr2, isr' = {} PROVE CpuType'
  BY <1>0, <1>1, Constants
  DEF SwitchTo, process_activate, pagedir_activate, tss_update, TypeInv, CpuType, MemType
<1>2. ASSUME NEW v \in Vectors, NEW spurious \in BOOLEAN, intr_handler(v, spurious) PROVE CpuType'
  <2>1. isr' = {}
    BY <1>2 DEF intr_handler, pic_end_of_interrupt, InService, TypeInv, CpuType
  <2> QED
    BY <1>1, <1>2, <2>1 DEF intr_handler, TypeInv, CpuType
<1>3. ASSUME NEW t \in Threads, Block(t) \/ Die(t) PROVE CpuType'
  BY <1>1, <1>3 DEF Block, Die, TypeInv, CpuType
<1>4. ASSUME NEW t \in Procs, LoadActivate(t) \/ invalidate_pagedir(t) \/ ExitDeactivate(t) PROVE CpuType'
  <2>1. UNCHANGED <<cur, isr, cr2>> /\ t = cur
    BY <1>4 DEF LoadActivate, invalidate_pagedir, ExitDeactivate, At
  <2>2. esp0' = cur
    BY <1>4, <2>1 DEF LoadActivate, invalidate_pagedir, ExitDeactivate, process_activate, tss_update,
                      TypeInv, CpuType
  <2>3. \/ UNCHANGED <<cr3, tlb>>
        \/ \E pd \in KernelPool \cup {NULL} : pagedir_activate(pd)
    BY <1>4, Constants DEF LoadActivate, invalidate_pagedir, ExitDeactivate, process_activate,
                           TypeInv, MemType
  <2>4. cr3' \in KernelPool \cup {init_page_dir} /\ tlb' \in [Pages -> Entry]
    BY <1>0, <2>3 DEF pagedir_activate, TypeInv, CpuType
  <2> QED
    BY <2>1, <2>2, <2>4 DEF TypeInv, CpuType
<1>5. ASSUME NEW t \in Procs, NEW p \in Pages, NEW write \in BOOLEAN, Access(t, p, write) PROVE CpuType'
  <2> DEFINE f == TableOf(cr3, p)
             e == Touched(pte[f][p], write)
  <2>1. cr3 \in Frames
    BY <1>5, RunningDirectory DEF Access, At
  <2>2. ASSUME f # NULL, Allows(pte[f][p], write) PROVE e \in Entry
    <3>1. f \in Frames
      BY <2>1, <2>2, TableTyped DEF TypeInv
    <3>2. pte[f][p] \in Entry /\ "P" \in pte[f][p].flags
      BY <2>2, <3>1 DEF TypeInv, MemType, Allows
    <3> QED
      BY <3>2, EntryUpdates
  <2>3. UNCHANGED tlb \/ (tlb' = [tlb EXCEPT ![p] = e] /\ e \in Entry)
    BY <1>5, <2>2 DEF Access
  <2> HIDE DEF e
  <2>4. tlb' \in [Pages -> Entry]
    BY <2>3 DEF TypeInv, CpuType
  <2>5. cr2' \in Pages \cup {NULL} /\ UNCHANGED <<cur, isr, cr3, esp0>>
    BY <1>5 DEF Access, TypeInv, CpuType
  <2> QED
    BY <2>4, <2>5 DEF TypeInv, CpuType
<1>6. ASSUME UNCHANGED cpu_vars PROVE CpuType'
  BY <1>6 DEF cpu_vars, TypeInv, CpuType
<1>7. ASSUME NEW t \in Procs,
             \/ Create(t) \/ pagedir_create(t) \/ GetPage(t) \/ ReadPage(t)
             \/ \E p \in Pages : InstallPage(t, p)
             \/ page_fault(t) \/ kill(t) \/ Syscall(t) \/ SyscallReturn(t)
      PROVE  UNCHANGED cpu_vars
  BY <1>7 DEF Create, pagedir_create, GetPage, ReadPage, InstallPage, page_fault, kill, Syscall,
              SyscallReturn
<1>8. ASSUME NEW t \in Procs,
             \/ \E p \in Pages : pagedir_clear_page(t, p)
             \/ \E p \in Pages, b \in Tracked, v \in BOOLEAN : pagedir_set_flag(t, p, b, v)
      PROVE  UNCHANGED cpu_vars
  BY <1>8, Zenon DEF pagedir_clear_page, pagedir_set_flag
<1>9. ASSUME NEW t \in Procs,
             \/ FreeCleared(t) \/ ExitDetach(t) \/ DestroyDirectory(t)
             \/ \E k \in Slots : DestroyTable(t, k)
      PROVE  UNCHANGED cpu_vars
  BY <1>9, Zenon DEF FreeCleared, ExitDetach, DestroyDirectory, DestroyTable
<1>10. CASE UNCHANGED vars
  BY <1>6, <1>10 DEF vars
<1> QED
  BY <1>2, <1>3, <1>4, <1>5, <1>6, <1>7, <1>8, <1>9, <1>10, Constants DEF Next, Load, Run, PagedirOp, Exit

(* The threads' part. *)
LEMMA ThreadTypeStep == TypeInv /\ ControlInv /\ [Next]_vars => ThreadType'
<1> SUFFICES ASSUME TypeInv, ControlInv, [Next]_vars PROVE ThreadType'
  OBVIOUS
<1>1. ASSUME UNCHANGED thread_vars PROVE ThreadType'
  BY <1>1 DEF thread_vars, TypeInv, ThreadType
<1>2. ASSUME NEW t \in Procs, NEW l \in Labels, Go(t, l),
             \/ UNCHANGED <<intr, kpage, faulted, fault_addr>>
             \/ \E i \in {"ON", "OFF"} :
                  intr' = [intr EXCEPT ![t] = i] /\ UNCHANGED <<kpage, faulted, fault_addr>>
             \/ \E f \in UserPool \cup {NULL} :
                  kpage' = [kpage EXCEPT ![t] = f] /\ UNCHANGED <<intr, faulted, fault_addr>>
      PROVE  ThreadType'
  BY <1>2, GoSteps, Constants DEF TypeInv, ThreadType
<1>3. ASSUME NEW t \in Procs, Create(t) PROVE ThreadType'
  <2>1. Go(t, "load") /\ intr' = [intr EXCEPT ![t] = "ON"] /\ UNCHANGED <<kpage, faulted, fault_addr>>
    BY <1>3 DEF Create
  <2> QED
    BY <1>2, <2>1, Zenon DEF Labels
<1>4. ASSUME NEW t \in Procs,
             LoadActivate(t) \/ Syscall(t) \/ SyscallReturn(t) \/ ExitDeactivate(t) \/ Die(t)
      PROVE  ThreadType'
  BY <1>2, <1>4 DEF LoadActivate, Syscall, SyscallReturn, ExitDeactivate, Die, Labels
<1>5. ASSUME NEW t \in Procs,
             pagedir_create(t) \/ invalidate_pagedir(t) \/ ExitDetach(t) \/ DestroyDirectory(t)
      PROVE  ThreadType'
  BY <1>2, <1>5 DEF pagedir_create, invalidate_pagedir, ExitDetach, DestroyDirectory, Labels
<1>6. ASSUME NEW t \in Procs, GetPage(t) \/ ReadPage(t) \/ FreeCleared(t) PROVE ThreadType'
  BY <1>2, <1>6, Constants DEF GetPage, ReadPage, FreeCleared, FreeKpage, Labels
<1>7. ASSUME NEW t \in Procs, NEW p \in Pages, InstallPage(t, p) PROVE ThreadType'
  <2>1. /\ \E l \in Labels : Go(t, l)
        /\ kpage' = [kpage EXCEPT ![t] = NULL] /\ UNCHANGED <<intr, faulted, fault_addr>>
    BY <1>7, Zenon DEF InstallPage, MapPage, FreeKpage, Labels
  <2> QED
    BY <1>2, <2>1, Zenon
<1>8. ASSUME NEW t \in Procs, NEW p \in Pages, pagedir_clear_page(t, p) PROVE ThreadType'
  <2>1. pagedir[t] \in Frames
    BY <1>8, Constants DEF pagedir_clear_page, At, ControlInv, TypeInv, MemType
  <2>2. pte[TableOf(pagedir[t], p)][p].kpage \in UserPool
    <3>1. pte[TableOf(pagedir[t], p)][p] \in Entry
      BY <1>8, <2>1, TableTyped DEF pagedir_clear_page, Present, TypeInv, MemType
    <3> QED
      BY <1>8, <3>1, EntryFields DEF pagedir_clear_page, Present
  <2> QED
    BY <1>2, <1>8, <2>2, Zenon DEF pagedir_clear_page, Labels
<1>9. ASSUME NEW t \in Procs, NEW p \in Pages, NEW b \in Tracked, NEW v \in BOOLEAN,
             pagedir_set_flag(t, p, b, v)
      PROVE  ThreadType'
  BY <1>2, <1>9 DEF pagedir_set_flag, Labels
<1>10. ASSUME NEW t \in Procs, page_fault(t) \/ kill(t) PROVE ThreadType'
  <2>1. pc' \in [Threads -> Labels] /\ UNCHANGED kpage
    BY <1>10, GoSteps, Constants DEF page_fault, kill, Labels, TypeInv
  <2>2. intr' \in [Threads -> {"ON", "OFF"}]
    BY <1>10 DEF page_fault, kill, TypeInv, ThreadType
  <2>3. faulted' \in [Threads -> Pages \cup {NULL}] /\ fault_addr' \in [Threads -> Pages \cup {NULL}]
    BY <1>10 DEF page_fault, kill, TypeInv, ThreadType, CpuType
  <2> QED
    BY <2>1, <2>2, <2>3 DEF TypeInv, ThreadType
<1>11. ASSUME NEW t \in Procs, NEW p \in Pages, NEW write \in BOOLEAN, Access(t, p, write)
       PROVE  ThreadType'
  <2>1. pc' \in [Threads -> Labels] /\ UNCHANGED <<kpage, fault_addr>>
    BY <1>11, GoSteps, Constants DEF Access, Labels, TypeInv, ThreadType
  <2>2. intr' \in [Threads -> {"ON", "OFF"}] /\ faulted' \in [Threads -> Pages \cup {NULL}]
    BY <1>11 DEF Access, PageFaultLevel, TypeInv, ThreadType
  <2> QED
    BY <2>1, <2>2 DEF TypeInv, ThreadType
<1>12. ASSUME \/ \E v \in Vectors, spurious \in BOOLEAN : intr_handler(v, spurious)
              \/ \E t \in Threads : Block(t)
              \/ \E t \in Procs, k \in Slots : DestroyTable(t, k)
              \/ UNCHANGED vars
       PROVE  ThreadType'
  BY <1>1, <1>12, Zenon DEF intr_handler, Block, DestroyTable, vars
<1> QED
  BY <1>3, <1>4, <1>5, <1>6, <1>7, <1>8, <1>9, <1>10, <1>11, <1>12 DEF Next, Load, Run, PagedirOp, Exit

(* And the memory. *)
LEMMA MemTypeStep == TypeInv /\ ControlInv /\ Cr3Inv /\ [Next]_vars => MemType'
<1> SUFFICES ASSUME TypeInv, ControlInv, Cr3Inv, [Next]_vars PROVE MemType'
  OBVIOUS
<1>0. [p \in Pages |-> NoEntry] \in [Pages -> Entry]
  BY Constants
<1>1. ASSUME UNCHANGED mem_vars PROVE MemType'
  BY <1>1 DEF mem_vars, TypeInv, MemType
<1>2. ASSUME NEW t \in Procs, pagedir_create(t) PROVE MemType'
  <2>1. free' \subseteq Frames /\ UNCHANGED <<dying, pte>>
    BY <1>2 DEF pagedir_create, TypeInv, MemType
  <2>2. pagedir' \in [Threads -> KernelPool \cup {NULL}]
    BY <1>2 DEF pagedir_create, TypeInv, MemType
  <2>3. pde' \in [Frames -> [Slots -> KernelPool \cup {NULL}]]
    BY <1>2 DEF pagedir_create, TypeInv, MemType
  <2> QED
    BY <2>1, <2>2, <2>3 DEF TypeInv, MemType
<1>3. ASSUME NEW t \in Procs, FreeKpage(t), pc[t] \in {"read", "install", "cleared"}
      PROVE  free' \subseteq Frames
  BY <1>3, Constants DEF FreeKpage, ControlInv, TypeInv, ThreadType, MemType
<1>4. ASSUME NEW t \in Procs, GetPage(t) \/ ReadPage(t) \/ FreeCleared(t) PROVE MemType'
  <2>1. free' \subseteq Frames
    BY <1>3, <1>4 DEF GetPage, ReadPage, FreeCleared, At, TypeInv, MemType
  <2> QED
    BY <1>4, <2>1 DEF GetPage, ReadPage, FreeCleared, TypeInv, MemType
<1>5. ASSUME NEW t \in Procs, NEW p \in Pages, InstallPage(t, p) PROVE MemType'
  <2>1. cr3 = pagedir[t] /\ pagedir[t] \in Frames /\ t \in Threads /\ pc[t] = "install"
    BY <1>5, RunningDirectory DEF InstallPage, At
  <2>2. kpage[t] \in UserPool
    BY <2>1 DEF ControlInv, TypeInv, ThreadType
  <2>3. ASSUME NEW f \in KernelPool, MapPage(t, p, f)
        PROVE  /\ pde' \in [Frames -> [Slots -> KernelPool \cup {NULL}]]
               /\ pte' \in [Frames -> [Pages -> Entry]]
    <3>1. pde' \in [Frames -> [Slots -> KernelPool \cup {NULL}]]
      BY <2>1, <2>3, Constants DEF MapPage, TypeInv, MemType
    <3> DEFINE e == [kpage |-> kpage[t], flags |-> {"P"} \cup IF p \in Writable THEN {"W"} ELSE {}]
               old == IF TableOf(pagedir[t], p) = NULL THEN [q \in Pages |-> NoEntry] ELSE pte[f]
               new == [old EXCEPT ![p] = e]
    <3>2. e \in Entry
      BY <2>2, Constants DEF Entry
    <3>3. f \in Frames /\ old \in [Pages -> Entry]
      BY <1>0, <2>3, Constants DEF TypeInv, MemType
    <3>4. pte' = [pte EXCEPT ![f] = new]
      BY <2>3, Zenon DEF MapPage
    <3> HIDE DEF e, old
    <3>5. new \in [Pages -> Entry]
      BY <3>2, <3>3
    <3> HIDE DEF new
    <3>6. pte' \in [Frames -> [Pages -> Entry]]
      BY <3>3, <3>4, <3>5 DEF TypeInv, MemType
    <3> QED
      BY <3>1, <3>6
  <2>4. UNCHANGED <<pagedir, dying>>
    BY <1>5 DEF InstallPage
  <2>5. CASE FreeKpage(t) /\ UNCHANGED <<pde, pte>>
    BY <1>3, <2>1, <2>4, <2>5 DEF TypeInv, MemType
  <2>6. CASE \E f \in KernelPool : MapPage(t, p, f) /\ free' \subseteq free
    BY <2>3, <2>4, <2>6 DEF TypeInv, MemType
  <2>7. TableOf(pagedir[t], p) # NULL => TableOf(pagedir[t], p) \in KernelPool
    BY <2>1, TableTyped DEF TypeInv
  <2> QED
    BY <1>5, <2>5, <2>6, <2>7 DEF InstallPage
<1>6. ASSUME NEW t \in Procs, NEW f \in Frames, NEW p \in Pages, NEW e \in Entry,
             pte' = [pte EXCEPT ![f][p] = e], UNCHANGED <<free, pagedir, dying, pde>>
      PROVE  MemType'
  BY <1>6 DEF TypeInv, MemType
<1>7. ASSUME NEW t \in Procs, NEW p \in Pages, NEW write \in BOOLEAN, Access(t, p, write) PROVE MemType'
  <2> DEFINE f == TableOf(cr3, p)
  <2>1. cr3 \in Frames
    BY <1>7, RunningDirectory DEF Access, At
  <2>2. UNCHANGED <<free, pagedir, dying, pde>>
    BY <1>7 DEF Access
  <2>3. CASE UNCHANGED pte
    BY <1>1, <2>2, <2>3 DEF mem_vars
  <2>4. CASE /\ f # NULL /\ Allows(pte[f][p], write)
             /\ pte' = [pte EXCEPT ![f][p] = Touched(pte[f][p], write)]
    <3>1. f \in Frames
      BY <2>1, <2>4, TableTyped DEF TypeInv
    <3>2. pte[f][p] \in Entry /\ "P" \in pte[f][p].flags
      BY <2>4, <3>1 DEF TypeInv, MemType, Allows
    <3>3. Touched(pte[f][p], write) \in Entry
      BY <3>2, EntryUpdates
    <3> QED
      BY <1>6, <2>2, <2>4, <3>1, <3>3, Zenon
  <2> QED
    BY <1>7, <2>3, <2>4 DEF Access
<1>8. ASSUME NEW t \in Procs, NEW p \in Pages, pagedir_clear_page(t, p) PROVE MemType'
  <2>1. TableOf(pagedir[t], p) \in Frames
    <3>1. pagedir[t] \in Frames
      BY <1>8, RunningDirectory DEF pagedir_clear_page, At
    <3> QED
      BY <1>8, <3>1, TableTyped DEF pagedir_clear_page, Present, TypeInv
  <2> QED
    BY <1>6, <1>8, <2>1, Constants, Zenon DEF pagedir_clear_page
<1>9. ASSUME NEW t \in Procs, NEW p \in Pages, NEW b \in Tracked, NEW v \in BOOLEAN,
             pagedir_set_flag(t, p, b, v)
      PROVE  MemType'
  <2> DEFINE f == TableOf(pagedir[t], p)
  <2>1. pagedir[t] \in Frames
    BY <1>9, RunningDirectory DEF pagedir_set_flag, At
  <2>2. f \in Frames
    BY <1>9, <2>1, TableTyped DEF pagedir_set_flag, Present, TypeInv
  <2>3. pte[f][p] \in Entry /\ "P" \in pte[f][p].flags
    BY <1>9, <2>2 DEF pagedir_set_flag, Present, TypeInv, MemType
  <2>4. UNCHANGED <<free, pagedir, dying, pde>>
    BY <1>9 DEF pagedir_set_flag
  <2>5. \/ pte' = [pte EXCEPT ![f][p] = [pte[f][p] EXCEPT !.flags = @ \cup {b}]]
        \/ pte' = [pte EXCEPT ![f][p] = [pte[f][p] EXCEPT !.flags = @ \ {b}]]
    BY <1>9, Zenon DEF pagedir_set_flag
  <2>6. PICK e \in Entry : pte' = [pte EXCEPT ![f][p] = e]
    BY <2>3, <2>5, EntryUpdates, Zenon
  <2> HIDE DEF f
  <2> QED
    BY <1>6, <2>2, <2>4, <2>6, Zenon
<1>10. ASSUME NEW t \in Procs, ExitDetach(t) \/ DestroyDirectory(t) PROVE MemType'
  <2>1. pagedir' \in [Threads -> KernelPool \cup {NULL}] /\ dying' \in [Threads -> KernelPool \cup {NULL}]
    BY <1>10, Constants DEF ExitDetach, DestroyDirectory, TypeInv, MemType
  <2>2. free' \subseteq Frames
    BY <1>10, Constants DEF ExitDetach, DestroyDirectory, At, ControlInv, TypeInv, MemType
  <2> QED
    BY <1>10, <2>1, <2>2 DEF ExitDetach, DestroyDirectory, TypeInv, MemType
<1>11. ASSUME NEW t \in Procs, NEW k \in Slots, DestroyTable(t, k) PROVE MemType'
  <2> DEFINE f == pde[dying[t]][k]
             gone == {pte[f][q].kpage : q \in {r \in Pages : "P" \in pte[f][r].flags}}
  <2>1. dying[t] \in Frames /\ f # NULL
    BY <1>11, Constants DEF DestroyTable, At, ControlInv, TypeInv, MemType
  <2>2. f \in Frames /\ f \in KernelPool
    BY <2>1, Constants DEF TypeInv, MemType
  <2>3. gone \subseteq UserPool
    <3>1. \A q \in Pages : pte[f][q] \in Entry
      BY <2>2 DEF TypeInv, MemType
    <3> QED
      BY <3>1, EntryFields
  <2>4. free' = free \cup {f} \cup gone /\ UNCHANGED <<pagedir, dying>>
    BY <1>11 DEF DestroyTable
  <2>5. pte' = [pte EXCEPT ![f] = [p \in Pages |-> NoEntry]] /\ pde' = [pde EXCEPT ![dying[t]][k] = NULL]
    BY <1>11 DEF DestroyTable
  <2> HIDE DEF f, gone
  <2>6. free' \subseteq Frames
    BY <2>2, <2>3, <2>4, Constants DEF TypeInv, MemType
  <2>7. pte' \in [Frames -> [Pages -> Entry]]
    BY <1>0, <2>2, <2>5 DEF TypeInv, MemType
  <2>8. pde' \in [Frames -> [Slots -> KernelPool \cup {NULL}]]
    BY <2>1, <2>5 DEF TypeInv, MemType
  <2> QED
    BY <2>4, <2>6, <2>7, <2>8 DEF TypeInv, MemType
<1>12. ASSUME \/ \E v \in Vectors, spurious \in BOOLEAN : intr_handler(v, spurious)
              \/ \E t \in Threads : Block(t)
              \/ \E t \in Procs : \/ Create(t) \/ LoadActivate(t) \/ page_fault(t) \/ kill(t) \/ Die(t)
                                   \/ Syscall(t) \/ SyscallReturn(t)
                                   \/ invalidate_pagedir(t) \/ ExitDeactivate(t)
              \/ UNCHANGED vars
       PROVE  MemType'
  BY <1>1, <1>12, Zenon DEF intr_handler, Block, Create, LoadActivate, page_fault, kill, Die, Syscall,
                     SyscallReturn, invalidate_pagedir, ExitDeactivate, vars
<1> QED
  BY <1>2, <1>4, <1>5, <1>7, <1>8, <1>9, <1>10, <1>11, <1>12 DEF Next, Load, Run, PagedirOp, Exit

LEMMA TypeStep == TypeInv /\ ControlInv /\ Cr3Inv /\ [Next]_vars => TypeInv'
BY CpuTypeStep, ThreadTypeStep, MemTypeStep DEF TypeInv

-----------------------------------------------------------------------------
LEMMA ControlInit == Init => ControlInv /\ FaultInv /\ Cr3Inv
<1> SUFFICES ASSUME Init PROVE ControlInv /\ FaultInv /\ Cr3Inv
  OBVIOUS
<1> QED
  BY Constants DEF Init, ControlInv, WithDirectory, FaultInv, Cr3Inv

(* What install_page does but for the tables. *)
LEMMA InstallEffect ==
  ASSUME NEW t \in Procs, NEW p \in Pages, InstallPage(t, p)
  PROVE  /\ At(t, "install") /\ \E l \in {"exit", "segment", "user"} : Go(t, l)
         /\ kpage' = [kpage EXCEPT ![t] = NULL]
         /\ UNCHANGED <<cpu_vars, intr, faulted, fault_addr, pagedir, dying>>
BY Zenon DEF InstallPage, MapPage, FreeKpage

LEMMA ControlStep ==
  TypeInv /\ ControlInv /\ FaultInv /\ Cr3Inv /\ [Next]_vars => ControlInv' /\ FaultInv' /\ Cr3Inv'
<1> DEFINE Inv == ControlInv /\ FaultInv /\ Cr3Inv
<1> SUFFICES ASSUME TypeInv, Inv, [Next]_vars PROVE Inv'
  OBVIOUS
<1> USE Constants DEF TypeInv, CpuType, ThreadType, MemType, ControlInv, WithDirectory, FaultInv, Cr3Inv
<1>1. ASSUME NEW n \in Threads, pc[n] # "dead", SwitchTo(n), UNCHANGED <<thread_vars, mem_vars, cr2>>,
             n # cur => intr[cur] = "ON" \/ pc[cur] # "page_fault"
      PROVE  Inv'
  BY <1>1 DEF SwitchTo, process_activate, pagedir_activate, thread_vars, mem_vars
<1>2. ASSUME NEW v \in Vectors, NEW spurious \in BOOLEAN, intr_handler(v, spurious) PROVE Inv'
  BY <1>1, <1>2 DEF intr_handler, thread_vars, mem_vars
<1>3. ASSUME NEW t \in Threads, Block(t) PROVE Inv'
  BY <1>1, <1>3 DEF Block, At
<1>4. ASSUME NEW t \in Procs, Create(t) PROVE Inv'
  BY <1>4 DEF Create, At, Go, cpu_vars, mem_vars
<1>5. ASSUME NEW t \in Procs, LoadActivate(t) PROVE Inv'
  BY <1>5 DEF LoadActivate, At, Go, mem_vars, process_activate, pagedir_activate
<1>6. ASSUME NEW t \in Procs, page_fault(t) PROVE Inv'
  BY <1>6 DEF page_fault, At, Go, cpu_vars, mem_vars
<1>7. ASSUME NEW t \in Procs, kill(t) PROVE Inv'
  BY <1>7 DEF kill, At, Go, cpu_vars, mem_vars
<1>8. ASSUME NEW t \in Procs, Syscall(t) \/ SyscallReturn(t) PROVE Inv'
  <2>1. CASE Syscall(t)
    BY <2>1 DEF Syscall, At, Go, cpu_vars, mem_vars
  <2>2. CASE SyscallReturn(t)
    BY <2>2 DEF SyscallReturn, At, Go, cpu_vars, mem_vars
  <2> QED
    BY <1>8, <2>1, <2>2
<1>9. ASSUME NEW t \in Procs, invalidate_pagedir(t) PROVE Inv'
  BY <1>9 DEF invalidate_pagedir, At, Go, mem_vars, pagedir_activate
<1>10. ASSUME NEW t \in Procs, ExitDeactivate(t) PROVE Inv'
  BY <1>10 DEF ExitDeactivate, At, Go, mem_vars, pagedir_activate
<1>11. ASSUME NEW t \in Procs, Die(t) PROVE Inv'
  BY <1>11 DEF Die, At, Go, mem_vars, SwitchTo, process_activate, pagedir_activate
<1>12. ASSUME NEW t \in Procs, pagedir_create(t) PROVE Inv'
  BY <1>12 DEF pagedir_create, At, Go, cpu_vars
<1>13. ASSUME NEW t \in Procs, GetPage(t) PROVE Inv'
  BY <1>13 DEF GetPage, At, Go, cpu_vars
<1>14. ASSUME NEW t \in Procs, ReadPage(t) PROVE Inv'
  BY <1>14 DEF ReadPage, FreeKpage, At, Go, cpu_vars
<1>15. ASSUME NEW t \in Procs, NEW p \in Pages, InstallPage(t, p) PROVE Inv'
  <2>1. PICK l \in {"exit", "segment", "user"} :
             /\ At(t, "install") /\ Go(t, l)
             /\ kpage' = [kpage EXCEPT ![t] = NULL]
             /\ UNCHANGED <<cpu_vars, intr, faulted, fault_addr, pagedir, dying>>
    BY <1>15, InstallEffect
  <2> QED
    BY <2>1 DEF At, Go, cpu_vars
<1>16. ASSUME NEW t \in Procs, NEW p \in Pages, NEW write \in BOOLEAN, Access(t, p, write) PROVE Inv'
  BY <1>16 DEF Access, At, Go, PageFaultLevel
<1>17. ASSUME NEW t \in Procs, NEW p \in Pages, pagedir_clear_page(t, p) PROVE Inv'
  BY <1>17 DEF pagedir_clear_page, At, Go, cpu_vars
<1>18. ASSUME NEW t \in Procs, NEW p \in Pages, NEW b \in Tracked, NEW v \in BOOLEAN,
              pagedir_set_flag(t, p, b, v)
       PROVE  Inv'
  BY <1>18 DEF pagedir_set_flag, At, Go, cpu_vars
<1>19. ASSUME NEW t \in Procs, FreeCleared(t) PROVE Inv'
  BY <1>19 DEF FreeCleared, FreeKpage, At, Go, cpu_vars
<1>20. ASSUME NEW t \in Procs, ExitDetach(t) PROVE Inv'
  BY <1>20 DEF ExitDetach, At, Go, cpu_vars
<1>21. ASSUME NEW t \in Procs, NEW k \in Slots, DestroyTable(t, k) PROVE Inv'
  <2>1. UNCHANGED <<cpu_vars, thread_vars, pagedir, dying>>
    BY <1>21, Zenon DEF DestroyTable
  <2> QED
    BY <2>1 DEF cpu_vars, thread_vars
<1>22. ASSUME NEW t \in Procs, DestroyDirectory(t) PROVE Inv'
  BY <1>22 DEF DestroyDirectory, At, Go, cpu_vars
<1>23. CASE UNCHANGED vars
  BY <1>23 DEF vars, cpu_vars, thread_vars, mem_vars
<1> HIDE DEF TypeInv, ControlInv, FaultInv, Cr3Inv, Inv
<1> QED
  BY <1>2, <1>3, <1>4, <1>5, <1>6, <1>7, <1>8, <1>9, <1>10, <1>11, <1>12, <1>13, <1>14, <1>15,
     <1>16, <1>17, <1>18, <1>19, <1>20, <1>21, <1>22, <1>23
  DEF Next, Load, Run, PagedirOp, Exit

-----------------------------------------------------------------------------
ControlAll == TypeInv /\ ControlInv /\ FaultInv /\ Cr3Inv

LEMMA ControlAlways == Spec => []ControlAll
<1>1. Init => ControlAll
  BY TypeInit, ControlInit DEF ControlAll
<1>2. ControlAll /\ [Next]_vars => ControlAll'
  BY TypeStep, ControlStep DEF ControlAll
<1> QED
  BY <1>1, <1>2, PTL DEF Spec

(* page_fault reports the address of the thread's own fault, whatever other *)
(* threads do in between.                                                   *)
THEOREM FaultsReportTheirOwnAddress == Spec => []FaultAddressOwn
<1>1. ControlAll => FaultAddressOwn
  BY DEF ControlAll, TypeInv, CpuType, FaultInv, FaultAddressOwn
<1> QED
  BY <1>1, ControlAlways, PTL

-----------------------------------------------------------------------------
(* The frames in use, each by one owner: a thread's directory, *)
DirInv ==
  \A t \in Threads : Dir(t) # NULL =>
    Dir(t) \notin free /\ \A u \in Threads : Dir(u) = Dir(t) => u = t

(* a page table in a slot of such a directory, *)
TableInv ==
  \A d \in Frames, k \in Slots : pde[d][k] # NULL =>
    /\ pde[d][k] \notin free
    /\ \E t \in Threads : Dir(t) = d
    /\ \A t \in Threads : Dir(t) # pde[d][k]
    /\ \A c \in Frames, j \in Slots : pde[c][j] = pde[d][k] => c = d /\ j = k

(* a page mapped in such a table, at the address of its slot, *)
PageInv ==
  \A f \in Frames, p \in Pages : pte[f][p].kpage # NULL =>
    /\ pte[f][p].kpage \notin free
    /\ \E d \in Frames : pde[d][pd_no[p]] = f
    /\ \A g \in Frames, q \in Pages : pte[g][q].kpage = pte[f][p].kpage => g = f /\ q = p

(* or a page that a thread has got and not mapped. *)
KpageInv ==
  \A t \in Threads : kpage[t] # NULL =>
    /\ kpage[t] \notin free
    /\ \A u \in Threads : kpage[u] = kpage[t] => u = t
    /\ \A f \in Frames, p \in Pages : pte[f][p].kpage # kpage[t]

(* And no other frame is in use. *)
CoverInv ==
  /\ \A f \in KernelPool \ free :
       (\E t \in Threads : Dir(t) = f) \/ (\E d \in Frames, k \in Slots : pde[d][k] = f)
  /\ \A f \in UserPool \ free :
       (\E t \in Threads : kpage[t] = f) \/ (\E g \in Frames, p \in Pages : pte[g][p].kpage = f)

MemInv == DirInv /\ TableInv /\ PageInv /\ KpageInv /\ CoverInv

-----------------------------------------------------------------------------
(* The owners of page frames. *)
LEMMA MemInit == Init => MemInv
<1> SUFFICES ASSUME Init PROVE MemInv
  OBVIOUS
<1>1. \A f \in Frames, p \in Pages : pte[f][p].kpage = NULL
  BY DEF Init, NoEntry
<1> QED
  BY <1>1, Constants DEF Init, MemInv, DirInv, TableInv, PageInv, KpageInv, CoverInv, Dir

(* pagedir_create. *)
LEMMA MemTakeDirectory ==
  ASSUME TypeInv, MemInv, NEW t \in Threads, NEW f \in KernelPool, f \in free, Dir(t) = NULL,
         free' = free \ {f}, pde' = [pde EXCEPT ![f] = [k \in Slots |-> NULL]],
         pagedir' = [pagedir EXCEPT ![t] = f], UNCHANGED <<dying, kpage, pte>>
  PROVE  MemInv'
<1> USE Constants DEF TypeInv, MemType
<1>1. Dir(t)' = f /\ \A u \in Threads \ {t} : Dir(u)' = Dir(u)
  BY DEF Dir
<1>2. \A k \in Slots : pde'[f][k] = NULL
  OBVIOUS
<1>3. \A d \in Frames \ {f}, k \in Slots : pde'[d][k] = pde[d][k]
  OBVIOUS
<1>4. \A u \in Threads : Dir(u) # f
  BY DEF MemInv, DirInv
<1>5. \A k \in Slots : pde[f][k] = NULL
  BY <1>4 DEF MemInv, TableInv
<1>6. \A d \in Frames, k \in Slots : pde'[d][k] = pde[d][k]
  BY <1>2, <1>3, <1>5
<1>7. \A d \in Frames, k \in Slots : pde[d][k] # f
  BY DEF MemInv, TableInv
<1> HIDE DEF TypeInv, MemType
<1>8. DirInv'
  BY <1>1, <1>4 DEF MemInv, DirInv
<1>9. TableInv'
  BY <1>1, <1>6, <1>7 DEF MemInv, TableInv
<1>10. PageInv'
  BY <1>6, Constants DEF MemInv, PageInv
<1>11. KpageInv'
  BY DEF MemInv, KpageInv
<1>12. CoverInv'
  BY <1>1, <1>6 DEF MemInv, CoverInv
<1> QED
  BY <1>8, <1>9, <1>10, <1>11, <1>12 DEF MemInv

(* palloc_get_page in load_segment. *)
LEMMA MemTakePage ==
  ASSUME TypeInv, MemInv, NEW t \in Threads, NEW f \in UserPool, f \in free, kpage[t] = NULL,
         free' = free \ {f}, kpage' = [kpage EXCEPT ![t] = f], UNCHANGED <<pagedir, dying, pde, pte>>
  PROVE  MemInv'
<1>1. kpage'[t] = f /\ \A u \in Threads \ {t} : kpage'[u] = kpage[u]
  BY DEF TypeInv, ThreadType
<1>2. \A u \in Threads : Dir(u)' = Dir(u)
  BY DEF Dir
<1>3. \A u \in Threads : kpage[u] # f
  BY Constants DEF MemInv, KpageInv
<1>4. \A g \in Frames, q \in Pages : pte[g][q].kpage # f
  BY Constants DEF MemInv, PageInv
<1>5. DirInv' /\ TableInv' /\ PageInv'
  BY <1>2, Constants DEF MemInv, DirInv, TableInv, PageInv
<1>6. KpageInv'
  BY <1>1, <1>3, <1>4 DEF MemInv, KpageInv
<1>7. CoverInv'
  BY <1>1, <1>2, Constants DEF MemInv, CoverInv
<1> QED
  BY <1>5, <1>6, <1>7 DEF MemInv

(* palloc_free_page of it. *)
LEMMA MemGivePage ==
  ASSUME TypeInv, MemInv, NEW t \in Threads, kpage[t] # NULL, FreeKpage(t),
         UNCHANGED <<pagedir, dying, pde, pte>>
  PROVE  MemInv'
<1>1. kpage'[t] = NULL /\ \A u \in Threads \ {t} : kpage'[u] = kpage[u]
  BY DEF TypeInv, ThreadType, FreeKpage
<1>2. \A u \in Threads : Dir(u)' = Dir(u)
  BY DEF Dir
<1>3. kpage[t] \in UserPool /\ free' = free \cup {kpage[t]}
  BY DEF TypeInv, ThreadType, FreeKpage
<1>4. \A u \in Threads : Dir(u) # kpage[t]
  BY <1>3, Constants DEF TypeInv, ThreadType, MemType, Dir
<1>5. \A d \in Frames, k \in Slots : pde[d][k] # kpage[t]
  BY <1>3, Constants DEF TypeInv, ThreadType, MemType
<1>6. DirInv' /\ TableInv'
  BY <1>2, <1>3, <1>4, <1>5 DEF MemInv, DirInv, TableInv
<1>7. PageInv'
  BY <1>3 DEF MemInv, PageInv, KpageInv
<1>8. KpageInv'
  BY <1>1, <1>3 DEF MemInv, KpageInv
<1>9. CoverInv'
  BY <1>1, <1>2, <1>3 DEF MemInv, CoverInv
<1> QED
  BY <1>6, <1>7, <1>8, <1>9 DEF MemInv

(* install_page with a page table there, or with a new one. *)
LEMMA MemMap ==
  ASSUME TypeInv, MemInv, NEW t \in Threads, NEW p \in Pages, NEW f \in KernelPool,
         pagedir[t] # NULL, kpage[t] # NULL, MapPage(t, p, f), UNCHANGED <<pagedir, dying>>,
         \/ TableOf(pagedir[t], p) = f /\ pte[f][p].kpage = NULL /\ UNCHANGED free
         \/ TableOf(pagedir[t], p) = NULL /\ f \in free /\ free' = free \ {f}
  PROVE  MemInv'
<1> DEFINE D == pagedir[t]
           K == pd_no[p]
<1>0. D \in KernelPool /\ K \in Slots /\ D = Dir(t) /\ kpage[t] \in UserPool /\ f \in Frames
  BY Constants DEF TypeInv, ThreadType, MemType, Dir
<1>1. kpage'[t] = NULL /\ \A u \in Threads \ {t} : kpage'[u] = kpage[u]
  BY DEF TypeInv, ThreadType, MapPage
<1>2. \A u \in Threads : Dir(u)' = Dir(u)
  BY DEF Dir
<1>3. /\ pde'[D][K] = f
      /\ \A d \in Frames, k \in Slots : d # D \/ k # K => pde'[d][k] = pde[d][k]
  BY <1>0, Constants DEF TypeInv, MemType, MapPage
<1>4. \A g \in Frames \ {f}, q \in Pages : pte'[g][q] = pte[g][q]
  BY DEF TypeInv, MemType, MapPage
<1>5. pte'[f][p].kpage = kpage[t]
  BY <1>0 DEF TypeInv, ThreadType, MemType, MapPage
<1>6. TableOf(D, p) = NULL => \A q \in Pages : pte[f][q].kpage = NULL
  <2> SUFFICES ASSUME TableOf(D, p) = NULL PROVE \A q \in Pages : pte[f][q].kpage = NULL
    OBVIOUS
  <2>1. f \in free
    BY Constants
  <2>2. \A d \in Frames, k \in Slots : pde[d][k] # f
    BY <2>1, Constants DEF MemInv, TableInv
  <2> QED
    BY <1>0, <2>2, Constants DEF MemInv, PageInv
<1>7. \A q \in Pages \ {p} : pte'[f][q].kpage = pte[f][q].kpage
  <2>1. CASE TableOf(D, p) = NULL
    <3>1. \A q \in Pages \ {p} : pte'[f][q] = NoEntry
      BY <1>0, <2>1 DEF TypeInv, MemType, MapPage
    <3> QED
      BY <1>6, <2>1, <3>1 DEF NoEntry
  <2>2. CASE TableOf(D, p) # NULL
    BY <1>0, <2>2 DEF TypeInv, MapPage
  <2> QED
    BY <2>1, <2>2
<1>8. pte[f][p].kpage = NULL
  BY <1>6, Constants
<1>9. /\ pte'[f][p].kpage = kpage[t]
      /\ \A g \in Frames, q \in Pages : g # f \/ q # p => pte'[g][q].kpage = pte[g][q].kpage
  BY <1>4, <1>5, <1>7
<1>10. \/ free' = free /\ pde[D][K] = f
       \/ free' = free \ {f} /\ f \in free /\ pde[D][K] = NULL
  BY DEF TableOf
<1> HIDE DEF D, K
<1>11. DirInv'
  BY <1>2, <1>10 DEF MemInv, DirInv
<1>12. TableInv'
  <2>1. CASE pde[D][K] = f
    <3>1. \A d \in Frames, k \in Slots : pde'[d][k] = pde[d][k]
      BY <1>3, <2>1
    <3> QED
      BY <1>2, <1>10, <3>1 DEF MemInv, TableInv
  <2>2. CASE pde[D][K] = NULL
    <3>1. free' = free \ {f} /\ f \in free
      BY <1>0, <1>10, <2>2, Constants
    <3>2. \A d \in Frames, k \in Slots : pde[d][k] # f
      BY <1>0, <3>1, Constants DEF MemInv, TableInv
    <3>3. \A u \in Threads : Dir(u) # f
      BY <1>0, <3>1, Constants DEF MemInv, DirInv
    <3>4. ASSUME NEW d \in Frames, NEW k \in Slots, pde'[d][k] # NULL
          PROVE  /\ pde'[d][k] \notin free'
                 /\ \E u \in Threads : Dir(u)' = d
                 /\ \A u \in Threads : Dir(u)' # pde'[d][k]
      <4>1. CASE d = D /\ k = K
        BY <1>0, <1>2, <1>3, <3>1, <3>3, <4>1
      <4>2. CASE d # D \/ k # K
        BY <1>2, <1>3, <3>1, <3>4, <4>2 DEF MemInv, TableInv
      <4> QED
        BY <4>1, <4>2
    <3>5. ASSUME NEW d \in Frames, NEW k \in Slots, pde'[d][k] # NULL,
                 NEW c \in Frames, NEW j \in Slots, pde'[c][j] = pde'[d][k]
          PROVE  c = d /\ j = k
      BY <1>3, <3>2, <3>5 DEF MemInv, TableInv
    <3> QED
      BY <3>4, <3>5 DEF TableInv
  <2> QED
    BY <1>10, <2>1, <2>2
<1>13. PageInv'
  <2>1. \A d \in Frames, k \in Slots : pde[d][k] # NULL => pde'[d][k] = pde[d][k]
    BY <1>0, <1>3, <1>10
  <2>2. ASSUME NEW g \in Frames, NEW q \in Pages, pte'[g][q].kpage # NULL
        PROVE  /\ pte'[g][q].kpage \notin free'
               /\ \E d \in Frames : pde'[d][pd_no[q]] = g
    <3>1. CASE g = f /\ q = p
      <4>1. pde'[D][pd_no[q]] = g
        BY <1>3, <3>1 DEF K
      <4>2. kpage[t] \notin free'
        BY <1>0, <1>10 DEF MemInv, KpageInv
      <4> QED
        BY <1>0, <1>9, <3>1, <4>1, <4>2, Constants
    <3>2. CASE g # f \/ q # p
      <4>1. pte[g][q].kpage # NULL /\ pte'[g][q].kpage = pte[g][q].kpage
        BY <1>9, <2>2, <3>2
      <4>2. PICK d \in Frames : pde[d][pd_no[q]] = g
        BY <4>1 DEF MemInv, PageInv
      <4>3. pde'[d][pd_no[q]] = g
        BY <2>1, <4>2, Constants
      <4> QED
        BY <1>10, <4>1, <4>3 DEF MemInv, PageInv
    <3> QED
      BY <3>1, <3>2
  <2>3. ASSUME NEW g \in Frames, NEW q \in Pages, pte'[g][q].kpage # NULL,
               NEW h \in Frames, NEW r \in Pages, pte'[h][r].kpage = pte'[g][q].kpage
        PROVE  h = g /\ r = q
    BY <1>0, <1>9, <2>3 DEF MemInv, PageInv, KpageInv
  <2> QED
    BY <2>2, <2>3 DEF PageInv
<1>14. KpageInv'
  BY <1>0, <1>1, <1>9, <1>10 DEF MemInv, KpageInv
<1>15. CoverInv'
  <2>1. ASSUME NEW g \in KernelPool \ free'
        PROVE  (\E u \in Threads : Dir(u)' = g) \/ (\E d \in Frames, k \in Slots : pde'[d][k] = g)
    <3>1. CASE g = f
      BY <1>0, <1>3, <3>1, Constants
    <3>2. CASE g # f
      <4>1. g \in KernelPool \ free
        BY <1>10, <3>2
      <4>2. (\E u \in Threads : Dir(u) = g) \/ (\E d \in Frames, k \in Slots : pde[d][k] = g)
        BY <4>1 DEF MemInv, CoverInv
      <4> QED
        <5>1. CASE \E u \in Threads : Dir(u) = g
          BY <1>2, <5>1
        <5>2. CASE \E d \in Frames, k \in Slots : pde[d][k] = g
          <6>1. PICK d \in Frames, k \in Slots : pde[d][k] = g
            BY <5>2
          <6>2. d # D \/ k # K
            BY <1>10, <3>2, <4>1, <6>1, Constants
          <6> QED
            BY <1>3, <6>1, <6>2
        <5> QED
          BY <4>2, <5>1, <5>2
    <3> QED
      BY <3>1, <3>2
  <2>2. ASSUME NEW g \in UserPool \ free'
        PROVE  (\E u \in Threads : kpage'[u] = g) \/ (\E h \in Frames, q \in Pages : pte'[h][q].kpage = g)
    <3>1. g \in UserPool \ free
      BY <1>10, Constants
    <3>2. (\E u \in Threads : kpage[u] = g) \/ (\E h \in Frames, q \in Pages : pte[h][q].kpage = g)
      BY <3>1 DEF MemInv, CoverInv
    <3>3. ASSUME NEW u \in Threads, kpage[u] = g
          PROVE  (\E v \in Threads : kpage'[v] = g) \/ pte'[f][p].kpage = g
      BY <1>1, <1>9, <3>3
    <3>4. ASSUME NEW h \in Frames, NEW q \in Pages, pte[h][q].kpage = g
          PROVE  pte'[h][q].kpage = g
      <4>1. g # NULL
        BY <3>1, Constants
      <4> QED
        BY <1>8, <1>9, <3>4, <4>1
    <3> QED
      BY <1>0, <3>2, <3>3, <3>4
  <2> QED
    BY <2>1, <2>2 DEF CoverInv
<1> QED
  BY <1>11, <1>12, <1>13, <1>14, <1>15 DEF MemInv

(* Steps that leave the frames where they are: flags change, or a directory *)
(* goes from pagedir to dying.                                              *)
LEMMA MemKept ==
  ASSUME MemInv, UNCHANGED <<free, kpage, pde>>,
         \A t \in Threads : Dir(t)' = Dir(t),
         \A f \in Frames, p \in Pages : pte'[f][p].kpage = pte[f][p].kpage
  PROVE  MemInv'
<1>0. DirInv /\ TableInv /\ PageInv /\ KpageInv /\ CoverInv
  BY DEF MemInv
<1>1. DirInv'
  BY <1>0 DEF DirInv
<1>2. TableInv'
  BY <1>0 DEF TableInv
<1>3. PageInv'
  BY <1>0 DEF PageInv
<1>4. KpageInv'
  BY <1>0 DEF KpageInv
<1>5. CoverInv'
  BY <1>0 DEF CoverInv
<1> QED
  BY <1>1, <1>2, <1>3, <1>4, <1>5 DEF MemInv

(* pagedir_clear_page: the page goes from the table to the thread. *)
LEMMA MemClear ==
  ASSUME TypeInv, MemInv, NEW t \in Threads, NEW p \in Pages, NEW f \in Frames,
         kpage[t] = NULL, pte[f][p].kpage # NULL,
         kpage' = [kpage EXCEPT ![t] = pte[f][p].kpage],
         pte' = [pte EXCEPT ![f][p] = NoEntry],
         UNCHANGED <<free, pagedir, dying, pde>>
  PROVE  MemInv'
<1>1. kpage'[t] = pte[f][p].kpage /\ \A u \in Threads \ {t} : kpage'[u] = kpage[u]
  BY DEF TypeInv, ThreadType, MemType
<1>2. \A u \in Threads : Dir(u)' = Dir(u)
  BY DEF Dir
<1>3. /\ pte'[f][p].kpage = NULL
      /\ \A g \in Frames, q \in Pages : g # f \/ q # p => pte'[g][q].kpage = pte[g][q].kpage
  BY DEF TypeInv, MemType, NoEntry
<1>4. DirInv'
  BY <1>2 DEF MemInv, DirInv
<1>5. TableInv'
  BY <1>2 DEF MemInv, TableInv
<1>6. PageInv'
  BY <1>3 DEF MemInv, PageInv
<1>7. KpageInv'
  BY <1>1, <1>3 DEF MemInv, KpageInv, PageInv
<1>8. CoverInv'
  <2>1. \A g \in KernelPool \ free' :
          (\E u \in Threads : Dir(u)' = g) \/ (\E d \in Frames, k \in Slots : pde'[d][k] = g)
    BY <1>2 DEF MemInv, CoverInv
  <2>2. \A g \in UserPool \ free' :
          (\E u \in Threads : kpage'[u] = g) \/ (\E h \in Frames, q \in Pages : pte'[h][q].kpage = g)
    BY <1>1, <1>3, Constants DEF MemInv, CoverInv
  <2> QED
    BY <2>1, <2>2 DEF CoverInv
<1> QED
  BY <1>4, <1>5, <1>6, <1>7, <1>8 DEF MemInv

(* One turn of pagedir_destroy's loop. *)
LEMMA MemDestroyTable ==
  ASSUME TypeInv, MemInv, NEW t \in Threads, NEW k \in Slots, dying[t] # NULL, pagedir[t] = NULL,
         DestroyTable(t, k)
  PROVE  MemInv'
<1> DEFINE D == dying[t]
           f == pde[D][k]
           gone == {pte[f][p].kpage : p \in {q \in Pages : "P" \in pte[f][q].flags}}
<1>0. D \in Frames /\ f \in KernelPool /\ f \in Frames /\ D = Dir(t)
  <2>1. D \in KernelPool /\ D = Dir(t)
    BY DEF TypeInv, MemType, Dir
  <2>2. D \in Frames
    BY <2>1, Constants
  <2>3. f \in KernelPool
    BY <2>2 DEF TypeInv, MemType, DestroyTable
  <2> QED
    BY <2>1, <2>2, <2>3, Constants
<1>1. \A u \in Threads : Dir(u)' = Dir(u)
  BY DEF Dir, DestroyTable
<1>2. UNCHANGED kpage
  BY DEF DestroyTable, thread_vars
<1>3. /\ pde'[D][k] = NULL
      /\ \A d \in Frames, j \in Slots : d # D \/ j # k => pde'[d][j] = pde[d][j]
  BY <1>0 DEF TypeInv, MemType, DestroyTable
<1>4. /\ \A q \in Pages : pte'[f][q].kpage = NULL
      /\ \A g \in Frames \ {f}, q \in Pages : pte'[g][q].kpage = pte[g][q].kpage
  BY <1>0 DEF TypeInv, MemType, DestroyTable, NoEntry
<1>5. free' = free \cup {f} \cup gone
  BY DEF DestroyTable
<1>6. \A g \in gone : g \in UserPool /\ \E p \in Pages : pte[f][p].kpage = g
  BY <1>0, EntryTyped DEF TypeInv
<1>7. \A p \in Pages : pte[f][p].kpage # NULL => pte[f][p].kpage \in gone
  BY <1>0, EntryTyped DEF TypeInv
<1>8. f # NULL /\ pde[D][k] = f
  BY <1>0, Constants
<1> HIDE DEF D, f, gone
<1>9. DirInv'
  <2>1. ASSUME NEW u \in Threads, Dir(u) # NULL
        PROVE  Dir(u) \notin free'
    <3>1. Dir(u) \in KernelPool
      BY <2>1 DEF TypeInv, MemType, Dir
    <3>2. Dir(u) # f
      BY <1>0, <1>8 DEF MemInv, TableInv
    <3>3. Dir(u) \notin free
      BY <2>1 DEF MemInv, DirInv
    <3> QED
      BY <1>5, <1>6, <3>1, <3>2, <3>3, Constants
  <2> QED
    BY <1>1, <2>1 DEF MemInv, DirInv
<1>10. TableInv'
  <2>1. ASSUME NEW d \in Frames, NEW j \in Slots, pde'[d][j] # NULL
        PROVE  pde'[d][j] = pde[d][j] /\ pde[d][j] # f /\ pde[d][j] \in KernelPool
    <3>1. pde'[d][j] = pde[d][j] /\ (d # D \/ j # k)
      BY <1>3, <2>1
    <3>2. pde[d][j] # f
      BY <1>0, <1>8, <3>1 DEF MemInv, TableInv
    <3>3. pde[d][j] \in KernelPool
      BY <2>1, <3>1 DEF TypeInv, MemType
    <3> QED
      BY <3>1, <3>2, <3>3
  <2>2. ASSUME NEW d \in Frames, NEW j \in Slots, pde'[d][j] # NULL
        PROVE  pde'[d][j] \notin free'
    <3>1. pde[d][j] \notin free
      BY <2>1, <2>2 DEF MemInv, TableInv
    <3>2. pde[d][j] \notin gone
      BY <1>6, <2>1, <2>2, Constants
    <3> QED
      BY <1>5, <2>1, <2>2, <3>1, <3>2
  <2>3. ASSUME NEW d \in Frames, NEW j \in Slots, pde'[d][j] # NULL
        PROVE  /\ \E u \in Threads : Dir(u)' = d
               /\ \A u \in Threads : Dir(u)' # pde'[d][j]
               /\ \A c \in Frames, i \in Slots : pde'[c][i] = pde'[d][j] => c = d /\ i = j
    BY <1>1, <2>1, <2>3 DEF MemInv, TableInv
  <2> QED
    BY <2>2, <2>3 DEF TableInv
<1>11. PageInv'
  <2>1. ASSUME NEW g \in Frames, NEW q \in Pages, pte'[g][q].kpage # NULL
        PROVE  g # f /\ pte'[g][q].kpage = pte[g][q].kpage
    BY <1>4, <2>1
  <2>2. ASSUME NEW g \in Frames, NEW q \in Pages, pte'[g][q].kpage # NULL
        PROVE  pte'[g][q].kpage \notin free'
    <3>1. pte[g][q].kpage \notin gone
      BY <1>0, <1>6, <2>1, <2>2 DEF MemInv, PageInv
    <3>2. pte[g][q].kpage \in UserPool
      BY <2>1, <2>2, EntryTyped DEF TypeInv
    <3> QED
      <4>1. pte[g][q].kpage \notin free
        BY <2>1, <2>2 DEF MemInv, PageInv
      <4>2. pte[g][q].kpage # f
        BY <1>0, <3>2, Constants
      <4> QED
        BY <1>5, <2>1, <2>2, <3>1, <4>1, <4>2
  <2>3. ASSUME NEW g \in Frames, NEW q \in Pages, pte'[g][q].kpage # NULL
        PROVE  \E d \in Frames : pde'[d][pd_no[q]] = g
    <3>1. PICK d \in Frames : pde[d][pd_no[q]] = g
      BY <2>1, <2>3 DEF MemInv, PageInv
    <3>2. d # D \/ pd_no[q] # k
      BY <1>8, <2>1, <2>3, <3>1
    <3> QED
      BY <1>3, <3>1, <3>2, Constants
  <2>4. ASSUME NEW g \in Frames, NEW q \in Pages, pte'[g][q].kpage # NULL,
               NEW h \in Frames, NEW r \in Pages, pte'[h][r].kpage = pte'[g][q].kpage
        PROVE  h = g /\ r = q
    BY <2>1, <2>4 DEF MemInv, PageInv
  <2> QED
    BY <2>2, <2>3, <2>4 DEF PageInv
<1>12. KpageInv'
  <2>1. ASSUME NEW u \in Threads, kpage'[u] # NULL
        PROVE  kpage'[u] \notin free'
    <3>1. kpage[u] \notin gone
      BY <1>0, <1>2, <1>6, <2>1 DEF MemInv, KpageInv
    <3>2. kpage[u] \in UserPool
      BY <1>2, <2>1 DEF TypeInv, ThreadType
    <3> QED
      BY <1>0, <1>2, <1>5, <2>1, <3>1, <3>2, Constants DEF MemInv, KpageInv
  <2>2. ASSUME NEW u \in Threads, kpage'[u] # NULL, NEW g \in Frames, NEW q \in Pages
        PROVE  pte'[g][q].kpage # kpage'[u]
    BY <1>2, <1>4, <2>2 DEF MemInv, KpageInv
  <2> QED
    BY <1>2, <2>1, <2>2 DEF MemInv, KpageInv
<1>13. CoverInv'
  <2>1. ASSUME NEW g \in KernelPool \ free'
        PROVE  (\E u \in Threads : Dir(u)' = g) \/ (\E d \in Frames, j \in Slots : pde'[d][j] = g)
    <3>1. g \in KernelPool \ free /\ g # f
      BY <1>5
    <3> QED
      BY <1>1, <1>3, <1>8, <3>1 DEF MemInv, CoverInv
  <2>2. ASSUME NEW g \in UserPool \ free'
        PROVE  (\E u \in Threads : kpage'[u] = g) \/ (\E h \in Frames, q \in Pages : pte'[h][q].kpage = g)
    <3>1. g \in UserPool \ free /\ g \notin gone /\ g # NULL
      BY <1>5, Constants
    <3>2. CASE \E u \in Threads : kpage[u] = g
      BY <1>2, <3>2
    <3>3. ASSUME NEW h \in Frames, NEW q \in Pages, pte[h][q].kpage = g
          PROVE  pte'[h][q].kpage = g
      BY <1>4, <1>7, <3>1, <3>3
    <3> QED
      BY <3>1, <3>2, <3>3 DEF MemInv, CoverInv
  <2> QED
    BY <2>1, <2>2 DEF CoverInv
<1> QED
  BY <1>9, <1>10, <1>11, <1>12, <1>13 DEF MemInv

(* palloc_free_page (pd), when all its tables are gone. *)
LEMMA MemDestroyDirectory ==
  ASSUME TypeInv, MemInv, NEW t \in Threads, dying[t] # NULL, pagedir[t] = NULL,
         DestroyDirectory(t)
  PROVE  MemInv'
<1> DEFINE D == dying[t]
<1>0. D \in KernelPool /\ D \in Frames /\ D = Dir(t) /\ D # NULL
  BY Constants DEF TypeInv, MemType, Dir
<1>1. Dir(t)' = NULL /\ \A u \in Threads \ {t} : Dir(u)' = Dir(u)
  BY DEF Dir, DestroyDirectory, TypeInv, MemType
<1>2. UNCHANGED <<kpage, pde, pte>> /\ free' = free \cup {D}
  BY DEF DestroyDirectory
<1>3. \A k \in Slots : pde[D][k] = NULL
  BY DEF DestroyDirectory
<1> HIDE DEF D
<1>4. DirInv'
  BY <1>0, <1>1, <1>2 DEF MemInv, DirInv
<1>5. TableInv'
  BY <1>0, <1>1, <1>2, <1>3 DEF MemInv, TableInv
<1>6. PageInv'
  <2>1. \A f \in Frames, p \in Pages : pte[f][p].kpage # D
    BY <1>0, EntryTyped, Constants DEF TypeInv
  <2> QED
    BY <1>2, <2>1 DEF MemInv, PageInv
<1>7. KpageInv'
  <2>1. \A u \in Threads : kpage[u] # D
    BY <1>0, Constants DEF TypeInv, ThreadType
  <2> QED
    BY <1>2, <2>1 DEF MemInv, KpageInv
<1>8. CoverInv'
  BY <1>0, <1>1, <1>2 DEF MemInv, CoverInv
<1> QED
  BY <1>4, <1>5, <1>6, <1>7, <1>8 DEF MemInv

LEMMA MemStep == TypeInv /\ ControlInv /\ Cr3Inv /\ MemInv /\ [Next]_vars => MemInv'
<1> SUFFICES ASSUME TypeInv, ControlInv, Cr3Inv, MemInv, [Next]_vars PROVE MemInv'
  OBVIOUS
<1>1. ASSUME UNCHANGED <<kpage, mem_vars>> PROVE MemInv'
  BY <1>1, MemKept DEF mem_vars, Dir
<1>2. ASSUME NEW v \in Vectors, NEW spurious \in BOOLEAN, intr_handler(v, spurious) PROVE MemInv'
  BY <1>1, <1>2 DEF intr_handler, thread_vars
<1>3. ASSUME NEW t \in Threads, Block(t) PROVE MemInv'
  BY <1>1, <1>3 DEF Block, thread_vars
<1>4. ASSUME NEW t \in Procs, Create(t) PROVE MemInv'
  BY <1>1, <1>4 DEF Create
<1>5. ASSUME NEW t \in Procs, LoadActivate(t) PROVE MemInv'
  BY <1>1, <1>5 DEF LoadActivate
<1>6. ASSUME NEW t \in Procs, page_fault(t) PROVE MemInv'
  BY <1>1, <1>6 DEF page_fault
<1>7. ASSUME NEW t \in Procs, kill(t) PROVE MemInv'
  BY <1>1, <1>7 DEF kill
<1>8. ASSUME NEW t \in Procs, Syscall(t) \/ SyscallReturn(t) PROVE MemInv'
  BY <1>1, <1>8 DEF Syscall, SyscallReturn
<1>9. ASSUME NEW t \in Procs, invalidate_pagedir(t) PROVE MemInv'
  BY <1>1, <1>9 DEF invalidate_pagedir
<1>10. ASSUME NEW t \in Procs, ExitDeactivate(t) PROVE MemInv'
  BY <1>1, <1>10 DEF ExitDeactivate
<1>11. ASSUME NEW t \in Procs, Die(t) PROVE MemInv'
  BY <1>1, <1>11 DEF Die
<1>12. ASSUME NEW t \in Procs, pagedir_create(t) PROVE MemInv'
  <2>1. t \in Threads /\ Dir(t) = NULL
    BY <1>12, Constants DEF pagedir_create, At, ControlInv, WithDirectory, Dir
  <2>2. CASE UNCHANGED <<free, pagedir, pde>>
    BY <1>1, <1>12, <2>2 DEF pagedir_create, mem_vars
  <2>3. CASE \E f \in KernelPool :
               /\ FirstFree(f, KernelPool) /\ free' = free \ {f}
               /\ pde' = [pde EXCEPT ![f] = [k \in Slots |-> NULL]]
               /\ pagedir' = [pagedir EXCEPT ![t] = f]
    BY <1>12, <2>1, <2>3, MemTakeDirectory, Zenon DEF pagedir_create, FirstFree
  <2> QED
    BY <1>12, <2>2, <2>3 DEF pagedir_create
<1>13. ASSUME NEW t \in Procs, GetPage(t) PROVE MemInv'
  <2>1. t \in Threads /\ kpage[t] = NULL
    BY <1>13, Constants DEF GetPage, At, ControlInv
  <2>2. CASE UNCHANGED <<free, kpage>>
    BY <1>1, <1>13, <2>2 DEF GetPage, mem_vars
  <2>3. CASE \E f \in UserPool :
               /\ FirstFree(f, UserPool) /\ free' = free \ {f}
               /\ kpage' = [kpage EXCEPT ![t] = f]
    BY <1>13, <2>1, <2>3, MemTakePage, Zenon DEF GetPage, FirstFree
  <2> QED
    BY <1>13, <2>2, <2>3 DEF GetPage
<1>14. ASSUME NEW t \in Procs, ReadPage(t) PROVE MemInv'
  <2>1. t \in Threads /\ kpage[t] # NULL
    BY <1>14, Constants DEF ReadPage, At, ControlInv
  <2>2. CASE UNCHANGED <<free, kpage>>
    BY <1>1, <1>14, <2>2 DEF ReadPage, mem_vars
  <2>3. CASE FreeKpage(t)
    BY <1>14, <2>1, <2>3, MemGivePage DEF ReadPage
  <2> QED
    BY <1>14, <2>2, <2>3 DEF ReadPage
<1>15. ASSUME NEW t \in Procs, NEW p \in Pages, InstallPage(t, p) PROVE MemInv'
  <2>1. t \in Threads /\ kpage[t] # NULL /\ pagedir[t] \in KernelPool
    BY <1>15, Constants DEF InstallPage, At, ControlInv, WithDirectory, TypeInv, ThreadType, MemType, CpuType
  <2>2. UNCHANGED <<pagedir, dying>>
    BY <1>15 DEF InstallPage
  <2>3. CASE FreeKpage(t) /\ UNCHANGED <<pde, pte>>
    BY <2>1, <2>2, <2>3, MemGivePage
  <2>4. CASE /\ pagedir_get_page(pagedir[t], p) = NULL /\ TableOf(pagedir[t], p) # NULL
             /\ MapPage(t, p, TableOf(pagedir[t], p)) /\ UNCHANGED free
    <3> DEFINE f == TableOf(pagedir[t], p)
    <3>1. f \in KernelPool
      <4>1. f # NULL
        BY <2>4
      <4>2. pd_no[p] \in Slots /\ pagedir[t] \in Frames
        BY <2>1, Constants
      <4> QED
        BY <4>1, <4>2 DEF TypeInv, MemType, TableOf
    <3>2. pte[f][p] \in Entry
      BY <3>1, Constants DEF TypeInv, ThreadType, MemType, CpuType
    <3>3. pte[f][p].kpage = NULL
      BY <2>4, <3>2, EntryFields, Constants DEF pagedir_get_page, Present
    <3> QED
      BY <2>1, <2>2, <2>4, <3>1, <3>3, MemMap, Constants
  <2>5. CASE /\ TableOf(pagedir[t], p) = NULL
             /\ \E f \in KernelPool :
                  FirstFree(f, KernelPool) /\ free' = free \ {f} /\ MapPage(t, p, f)
    BY <2>1, <2>2, <2>5, MemMap, Constants DEF FirstFree
  <2> QED
    BY <1>15, <2>3, <2>4, <2>5 DEF InstallPage
<1>16. ASSUME NEW t \in Procs, NEW p \in Pages, NEW write \in BOOLEAN, Access(t, p, write) PROVE MemInv'
  <2>1. UNCHANGED <<kpage, free, pagedir, dying, pde>>
    BY <1>16 DEF Access
  <2>2. CASE UNCHANGED pte
    BY <1>1, <2>1, <2>2 DEF mem_vars
  <2>3. CASE pte' # pte
    <3> DEFINE f == TableOf(cr3, p)
    <3>1. /\ f # NULL /\ Allows(pte[f][p], write)
          /\ pte' = [pte EXCEPT ![f][p] = Touched(pte[f][p], write)]
      BY <1>16, <2>3 DEF Access
    <3>2. cr3 \in Frames
      BY <1>16, RunningDirectory DEF Access, At
    <3>3. f \in Frames
      BY <3>1, <3>2, TableTyped DEF TypeInv
    <3>4. pte[f][p] \in Entry /\ "P" \in pte[f][p].flags
      BY <3>1, <3>3 DEF TypeInv, ThreadType, MemType, CpuType, Allows
    <3>5. Touched(pte[f][p], write).kpage = pte[f][p].kpage
      BY <3>4, EntryUpdates
    <3> HIDE DEF f
    <3>6. \A g \in Frames, q \in Pages : pte'[g][q].kpage = pte[g][q].kpage
      BY <3>1, <3>3, <3>5 DEF TypeInv, ThreadType, MemType, CpuType
    <3> QED
      BY <2>1, <3>6, MemKept DEF Dir
  <2> QED
    BY <2>2, <2>3
<1>17. ASSUME NEW t \in Procs, NEW p \in Pages, pagedir_clear_page(t, p) PROVE MemInv'
  <2> DEFINE f == TableOf(pagedir[t], p)
  <2>1. t \in Threads /\ kpage[t] = NULL /\ pagedir[t] \in KernelPool
    BY <1>17, Constants DEF pagedir_clear_page, At, ControlInv, TypeInv, ThreadType, MemType, CpuType
  <2>2. f \in Frames
    <3>1. f # NULL
      BY <1>17 DEF pagedir_clear_page, Present
    <3> QED
      BY <2>1, <3>1, Constants DEF TableOf, TypeInv, ThreadType, MemType, CpuType
  <2>3. pte[f][p] \in Entry /\ "P" \in pte[f][p].flags
    BY <1>17, <2>2 DEF pagedir_clear_page, Present, TypeInv, ThreadType, MemType, CpuType
  <2>4. pte[f][p].kpage # NULL
    BY <2>3, EntryFields, Constants
  <2> QED
    BY <1>17, <2>1, <2>2, <2>4, MemClear, Zenon DEF pagedir_clear_page
<1>18. ASSUME NEW t \in Procs, NEW p \in Pages, NEW b \in Tracked, NEW v \in BOOLEAN,
              pagedir_set_flag(t, p, b, v)
       PROVE  MemInv'
  <2> DEFINE f == TableOf(pagedir[t], p)
  <2>1. pagedir[t] \in KernelPool
    BY <1>18, Constants DEF pagedir_set_flag, At, ControlInv, TypeInv, ThreadType, MemType, CpuType
  <2>2. f \in Frames
    <3>1. f # NULL
      BY <1>18 DEF pagedir_set_flag, Present
    <3> QED
      BY <2>1, <3>1, Constants DEF TableOf, TypeInv, ThreadType, MemType, CpuType
  <2>3. pte' = [pte EXCEPT ![f][p].flags = IF v THEN @ \cup {b} ELSE @ \ {b}]
    BY <1>18 DEF pagedir_set_flag
  <2>4. pte[f][p] \in Entry /\ "P" \in pte[f][p].flags
    BY <1>18, <2>2 DEF pagedir_set_flag, Present, TypeInv, ThreadType, MemType, CpuType
  <2> HIDE DEF f
  <2>5. pte'[f][p].kpage = pte[f][p].kpage
    <3>1. CASE v
      <4>1. pte'[f][p] = [pte[f][p] EXCEPT !.flags = @ \cup {b}]
        BY <2>2, <2>3, <3>1, Zenon DEF TypeInv, MemType
      <4> QED
        BY <2>4, <4>1, EntryUpdates
    <3>2. CASE ~v
      <4>1. pte'[f][p] = [pte[f][p] EXCEPT !.flags = @ \ {b}]
        BY <2>2, <2>3, <3>2, Zenon DEF TypeInv, MemType
      <4> QED
        BY <2>4, <4>1, EntryUpdates
    <3> QED
      BY <3>1, <3>2
  <2>6. \A g \in Frames, q \in Pages : g # f \/ q # p => pte'[g][q] = pte[g][q]
    BY <2>2, <2>3 DEF TypeInv, ThreadType, MemType, CpuType
  <2> QED
    BY <1>18, <2>5, <2>6, MemKept DEF pagedir_set_flag, Dir
<1>19. ASSUME NEW t \in Procs, FreeCleared(t) PROVE MemInv'
  BY <1>19, MemGivePage, Constants DEF FreeCleared, At, ControlInv
<1>20. ASSUME NEW t \in Procs, ExitDetach(t) PROVE MemInv'
  <2>1. dying[t] = NULL
    BY <1>20, Constants DEF ExitDetach, At, ControlInv
  <2>2. \A u \in Threads : Dir(u)' = Dir(u)
    BY <1>20, <2>1, Constants DEF ExitDetach, Dir, TypeInv, ThreadType, MemType, CpuType
  <2> QED
    BY <1>20, <2>2, MemKept DEF ExitDetach
<1>21. ASSUME NEW t \in Procs, NEW k \in Slots, DestroyTable(t, k) PROVE MemInv'
  <2>1. dying[t] # NULL /\ pagedir[t] = NULL
    BY <1>21, Constants DEF DestroyTable, At, ControlInv, WithDirectory
  <2> QED
    BY <1>21, <2>1, MemDestroyTable, Constants
<1>22. ASSUME NEW t \in Procs, DestroyDirectory(t) PROVE MemInv'
  <2>1. dying[t] # NULL /\ pagedir[t] = NULL
    BY <1>22, Constants DEF DestroyDirectory, At, ControlInv, WithDirectory
  <2> QED
    BY <1>22, <2>1, MemDestroyDirectory, Constants
<1>23. CASE UNCHANGED vars
  BY <1>1, <1>23 DEF vars, thread_vars
<1> QED
  BY <1>2, <1>3, <1>4, <1>5, <1>6, <1>7, <1>8, <1>9, <1>10, <1>11, <1>12, <1>13, <1>14, <1>15, <1>16,
     <1>17, <1>18, <1>19, <1>20, <1>21, <1>22, <1>23
  DEF Next, Load, Run, PagedirOp, Exit

-----------------------------------------------------------------------------
FrameInv == ControlAll /\ MemInv

LEMMA FrameAlways == Spec => []FrameInv
<1>1. Init => MemInv
  BY MemInit
<1>2. FrameInv /\ [Next]_vars /\ ControlAll' => FrameInv'
  BY MemStep DEF FrameInv, ControlAll
<1> QED
  BY <1>1, <1>2, ControlAlways, PTL DEF Spec, FrameInv

(* The processor's state is always that of the running thread: CR3 is its   *)
(* live page directory or the base one, its stack is the one interrupts     *)
(* from user mode use, user mode has interrupts on, and no PIC is left      *)
(* without its end of interrupt.                                            *)
THEOREM ProcessorBelongsToRunning == Spec => []CpuOfRunning
<1>1. FrameInv => TypeOK
  <2> SUFFICES ASSUME FrameInv PROVE TypeOK
    OBVIOUS
  <2>1. Entry \subseteq Entries
    <3>1. NoEntry \in Entries
      BY DEF Entries, NoEntry
    <3>2. [kpage : UserPool, flags : SUBSET Flags] \subseteq Entries
      BY Constants DEF Entries
    <3> QED
      BY <3>1, <3>2 DEF Entry
  <2>2. tlb \in [Pages -> Entries] /\ pte \in [Frames -> [Pages -> Entries]]
    BY <2>1 DEF FrameInv, ControlAll, TypeInv, ThreadType, MemType, CpuType
  <2>3. /\ pagedir \in [Threads -> Frames \cup {NULL}] /\ dying \in [Threads -> Frames \cup {NULL}]
        /\ kpage \in [Threads -> Frames \cup {NULL}]
        /\ pde \in [Frames -> [Slots -> Frames \cup {NULL}]]
        /\ cr3 \in Frames \cup {init_page_dir}
    BY Constants DEF FrameInv, ControlAll, TypeInv, ThreadType, MemType, CpuType
  <2> QED
    BY <2>2, <2>3 DEF FrameInv, ControlAll, TypeInv, ThreadType, MemType, CpuType, TypeOK
<1>2. FrameInv => CpuOfRunning
  <2> SUFFICES ASSUME FrameInv PROVE CpuOfRunning
    OBVIOUS
  <2>1. pc[cur] \in Labels /\ cur \in Threads /\ esp0 = cur /\ isr = {} /\ pc[cur] # "dead"
    BY DEF FrameInv, ControlAll, TypeInv, ThreadType, MemType, CpuType, ControlInv
  <2>2. ASSUME cr3 # init_page_dir
        PROVE  cr3 = IF pc[cur] = "deactivate" THEN dying[cur] ELSE pagedir[cur]
    BY <2>1, <2>2 DEF FrameInv, ControlAll, Cr3Inv
  <2>3. ASSUME cr3 # init_page_dir
        PROVE  cr3 \notin free
    <3>1. cr3 \in KernelPool /\ cr3 # NULL
      BY <2>3, Constants DEF FrameInv, ControlAll, TypeInv, ThreadType, MemType, CpuType
    <3>2. cr3 = Dir(cur)
      <4>1. CASE pc[cur] = "deactivate"
        BY <2>1, <2>2, <2>3, <4>1 DEF FrameInv, ControlAll, ControlInv, WithDirectory, Dir
      <4>2. CASE pc[cur] # "deactivate"
        BY <2>2, <2>3, <3>1, <4>2 DEF Dir
      <4> QED
        BY <4>1, <4>2
    <3> QED
      BY <2>1, <3>1, <3>2 DEF FrameInv, ControlAll, MemInv, DirInv
  <2>4. ASSUME pc[cur] = "user"
        PROVE  cr3 = pagedir[cur] /\ intr[cur] = "ON"
    <3>1. cr3 = pagedir[cur]
      BY <2>1, <2>4 DEF FrameInv, ControlAll, Cr3Inv, ControlInv, WithDirectory
    <3>2. intr[cur] = "ON"
      BY <2>1, <2>4 DEF FrameInv, ControlAll, FaultInv, TypeInv, ThreadType, MemType, CpuType
    <3> QED
      BY <3>1, <3>2
  <2> QED
    BY <1>1, <2>1, <2>2, <2>3, <2>4 DEF CpuOfRunning
<1> QED
  BY <1>2, FrameAlways, PTL

(* The frame that each role holds, in the terms of MemInv. *)
LEMMA RoleCases ==
  ASSUME NEW r \in Roles
  PROVE  \/ \E t \in Threads : r = <<"dir", t>> /\ Held(r) = Dir(t)
         \/ \E t \in Threads : r = <<"kpage", t>> /\ Held(r) = kpage[t]
         \/ \E t \in Threads, k \in Slots : r = <<"table", t, k>> /\ Held(r) = TableIn(t, k)
         \/ \E t \in Threads, p \in Pages : r = <<"page", t, p>> /\ Held(r) = PageAt(t, p)
<1>1. CASE r \in {"dir", "kpage"} \X Threads
  BY <1>1 DEF Held
<1>2. CASE r \in {"table"} \X Threads \X Slots
  BY <1>2 DEF Held
<1>3. CASE r \in {"page"} \X Threads \X Pages
  BY <1>3 DEF Held
<1> QED
  BY <1>1, <1>2, <1>3 DEF Roles

LEMMA RolesHold ==
  /\ \A t \in Threads : <<"dir", t>> \in Roles /\ Held(<<"dir", t>>) = Dir(t)
  /\ \A t \in Threads : <<"kpage", t>> \in Roles /\ Held(<<"kpage", t>>) = kpage[t]
  /\ \A t \in Threads, k \in Slots :
       <<"table", t, k>> \in Roles /\ Held(<<"table", t, k>>) = TableIn(t, k)
  /\ \A t \in Threads, p \in Pages :
       <<"page", t, p>> \in Roles /\ Held(<<"page", t, p>>) = PageAt(t, p)
BY DEF Roles, Held

(* A page table and a page of a thread are where MemInv looks for them. *)
LEMMA Holders ==
  ASSUME TypeInv, NEW t \in Threads
  PROVE  /\ Dir(t) \in KernelPool \cup {NULL}
         /\ \A k \in Slots : TableIn(t, k) # NULL =>
              Dir(t) \in Frames /\ TableIn(t, k) = pde[Dir(t)][k] /\ TableIn(t, k) \in KernelPool
         /\ \A p \in Pages : PageAt(t, p) # NULL =>
              /\ Dir(t) \in Frames /\ TableOf(Dir(t), p) \in Frames
              /\ PageAt(t, p) = pte[TableOf(Dir(t), p)][p].kpage /\ PageAt(t, p) \in UserPool
<1>1. Dir(t) \in KernelPool \cup {NULL}
  BY DEF TypeInv, MemType, Dir
<1>2. ASSUME NEW k \in Slots, TableIn(t, k) # NULL
      PROVE  Dir(t) \in Frames /\ TableIn(t, k) = pde[Dir(t)][k] /\ TableIn(t, k) \in KernelPool
  BY <1>1, <1>2, Constants DEF TypeInv, ThreadType, MemType, CpuType, TableIn
<1>3. ASSUME NEW p \in Pages, PageAt(t, p) # NULL
      PROVE  /\ Dir(t) \in Frames /\ TableOf(Dir(t), p) \in Frames
             /\ PageAt(t, p) = pte[TableOf(Dir(t), p)][p].kpage /\ PageAt(t, p) \in UserPool
  <2>1. /\ Dir(t) # NULL /\ Present(Dir(t), p)
        /\ PageAt(t, p) = pte[TableOf(Dir(t), p)][p].kpage
    BY <1>3 DEF PageAt
  <2>2. Dir(t) \in Frames
    BY <1>1, <2>1, Constants
  <2>3. TableOf(Dir(t), p) \in Frames
    BY <2>1, <2>2, TableTyped DEF Present, TypeInv
  <2>4. pte[TableOf(Dir(t), p)][p] \in Entry
    BY <2>3 DEF TypeInv, ThreadType, MemType, CpuType
  <2>5. "P" \in pte[TableOf(Dir(t), p)][p].flags
    BY <2>1 DEF Present
  <2>6. pte[TableOf(Dir(t), p)][p].kpage \in UserPool
    BY <2>4, <2>5, EntryFields
  <2> QED
    BY <2>1, <2>2, <2>3, <2>6
<1> QED
  BY <1>1, <1>2, <1>3

(* Every page frame is free or held in exactly one way. *)
THEOREM FramesAreAccounted == Spec => []FramesAccounted
<1>1. ASSUME FrameInv, NEW r \in Roles, Held(r) # NULL PROVE Held(r) \in Frames \ free
  <2> USE DEF FrameInv, ControlAll
  <2>1. ASSUME NEW t \in Threads, Dir(t) # NULL PROVE Dir(t) \in Frames \ free
    BY <1>1, <2>1, Holders, Constants DEF MemInv, DirInv
  <2>2. ASSUME NEW t \in Threads, kpage[t] # NULL PROVE kpage[t] \in Frames \ free
    BY <1>1, <2>2, Constants DEF MemInv, KpageInv, TypeInv, ThreadType, MemType, CpuType
  <2>3. ASSUME NEW t \in Threads, NEW k \in Slots, TableIn(t, k) # NULL
        PROVE  TableIn(t, k) \in Frames \ free
    <3>1. Dir(t) \in Frames /\ TableIn(t, k) = pde[Dir(t)][k] /\ TableIn(t, k) \in Frames
      BY <1>1, <2>3, Holders, Constants
    <3>2. TableInv
      BY <1>1 DEF MemInv
    <3> QED
      BY <2>3, <3>1, <3>2 DEF TableInv
  <2>4. ASSUME NEW t \in Threads, NEW p \in Pages, PageAt(t, p) # NULL
        PROVE  PageAt(t, p) \in Frames \ free
    <3>1. /\ TableOf(Dir(t), p) \in Frames /\ PageAt(t, p) = pte[TableOf(Dir(t), p)][p].kpage
          /\ PageAt(t, p) \in Frames
      BY <1>1, <2>4, Holders, Constants
    <3>2. PageInv
      BY <1>1 DEF MemInv
    <3> QED
      BY <2>4, <3>1, <3>2 DEF PageInv
  <2> QED
    BY <1>1, <2>1, <2>2, <2>3, <2>4, RoleCases
<1>2. ASSUME FrameInv, NEW f \in Frames \ free PROVE \E r \in Roles : Held(r) = f
  <2> USE DEF FrameInv, ControlAll
  <2>1. ASSUME NEW d \in Frames, NEW k \in Slots, pde[d][k] = f
        PROVE  \E t \in Threads : TableIn(t, k) = f
    <3>1. PICK t \in Threads : Dir(t) = d
      BY <1>2, <2>1, Constants DEF MemInv, TableInv
    <3> QED
      BY <2>1, <3>1, Constants DEF TableIn
  <2>2. ASSUME NEW g \in Frames, NEW p \in Pages, pte[g][p].kpage = f
        PROVE  \E t \in Threads : PageAt(t, p) = f
    <3>1. PICK d \in Frames : pde[d][pd_no[p]] = g
      BY <1>2, <2>2, Constants DEF MemInv, PageInv
    <3>2. PICK t \in Threads : Dir(t) = d
      BY <1>2, <3>1, Constants DEF MemInv, TableInv
    <3>3. pte[g][p] \in Entry
      BY <1>2 DEF TypeInv, ThreadType, MemType, CpuType
    <3>4. "P" \in pte[g][p].flags
      BY <2>2, <3>3, EntryFields, Constants
    <3>5. TableOf(d, p) = g /\ Present(d, p)
      BY <3>1, <3>4, Constants DEF TableOf, Present
    <3> QED
      BY <2>2, <3>2, <3>5, Constants DEF PageAt
  <2>3. CASE f \in KernelPool
    <3>1. CASE \E t \in Threads : Dir(t) = f
      BY <3>1, RolesHold, Zenon
    <3>2. CASE \E d \in Frames, k \in Slots : pde[d][k] = f
      BY <2>1, <3>2, RolesHold, Zenon
    <3> QED
      BY <1>2, <2>3, <3>1, <3>2 DEF MemInv, CoverInv
  <2>4. CASE f \in UserPool
    <3>1. CASE \E t \in Threads : kpage[t] = f
      BY <3>1, RolesHold, Zenon
    <3>2. CASE \E g \in Frames, p \in Pages : pte[g][p].kpage = f
      BY <2>2, <3>2, RolesHold, Zenon
    <3> QED
      BY <1>2, <2>4, <3>1, <3>2 DEF MemInv, CoverInv
  <2> QED
    BY <2>3, <2>4, Constants
<1>3. ASSUME FrameInv, NEW r \in Roles, NEW s \in Roles, Held(r) # NULL, Held(s) = Held(r) PROVE r = s
  <2>0. /\ NULL \notin KernelPool /\ NULL \notin UserPool /\ KernelPool \cap UserPool = {}
        /\ Held(r) # NULL /\ Held(s) = Held(r)
        /\ \/ \E t \in Threads : s = <<"dir", t>> /\ Held(s) = Dir(t)
           \/ \E t \in Threads : s = <<"kpage", t>> /\ Held(s) = kpage[t]
           \/ \E t \in Threads, k \in Slots : s = <<"table", t, k>> /\ Held(s) = TableIn(t, k)
           \/ \E t \in Threads, p \in Pages : s = <<"page", t, p>> /\ Held(s) = PageAt(t, p)
    BY <1>3, RoleCases, Constants
  <2> USE DEF FrameInv, ControlAll
  <2>a. TableInv /\ PageInv
    BY <1>3 DEF MemInv
  <2>1. ASSUME NEW t \in Threads, NEW u \in Threads, Dir(t) # NULL, Dir(u) = Dir(t) PROVE t = u
    BY <1>3, <2>1 DEF MemInv, DirInv
  <2>2. ASSUME NEW t \in Threads, NEW u \in Threads, kpage[t] # NULL, kpage[u] = kpage[t] PROVE t = u
    BY <1>3, <2>2 DEF MemInv, KpageInv
  <2>3. ASSUME NEW t \in Threads, NEW u \in Threads, NEW k \in Slots, NEW j \in Slots,
               TableIn(t, k) # NULL, TableIn(u, j) = TableIn(t, k)
        PROVE  t = u /\ k = j
    <3>1. /\ Dir(t) \in Frames /\ TableIn(t, k) = pde[Dir(t)][k]
          /\ Dir(u) \in Frames /\ TableIn(u, j) = pde[Dir(u)][j]
      BY <1>3, <2>3, Holders
    <3>2. Dir(t) = Dir(u) /\ k = j
      BY <2>a, <2>3, <3>1 DEF TableInv
    <3> QED
      BY <2>1, <3>1, <3>2, Constants
  <2>4. ASSUME NEW t \in Threads, NEW u \in Threads, NEW p \in Pages, NEW q \in Pages,
               PageAt(t, p) # NULL, PageAt(u, q) = PageAt(t, p)
        PROVE  t = u /\ p = q
    <3>1. /\ Dir(t) \in Frames /\ Dir(u) \in Frames
          /\ TableOf(Dir(t), p) \in Frames /\ PageAt(t, p) = pte[TableOf(Dir(t), p)][p].kpage
          /\ TableOf(Dir(u), q) \in Frames /\ PageAt(u, q) = pte[TableOf(Dir(u), q)][q].kpage
      BY <1>3, <2>4, Holders
    <3>2. TableOf(Dir(t), p) = TableOf(Dir(u), q) /\ p = q
      BY <2>a, <2>4, <3>1 DEF PageInv
    <3>3. Dir(t) = Dir(u)
      <4>1. /\ pd_no[p] \in Slots /\ pd_no[q] \in Slots
            /\ pde[Dir(t)][pd_no[p]] = pde[Dir(u)][pd_no[q]] /\ pde[Dir(t)][pd_no[p]] # NULL
        BY <3>1, <3>2, Constants DEF TableOf
      <4> QED
        BY <2>a, <3>1, <4>1 DEF TableInv
    <3> QED
      BY <2>1, <3>1, <3>2, <3>3, Constants
  <2>5. ASSUME NEW t \in Threads, NEW u \in Threads, NEW k \in Slots, TableIn(t, k) # NULL
        PROVE  TableIn(t, k) # Dir(u) /\ TableIn(t, k) \in KernelPool
    <3>1. /\ Dir(t) \in Frames /\ TableIn(t, k) = pde[Dir(t)][k]
          /\ TableIn(t, k) \in KernelPool
      BY <1>3, <2>5, Holders
    <3>2. \A v \in Threads : Dir(v) # pde[Dir(t)][k]
      BY <1>3, <2>5, <3>1 DEF MemInv, TableInv
    <3> QED
      BY <3>1, <3>2
  <2>6. ASSUME NEW t \in Threads, NEW u \in Threads, NEW p \in Pages, PageAt(t, p) # NULL
        PROVE  PageAt(t, p) # kpage[u] /\ PageAt(t, p) \in UserPool
    <3>1. /\ TableOf(Dir(t), p) \in Frames /\ PageAt(t, p) \in UserPool
          /\ PageAt(t, p) = pte[TableOf(Dir(t), p)][p].kpage
      BY <1>3, <2>6, Holders
    <3> QED
      BY <1>3, <2>6, <3>1 DEF MemInv, KpageInv
  <2>7. ASSUME NEW t \in Threads
        PROVE  Dir(t) \in KernelPool \cup {NULL} /\ kpage[t] \in UserPool \cup {NULL}
    <3>1. Dir(t) \in KernelPool \cup {NULL}
      BY <1>3, Holders
    <3>2. kpage[t] \in UserPool \cup {NULL}
      BY <1>3 DEF TypeInv, ThreadType
    <3> QED
      BY <3>1, <3>2
  <2>8. CASE \E t \in Threads : r = <<"dir", t>> /\ Held(r) = Dir(t)
    BY <2>0, <2>1, <2>5, <2>6, <2>7, <2>8
  <2>9. CASE \E t \in Threads : r = <<"kpage", t>> /\ Held(r) = kpage[t]
    BY <2>0, <2>2, <2>5, <2>6, <2>7, <2>9
  <2>10. CASE \E t \in Threads, k \in Slots : r = <<"table", t, k>> /\ Held(r) = TableIn(t, k)
    BY <2>0, <2>3, <2>5, <2>6, <2>7, <2>10
  <2>11. CASE \E t \in Threads, p \in Pages : r = <<"page", t, p>> /\ Held(r) = PageAt(t, p)
    BY <2>0, <2>4, <2>5, <2>6, <2>7, <2>11
  <2> QED
    BY <2>8, <2>9, <2>10, <2>11, RoleCases
<1>4. FrameInv => \A t \in Threads : pagedir[t] = NULL \/ dying[t] = NULL
  BY DEF FrameInv, ControlAll, ControlInv, WithDirectory
<1>5. FrameInv => FramesAccounted
  <2> SUFFICES ASSUME FrameInv PROVE FramesAccounted
    OBVIOUS
  <2> DEFINE holdings == {<<r, Held(r)>> : r \in {s \in Roles : Held(s) # NULL}}
  <2>1. \A h \in holdings : \E r \in Roles : h = <<r, Held(r)>> /\ Held(r) # NULL
    OBVIOUS
  <2>2. \A r \in Roles : Held(r) # NULL => <<r, Held(r)>> \in holdings
    OBVIOUS
  <2> HIDE DEF holdings
  <2>3. \A h \in holdings : h[2] \in Frames \ free
    BY <1>1, <2>1
  <2>4. \A f \in Frames \ free : \E h \in holdings : h[2] = f
    <3> TAKE f \in Frames \ free
    <3>1. PICK r \in Roles : Held(r) = f
      BY <1>2
    <3>2. <<r, Held(r)>> \in holdings
      BY <2>2, <3>1, Constants
    <3> QED
      BY <3>1, <3>2
  <2>5. {h[2] : h \in holdings} = Frames \ free
    BY <2>3, <2>4
  <2>6. \A g, h \in holdings : g[2] = h[2] => g = h
    BY <1>3, <2>1
  <2> QED
    BY <1>4, <2>5, <2>6 DEF FramesAccounted, holdings
<1> QED
  BY <1>5, FrameAlways, PTL

-----------------------------------------------------------------------------
(* What the TLB holds is what the tables say, but for an entry that the     *)
(* running thread has changed and not flushed: its flags may be gone, or    *)
(* the entry, and then the thread holds the page.                           *)
TlbInv ==
  \A p \in Pages : tlb[p].flags # {} =>
    /\ cr3 \in Frames
    /\ \/ /\ Present(cr3, p) /\ pte[TableOf(cr3, p)][p].kpage = tlb[p].kpage
          /\ pc[cur] # "invalidate" => tlb[p].flags \subseteq pte[TableOf(cr3, p)][p].flags
       \/ pc[cur] = "invalidate" /\ kpage[cur] = tlb[p].kpage

LEMMA TlbInit == Init => TlbInv
BY DEF Init, TlbInv, NoEntry

LEMMA TlbFlushed ==
  ASSUME tlb' = [p \in Pages |-> NoEntry] PROVE TlbInv'
BY DEF TlbInv, NoEntry

(* A step that keeps the entries that are present and leaves the TLB alone. *)
LEMMA TlbKept ==
  ASSUME TlbInv, UNCHANGED <<tlb, cr3>>, pc[cur] # "invalidate", pc'[cur'] # "invalidate",
         \A p \in Pages : cr3 \in Frames /\ Present(cr3, p) =>
           Present(cr3, p)' /\ (pte[TableOf(cr3, p)][p])' = pte[TableOf(cr3, p)][p]
  PROVE  TlbInv'
BY DEF TlbInv

LEMMA TlbStep ==
  TypeInv /\ ControlInv /\ Cr3Inv /\ MemInv /\ TlbInv /\ [Next]_vars => TlbInv'
<1> SUFFICES ASSUME TypeInv, ControlInv, Cr3Inv, MemInv, TlbInv, [Next]_vars PROVE TlbInv'
  OBVIOUS
<1>1. ASSUME UNCHANGED <<tlb, cr3, pde, pte>>, pc[cur] # "invalidate", pc'[cur'] # "invalidate"
      PROVE  TlbInv'
  BY <1>1, TlbKept DEF Present, TableOf
<1>2. ASSUME UNCHANGED <<tlb, cr3, pde, pte, cur, kpage>>, pc'[cur] = pc[cur] PROVE TlbInv'
  BY <1>2 DEF TlbInv, Present, TableOf
<1>3. ASSUME NEW v \in Vectors, NEW spurious \in BOOLEAN, intr_handler(v, spurious) PROVE TlbInv'
  BY <1>2, <1>3, TlbFlushed
  DEF intr_handler, SwitchTo, process_activate, pagedir_activate, thread_vars, mem_vars
<1>4. ASSUME NEW t \in Threads, Block(t) PROVE TlbInv'
  BY <1>4, TlbFlushed DEF Block, SwitchTo, process_activate, pagedir_activate
<1>5. ASSUME NEW t \in Procs, Create(t) PROVE TlbInv'
  BY <1>2, <1>5 DEF Create, At, Go, cpu_vars, mem_vars, TypeInv, ThreadType, MemType, CpuType
<1>6. ASSUME NEW t \in Procs, LoadActivate(t) PROVE TlbInv'
  BY <1>6, TlbFlushed DEF LoadActivate, process_activate, pagedir_activate
<1>7. ASSUME NEW t \in Procs, page_fault(t) PROVE TlbInv'
  <2>1. UNCHANGED <<tlb, cr3, pde, pte, cur>> /\ cur = t /\ t \in Threads /\ pc[cur] # "invalidate"
    BY <1>7, Constants DEF page_fault, At, cpu_vars, mem_vars
  <2>2. pc'[t] # "invalidate"
    BY <1>7, <2>1 DEF page_fault, Go, TypeInv, ThreadType
  <2> QED
    BY <1>1, <2>1, <2>2
<1>8. ASSUME NEW t \in Procs, kill(t) PROVE TlbInv'
  <2>1. UNCHANGED <<tlb, cr3, pde, pte, cur>> /\ cur = t /\ t \in Threads /\ pc[cur] # "invalidate"
    BY <1>8, Constants DEF kill, At, cpu_vars, mem_vars
  <2>2. pc'[t] # "invalidate"
    BY <1>8, <2>1 DEF kill, Go, TypeInv, ThreadType
  <2> QED
    BY <1>1, <2>1, <2>2
<1>9. ASSUME NEW t \in Procs, Syscall(t) \/ SyscallReturn(t) PROVE TlbInv'
  BY <1>1, <1>9, Constants DEF Syscall, SyscallReturn, At, Go, cpu_vars, mem_vars, TypeInv, ThreadType, MemType, CpuType
<1>10. ASSUME NEW t \in Procs, invalidate_pagedir(t) PROVE TlbInv'
  <2>1. cr3 = pagedir[t]
    BY <1>10, Constants DEF invalidate_pagedir, At, Cr3Inv, ControlInv, WithDirectory
  <2> QED
    BY <1>10, <2>1, TlbFlushed DEF invalidate_pagedir, pagedir_activate
<1>11. ASSUME NEW t \in Procs, ExitDeactivate(t) PROVE TlbInv'
  BY <1>11, TlbFlushed DEF ExitDeactivate, pagedir_activate
<1>12. ASSUME NEW t \in Procs, Die(t) PROVE TlbInv'
  BY <1>12, TlbFlushed DEF Die, SwitchTo, process_activate, pagedir_activate
<1>13. ASSUME NEW t \in Procs, pagedir_create(t) PROVE TlbInv'
  <2>1. cr3 = init_page_dir
    BY <1>13, Constants DEF pagedir_create, At, Cr3Inv, ControlInv, WithDirectory
  <2>2. UNCHANGED <<tlb, cr3, cur>> /\ pc[cur] # "invalidate" /\ pc'[cur'] # "invalidate"
    <3>1. UNCHANGED <<tlb, cr3, cur>> /\ pc[t] = "load" /\ cur = t
      BY <1>13 DEF pagedir_create, At, cpu_vars
    <3>2. pc' = [pc EXCEPT ![t] = "exit"] \/ pc' = [pc EXCEPT ![t] = "activate"]
      BY <1>13 DEF pagedir_create, Go
    <3> QED
      BY <3>1, <3>2, Constants DEF TypeInv, ThreadType
  <2> QED
    BY <2>1, <2>2, TlbKept, Constants
<1>14. ASSUME NEW t \in Procs, GetPage(t) PROVE TlbInv'
  BY <1>1, <1>14, Constants DEF GetPage, At, Go, cpu_vars, TypeInv, ThreadType, MemType, CpuType
<1>15. ASSUME NEW t \in Procs, ReadPage(t) PROVE TlbInv'
  BY <1>1, <1>15, Constants DEF ReadPage, At, Go, cpu_vars, TypeInv, ThreadType, MemType, CpuType
<1>16. ASSUME NEW t \in Procs, NEW p \in Pages, InstallPage(t, p) PROVE TlbInv'
  <2>1. cr3 = pagedir[t] /\ cr3 \in KernelPool /\ t \in Threads
    BY <1>16, RunningDirectory DEF InstallPage, At
  <2>2. UNCHANGED <<tlb, cr3, cur>> /\ pc[cur] = "install"
    BY <1>16 DEF InstallPage, At, cpu_vars
  <2>3. pc'[cur'] # "invalidate"
    BY <1>16, <2>1, <2>2 DEF InstallPage, MapPage, At, Go, TypeInv, ThreadType, MemType, CpuType
  <2>4. CASE UNCHANGED <<pde, pte>>
    BY <1>1, <2>2, <2>3, <2>4
  <2>5. ASSUME NEW f \in KernelPool, MapPage(t, p, f), pagedir_get_page(cr3, p) = NULL,
               \/ TableOf(cr3, p) = f
               \/ TableOf(cr3, p) = NULL /\ f \in free
        PROVE  TlbInv'
    <3>1. ~Present(cr3, p)
      <4>1. SUFFICES ASSUME Present(cr3, p) PROVE FALSE
        OBVIOUS
      <4>2. TableOf(cr3, p) \in Frames
        BY <2>1, <4>1, Constants DEF Present, TableOf, TypeInv, ThreadType, MemType, CpuType
      <4>3. pte[TableOf(cr3, p)][p] \in Entry
        BY <4>2 DEF TypeInv, ThreadType, MemType, CpuType
      <4> QED
        BY <2>5, <4>1, <4>3, EntryFields, Constants DEF Present, pagedir_get_page
    <3>2. ASSUME NEW q \in Pages, Present(cr3, q)
          PROVE  Present(cr3, q)' /\ (pte[TableOf(cr3, q)][q])' = pte[TableOf(cr3, q)][q]
      <4>1. q # p /\ TableOf(cr3, q) \in Frames /\ cr3 \in Frames
        BY <2>1, <3>1, <3>2, Constants DEF Present, TableOf, TypeInv, MemType
      <4>2. TableOf(cr3, q)' = TableOf(cr3, q)
        <5>1. pd_no[q] = pd_no[p] => TableOf(cr3, p) = f
          BY <2>5, <3>2 DEF Present, TableOf
        <5> QED
          BY <2>1, <2>2, <2>5, <4>1, <5>1, Constants DEF MapPage, TableOf, TypeInv, ThreadType, MemType, CpuType
      <4>3. CASE TableOf(cr3, q) = f
        <5>1. TableOf(cr3, p) # NULL
          <6>1. SUFFICES ASSUME TableOf(cr3, p) = NULL PROVE FALSE
            OBVIOUS
          <6>2. f \in free /\ f # NULL
            BY <2>5, <6>1, Constants
          <6>3. pde[cr3][pd_no[q]] = f /\ pd_no[q] \in Slots
            BY <4>3, Constants DEF TableOf
          <6> QED
            BY <4>1, <6>2, <6>3 DEF MemInv, TableInv
        <5>2. pte'[f][q] = pte[f][q]
          BY <2>1, <2>5, <4>1, <4>3, <5>1 DEF MapPage, TypeInv, ThreadType, MemType, CpuType
        <5> QED
          BY <3>2, <4>2, <4>3, <5>2 DEF Present
      <4>4. CASE TableOf(cr3, q) # f
        <5>1. pte'[TableOf(cr3, q)] = pte[TableOf(cr3, q)]
          BY <2>5, <4>1, <4>4 DEF MapPage, TypeInv, ThreadType, MemType, CpuType
        <5> QED
          BY <3>2, <4>2, <5>1 DEF Present
      <4> QED
        BY <4>3, <4>4
    <3> QED
      BY <2>2, <2>3, <3>2, TlbKept
  <2>6. CASE /\ pagedir_get_page(pagedir[t], p) = NULL /\ TableOf(pagedir[t], p) # NULL
             /\ MapPage(t, p, TableOf(pagedir[t], p))
    <3>1. TableOf(cr3, p) \in KernelPool
      BY <2>1, <2>6, Constants DEF TableOf, TypeInv, ThreadType, MemType, CpuType
    <3> QED
      BY <2>1, <2>5, <2>6, <3>1
  <2>7. CASE /\ TableOf(pagedir[t], p) = NULL
             /\ \E f \in KernelPool : FirstFree(f, KernelPool) /\ MapPage(t, p, f)
    BY <2>1, <2>5, <2>7 DEF FirstFree, pagedir_get_page, Present
  <2> QED
    BY <1>16, <2>4, <2>6, <2>7 DEF InstallPage
<1>17. ASSUME NEW t \in Procs, NEW p \in Pages, NEW write \in BOOLEAN, Access(t, p, write) PROVE TlbInv'
  <2> DEFINE f == TableOf(cr3, p)
  <2>1. UNCHANGED <<cur, cr3, pde>> /\ cur = t /\ t \in Threads /\ pc[t] = "user"
    BY <1>17, Constants DEF Access, At
  <2>2. pc'[cur'] # "invalidate"
    BY <1>17, <2>1 DEF Access, Go, TypeInv, ThreadType, MemType, CpuType
  <2>3. CASE UNCHANGED <<tlb, pte>>
    BY <1>1, <2>1, <2>2, <2>3
  <2>4. CASE /\ f # NULL /\ Allows(pte[f][p], write)
             /\ tlb' = [tlb EXCEPT ![p] = Touched(pte[f][p], write)]
             /\ pte' = [pte EXCEPT ![f][p] = Touched(pte[f][p], write)]
    <3>1. cr3 \in KernelPool
      BY <1>17, RunningDirectory DEF Access, At
    <3>2. f \in Frames /\ cr3 \in Frames
      BY <2>4, <3>1, TableTyped, Constants DEF TypeInv
    <3>3. pte[f][p] \in Entry /\ "P" \in pte[f][p].flags
      BY <2>4, <3>2, EntryTyped DEF TypeInv, Allows
    <3>4. "P" \in Touched(pte[f][p], write).flags
      BY <3>3, EntryUpdates
    <3>5. pte'[f][p] = Touched(pte[f][p], write) /\ tlb'[p] = Touched(pte[f][p], write)
      BY <2>4, <3>2 DEF TypeInv, ThreadType, MemType, CpuType
    <3>6. \A g \in Frames, q \in Pages : g # f \/ q # p => pte'[g][q] = pte[g][q]
      BY <2>4, <3>2 DEF TypeInv, ThreadType, MemType, CpuType
    <3>7. \A q \in Pages : TableOf(cr3, q)' = TableOf(cr3, q)
      BY <2>1 DEF TableOf
    <3>8. ASSUME NEW q \in Pages, tlb'[q].flags # {}
          PROVE  /\ Present(cr3, q)' /\ (pte[TableOf(cr3, q)][q])'.kpage = tlb'[q].kpage
                 /\ tlb'[q].flags \subseteq (pte[TableOf(cr3, q)][q])'.flags
      <4>1. CASE q = p
        BY <2>4, <3>4, <3>5, <3>7, <4>1 DEF Present
      <4>2. CASE q # p
        <5>1. tlb'[q] = tlb[q]
          BY <2>4, <4>2 DEF TypeInv, CpuType
        <5>2. /\ Present(cr3, q) /\ pte[TableOf(cr3, q)][q].kpage = tlb[q].kpage
              /\ tlb[q].flags \subseteq pte[TableOf(cr3, q)][q].flags
          BY <2>1, <3>8, <5>1 DEF TlbInv
        <5>3. TableOf(cr3, q) \in Frames
          BY <3>2, <5>2, TableTyped DEF Present, TypeInv
        <5>4. pte'[TableOf(cr3, q)][q] = pte[TableOf(cr3, q)][q]
          BY <3>6, <4>2, <5>3
        <5> QED
          BY <3>7, <5>1, <5>2, <5>4 DEF Present
      <4> QED
        BY <4>1, <4>2
    <3> QED
      BY <2>1, <3>2, <3>8 DEF TlbInv
  <2> QED
    BY <1>17, <2>3, <2>4 DEF Access
<1>18. ASSUME NEW t \in Procs, NEW p \in Pages, pagedir_clear_page(t, p) PROVE TlbInv'
  <2> DEFINE f == TableOf(pagedir[t], p)
  <2>1. /\ UNCHANGED <<cur, cr3, pde, tlb>> /\ cur = t /\ t \in Threads
        /\ cr3 = pagedir[t] /\ cr3 \in KernelPool /\ pc[cur] = "kernel"
    BY <1>18, RunningDirectory DEF pagedir_clear_page, At, cpu_vars
  <2>2. f # NULL /\ f \in Frames /\ cr3 \in Frames
    <3>1. cr3 \in Frames
      BY <2>1, Constants
    <3>2. f # NULL
      BY <1>18 DEF pagedir_clear_page, Present
    <3> QED
      BY <2>1, <3>1, <3>2, TableTyped DEF TypeInv
  <2>3. pc'[cur'] = "invalidate" /\ kpage'[cur'] = pte[f][p].kpage
    BY <1>18, <2>1 DEF pagedir_clear_page, Go, TypeInv, ThreadType, MemType, CpuType
  <2>4. \A g \in Frames, q \in Pages : q # p => pte'[g][q] = pte[g][q]
    BY <1>18, <2>2 DEF pagedir_clear_page, TypeInv, ThreadType, MemType, CpuType
  <2>5. \A q \in Pages : TableOf(cr3, q)' = TableOf(cr3, q)
    BY <2>1 DEF TableOf
  <2>6. ASSUME NEW q \in Pages, tlb'[q].flags # {}
        PROVE  \/ Present(cr3, q)' /\ (pte[TableOf(cr3, q)][q])'.kpage = tlb'[q].kpage
               \/ kpage'[cur'] = tlb'[q].kpage
    <3>1. Present(cr3, q) /\ pte[TableOf(cr3, q)][q].kpage = tlb[q].kpage
      BY <2>1, <2>6 DEF TlbInv
    <3>2. CASE q = p
      BY <2>1, <2>3, <3>1, <3>2
    <3>3. CASE q # p
      <4>1. TableOf(cr3, q) \in Frames
        BY <2>2, <3>1, TableTyped DEF Present, TypeInv
      <4>2. pte'[TableOf(cr3, q)][q] = pte[TableOf(cr3, q)][q]
        BY <2>4, <3>3, <4>1
      <4> QED
        BY <2>1, <2>5, <3>1, <4>2 DEF Present
    <3> QED
      BY <3>2, <3>3
  <2> QED
    BY <2>1, <2>2, <2>3, <2>6 DEF TlbInv
<1>19. ASSUME NEW t \in Procs, NEW p \in Pages, NEW b \in Tracked, NEW v \in BOOLEAN,
              pagedir_set_flag(t, p, b, v)
       PROVE  TlbInv'
  <2> DEFINE f == TableOf(pagedir[t], p)
  <2>1. /\ UNCHANGED <<cur, cr3, pde, tlb, kpage>> /\ cur = t /\ t \in Threads
        /\ cr3 = pagedir[t] /\ cr3 \in KernelPool /\ pc[cur] = "kernel"
    BY <1>19, Constants DEF pagedir_set_flag, At, cpu_vars, Cr3Inv, ControlInv, TypeInv, ThreadType, MemType, CpuType
  <2>2. f # NULL /\ f \in Frames /\ cr3 \in Frames
    <3>1. f # NULL
      BY <1>19 DEF pagedir_set_flag, Present
    <3> QED
      BY <2>1, <3>1, Constants DEF TableOf, TypeInv, ThreadType, MemType, CpuType
  <2>3. pc'[cur'] = IF v THEN "kernel" ELSE "invalidate"
    BY <1>19, <2>1 DEF pagedir_set_flag, Go, TypeInv, ThreadType, MemType, CpuType
  <2>4. pte' = [pte EXCEPT ![f][p].flags = IF v THEN @ \cup {b} ELSE @ \ {b}]
    BY <1>19 DEF pagedir_set_flag
  <2>5. pte[f][p] \in Entry /\ "P" \in pte[f][p].flags
    BY <1>19, <2>2 DEF pagedir_set_flag, Present, TypeInv, ThreadType, MemType, CpuType
  <2>6. \A q \in Pages : TableOf(cr3, q)' = TableOf(cr3, q)
    BY <2>1 DEF TableOf
  <2>7. f = TableOf(cr3, p)
    BY <2>1
  <2> HIDE DEF f
  <2>8. \A g \in Frames, q \in Pages : q # p => pte'[g][q] = pte[g][q]
    BY <2>2, <2>4 DEF TypeInv, ThreadType, MemType, CpuType
  <2>9. /\ pte'[f][p].kpage = pte[f][p].kpage /\ "P" \in pte'[f][p].flags
        /\ v => pte[f][p].flags \subseteq pte'[f][p].flags
    <3>1. CASE v
      <4>1. pte'[f][p] = [pte[f][p] EXCEPT !.flags = @ \cup {b}]
        BY <2>2, <2>4, <3>1, Zenon DEF TypeInv, MemType
      <4> QED
        BY <2>5, <4>1, EntryUpdates
    <3>2. CASE ~v
      <4>1. pte'[f][p] = [pte[f][p] EXCEPT !.flags = @ \ {b}]
        BY <2>2, <2>4, <3>2, Zenon DEF TypeInv, MemType
      <4>2. pte'[f][p].kpage = pte[f][p].kpage
        BY <2>5, <4>1, EntryUpdates
      <4>3. pte'[f][p].flags = pte[f][p].flags \ {b}
        BY <2>5, <4>1, EntryUpdates
      <4> QED
        BY <2>5, <3>2, <4>2, <4>3, Constants
    <3> QED
      BY <3>1, <3>2
  <2>10. ASSUME NEW q \in Pages, tlb'[q].flags # {}
         PROVE  /\ Present(cr3, q)' /\ (pte[TableOf(cr3, q)][q])'.kpage = tlb'[q].kpage
                /\ v => tlb'[q].flags \subseteq (pte[TableOf(cr3, q)][q])'.flags
    <3>1. /\ Present(cr3, q) /\ pte[TableOf(cr3, q)][q].kpage = tlb[q].kpage
          /\ tlb[q].flags \subseteq pte[TableOf(cr3, q)][q].flags
      BY <2>1, <2>10 DEF TlbInv
    <3>2. CASE q = p
      BY <2>1, <2>2, <2>6, <2>7, <2>9, <3>1, <3>2 DEF Present
    <3>3. CASE q # p
      <4>1. TableOf(cr3, q) \in Frames
        BY <2>2, <3>1, TableTyped DEF Present, TypeInv
      <4>2. pte'[TableOf(cr3, q)][q] = pte[TableOf(cr3, q)][q]
        BY <2>8, <3>3, <4>1
      <4> QED
        BY <2>1, <2>6, <3>1, <4>2 DEF Present
    <3> QED
      BY <3>2, <3>3
  <2> QED
    BY <2>1, <2>2, <2>3, <2>10 DEF TlbInv
<1>20. ASSUME NEW t \in Procs, FreeCleared(t) PROVE TlbInv'
  BY <1>1, <1>20, Constants DEF FreeCleared, At, Go, cpu_vars, TypeInv, ThreadType, MemType, CpuType
<1>21. ASSUME NEW t \in Procs, ExitDetach(t) PROVE TlbInv'
  BY <1>1, <1>21, Constants DEF ExitDetach, At, Go, cpu_vars, TypeInv, ThreadType, MemType, CpuType
<1>22. ASSUME NEW t \in Procs, NEW k \in Slots, DestroyTable(t, k) PROVE TlbInv'
  <2>1. cr3 = init_page_dir
    BY <1>22, Constants DEF DestroyTable, At, Cr3Inv, ControlInv, WithDirectory
  <2>2. UNCHANGED <<tlb, cr3, cur, pc>> /\ pc[cur] = "destroy"
    BY <1>22 DEF DestroyTable, At, cpu_vars, thread_vars
  <2> QED
    BY <2>1, <2>2, TlbKept, Constants
<1>23. ASSUME NEW t \in Procs, DestroyDirectory(t) PROVE TlbInv'
  BY <1>1, <1>23, Constants DEF DestroyDirectory, At, Go, cpu_vars, TypeInv, ThreadType, MemType, CpuType
<1>24. CASE UNCHANGED vars
  BY <1>2, <1>24 DEF vars, cpu_vars, thread_vars, mem_vars
<1> QED
  BY <1>3, <1>4, <1>5, <1>6, <1>7, <1>8, <1>9, <1>10, <1>11, <1>12, <1>13, <1>14, <1>15, <1>16,
     <1>17, <1>18, <1>19, <1>20, <1>21, <1>22, <1>23, <1>24
  DEF Next, Load, Run, PagedirOp, Exit

-----------------------------------------------------------------------------
CpuInv == FrameInv /\ TlbInv

LEMMA CpuAlways == Spec => []CpuInv
<1>1. Init => TlbInv
  BY TlbInit
<1>2. CpuInv /\ [Next]_vars /\ FrameInv' => CpuInv'
  BY TlbStep DEF CpuInv, FrameInv, ControlAll
<1> QED
  BY <1>1, <1>2, FrameAlways, PTL DEF Spec, CpuInv

(* Nothing stale or freed is reached through the TLB. *)
THEOREM TlbIsCoherent == Spec => []TlbCoherent
<1>1. CpuInv => TlbCoherent
  <2> SUFFICES ASSUME CpuInv, NEW p \in Pages, tlb[p].flags # {}
               PROVE  /\ cr3 # init_page_dir
                      /\ tlb[p].kpage \notin free
                      /\ pc[cur] \notin {"invalidate", "deactivate", "destroy"} =>
                           /\ Present(cr3, p) /\ pte[TableOf(cr3, p)][p].kpage = tlb[p].kpage
                           /\ tlb[p].flags \subseteq pte[TableOf(cr3, p)][p].flags
    BY DEF TlbCoherent
  <2>1. cr3 \in Frames /\ cr3 # init_page_dir /\ cur \in Threads
    <3>1. cr3 \in Frames
      BY DEF CpuInv, TlbInv
    <3>2. cur \in Threads
      BY DEF CpuInv, FrameInv, ControlAll, TypeInv, CpuType
    <3> QED
      BY <3>1, <3>2, Constants
  <2>2. tlb[p].kpage # NULL
    <3>1. tlb[p] \in Entry
      BY DEF CpuInv, FrameInv, ControlAll, TypeInv, CpuType
    <3>2. tlb[p].kpage \in UserPool
      BY <3>1, EntryFields
    <3> QED
      BY <3>2, Constants
  <2>3. CASE Present(cr3, p) /\ pte[TableOf(cr3, p)][p].kpage = tlb[p].kpage
    <3>1. TableOf(cr3, p) \in Frames
      BY <2>1, <2>3, TableTyped DEF CpuInv, FrameInv, ControlAll, Present, TypeInv
    <3>2. tlb[p].kpage \notin free
      BY <2>2, <2>3, <3>1 DEF CpuInv, FrameInv, ControlAll, MemInv, PageInv
    <3>3. pc[cur] # "invalidate" => tlb[p].flags \subseteq pte[TableOf(cr3, p)][p].flags
      BY DEF CpuInv, FrameInv, ControlAll, TlbInv
    <3> QED
      BY <2>1, <2>3, <3>2, <3>3
  <2>4. CASE pc[cur] = "invalidate" /\ kpage[cur] = tlb[p].kpage
    BY <2>1, <2>2, <2>4 DEF CpuInv, FrameInv, ControlAll, MemInv, KpageInv
  <2> QED
    BY <2>3, <2>4 DEF CpuInv, FrameInv, ControlAll, TlbInv
<1> QED
  BY <1>1, CpuAlways, PTL
=============================================================================
