--------------------------------- MODULE Cpu ---------------------------------
(***************************************************************************)
(* The processor and what the kernel keeps in it while threads take turns: *)
(* the interrupt flag and external interrupts (threads/interrupt.c), page  *)
(* faults and CR2 (userprog/exception.c), the active page directory CR3    *)
(* and the TLB (userprog/pagedir.c), the ring 0 stack of the task state    *)
(* segment (userprog/tss.c), through the life of processes that load       *)
(* pages, run, fault, and take their address space down (process.c).       *)
(*                                                                         *)
(* A timer interrupt may come between any two steps of a thread that has   *)
(* interrupts on, and switch to any other thread.                          *)
(***************************************************************************)
EXTENDS Integers, FiniteSets

CONSTANTS
  Procs,         \* the threads of user processes
  Kernel,        \* a kernel thread: it has no page directory and never exits
  Pages,         \* user virtual pages
  Writable,      \* the pages of writable segments and the stack
  Tracked,       \* flags the processor sets in an entry: PTE_D, PTE_A
  pd_no,         \* pd_no[p]: the slot of the page directory that covers p
  Vectors,       \* interrupt vectors of devices: 32 to 39, and 40 to 47 by the slave PIC
  KernelCnt,     \* page frames of palloc.c's pool for the kernel
  UserCnt,       \* and of the one for user pages
  NULL,
  init_page_dir  \* the base page directory, never freed

Threads == Procs \cup {Kernel}
KernelPool == 1 .. KernelCnt
UserPool == KernelCnt + 1 .. KernelCnt + UserCnt
Frames == KernelPool \cup UserPool
Slots == {pd_no[p] : p \in Pages}

ASSUME CpuAssumption ==
  /\ Kernel \notin Procs
  /\ KernelCnt \in Nat /\ UserCnt \in Nat /\ Vectors \subseteq 32 .. 47
  /\ NULL \notin Frames /\ init_page_dir \notin Frames \cup {NULL}
  /\ Writable \subseteq Pages /\ Tracked \subseteq {"D", "A"}
  /\ DOMAIN pd_no = Pages /\ NULL \notin Pages \cup Threads

TIMER == 32

VARIABLES
  cur,         \* the running thread
  pc,          \* pc[t]: where t is, by the name of the next step it takes
  intr,        \* intr[t]: the interrupt flag that t runs with
  isr,         \* the PICs with an interrupt in service
  cr2,         \* the page of the last page fault
  cr3,         \* the active page directory
  tlb,         \* tlb[p]: the entry cached for p, or NoEntry
  esp0,        \* the thread whose kernel stack interrupts from user mode use
  free,        \* frames not allocated
  pagedir,     \* pagedir[t]: member of struct thread
  dying,       \* dying[t]: local variable pd of process_exit
  kpage,       \* kpage[t]: a page t holds that is not mapped
  pde,         \* pde[d][k]: frame of the page table in slot k of directory d
  pte,         \* pte[f][p]: entry of p in page table f, frame and flags
  faulted,     \* faulted[t]: the page whose access sent t to page_fault
  fault_addr   \* fault_addr[t]: local variable of page_fault

cpu_vars == <<cur, isr, cr2, cr3, tlb, esp0>>
thread_vars == <<pc, intr, kpage, faulted, fault_addr>>
mem_vars == <<free, pagedir, dying, pde, pte>>
vars == <<cpu_vars, thread_vars, mem_vars>>

NoEntry == [kpage |-> NULL, flags |-> {}]
Flags == {"P", "W"} \cup Tracked
Entries == [kpage : Frames \cup {NULL}, flags : SUBSET Flags]

(* After main's start-up: paging_init, tss_init and thread_start. *)
Init ==
  /\ cur = Kernel
  /\ pc = [t \in Threads |-> IF t = Kernel THEN "kernel" ELSE "dead"]
  /\ intr = [t \in Threads |-> "ON"]
  /\ isr = {}
  /\ cr2 = NULL /\ cr3 = init_page_dir /\ esp0 = Kernel
  /\ tlb = [p \in Pages |-> NoEntry]
  /\ free = Frames
  /\ pagedir = [t \in Threads |-> NULL]
  /\ dying = [t \in Threads |-> NULL]
  /\ kpage = [t \in Threads |-> NULL]
  /\ pde = [d \in Frames |-> [k \in Slots |-> NULL]]
  /\ pte = [f \in Frames |-> [p \in Pages |-> NoEntry]]
  /\ faulted = [t \in Threads |-> NULL]
  /\ fault_addr = [t \in Threads |-> NULL]

-----------------------------------------------------------------------------
(* t runs and its next step is at l. *)
At(t, l) == cur = t /\ pc[t] = l

Go(t, l) == pc' = [pc EXCEPT ![t] = l]

(* palloc_get_page takes the first free frame of the pool. *)
FirstFree(f, pool) == f \in free \cap pool /\ \A g \in free \cap pool : f <= g

Exhausted(pool) == free \cap pool = {}

(* Stores pd, or the base page directory for NULL, in CR3.  The processor   *)
(* drops what it has cached.                                                *)
pagedir_activate(pd) ==
  /\ cr3' = IF pd = NULL THEN init_page_dir ELSE pd
  /\ tlb' = [p \in Pages |-> NoEntry]

tss_update(t) == esp0' = t

process_activate(t) == pagedir_activate(pagedir[t]) /\ tss_update(t)

(* thread_schedule_tail in the next thread. *)
SwitchTo(n) == cur' = n /\ process_activate(n)

(* lookup_page without create: the table of p in directory d, or NULL. *)
TableOf(d, p) == pde[d][pd_no[p]]

Present(d, p) == TableOf(d, p) # NULL /\ "P" \in pte[TableOf(d, p)][p].flags

(* pagedir_get_page. *)
pagedir_get_page(d, p) == IF Present(d, p) THEN pte[TableOf(d, p)][p].kpage ELSE NULL

-----------------------------------------------------------------------------
(* An external interrupt, all of intr_handler: the gate turns interrupts    *)
(* off, the PIC is told when the handler has run, the timer's handler may   *)
(* have asked for thread_yield, and the interrupted thread has interrupts   *)
(* on again when it returns to where it was.                                *)

(* The PICs that have v in service.  39 and 47 may be spurious. *)
InService(v, spurious) ==
  (IF v >= 40 \/ ~spurious THEN {"master"} ELSE {})
  \cup (IF v >= 40 /\ ~spurious THEN {"slave"} ELSE {})

(* The signal to the master, and to the slave if the interrupt is its own. *)
pic_end_of_interrupt(in_service, v) ==
  in_service \ ({"master"} \cup IF v >= 40 THEN {"slave"} ELSE {})

intr_handler(v, spurious) ==
  /\ intr[cur] = "ON"
  /\ "master" \notin isr /\ (v >= 40 => "slave" \notin isr)
  /\ spurious => v \in {39, 47}
  /\ isr' = pic_end_of_interrupt(isr \cup InService(v, spurious), v)
  /\ \/ UNCHANGED <<cur, cr3, tlb, esp0>>
     \/ v = TIMER /\ \E n \in Threads : pc[n] # "dead" /\ SwitchTo(n)
  /\ UNCHANGED <<cr2, thread_vars, mem_vars>>

(* t waits for a semaphore or a lock, and some other thread runs.  When it  *)
(* runs again intr_set_level gives it back the level it had.                *)
Block(t) ==
  /\ \E l \in {"kernel", "read", "exit"} : At(t, l)
  /\ \E n \in Threads \ {t} : pc[n] # "dead" /\ SwitchTo(n)
  /\ UNCHANGED <<isr, cr2, thread_vars, mem_vars>>

-----------------------------------------------------------------------------
(* Loading a program.  The stack's page is the last one.  When it cannot be *)
(* had, setup_stack faults in the kernel, and page_fault panics or ends the *)
(* thread: here the thread goes to its exit as from any load that fails.    *)

(* thread_create in the running thread: t will start in load. *)
Create(t) ==
  /\ At(cur, "kernel") /\ pc[t] = "dead"
  /\ Go(t, "load")
  /\ intr' = [intr EXCEPT ![t] = "ON"]
  /\ UNCHANGED <<cpu_vars, kpage, faulted, fault_addr, mem_vars>>

(* pagedir_create in load. *)
pagedir_create(t) ==
  /\ At(t, "load")
  /\ \/ Exhausted(KernelPool) /\ Go(t, "exit") /\ UNCHANGED <<free, pagedir, pde>>
     \/ \E f \in KernelPool :
          /\ FirstFree(f, KernelPool)
          /\ free' = free \ {f}
          /\ pde' = [pde EXCEPT ![f] = [k \in Slots |-> NULL]]
          /\ pagedir' = [pagedir EXCEPT ![t] = f]
          /\ Go(t, "activate")
  /\ UNCHANGED <<cpu_vars, intr, kpage, faulted, fault_addr, dying, pte>>

LoadActivate(t) ==
  /\ At(t, "activate") /\ Go(t, "segment")
  /\ process_activate(t)
  /\ UNCHANGED <<cur, isr, cr2, intr, kpage, faulted, fault_addr, mem_vars>>

(* One turn of load_segment's loop: a page is allocated, *)
GetPage(t) ==
  /\ At(t, "segment")
  /\ \/ Exhausted(UserPool) /\ Go(t, "exit") /\ UNCHANGED <<free, kpage>>
     \/ \E f \in UserPool :
          /\ FirstFree(f, UserPool)
          /\ free' = free \ {f}
          /\ kpage' = [kpage EXCEPT ![t] = f]
          /\ Go(t, "read")
  /\ UNCHANGED <<cpu_vars, intr, faulted, fault_addr, pagedir, dying, pde, pte>>

FreeKpage(t) == free' = free \cup {kpage[t]} /\ kpage' = [kpage EXCEPT ![t] = NULL]

(* Mutant: the page is forgotten when the file is too short. *)
ReadPage_leak(t) ==
  /\ At(t, "read")
  /\ \E l \in {"install", "exit"} : Go(t, l)
  /\ kpage' = [kpage EXCEPT ![t] = IF pc'[t] = "exit" THEN NULL ELSE @]
  /\ UNCHANGED <<cpu_vars, intr, faulted, fault_addr, free, pagedir, dying, pde, pte>>

(* filled from the file, unless the file is too short, *)
ReadPage(t) ==
  /\ At(t, "read")
  /\ \/ Go(t, "install") /\ UNCHANGED <<free, kpage>>
     \/ FreeKpage(t) /\ Go(t, "exit")
  /\ UNCHANGED <<cpu_vars, intr, faulted, fault_addr, pagedir, dying, pde, pte>>

(* pagedir_set_page with the page table f, new or not. *)
MapPage(t, p, f) ==
  /\ pte' = [pte EXCEPT ![f] =
               [IF TableOf(pagedir[t], p) = NULL THEN [q \in Pages |-> NoEntry] ELSE pte[f]
                EXCEPT ![p] = [kpage |-> kpage[t],
                               flags |-> {"P"} \cup IF p \in Writable THEN {"W"} ELSE {}]]]
  /\ pde' = [pde EXCEPT ![pagedir[t]][pd_no[p]] = f]
  /\ kpage' = [kpage EXCEPT ![t] = NULL]
  /\ \E l \in {"segment", "user"} : Go(t, l)

(* and mapped by install_page, which wants the address free and may need a  *)
(* page table.                                                              *)
InstallPage(t, p) ==
  /\ At(t, "install")
  /\ LET d == pagedir[t] IN
     \/ /\ pagedir_get_page(d, p) # NULL \/ (TableOf(d, p) = NULL /\ Exhausted(KernelPool))
        /\ FreeKpage(t) /\ Go(t, "exit") /\ UNCHANGED <<pde, pte>>
     \/ /\ pagedir_get_page(d, p) = NULL /\ TableOf(d, p) # NULL
        /\ MapPage(t, p, TableOf(d, p)) /\ UNCHANGED free
     \/ /\ TableOf(d, p) = NULL
        /\ \E f \in KernelPool :
             FirstFree(f, KernelPool) /\ free' = free \ {f} /\ MapPage(t, p, f)
  /\ UNCHANGED <<cpu_vars, intr, faulted, fault_addr, pagedir, dying>>

-----------------------------------------------------------------------------
(* A process in user mode. *)

(* Mutant: an interrupt gate only for the other exceptions. *)
PageFaultLevel_on == "ON"

(* The level at which exception_init registers page_fault. *)
PageFaultLevel == "OFF"

Allows(e, write) == "P" \in e.flags /\ (write => "W" \in e.flags)
Touched(e, write) == [e EXCEPT !.flags = @ \cup (Tracked \ IF write THEN {} ELSE {"D"})]

(* The processor translates an access by the TLB, or walks the tables and   *)
(* keeps what it finds.  It walks them as well for the first write.         *)
Access(t, p, write) ==
  /\ At(t, "user")
  /\ LET f == TableOf(cr3, p)
         hit == Allows(tlb[p], write) /\ (write /\ "D" \in Tracked => "D" \in tlb[p].flags)
         walk == f # NULL /\ Allows(pte[f][p], write)
     IN \/ hit /\ UNCHANGED <<cr2, tlb, pte, pc, intr, faulted>>
        \/ /\ ~hit /\ walk
           /\ tlb' = [tlb EXCEPT ![p] = Touched(pte[f][p], write)]
           /\ pte' = [pte EXCEPT ![f][p] = Touched(pte[f][p], write)]
           /\ UNCHANGED <<cr2, pc, intr, faulted>>
        \/ /\ ~hit /\ ~walk
           /\ cr2' = p
           /\ faulted' = [faulted EXCEPT ![t] = p]
           /\ Go(t, "page_fault")
           /\ intr' = [intr EXCEPT ![t] = PageFaultLevel]
           /\ UNCHANGED <<tlb, pte>>
  /\ UNCHANGED <<cur, isr, cr3, esp0, kpage, fault_addr,
                 free, pagedir, dying, pde>>

(* page_fault, with interrupts off: bad_pointer finds the user's stack      *)
(* unusable and exits, or CR2 is read and then interrupts are turned on.    *)
page_fault(t) ==
  /\ At(t, "page_fault")
  /\ \/ /\ Go(t, "exit")
        /\ faulted' = [faulted EXCEPT ![t] = NULL]
        /\ UNCHANGED <<intr, fault_addr>>
     \/ /\ Go(t, "kill")
        /\ fault_addr' = [fault_addr EXCEPT ![t] = cr2]
        /\ intr' = [intr EXCEPT ![t] = "ON"]
        /\ UNCHANGED faulted
  /\ UNCHANGED <<cpu_vars, kpage, mem_vars>>

(* The fault is reported and kill ends the process.  intr_dump_frame reads  *)
(* CR2 again, with interrupts on, only to print it: that is left out.       *)
kill(t) ==
  /\ At(t, "kill") /\ Go(t, "exit")
  /\ faulted' = [faulted EXCEPT ![t] = NULL]
  /\ fault_addr' = [fault_addr EXCEPT ![t] = NULL]
  /\ UNCHANGED <<cpu_vars, intr, kpage, mem_vars>>

(* int $0x30, through a trap gate: interrupts stay on. *)
Syscall(t) ==
  /\ At(t, "user") /\ Go(t, "kernel")
  /\ UNCHANGED <<cpu_vars, intr, kpage, faulted, fault_addr, mem_vars>>

SyscallReturn(t) ==
  /\ t \in Procs /\ At(t, "kernel")
  /\ \E l \in {"user", "exit"} : Go(t, l)
  /\ UNCHANGED <<cpu_vars, intr, kpage, faulted, fault_addr, mem_vars>>

-----------------------------------------------------------------------------
(* pagedir.c's operations on a mapped page, in two steps: the entry changes *)
(* and then the TLB is flushed if the page directory is the active one.     *)

(* pagedir_clear_page.  The caller has the page's address from              *)
(* pagedir_get_page and keeps it.  Of an entry without PTE_P nothing is      *)
(* read: the rest of it is abstracted away.                                 *)
pagedir_clear_page(t, p) ==
  /\ t \in Procs /\ At(t, "kernel")
  /\ Present(pagedir[t], p)
  /\ LET f == TableOf(pagedir[t], p) IN
     /\ kpage' = [kpage EXCEPT ![t] = pte[f][p].kpage]
     /\ pte' = [pte EXCEPT ![f][p] = NoEntry]
  /\ Go(t, "invalidate")
  /\ UNCHANGED <<cpu_vars, intr, faulted, fault_addr, free, pagedir, dying, pde>>

(* pagedir_set_dirty for "D" and pagedir_set_accessed for "A": only taking  *)
(* the flag away needs a flush.                                             *)
pagedir_set_flag(t, p, b, value) ==
  /\ t \in Procs /\ At(t, "kernel")
  /\ Present(pagedir[t], p)
  /\ LET f == TableOf(pagedir[t], p) IN
     pte' = [pte EXCEPT ![f][p].flags = IF value THEN @ \cup {b} ELSE @ \ {b}]
  /\ Go(t, IF value THEN "kernel" ELSE "invalidate")
  /\ UNCHANGED <<cpu_vars, intr, kpage, faulted, fault_addr, free, pagedir, dying, pde>>

(* Mutant: the flush is left out. *)
invalidate_pagedir_skip(t) ==
  /\ At(t, "invalidate")
  /\ Go(t, IF kpage[t] = NULL THEN "kernel" ELSE "cleared")
  /\ UNCHANGED <<cpu_vars, intr, kpage, faulted, fault_addr, mem_vars>>

invalidate_pagedir(t) ==
  /\ At(t, "invalidate")
  /\ Go(t, IF kpage[t] = NULL THEN "kernel" ELSE "cleared")
  /\ IF cr3 = pagedir[t] THEN pagedir_activate(pagedir[t]) ELSE UNCHANGED <<cr3, tlb>>
  /\ UNCHANGED <<cur, isr, cr2, esp0, intr, kpage, faulted, fault_addr, mem_vars>>

(* The caller of pagedir_clear_page has saved the page and frees it. *)
FreeCleared(t) ==
  /\ At(t, "cleared") /\ Go(t, "kernel")
  /\ FreeKpage(t)
  /\ UNCHANGED <<cpu_vars, intr, faulted, fault_addr, pagedir, dying, pde, pte>>

-----------------------------------------------------------------------------
(* The end of process_exit, in the order its comment insists on. *)

(* Mutant: the thread keeps its page directory until it is destroyed. *)
ExitDetach_late(t) ==
  /\ At(t, "exit")
  /\ dying' = [dying EXCEPT ![t] = pagedir[t]]
  /\ Go(t, IF pagedir[t] = NULL THEN "die" ELSE "deactivate")
  /\ UNCHANGED <<cpu_vars, intr, kpage, faulted, fault_addr, free, pagedir, pde, pte>>

(* cur->pagedir = NULL, so that a timer interrupt does not activate it. *)
ExitDetach(t) ==
  /\ At(t, "exit")
  /\ dying' = [dying EXCEPT ![t] = pagedir[t]]
  /\ pagedir' = [pagedir EXCEPT ![t] = NULL]
  /\ Go(t, IF pagedir[t] = NULL THEN "die" ELSE "deactivate")
  /\ UNCHANGED <<cpu_vars, intr, kpage, faulted, fault_addr, free, pde, pte>>

(* pagedir_activate (NULL). *)
ExitDeactivate(t) ==
  /\ At(t, "deactivate") /\ Go(t, "destroy")
  /\ pagedir_activate(NULL)
  /\ UNCHANGED <<cur, isr, cr2, esp0, intr, kpage, faulted, fault_addr, mem_vars>>

(* One turn of pagedir_destroy's loop: the pages of a table that is present *)
(* and the table, which palloc_free_page overwrites.  NULL in the slot says *)
(* that the loop is past it.                                                *)
DestroyTable(t, k) ==
  /\ At(t, "destroy")
  /\ LET f == pde[dying[t]][k] IN
     /\ f # NULL
     /\ free' = free \cup {f} \cup {pte[f][p].kpage : p \in {q \in Pages : "P" \in pte[f][q].flags}}
     /\ pte' = [pte EXCEPT ![f] = [p \in Pages |-> NoEntry]]
  /\ pde' = [pde EXCEPT ![dying[t]][k] = NULL]
  /\ UNCHANGED <<cpu_vars, thread_vars, pagedir, dying>>

(* palloc_free_page (pd). *)
DestroyDirectory(t) ==
  /\ At(t, "destroy") /\ Go(t, "die")
  /\ \A k \in Slots : pde[dying[t]][k] = NULL
  /\ free' = free \cup {dying[t]}
  /\ dying' = [dying EXCEPT ![t] = NULL]
  /\ UNCHANGED <<cpu_vars, intr, kpage, faulted, fault_addr, pagedir, pde, pte>>

(* thread_exit gives up the processor for good. *)
Die(t) ==
  /\ At(t, "die") /\ Go(t, "dead")
  /\ \E n \in Threads \ {t} : pc[n] # "dead" /\ SwitchTo(n)
  /\ UNCHANGED <<isr, cr2, intr, kpage, faulted, fault_addr, mem_vars>>

-----------------------------------------------------------------------------
Load(t) ==
  \/ pagedir_create(t) \/ LoadActivate(t) \/ GetPage(t) \/ ReadPage(t)
  \/ \E p \in Pages : InstallPage(t, p)

Run(t) ==
  \/ \E p \in Pages, write \in BOOLEAN : Access(t, p, write)
  \/ page_fault(t) \/ kill(t)
  \/ Syscall(t) \/ SyscallReturn(t)

PagedirOp(t) ==
  \/ \E p \in Pages : pagedir_clear_page(t, p)
  \/ \E p \in Pages, b \in Tracked, v \in BOOLEAN : pagedir_set_flag(t, p, b, v)
  \/ invalidate_pagedir(t) \/ FreeCleared(t)

Exit(t) ==
  \/ ExitDetach(t) \/ ExitDeactivate(t)
  \/ \E k \in Slots : DestroyTable(t, k)
  \/ DestroyDirectory(t) \/ Die(t)

Next ==
  \/ \E v \in Vectors, spurious \in BOOLEAN : intr_handler(v, spurious)
  \/ \E t \in Threads : Block(t)
  \/ \E t \in Procs : Create(t) \/ Load(t) \/ Run(t) \/ PagedirOp(t) \/ Exit(t)

Spec == Init /\ [][Next]_vars

-----------------------------------------------------------------------------
Labels == {"dead", "load", "activate", "segment", "read", "install", "user", "kernel",
           "page_fault", "kill", "invalidate", "cleared", "exit",
           "deactivate", "destroy", "die"}

(* Every variable holds a value of its type. *)
TypeOK ==
  /\ cur \in Threads /\ esp0 \in Threads
  /\ pc \in [Threads -> Labels]
  /\ intr \in [Threads -> {"ON", "OFF"}]
  /\ isr \subseteq {"master", "slave"}
  /\ cr2 \in Pages \cup {NULL} /\ cr3 \in Frames \cup {init_page_dir}
  /\ tlb \in [Pages -> Entries]
  /\ free \subseteq Frames
  /\ \A v \in {pagedir, dying, kpage} : v \in [Threads -> Frames \cup {NULL}]
  /\ pde \in [Frames -> [Slots -> Frames \cup {NULL}]]
  /\ pte \in [Frames -> [Pages -> Entries]]
  /\ \A v \in {faulted, fault_addr} : v \in [Threads -> Pages \cup {NULL}]

(* The processor's state is that of the running thread.  CR3 holds its page *)
(* directory or the base one, never a directory that another thread has or  *)
(* that has been freed, and in user mode exactly its own; between setting   *)
(* cur->pagedir to NULL and pagedir_activate (NULL) the exiting thread      *)
(* still runs in the directory it is about to destroy.  Interrupts from     *)
(* user mode use the running thread's stack, user mode always has           *)
(* interrupts on, and after intr_handler no PIC waits for an end of         *)
(* interrupt, so that further interrupts come.                              *)
CpuOfRunning ==
  /\ TypeOK
  /\ esp0 = cur /\ pc[cur] # "dead"
  /\ cr3 # init_page_dir =>
       cr3 \notin free /\ cr3 = IF pc[cur] = "deactivate" THEN dying[cur] ELSE pagedir[cur]
  /\ pc[cur] = "user" => cr3 = pagedir[cur] /\ intr[cur] = "ON"
  /\ isr = {}

(* What the processor has cached is what the active page directory says,    *)
(* but for an entry the running thread is changing: pagedir.c flushes after *)
(* taking a flag away.  So a freed page is never reached through the TLB    *)
(* and the dirty flag is not lost.                                          *)
TlbCoherent ==
  \A p \in Pages : tlb[p].flags # {} =>
    /\ cr3 # init_page_dir
    /\ tlb[p].kpage \notin free
    /\ pc[cur] \notin {"invalidate", "deactivate", "destroy"} =>
         /\ Present(cr3, p) /\ pte[TableOf(cr3, p)][p].kpage = tlb[p].kpage
         /\ tlb[p].flags \subseteq pte[TableOf(cr3, p)][p].flags

(* page_fault reports the address of the thread's own fault, although other *)
(* threads fault in between: its handler runs with interrupts off until it  *)
(* has read CR2.                                                            *)
FaultAddressOwn ==
  /\ \A t \in Threads : fault_addr[t] # NULL => fault_addr[t] = faulted[t]
  /\ pc[cur] = "page_fault" => cr2 = faulted[cur]

(* The ways to hold a frame, and the frame held or NULL: a thread's page    *)
(* directory, or the one it is taking down; a page it has not mapped; a     *)
(* page table in a slot of its directory; a present entry of such a table.  *)
Dir(t) == IF pagedir[t] = NULL THEN dying[t] ELSE pagedir[t]
TableIn(t, k) == IF Dir(t) = NULL THEN NULL ELSE pde[Dir(t)][k]
PageAt(t, p) == IF Dir(t) # NULL /\ Present(Dir(t), p) THEN pte[TableOf(Dir(t), p)][p].kpage ELSE NULL

Roles == ({"dir", "kpage"} \X Threads)
         \cup ({"table"} \X Threads \X Slots) \cup ({"page"} \X Threads \X Pages)

Held(r) == CASE r[1] = "dir" -> Dir(r[2])
             [] r[1] = "kpage" -> kpage[r[2]]
             [] r[1] = "table" -> TableIn(r[2], r[3])
             [] r[1] = "page" -> PageAt(r[2], r[3])

(* Every page frame is free or held in exactly one way: no failure while    *)
(* loading, no flush and no step of pagedir_destroy loses a page, frees one *)
(* twice or lets two processes share one, at whatever step the processor    *)
(* is taken away.                                                           *)
FramesAccounted ==
  LET holdings == {<<r, Held(r)>> : r \in {s \in Roles : Held(s) # NULL}} IN
  /\ {h[2] : h \in holdings} = Frames \ free
  /\ \A g, h \in holdings : g[2] = h[2] => g = h
  /\ \A t \in Threads : pagedir[t] = NULL \/ dying[t] = NULL
=============================================================================
