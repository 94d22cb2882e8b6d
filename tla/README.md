# TLA+ specifications of the kernel

This directory specifies and checks this Pintos kernel (`src/src/`): the parts
in which threads, interrupt handlers, processes and devices meet, and the
sequential code under them. Modules are translated from the source;
`PROJECT.json` gives, for every definition, the lines it stands for.

The kernel runs on one CPU. Code that runs with interrupts disabled is one
atomic step up to the point where it blocks; everything else can be preempted
by the timer between two steps, so threads interleave freely.

## The system and its modules

Concurrent parts, each a state machine with a run of its own:

| Part | Source | Module | State |
|---|---|---|---|
| Semaphores | `threads/synch.c` | `Semaphore` | `value`, `waiters`, and where each thread is in `sema_down` |
| Locks, condition variables | `threads/synch.c` | `Monitor` (extends `Semaphore`) | `holder`, `cond_waiters`, `at` |
| Scheduler | `threads/thread.c`, timer tick | `Scheduler` (extends `Semaphore`) | running thread, ready list, status, priority, time slice |
| Processes | `userprog/process.c`, `exception.c` | `Process` (extends `Semaphore`) | parent, children, load, where each process is in exec, wait and exit |
| Processor, exceptions, page directories | `threads/interrupt.c`, `intr-stubs.S`, `userprog/exception.c`, `pagedir.c`, `tss.c`, `process.c` | `Cpu` | CR2, CR3, TLB, ring 0 stack, PIC, interrupt flag; page tables, frames, where each thread is |
| Page and block allocators | `threads/palloc.c`, `malloc.c`, `lib/kernel/bitmap.c` | `Malloc` | used map, arenas, free lists, locks, calls in progress |
| Console, serial port, keyboard input | `devices/intq.c`, `serial.c`, `input.c`, `kbd.c`, `lib/kernel/console.c` | `Serial` | two interrupt queues, the UART, sleeping threads |
| Block device (abstract) | `devices/block.c` | `Block` | sectors, calls in progress |
| IDE driver | `devices/ide.c` | `Ide` | the channel, the device, calls in progress |
| Files | `filesys/*.c`, `userprog/syscall.c`, `load` | `Files` | open inodes, descriptors, root directory, free map |

Code without threads of its own, checked together by `MCLibrary`:

| Part | Source | Module |
|---|---|---|
| Lists | `lib/kernel/list.c` | `Lists` |
| Memory and strings | `lib/string.c` | `Strings` |
| `printf`, `hex_dump`, sizes | `lib/stdio.c` | `Formatting` |
| `atoi`, sorting, searching, 64-bit division, random numbers | `lib/stdlib.c`, `arithmetic.c`, `random.c` | `Numbers` |
| Bitmaps | `lib/kernel/bitmap.c` | `Bitmaps` |
| Hash tables | `lib/kernel/hash.c` | `Hash`, which implements `Dictionary` |
| Program loading | `userprog/process.c` | `Loader` |
| Bytes of a file | `filesys/inode.c`, `file.c`, `userprog/syscall.c` | `FileData` |
| Tar archives | `lib/ustar.c`, `filesys/fsutil.c` | `Archive` |
| Boot, partitions, roles, actions | `threads/init.c`, `devices/partition.c`, `block.c`, `shutdown.c` | `Boot` |
| Keyboard and screen | `devices/kbd.c`, `vga.c` | `Console` |
| The caller of the functions above | | `Calls` |

`Semaphore` is what the other parts build on: `Monitor` and `Scheduler` are each
shown to implement it (property `ImplementsSemaphore`), from above, where locks
use semaphores, and from below, where semaphores use the ready list. `Process`
uses its operations on the three semaphores of every `struct thread`. `Malloc`,
`Ide` and `Files` take a lock as its holder or its value, which `Monitor`
justifies. `Ide` is shown to implement `Block`, and `Hash` to implement
`Dictionary`.

An action carries the name of the function it models when it models it whole. A
function that can be preempted is split: `lock_release` is `ReleaseHolder` and
`ReleaseUp`, because `lock->holder` is assigned with interrupts enabled;
`cond_wait` is five steps and then the assignment of the holder; `inode_open` is
the search, and the counting (`Reopen`) or adding (`Malloc`) of the inode;
`pagedir_clear_page` is the change of the entry and the flush; the loop of
`process_exit` is `Orphan`, its body, and `NextChild`, which goes on through the
child that the body has let go. A thread asleep
in `sema_down` is `"blocked"`, and `"woken"` between `sema_up` and its next test
of the value.

A function of the library is an operator that computes what the code computes,
loop by loop, on the same representation (linked cells, words of a bitmap, a
buffer with an offset), and a property compares it with a definition of the
result that does not mention the loop. `Calls` holds the one call in progress
and what it returned. Sizes of types, words, sectors and pages are constants, so
that wrapping, rounding and limits are reached on small values.

Definitions whose comment is under "Mutants", or that carry the name of another
definition with a suffix (`inode_reopen_uncounted`), are that definition as a
plausible mistake would leave it. For each property of each passing run one of
them is put in place of the original and TLC finds the property violated.

## Runs

| Run | Instance | Distinct states | Checks |
|---|---|---|---|
| `monitor` | 3 threads, one lock, one condition variable | 1,639 | mutual exclusion across `cond_wait`; the assertions on the holder; signals and broadcasts are not lost; implements `Semaphore`; a signalled thread wakes and someone gets the lock |
| `scheduler` | 3 threads, 2 priorities, slices of 2 ticks, one semaphore up to 2 | 44,280 | a thread is on one list and the ready list is sorted; implements `Semaphore`; a ready thread runs unless one of higher priority exists, and among equals a woken thread retries |
| `process` | 3 struct threads | 61,407 | a child is not freed before its parent lets it go; exec waits for its load; a child is let go once; wait returns |
| `cpu` | 2 processes, a kernel thread, 2 pages, 4 kernel and 2 user frames | 340,807 | CR3, stack, interrupt flag and PICs fit the running thread; the TLB is coherent; `page_fault` reports its own address; frames are in one place |
| `malloc` | 2 threads, 2 pages, descriptors of 2 and 1 blocks | 163,205 | pages and blocks are in exactly one place and `free_cnt` counts; calls return |
| `serial` | 2 writers, 2 readers, queues of 3 | 59,220 | bytes in order; waiters are recorded and the enabled interrupts follow the queues; bytes are sent and sleepers go on |
| `ide` | 2 threads, 2 sectors, 2 values | 38,842 | one command and one completion at a time; implements `Block`; calls return |
| `files` | 2 processes, 2 files, 2 descriptors each, 6 sectors | 1,059,714 | reference counts; sectors have one owner; running executables are not written |
| `library` | see below | 436,463 | one property per module of the second table; `Hash` implements `Dictionary` |

The bounds are the smallest at which the cases the properties are about happen:
three threads let one thread overtake a woken second one while a third sleeps;
a queue of three positions holds two bytes, fills, empties and wraps; two pages
let a group of two fail while single pages are left; a descriptor of two blocks
has arenas that are partly used; two user frames for two processes of two pages
each make one of them fail while it loads, with tables and pages to give back.
`MaxValue`, `MaxGroup`, `MaxHeld`, `MaxData` and `MaxLost` bound counters that
the code does not bound; `FdSize` (130 in the code) and `SectorCnt` are sizes of
the code scaled down, so that their limits are reached. In `Serial` bytes are
numbered modulo `Labels`, more than a queue holds, so no two bytes in flight are
alike.

`library` starts in one of five modes: a single call, the hash table, the file,
the keyboard, the screen. A call is made with every input up to its bound:
lists of four elements with three values (merge sort then merges three runs of
uneven length), strings of four characters over two letters in buffers that may
overlap, integers of 3 to 16 bits, arrays of five, bitmaps of five bits in words
of three (a last word partly used), files of up to five bytes in sectors of two
(a call that starts and ends inside a sector), programs whose segments meet,
overlap, wrap and miss the user half of 4-bit addresses, archives on a scratch
disk of eight sectors, nested extended partitions up to the depth `MaxNesting`.
The hash table grows and shrinks between two and four buckets with five elements
of four keys, two of them equal, under a malloc that may fail. `LineSize` (100)
and `ArgsSize` (130) are the arrays of `load` and `setup_stack`, scaled down so
that some command lines are too long for each.

`files` takes programs that wait for a child as soon as it is loaded
(`Waits = TRUE`): then no two processes are in the file system at a time, which
is all the code is safe for, since `load` and part of `exit` do not take
`sema_files`. Memory may run out in `inode_open` and `inode_create`, the free map
may have no sector or not be written, and `dir_add` may fail to write its entry;
the small blocks for a `struct file` or a `struct dir` are always there. `files_open` drops the assumption: three processes and a second
installed file, so that one process opens the file another one is loading. The
writers of `FileData` keep to parts of the file that share no sector, for the
same reason (see the list below).

`files`, `files_open` and `cpu` use symmetry under permutation of the processes
(and of the memory for inodes); they check safety only, and no definition
distinguishes the elements. `files` identifies states that differ only in the
bytes of files (`VIEW`), which no guard reads, and `cpu` states that differ only
in a CR2 nobody is about to read. Deadlock is not checked where the system may stop:
all threads asleep on a condition variable nobody signals (`monitor`), a process
that waits for one that never exits (`process`), a kernel that panicked
(`ide`, `files`).

### Where code and comments disagree

Three runs state what a comment or a test says and TLC finds it violated:

- `process_status`: `process_wait` sleeps on the parent's `sema_parent_block`,
  which every child ups: the exit of one child ends the wait for another.
- `process_load`: a parent can look at `load` after the child has said that
  loading is over and before it has recorded the failure.
- `files_open`: a load and an open of one file can both miss it on
  `open_inodes` and both add an inode, against the comment of the list.

Met while modelling, without a run of its own. The modules have each of these
as the code does, or keep away from it and say so:

- Processes: an exiting child tests `parent` and uses it after the parent may
  have been freed (`process.c:184`). A parent that exits lets a child go
  (`process.c:181`) and then finds the next one through it (`process.c:178`): if
  it is preempted in between, the child can exit and be freed, and the parent
  reads freed memory. `Process` has both and stops there (`fault`), so
  `ChildOutlivesUse` is about the children that have not been let go. A child
  whose parent never waits for it is never freed (`process.c:187`).
- Files: `filesys_remove` returns false for every file, since nothing sets
  `empty` of a `struct dir`; `dir_add` and `get_dir` keep an inode they open; a
  process ended by `bad_pointer` closes nothing, and its executable stays
  unwritable; a call with a closed descriptor ends with `sema_files` held
  (`syscall.c:319`). `inode_create` returns true when it gets no memory and has
  not written the inode (`inode.c:106`, `163`), and the file is entered in the
  directory all the same: its sectors are whatever the disk held. `Files` has
  such a file (its `data` is `NULL`), and `SectorsOwned` says nothing of its data
  sectors. `inode_create` keeps the sectors it got when it fails.
- Bytes of a file: two writes of parts of one sector can lose one of them
  (`syscall.c:365`); `inode_read_at` returns 0 for a read that crosses the end
  of the file (`inode.c:275`), while its comment promises the bytes before the
  end (`inode.c:258`); a write at or after the end goes through null or
  undefined pointers (`inode.c:368`). `FileBytesRight` claims neither.
- Loading: when there is no page for the stack, or a segment has taken it,
  `setup_stack` goes on and stores through a null pointer (`process.c:555`,
  `585`), and the parent in `process_execute` is never told. `Loader` has this
  as a load that does not end, `Process` as `LoadNoStack`. The command line is
  copied to an array of 100 bytes without a test (`process.c:319`); of 130
  arguments the assertion lets one too many pass (`process.c:576`). `LoadRight`
  is about command lines within both. `setup_stack`'s own copy is one byte short
  (`process.c:559`), which the rounding of the array's size makes up for, and it
  relies on the zeroed page for the upper bytes of the words it stores.
- Library: `umod64` and `smod64` return 32 bits of the remainder
  (`arithmetic.c:131`), while the comments promise the remainder
  (`arithmetic.c:129`), so `NumbersRight` is about remainders of 32 bits;
  `memmove` returns the end of the destination when it copies upwards
  (`string.c:45`), while its comment says it returns the destination
  (`string.c:21`), so `StringsRight` is about the result of the other direction
  only; a scan for no bits returns its start, while the comment says 0
  (`bitmap.c:317`), and `BitmapsRight` leaves it out; `strnlen` reads one byte more than it may;
  a negative width given as `*` pads twice when `0` is given too
  (`stdio.c:399`); a format that ends in `%` is read past its end.
- Boot: `read_partition_table` always reads sector 0 (`partition.c:91`), so an
  extended partition leads to itself until the stack is full; `random_init`
  starts anew on a second call, so `-rs` has no effect.
- Archives: of its end-of-archive marker of two sectors `fsutil_append` writes
  the first one twice, the second time from `buffer + 1`, so that its last byte
  comes from beyond the buffer (`fsutil.c:218`). If it is not zero the next
  extract copies all files and panics. `ArchiveRight` says so, and nothing of a
  device with room for one sector of the marker.
- Faults: `intr_dump_frame` reads CR2 again with interrupts on
  (`interrupt.c:420`) and may print the address of another thread's fault;
  `Cpu` leaves this out.

## Fairness

The timer ticks for ever and threads of equal priority take turns
(`Scheduler`, `Progress`), so a thread inside the kernel takes its next step
some day: weak fairness of those steps. Strong fairness appears where a thread
waits for a lock: the release makes a waiter ready without giving it the lock,
and it loses for ever only if it finds the next holder preempted inside its
critical section every time (`Malloc`, `Ide`); and for the exit of a process or
of a monitor, where the property says "if they leave". Devices finish what they
were told to do and pending interrupts are delivered (`Ide`, `Serial`). No
fairness is assumed of keys, or of programs' calls.

## Proofs

TLAPS proves, for any value of the constants that meets the assumptions:

- `SemaphoreProofs`: `SemaTypeCorrect`, `NoWakeupIsLost`, `WaitersAreBlocked`.
  The inductive invariant `SemaInv` is the conjunction of the type invariant,
  `WaitersBlocked` and `NoLostWakeup`: that `sema_up` adds a woken thread for
  the token it adds is only known if the head of the waiter list was blocked on
  that semaphore, and is on no other list.
- `MonitorProofs`: `LocksExclude`, `LockAssertsHold`, `NoSignalIsLost`,
  `BroadcastReachesAll`, `MonitorImplementsSemaphore` and the type invariant.
  `MonitorInv` adds to `SemaInv` where a sleeping thread can be (`Sleeping`),
  that the lock's semaphore is 0 or 1 and 0 while somebody owns the lock
  (`MutualExclusion`), that `holder` is set exactly between its two assignments
  (`Holding`), and that a thread in `cond_wait` is on the list or signalled but
  not both (`Signalling`). The parts need each other: a release may wake only a
  thread that sleeps on the lock, a signal finds a semaphore at 0 because the
  waiter is on the list, and so every step is a step of `Semaphore`, whose
  invariant then carries over. One lemma per group of actions, then the step.
- `SchedulerProofs`: `ThreadsAreOnOneList` and `SchedulerImplementsSemaphore`,
  for any threads, priorities and time slice. `SchedInv` joins `SemaInv` with a
  ready list that is sorted and has no thread twice, and with `StatusAgrees`: a
  thread's status says which list it is on. Only so is the thread that `sema_up`
  moves to the ready list known not to be there already. Lemmas about
  `list_insert_ordered` (the list stays sorted and gains one element) carry the
  order through every way to become ready.
- `ProcessProofs`: `ChildrenOutliveUse`, `ExecWaits` and `ChildrenAreLetGoOnce`,
  for any number of processes. A child that `process_exit`'s loop has let go and
  still goes through is in none of them. `ProcInv` says that a child in use (`InUse`: on
  its parent's list, or being waited for) has that parent, no token on its
  `wait_block`, and has not left the `sema_down` on it; that a child is let go
  with at most one token (`LetGo`); that while a child loads its parent waits
  for that child and has not been told (`Loading`); and whom an exiting process
  tells (`Telling`). `Counted` counts the tokens of `sema_parent_block`, which
  every child raises and which `process_wait` of any child takes: they stay
  below twice the number of threads, however pages are reused.
- `IdeProofs`: `OneCommandAtATime` and `IdeImplementsBlock`, for any threads,
  sectors and values. `OneCommand` says nothing of a channel that is working,
  so `IdeInv` adds that the holder of the lock is in the middle of a call and
  the channel in the state this call has brought it to, and that a free channel
  is idle. With it the device's one step that moves data is the step of `Block`
  of the lock's holder, and every other step changes nothing `Block` has.
- `CpuProofs`, for any processes, pages and numbers of frames. From `ControlInv`
  (what a thread has at each point of its life, and that interrupts are off
  where the code says so), `FaultInv` (until CR2 is read nobody else can fault)
  and `Cr3Inv` (CR3 is the running thread's directory while it needs one) come
  `FaultsReportTheirOwnAddress` and `ProcessorBelongsToRunning`. One lemma per
  way to change memory shows that the five parts of `MemInv` are kept: a
  directory, a page table, a mapped page and a page not yet mapped are each not
  free and in one place only, and every frame that is not free is one of them;
  this gives `FramesAreAccounted`. `TlbInv` adds that what is cached is in the
  active directory, or is the entry that its thread has just taken away and not
  yet flushed, whose page it still holds. That the page of such an entry is not
  free is what `MemInv` says of pages not mapped, and gives `TlbIsCoherent`.
- `MallocInvariant` and `MallocProofs`: `PagesAreAccounted` and
  `BlocksAreAccounted`, for any threads, pool, descriptors and sizes of groups.
  The two properties are not inductive, alone or together. `MallocInv` adds what
  a request is and which locks are held at each point of a call (`ReqInv`,
  `LockInv`); that the group `bitmap_scan` found is free until it is marked,
  although bits are cleared without the lock (`ScanInv`: others only clear, and
  only the lock's holder sets); that an arena with all its blocks on the list is
  the one from which its maker is about to take a block (`FullInv`, from
  `EmptyInv`: the list was empty when the page was asked for, and the
  descriptor's lock has been held since); and what a thread in `free` gives back
  (`GiveInv`). `FullInv` is what makes the count right when `free` closes an
  arena: `blocks_per_arena` on the list only after the last one came back.
  `PageInv` and `BlockInv` are the properties themselves, with quantifiers over
  single pages and blocks in place of unions. A lemma for each way pages change
  hands (`PageMove`, `PageTakePend`, `PageTakeGroup`, `PageGiveArena`,
  `PageGiveGroup`) and each way blocks do (`BlockNewArena`, `BlockPop`,
  `BlockFree`, `BlockClose`, `BlockGone`, `BlockBig`) leaves every action a short
  argument. `WithoutAll`, what the loop of `list_remove` in `free` leaves, is by
  induction: a least counterexample (`LeastNatural`) of the number of blocks
  removed.

The assumptions are the named `ASSUME`s of the modules: finitely many threads,
initial values within the bound, null pointers and the kernel's own directory
that are no elements of the sets they stand beside, a semaphore for the lock
(initially 1) and for each thread's `cond_wait` (0), and descriptors with room
for at least one block in an arena.

Only model-checked:

- the liveness properties (`WaitReturns`, `CallsReturn` and those called
  `Progress`), since fairness and `ENABLED` are outside the prover's reach;
- the library (`ListsRight` to `ConsoleRight`, `ImplementsDictionary`): what a recursive function
  computes for every input needs induction over data, which the prover does not
  have, and the modules declare recursive operators;
- `Files` (`RefsCounted`, `SectorsOwned`, `ExecutableNotWritten`): a reference
  count is a sum over the descriptors of all processes, a fold over a set, of
  which nothing can be proved without induction;
- `Serial` (`InOrder`, `WaitsArmed`): not proved yet.

## Not modelled

Listed with reasons under `components` in `PROJECT.json`. In short:

- hardware set-up and register access: segments, the initialisation of the PICs,
  the boot loader, the timer chip, the clock, the speaker;
- code whose outcome the source leaves open: directories other than the root
  (`mkdir`, `chdir`, `readdir` follow pointers nothing sets), growth of a file
  and its indirect sectors, a walk of `all_list` while it changes
  (`thread.c:550`);
- `timer_sleep`, which is a loop of `thread_yield`, and the measuring of real
  time around it;
- the words of the user's stack that `syscall_handler` reads;
- texts: names of partition types, messages, panics and backtraces;
- the user library, whose functions trap into the kernel, and the example
  programs, for which the modules let a program do anything.

The `vm` directory holds no source.

## Plan

1. Prove `RefsCounted` of `Files` and `WaitsArmed` of `Serial`.
2. `Files` and `FileData` as one module, with processes that share a sector.
3. Detection of disks and late write errors in `Ide`.
