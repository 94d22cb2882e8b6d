--------------------------------- MODULE Files ---------------------------------
(***************************************************************************)
(* The files of the kernel: processes that execute, create, open, write,   *)
(* close and remove files of the root directory (userprog/syscall.c and    *)
(* load in userprog/process.c), the table of open inodes (filesys/inode.c),*)
(* the directory and the free map.                                         *)
(*                                                                         *)
(* The file system calls run under the semaphore sema_files; load, the     *)
(* file_close of exit and the file_write of write run without it.          *)
(* inode_open is split where a thread can be preempted between looking for *)
(* an open inode and counting the new reference.  The inode of the root    *)
(* directory itself, file positions and the bytes of a file are left out:  *)
(* content[s] only tells whether a file was written.                       *)
(***************************************************************************)
EXTENDS Naturals, Sequences, FiniteSets, FiniteSetsExt

CONSTANTS
  Procs,      \* processes
  Names,      \* file names
  Installed,  \* files of the disk when the kernel boots
  SectorCnt,  \* sectors of the file system device
  Inodes,     \* memory for struct inode
  FdSize,     \* length of file_pointers (130 in thread.h)
  MaxData,    \* bound: data sectors of a new file
  MaxLost,    \* bound: references that nothing will close
  Waits,      \* TRUE: the programs wait for a child as soon as it is loaded
  NULL

ASSUME FilesAssumption ==
  /\ Installed \subseteq Names
  /\ {SectorCnt, FdSize, MaxData, MaxLost} \subseteq Nat
  /\ FdSize > 2 /\ Waits \in BOOLEAN

VARIABLES
  free_map,      \* the sectors in use
  root,          \* root[n]: sector of the inode of file n, or NULL
  data,          \* data[s]: data sectors of the inode in sector s; NULL: never written
  content,       \* content[s]: changes when the file of sector s is written
  inodes,        \* the struct inode in memory, or NULL where it is free
  open_inodes,   \* the list of open inodes
  sema_files,    \* value of the semaphore
  pc,            \* where process p is
  op,            \* op[p]: the open in progress: what for, which sector, the inode found
  child,         \* child[p]: the process that p is blocked on
  file_pointers, \* struct thread: the open files of p
  fd_index,      \* struct thread
  save,          \* struct thread: the executable
  lost,          \* lost[i]: references to i that nothing will close
  lost_deny,     \* lost_deny[i]: those that deny writes
  fault          \* the kernel has panicked or used memory or sectors that are not its own

disk == <<free_map, root, data>>
table == <<inodes, open_inodes>>
files == <<file_pointers, fd_index, save>>
losses == <<lost, lost_deny>>
vars == <<disk, content, table, sema_files, pc, op, child, files, losses, fault>>

FREE_MAP_SECTOR == 0
ROOT_DIR_SECTOR == 1
Sectors == 0 .. SectorCnt - 1
Fds == 2 .. FdSize - 1

Inode == [sector : Sectors, open_cnt : Nat, deny_write_cnt : Nat]
File == [inode : Inodes, deny_write : BOOLEAN]
Idle == [for |-> "none", sector |-> 0, inode |-> NULL]
NoFiles == [fd \in Fds |-> NULL]

(* A disk with the installed files, each with its inode and one data sector,
   after the sectors of the free map and of the root directory. *)
Init ==
  /\ \E at \in Injection(Installed, 1 .. Cardinality(Installed)) :
       root = [n \in Names |-> IF n \in Installed THEN 2 * at[n] ELSE NULL]
  /\ free_map = 0 .. 2 * Cardinality(Installed) + 1
  /\ data = [s \in Sectors |-> IF \E n \in Installed : root[n] = s THEN {s + 1} ELSE {}]
  /\ content = [s \in Sectors |-> 0]
  /\ inodes = [i \in Inodes |-> NULL] /\ open_inodes = <<>>
  /\ sema_files = 1
  /\ pc = [p \in Procs |-> "none"] /\ op = [p \in Procs |-> Idle]
  /\ child = [p \in Procs |-> NULL]
  /\ file_pointers = [p \in Procs |-> NoFiles]
  /\ fd_index = [p \in Procs |-> 2] /\ save = [p \in Procs |-> NULL]
  /\ lost = [i \in Inodes |-> 0] /\ lost_deny = [i \in Inodes |-> 0]
  /\ fault = FALSE

-----------------------------------------------------------------------------
(* The table of open inodes. *)

inode_close(T, i) ==
  IF T[i].open_cnt = 1
  THEN [T EXCEPT ![i] = NULL]
  ELSE [T EXCEPT ![i].open_cnt = @ - 1]

inode_deny_write(T, i) == [T EXCEPT ![i].deny_write_cnt = @ + 1]

inode_allow_write(T, i) == [T EXCEPT ![i].deny_write_cnt = @ - 1]

file_allow_write(T, f) == IF f.deny_write THEN inode_allow_write(T, f.inode) ELSE T
file_close(T, f) == inode_close(file_allow_write(T, f), f.inode)

\* list_remove of the inodes that were freed.
Listed(T) == SelectSeq(open_inodes, LAMBDA i : T[i] # NULL)

\* The first open inode of sector s, if there is one.
IsOpen(s) == \E k \in DOMAIN open_inodes : inodes[open_inodes[k]].sector = s
FirstOpen(s) ==
  open_inodes[Min({k \in DOMAIN open_inodes : inodes[open_inodes[k]].sector = s})]

-----------------------------------------------------------------------------
(* Processes. *)

At(p, l) == pc[p] = l /\ ~fault
Goes(p, l) == [pc EXCEPT ![p] = l]

\* p ends or has loaded and goes to l: the process blocked on it goes on.
Unblocks(p, l) ==
  /\ pc' = [q \in Procs |-> CASE q = p -> l
                              [] child[q] = p -> "run"
                              [] OTHER -> pc[q]]
  /\ child' = [q \in Procs |-> IF child[q] = p THEN NULL ELSE child[q]]

\* What p holds: its executable and its descriptors.
Held(p) == {fd \in Fds : file_pointers[p][fd] # NULL}
HeldOf(p, i) ==
  Quantify(Held(p), LAMBDA fd : file_pointers[p][fd].inode = i)
    + (IF save[p] # NULL /\ save[p].inode = i THEN 1 ELSE 0)
DenyOf(p, i) == IF save[p] # NULL /\ save[p].inode = i THEN 1 ELSE 0

AllLost == MapThenSumSet(LAMBDA i : lost[i], Inodes)

\* p leaves the system with what it still holds: thread_exit closes no file.
thread_exit(p) ==
  /\ Unblocks(p, "none")
  /\ op' = [op EXCEPT ![p] = Idle]
  /\ lost' = [i \in Inodes |-> lost[i] + HeldOf(p, i)]
  /\ lost_deny' = [i \in Inodes |-> lost_deny[i] + DenyOf(p, i)]
  /\ file_pointers' = [file_pointers EXCEPT ![p] = NoFiles]
  /\ fd_index' = [fd_index EXCEPT ![p] = 2]
  /\ save' = [save EXCEPT ![p] = NULL]

\* The kernel stops.
Panic ==
  /\ fault' = TRUE
  /\ UNCHANGED <<disk, content, table, sema_files, pc, op, child, files, losses>>

-----------------------------------------------------------------------------
(* Opening a file: dir_lookup has found sector s, inode_open comes next. *)

Opens(p, for, s, pcs) ==
  /\ op' = [op EXCEPT ![p] = [for |-> for, sector |-> s, inode |-> NULL]]
  /\ pc' = [pcs EXCEPT ![p] = "search"]

\* run_task, with no process left from the one before: load opens the
\* executable, without sema_files.  A name that is not there changes nothing.
run_task(q) ==
  /\ ~fault /\ \A p \in Procs : pc[p] = "none"
  /\ \E n \in Names : root[n] # NULL /\ Opens(q, "load", root[n], pc)
  /\ UNCHANGED <<disk, content, table, sema_files, child, files, losses, fault>>

\* The parent is blocked until the load is over, and longer if it waits.
exec(p) ==
  /\ At(p, "run")
  /\ \E q \in Procs, n \in Names :
       /\ pc[q] = "none" /\ root[n] # NULL
       /\ child' = [child EXCEPT ![p] = q]
       /\ Opens(q, "load", root[n], Goes(p, "blocked"))
  /\ UNCHANGED <<disk, content, table, sema_files, files, losses, fault>>

\* sema_down succeeds.
Down(p) == At(p, "run") /\ sema_files = 1

open(p) ==
  /\ Down(p) /\ sema_files' = 0
  /\ \E n \in Names : root[n] # NULL /\ Opens(p, "open", root[n], pc)
  /\ UNCHANGED <<disk, content, table, child, files, losses, fault>>

\* get_dir looks the name up and keeps the inode; since no struct dir has
\* empty set, filesys_remove then returns false.
remove(p) ==
  /\ Down(p) /\ sema_files' = 0
  /\ AllLost < MaxLost
  /\ \E n \in Names : root[n] # NULL /\ Opens(p, "remove", root[n], pc)
  /\ UNCHANGED <<disk, content, table, child, files, losses, fault>>

\* The n lowest sectors of S.
Lowest(S, n) == {s \in S : Cardinality({r \in S : r < s}) < n}

\* Hands out sectors that it does not mark.
free_map_allocate_unmarked(n) ==
  {[got |-> Lowest(Sectors \ free_map, k), map |-> free_map] : k \in 0 .. n}

\* n calls of free_map_allocate for one sector: each takes and marks the lowest
\* free one, or fails and leaves the map as it was, when none is free or the
\* file of the free map could not be written.
free_map_allocate(n) ==
  {[got |-> S, map |-> free_map \cup S] :
     S \in {Lowest(Sectors \ free_map, k) : k \in 0 .. n}}

\* inode_create for size data sectors, with the sectors S that it and
\* filesys_create got.  It returns true with the data sectors, or with nothing
\* written when calloc fails.
inode_create(size, S) ==
  (IF Cardinality(S) = size + 1 THEN {S \ {Min(S)}} ELSE {})
    \cup (IF Cardinality(S) = 1 THEN {NULL} ELSE {})

\* There was no sector for the inode, or not for all of the data: a call that
\* fails is made twice more, and all that was got stays allocated.
TooFew(size, S) == S = {} \/ (size > 0 /\ Cardinality(S) <= size + 2)

\* dir_add writes the entry, or cannot, and then opens the new file through a
\* pointer that it never set.  When the name is taken it does nothing.
create(p) ==
  /\ Down(p) /\ AllLost < MaxLost
  /\ \E n \in Names, size \in 0 .. MaxData : \E a \in free_map_allocate(size + 2) :
       /\ free_map' = a.map
       /\ \/ /\ TooFew(size, a.got)
             /\ UNCHANGED <<root, data, sema_files, op, pc, fault>>
          \/ /\ root[n] # NULL /\ inode_create(size, a.got) # {}
             /\ UNCHANGED <<root, data, sema_files, op, pc, fault>>
          \/ /\ root[n] = NULL /\ inode_create(size, a.got) # {}
             /\ fault' \in BOOLEAN
             /\ UNCHANGED <<root, data, sema_files, op, pc>>
          \/ /\ root[n] = NULL
             /\ \E d \in inode_create(size, a.got) : data' = [data EXCEPT ![Min(a.got)] = d]
             /\ root' = [root EXCEPT ![n] = Min(a.got)]
             /\ sema_files' = 0
             /\ Opens(p, "create", Min(a.got), pc)
             /\ UNCHANGED fault
  /\ UNCHANGED <<content, table, child, files, losses>>

\* The loop of inode_open over open_inodes.
inode_open(p) ==
  /\ At(p, "search")
  /\ IF IsOpen(op[p].sector)
     THEN /\ pc' = Goes(p, "reopen")
          /\ op' = [op EXCEPT ![p].inode = FirstOpen(op[p].sector)]
     ELSE /\ pc' = Goes(p, "malloc")
          /\ op' = op
  /\ UNCHANGED <<disk, content, table, sema_files, child, files, losses, fault>>

\* What the caller does with the inode; T is the table that counts it.
Opened(p, i, T) ==
  /\ op' = [op EXCEPT ![p] = Idle]
  /\ \/ /\ op[p].for = "load"       \* load: save = file, file_deny_write
        /\ inodes' = inode_deny_write(T, i)
        /\ save' = [save EXCEPT ![p] = [inode |-> i, deny_write |-> TRUE]]
        /\ pc' = Goes(p, "load")
        /\ UNCHANGED <<sema_files, file_pointers, fd_index, lost, fault>>
     \/ /\ op[p].for = "open"       \* the descriptor, beyond the table's end too
        /\ inodes' = T
        /\ IF fd_index[p] \in Fds
           THEN /\ file_pointers' = [file_pointers EXCEPT ![p][fd_index[p]] =
                                       [inode |-> i, deny_write |-> FALSE]]
                /\ fd_index' = [fd_index EXCEPT ![p] = @ + 1]
                /\ UNCHANGED <<lost, fault>>
           ELSE /\ fault' = TRUE
                /\ lost' = [lost EXCEPT ![i] = @ + 1]
                /\ UNCHANGED <<file_pointers, fd_index>>
        /\ sema_files' = 1
        /\ pc' = Goes(p, "run")
        /\ UNCHANGED save
     \/ /\ op[p].for \in {"create", "remove"}  \* kept by nobody
        /\ inodes' = T
        /\ lost' = [lost EXCEPT ![i] = @ + 1]
        /\ fault' \in BOOLEAN       \* stored through a stray pointer
        /\ sema_files' = 1
        /\ pc' = Goes(p, "run")
        /\ UNCHANGED <<file_pointers, fd_index, save>>
  /\ UNCHANGED <<disk, content, child, lost_deny>>

\* Finds the inode and does not count the reference.
inode_reopen_uncounted(T, i) == T

inode_reopen(T, i) == [T EXCEPT ![i].open_cnt = @ + 1]

\* The inode found may have been freed since.
Reopen(p) ==
  /\ At(p, "reopen")
  /\ IF inodes[op[p].inode] = NULL
     THEN Panic
     ELSE /\ Opened(p, op[p].inode, inode_reopen(inodes, op[p].inode))
          /\ UNCHANGED open_inodes

\* No open inode was found: malloc one and push it in front.
Malloc(p) ==
  /\ At(p, "malloc")
  /\ \E i \in Inodes :
       /\ inodes[i] = NULL
       /\ open_inodes' = <<i>> \o open_inodes
       /\ Opened(p, i, [inodes EXCEPT ![i] =
            [sector |-> op[p].sector, open_cnt |-> 1, deny_write_cnt |-> 0]])

\* malloc returns a null pointer: the load fails, a call returns.  create and
\* remove have stored it through a stray pointer.
MallocFails(p) ==
  /\ At(p, "malloc")
  /\ IF op[p].for = "load"
     THEN thread_exit(p) /\ UNCHANGED sema_files
     ELSE /\ op' = [op EXCEPT ![p] = Idle]
          /\ pc' = Goes(p, "run")
          /\ sema_files' = 1
          /\ UNCHANGED <<child, files, losses>>
  /\ fault' \in IF op[p].for \in {"create", "remove"} THEN BOOLEAN ELSE {FALSE}
  /\ UNCHANGED <<disk, content, table>>

\* The executable is read: the process runs and the parent's exec returns.
Loaded(p) ==
  /\ At(p, "load")
  /\ IF Waits THEN pc' = Goes(p, "run") /\ UNCHANGED child ELSE Unblocks(p, "run")
  /\ UNCHANGED <<disk, content, table, sema_files, op, files, losses, fault>>

\* It is no executable, or memory is short: the file stays open and denied.
\* (A load that fails for the stack's page only is in module Process.)
LoadFails(p) ==
  /\ At(p, "load") /\ AllLost < MaxLost
  /\ thread_exit(p)
  /\ UNCHANGED <<disk, content, table, sema_files, fault>>

-----------------------------------------------------------------------------
(* Using and closing files. *)

\* write checks the descriptor under sema_files and gives it back; is_dir of
\* the inode was never set, so it may also return -1.
write(p) ==
  /\ Down(p)
  /\ \E fd \in Held(p) :
       /\ op' = [op EXCEPT ![p].inode = file_pointers[p][fd].inode]
       /\ pc' = Goes(p, "write")
  /\ UNCHANGED <<disk, content, table, sema_files, child, files, losses, fault>>

\* Writes whatever deny_write_cnt says.
inode_write_at_denied(i) == TRUE

\* inode_write_at returns 0 while writes are denied.
inode_write_at(i) == inodes[i].deny_write_cnt = 0

\* An inode that create did not write leads to any sectors of the disk.
file_write(p) ==
  /\ At(p, "write")
  /\ LET i == op[p].inode
         s == inodes[i].sector
     IN  IF inode_write_at(i)
         THEN /\ content' = [content EXCEPT ![s] = 1 - @]
              /\ fault' \in IF data[s] = NULL THEN BOOLEAN ELSE {FALSE}
         ELSE UNCHANGED <<content, fault>>
  /\ op' = [op EXCEPT ![p] = Idle]
  /\ pc' = Goes(p, "run")
  /\ UNCHANGED <<disk, table, sema_files, child, files, losses>>

\* read, write, filesize, seek or tell of a descriptor that was closed or is
\* the next one: a null pointer.  An assertion or the fault panics the kernel,
\* or page_fault ends the thread, which still has sema_files.
NullFile(p) ==
  /\ Down(p)
  /\ \E fd \in 2 .. fd_index[p] : fd \notin Held(p)
  /\ \/ Panic
     \/ /\ AllLost < MaxLost
        /\ sema_files' = 0
        /\ thread_exit(p)
        /\ UNCHANGED <<disk, content, table, fault>>

close(p) ==
  /\ At(p, "run") \/ At(p, "close")
  /\ sema_files = 1
  /\ \E fd \in Held(p) :
       /\ pc[p] = "close" => fd = Min(Held(p))
       /\ inodes' = file_close(inodes, file_pointers[p][fd])
       /\ file_pointers' = [file_pointers EXCEPT ![p][fd] = NULL]
  /\ open_inodes' = Listed(inodes')
  /\ UNCHANGED <<disk, content, sema_files, pc, op, child, fd_index, save, losses, fault>>

\* exit closes the executable without sema_files, and then the descriptors.
exit(p) ==
  /\ At(p, "run")
  /\ inodes' = file_close(inodes, save[p])
  /\ open_inodes' = Listed(inodes')
  /\ save' = [save EXCEPT ![p] = NULL]
  /\ pc' = Goes(p, "close")
  /\ UNCHANGED <<disk, content, sema_files, op, child, file_pointers, fd_index, losses, fault>>

close_files(p) ==
  /\ At(p, "close") /\ Held(p) = {} /\ sema_files = 1
  /\ thread_exit(p)
  /\ UNCHANGED <<disk, content, table, sema_files, fault>>

\* bad_pointer or kill ends the process: nothing is closed.
kill(p) ==
  /\ At(p, "run") /\ AllLost < MaxLost
  /\ thread_exit(p)
  /\ UNCHANGED <<disk, content, table, sema_files, fault>>

Step(p) ==
  \/ run_task(p) \/ exec(p) \/ open(p) \/ remove(p) \/ create(p)
  \/ inode_open(p) \/ Reopen(p) \/ Malloc(p) \/ MallocFails(p)
  \/ Loaded(p) \/ LoadFails(p) \/ write(p) \/ file_write(p) \/ NullFile(p)
  \/ close(p) \/ exit(p) \/ close_files(p) \/ kill(p)

Next == \E p \in Procs : Step(p)

Spec == Init /\ [][Next]_vars

-----------------------------------------------------------------------------
(* Properties. *)

\* Every variable has its type.
TypeOK ==
  /\ free_map \subseteq Sectors
  /\ root \in [Names -> Sectors \cup {NULL}]
  /\ data \in [Sectors -> (SUBSET Sectors) \cup {NULL}]
  /\ content \in [Sectors -> 0 .. 1]
  /\ inodes \in [Inodes -> Inode \cup {NULL}]
  /\ open_inodes \in Seq(Inodes)
  /\ sema_files \in 0 .. 1
  /\ pc \in [Procs -> {"none", "blocked", "search", "reopen", "malloc", "load",
                       "run", "write", "close"}]
  /\ op \in [Procs -> [for : {"none", "load", "open", "create", "remove"},
                       sector : Sectors, inode : Inodes \cup {NULL}]]
  /\ child \in [Procs -> Procs \cup {NULL}]
  /\ file_pointers \in [Procs -> [Fds -> File \cup {NULL}]]
  /\ fd_index \in [Procs -> 2 .. FdSize]
  /\ save \in [Procs -> File \cup {NULL}]
  /\ lost \in [Inodes -> Nat] /\ lost_deny \in [Inodes -> Nat]
  /\ fault \in BOOLEAN

(* Opening a file twice returns the same struct inode: no two open inodes are
   of one sector (the comment of open_inodes, inode.c:75-76). *)
OneInodePerSector ==
  \A i, j \in Inodes :
    inodes[i] # NULL /\ inodes[j] # NULL /\ inodes[i].sector = inodes[j].sector => i = j

(* The counters of every open inode are its references: descriptors of all
   processes, executables and the references the code forgets.  So an inode
   lives exactly as long as it is referenced, the list of open inodes holds
   each of them once, a file has at most one of them, and the assertions of
   inode_deny_write and inode_allow_write hold (inode.c:426 and 435-436). *)
RefsCounted ==
  /\ TypeOK
  /\ \A i \in Inodes :
       LET refs == lost[i] + MapThenSumSet(LAMBDA p : HeldOf(p, i), Procs)
           denies == lost_deny[i] + MapThenSumSet(LAMBDA p : DenyOf(p, i), Procs)
       IN  IF inodes[i] = NULL
           THEN refs = 0
           ELSE /\ inodes[i].open_cnt = refs /\ refs > 0
                /\ inodes[i].deny_write_cnt = denies /\ denies <= refs
  /\ \A i \in Inodes :
       Quantify(DOMAIN open_inodes, LAMBDA k : open_inodes[k] = i)
         = IF inodes[i] = NULL THEN 0 ELSE 1
  /\ OneInodePerSector

(* A file is not written while some process executes it, whichever descriptor
   the write uses: deny_write_cnt is found through the shared inode. *)
ExecutableNotWritten ==
  [][\A p \in Procs : save[p] # NULL =>
       LET s == inodes[save[p].inode].sector IN content'[s] = content[s]]_vars

(* Files do not share sectors, whatever creations failed half way and whenever
   the free map could not be written: the sectors of a file are marked in the
   free map and are no other file's.  Of a file whose inode was not written,
   since inode_create had no memory, it speaks of the inode's sector only: the
   data sectors are those that the disk's old contents name. *)
SectorsOwned ==
  LET Of(n) == {root[n]} \cup (IF data[root[n]] = NULL THEN {} ELSE data[root[n]])
      Linked == {n \in Names : root[n] # NULL}
  IN  \A n \in Linked :
        /\ Of(n) \subseteq free_map \ {FREE_MAP_SECTOR, ROOT_DIR_SECTOR}
        /\ \A m \in Linked \ {n} : Of(n) \cap Of(m) = {}
=============================================================================
