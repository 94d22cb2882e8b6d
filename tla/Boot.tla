-------------------------------- MODULE Boot --------------------------------
(***************************************************************************)
(* What a boot makes of the disks and of the kernel command line: the      *)
(* block devices of devices/partition.c and devices/block.c, and the       *)
(* options, roles and actions of threads/init.c.  An option is a word      *)
(* that begins with a hyphen, already split at "=".                        *)
(***************************************************************************)
EXTENDS Calls, Integers, Sequences

CONSTANTS
  SectorBits,    \* width of a sector number
  DiskSize,      \* sectors of the disk
  MaxNesting,    \* calls of read_partition_table that the kernel stack has room for
  MaxWords       \* words of the command line

Sector(n) == n % 2 ^ SectorBits
NULL == -1

-----------------------------------------------------------------------------
Extended == {5, 15, 133, 197}
PartitionType(t) ==
  CASE t = 32 -> "kernel" [] t = 33 -> "filesys" [] t = 34 -> "scratch" [] t = 35 -> "swap"
    [] OTHER -> "foreign"

(* r: the number of partitions found, all_blocks, and whether the stack has *)
(* overflowed.                                                              *)
block_register(r, name, type, start, size) ==
  [r EXCEPT !.blocks = Append(@, [name |-> name, type |-> type, start |-> start, size |-> size])]

(* Mutant: the end of the partition may wrap around. *)
found_partition_wrap(r, e, start) ==
  IF start >= DiskSize \/ Sector(start + e.size) > DiskSize THEN r
  ELSE block_register(r, r.part_nr, PartitionType(e.type), start, e.size)

found_partition(r, e, start) ==
  IF \/ start >= DiskSize
     \/ Sector(start + e.size) < start
     \/ Sector(start + e.size) > DiskSize
  THEN r
  ELSE block_register(r, r.part_nr, PartitionType(e.type), start, e.size)

(* ReadEntries goes on at entry i.  The table is always that of sector 0. *)
RECURSIVE read_partition_table(_, _, _, _, _)
RECURSIVE ReadEntries(_, _, _, _, _, _)
read_partition_table(r, disk, sector, primary_extended_sector, nesting) ==
  IF sector >= DiskSize THEN r
  ELSE IF nesting = MaxNesting THEN [r EXCEPT !.overflow = TRUE]
  ELSE IF ~disk.signature THEN r
  ELSE ReadEntries(r, disk, sector, primary_extended_sector, nesting, 1)

ReadEntries(r, disk, sector, primary_extended_sector, nesting, i) ==
  LET e == disk.partitions[i]
      nr == [r EXCEPT !.part_nr = @ + 1]
      new == IF e.size = 0 \/ e.type = 0 THEN r
             ELSE IF e.type \in Extended
             THEN IF sector = 0 THEN read_partition_table(r, disk, e.offset, e.offset, nesting + 1)
                  ELSE read_partition_table(r, disk, Sector(e.offset + primary_extended_sector),
                                            primary_extended_sector, nesting + 1)
             ELSE found_partition(nr, e, Sector(e.offset + sector))
  IN IF i > Len(disk.partitions) \/ r.overflow THEN r
     ELSE ReadEntries(new, disk, sector, primary_extended_sector, nesting, i + 1)

(* The disk, then its partitions. *)
partition_scan(disk) ==
  read_partition_table(block_register([part_nr |-> 0, blocks |-> <<>>, overflow |-> FALSE],
                                      0, "raw", 0, DiskSize), disk, 0, 0, 0)

(* The sector of the disk that partition_read and partition_write access,   *)
(* -1 where check_sector panics.                                            *)
check_sector(sector, size) == IF sector >= size THEN -1 ELSE sector
partition_read(block, sector) ==
  IF check_sector(sector, block.size) = -1 THEN -1
  ELSE check_sector(Sector(block.start + sector), DiskSize)

-----------------------------------------------------------------------------
(* b: how far the boot is, what the options have set, the block of every    *)
(* role, and the actions run.                                               *)
Start ==
  [state |-> "on", how |-> "none", panicked |-> FALSE, format_filesys |-> FALSE, filesys_bdev_name |-> NULL,
   scratch_bdev_name |-> NULL, seed |-> NULL, thread_mlfqs |-> FALSE, user_page_limit |-> NULL,
   roles |-> [filesys |-> NULL, scratch |-> NULL], actions |-> <<>>]
rtc_get_time == 1000

shutdown(b) ==
  CASE b.how = "none" -> b
    [] b.how = "power_off" -> [b EXCEPT !.state = "off"]
    [] b.how = "reboot" -> [b EXCEPT !.state = "reboot"]

(* debug_panic shuts down, or the kernel stays where it is. *)
PANIC(b) == shutdown([b EXCEPT !.state = "panic", !.panicked = TRUE])

SetOption(b, o) ==
  CASE o.name = "-h" -> [b EXCEPT !.state = "off"]
    [] o.name = "-q" -> [b EXCEPT !.how = "power_off"]
    [] o.name = "-r" -> [b EXCEPT !.how = "reboot"]
    [] o.name = "-f" -> [b EXCEPT !.format_filesys = TRUE]
    [] o.name = "-filesys" -> [b EXCEPT !.filesys_bdev_name = o.value]
    [] o.name = "-scratch" -> [b EXCEPT !.scratch_bdev_name = o.value]
    [] o.name = "-rs" -> [b EXCEPT !.seed = o.value]
    [] o.name = "-mlfqs" -> [b EXCEPT !.thread_mlfqs = TRUE]
    [] o.name = "-ul" -> [b EXCEPT !.user_page_limit = o.value]
    [] OTHER -> PANIC(b)

(* The words that are left go to run_actions.  random_init reinitializes. *)
RECURSIVE parse_options(_, _)
parse_options(b, argv) ==
  IF b.state # "on" THEN [b |-> b, argv |-> argv]
  ELSE IF argv = <<>> \/ ~Head(argv).option THEN [b |-> [b EXCEPT !.seed = rtc_get_time], argv |-> argv]
  ELSE parse_options(SetOption(b, Head(argv)), Tail(argv))

(* Blocks are indexes of all_blocks; the first one of those wanted. *)
FirstOf(found) == IF found = {} THEN NULL ELSE CHOOSE i \in found : \A j \in found : i <= j
block_get_by_name(blocks, name) == FirstOf({i \in DOMAIN blocks : blocks[i].name = name})
FirstOfType(blocks, type) == FirstOf({i \in DOMAIN blocks : blocks[i].type = type})

locate_block_device(b, blocks, role, name) ==
  LET block == IF name # NULL THEN block_get_by_name(blocks, name) ELSE FirstOfType(blocks, role)
  IN IF b.state # "on" THEN b
     ELSE IF name # NULL /\ block = NULL THEN PANIC(b)
     ELSE [b EXCEPT !.roles[role] = block]

locate_block_devices(b, blocks) ==
  locate_block_device(locate_block_device(b, blocks, "filesys", b.filesys_bdev_name),
                      blocks, "scratch", b.scratch_bdev_name)

filesys_init(b) == IF b.state = "on" /\ b.roles.filesys = NULL THEN PANIC(b) ELSE b

ActionArgc(name) ==
  CASE name \in {"run", "cat", "rm", "append"} -> 2 [] name \in {"ls", "extract"} -> 1 [] OTHER -> 0

RECURSIVE run_actions(_, _)
run_actions(b, argv) ==
  LET argc == ActionArgc(Head(argv).name)
  IN IF b.state # "on" \/ argv = <<>> THEN b
     ELSE IF argc = 0 \/ Len(argv) < argc THEN PANIC(b)
     ELSE run_actions([b EXCEPT !.actions = Append(@, SubSeq(argv, 1, argc))],
                      SubSeq(argv, argc + 1, Len(argv)))

main(disk, argv) ==
  LET p == parse_options(Start, argv)
      blocks == partition_scan(disk).blocks
      b == run_actions(filesys_init(locate_block_devices(p.b, blocks)), p.argv)
  IN IF b.state = "on" THEN shutdown(b) ELSE b

-----------------------------------------------------------------------------
SectorNumbers == 0 .. 2 ^ SectorBits - 1
TableEntries(types, offsets, sizes) == [type : types, offset : offsets, size : sizes]
EmptyEntry == [type |-> 0, offset |-> 0, size |-> 0]
Disks ==
  {[signature |-> TRUE, partitions |-> <<e, EmptyEntry>>] : e \in TableEntries({5, 33, 131}, SectorNumbers, SectorNumbers)}
    \cup [signature : BOOLEAN,
          partitions : [1 .. 2 -> TableEntries({0, 5, 33, 34}, {1, 3, DiskSize - 1}, {0, 2, 2 ^ SectorBits - 2})]]
BootDisks ==
  {[signature |-> TRUE, partitions |-> p] :
     p \in {<<EmptyEntry, EmptyEntry>>,
            <<[type |-> 34, offset |-> 1, size |-> 2], [type |-> 33, offset |-> 3, size |-> 1]>>,
            <<[type |-> 33, offset |-> 1, size |-> 2], [type |-> 33, offset |-> 3, size |-> 1]>>}}

Option(n, v) == [option |-> TRUE, name |-> n, value |-> v]
ActionWord(n) == [option |-> FALSE, name |-> n, value |-> NULL]
CommandWords ==
  {Option(n, NULL) : n \in {"-h", "-q", "-r", "-f", "-mlfqs", "-swap"}}
    \cup {Option(n, v) : n \in {"-filesys", "-scratch"}, v \in {0, 2, 5}}
    \cup {Option("-rs", 7), Option("-ul", 9)} \cup {ActionWord(n) : n \in {"run", "ls", "extract", "prog"}}

BootCalls ==
  \/ \E disk \in Disks : Enter("partition_scan", disk, partition_scan(disk))
  \/ \E disk \in BootDisks, argv \in UNION {[1 .. n -> CommandWords] : n \in 0 .. MaxWords} :
       Enter("main", [disk |-> disk, argv |-> argv], main(disk, argv))

-----------------------------------------------------------------------------
(* The words before the first that is no option, and those from it on. *)
OptionsOf(argv) ==
  LET words == {i \in DOMAIN argv : ~argv[i].option}
      n == FirstOf(words)
  IN IF n = NULL THEN argv ELSE SubSeq(argv, 1, n - 1)
LastValue(opts, names, default) ==
  LET found == {i \in DOMAIN opts : opts[i].name \in names}
  IN IF found = {} THEN default ELSE opts[CHOOSE i \in found : \A j \in found : j <= i]

RECURSIVE Concatenated(_)
Concatenated(seqs) == IF seqs = <<>> THEN <<>> ELSE Head(seqs) \o Concatenated(Tail(seqs))

(* Every sector of a partition that was registered is its own sector of the *)
(* disk, so that neither wrap-around of sector numbers nor a bad table lets *)
(* an access through a partition leave the disk; without extended ones the  *)
(* partitions are exactly the entries that lie on the disk, in order.       *)
(* After a boot a role belongs to the block named for it, to the first      *)
(* block of its type if none was named; the last of contradicting options   *)
(* holds; the actions that ran are the first of the command line, all of    *)
(* them unless the kernel panicked; and it powers off or reboots in the     *)
(* end, or on a panic, as the last of -q and -r that was read says.         *)
BootRight ==
  LET a == call.args IN
  /\ call.fn = "partition_scan" =>
       /\ \A i \in DOMAIN ret.blocks :
            LET b == ret.blocks[i] IN
            \A s \in 0 .. b.size - 1 : partition_read(b, s) = b.start + s
       /\ (\A i \in DOMAIN a.partitions : a.partitions[i].type \notin Extended) =>
            LET used == SelectSeq(a.partitions, LAMBDA e : e.size # 0 /\ e.type # 0)
                good == {i \in DOMAIN used : used[i].offset + used[i].size <= DiskSize /\ a.signature}
            IN /\ ~ret.overflow
               /\ {<<ret.blocks[i].name, ret.blocks[i].start, ret.blocks[i].size>> : i \in 2 .. Len(ret.blocks)}
                    = {<<i, used[i].offset, used[i].size>> : i \in good}
  /\ call.fn = "main" =>
       LET opts == OptionsOf(a.argv)
           words == SubSeq(a.argv, Len(opts) + 1, Len(a.argv))
           done == Concatenated(ret.actions)
           blocks == partition_scan(a.disk).blocks
           Role(role, o) == LET v == LastValue(opts, {o}, Option(o, NULL)).value
                            IN IF v = NULL THEN FirstOfType(blocks, role) ELSE block_get_by_name(blocks, v)
           bad == FirstOf({i \in DOMAIN opts : opts[i].name = "-swap"})
           seen == IF bad = NULL THEN opts ELSE SubSeq(opts, 1, bad - 1)
           helped == \E i \in DOMAIN seen : seen[i].name = "-h"
           last == LastValue(seen, {"-q", "-r"}, Option("none", NULL)).name
       IN /\ done = SubSeq(words, 1, Len(done))
          /\ ~(ret.panicked \/ helped) \/ done # <<>> =>
               /\ ret.roles = [filesys |-> Role("filesys", "-filesys"), scratch |-> Role("scratch", "-scratch")]
               /\ ret.roles.filesys # NULL
          /\ ~ret.panicked => done = words \/ helped
          /\ ret.state = CASE helped \/ last = "-q" -> "off"
                          [] ~helped /\ last = "-r" -> "reboot"
                          [] OTHER -> IF ret.panicked THEN "panic" ELSE "on"
=============================================================================
