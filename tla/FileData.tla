------------------------------ MODULE FileData ------------------------------
(***************************************************************************)
(* The bytes of a file: the sectors inode_create (filesys/inode.c) gives   *)
(* it, and the reads, writes and seeks of processes that have opened it    *)
(* each for itself (filesys/file.c and the calls of userprog/syscall.c).   *)
(* A process can be preempted between two accesses to the disk.  The call  *)
(* read holds sema_files to its end; write gives it back before it writes. *)
(* Files lie in the direct sectors, and writes end within the file and get *)
(* the memory of inode_write_at's disk_inode.                              *)
(***************************************************************************)
EXTENDS Bitmaps, Sequences, SequencesExt, FiniteSetsExt

CONSTANTS
  BLOCK_SECTOR_SIZE,
  Writers,            \* processes
  Part,               \* Part[p]: the bytes of the file that p writes
  Taken,              \* sectors in use before the file is created
  Sectors,            \* sectors of the device
  Length,             \* bytes of the file
  Written,              \* values that are written
  NONE

VARIABLES
  disk,               \* disk[s]: the bytes of sector s
  data,               \* the inode: its length and its sectors
  sema_files,         \* the process that has it, NONE when nobody has
  pos,                \* pos[p]: position in the file p has open
  io,                 \* io[p]: the read or write in progress
  mine                \* mine[i]: what the writer of byte i wrote there last

fvars == <<disk, data, sema_files, pos, io, mine>>

Idle == [fn |-> "idle", size |-> 0, offset |-> 0, value |-> 0, done |-> 0,
         buffer |-> << >>, bounce |-> NONE, short |-> FALSE]
bytes_to_sectors(size) == (size + BLOCK_SECTOR_SIZE - 1) \div BLOCK_SECTOR_SIZE
Zeros == [i \in 1 .. BLOCK_SECTOR_SIZE |-> 0]

free_map_allocate(free_map) ==
  LET r == bitmap_scan_and_flip(free_map, 0, 1, FALSE)
  IN [ok |-> r.idx # BITMAP_ERROR, sector |-> r.idx, free_map |-> r.b]

(* Allocates and clears the sectors one by one; n are still to come. *)
RECURSIVE AllocateFrom(_, _)
AllocateFrom(n, c) ==
  IF n = 0 THEN c
  ELSE LET r == free_map_allocate(c.free_map) IN
       IF ~r.ok THEN [c EXCEPT !.ok = FALSE]
       ELSE AllocateFrom(n - 1, [c EXCEPT !.free_map = r.free_map, !.sectors = Append(@, r.sector),
                                          !.disk[r.sector] = Zeros])

inode_create(d, free_map, length) ==
  AllocateFrom(bytes_to_sectors(length), [ok |-> TRUE, free_map |-> free_map, sectors |-> << >>, disk |-> d])

(* The file is created on a device whose other sectors are in use or were   *)
(* never written; Foreign is what they hold.                                  *)
Foreign == 9
FilesInit ==
  LET used == [s \in Sectors |-> [i \in 1 .. BLOCK_SECTOR_SIZE |-> Foreign]]
      c == inode_create(used, Marked(bitmap_create(Cardinality(Sectors), {}), Taken), Length)
  IN /\ disk = c.disk /\ data = [length |-> Length, sectors |-> c.sectors]
     /\ sema_files = NONE
     /\ pos = [p \in Writers |-> 0] /\ io = [p \in Writers |-> Idle]
     /\ mine = [i \in 0 .. Length - 1 |-> 0]

-----------------------------------------------------------------------------
byte_to_sector(offset) == data.sectors[offset \div BLOCK_SECTOR_SIZE + 1]
sector_ofs(offset) == offset % BLOCK_SECTOR_SIZE
sector_left(offset) == BLOCK_SECTOR_SIZE - sector_ofs(offset)
chunk_size(o) == Min({o.size, data.length - o.offset, sector_left(o.offset)})
Whole(o) == sector_ofs(o.offset) = 0 /\ chunk_size(o) = BLOCK_SECTOR_SIZE

Advance(o) == LET n == chunk_size(o)
              IN [o EXCEPT !.size = @ - n, !.offset = @ + n, !.done = @ + n, !.bounce = NONE]

Calls(p, fn, size, value) ==
  /\ io[p].fn \in {"idle", "got"} /\ sema_files = NONE
  /\ io' = [io EXCEPT ![p] = [Idle EXCEPT !.fn = fn, !.size = size, !.offset = pos[p], !.value = value]]

seek(p, position) ==
  /\ io[p].fn \in {"idle", "got"} /\ sema_files = NONE
  /\ pos' = [pos EXCEPT ![p] = position] /\ io' = [io EXCEPT ![p] = Idle]
  /\ UNCHANGED <<disk, data, sema_files, mine>>

read(p, size) ==
  /\ Calls(p, "read", size, 0) /\ sema_files' = p
  /\ UNCHANGED <<disk, data, pos, mine>>

(* The whole range is p's part of the file. *)
write(p, size, value) ==
  /\ pos[p] .. pos[p] + size - 1 \subseteq Part[p]
  /\ Calls(p, "write", size, value)
  /\ UNCHANGED <<disk, data, sema_files, pos, mine>>

(* One turn of the loop of inode_read_at; memory: malloc of bounce succeeds. *)
ReadSector(p, memory) ==
  LET o == io[p]  bytes == disk[byte_to_sector(o.offset)]  at == sector_ofs(o.offset) IN
  /\ o.fn = "read" /\ o.size > 0 /\ o.offset < data.length /\ ~o.short
  /\ io' = [io EXCEPT ![p] =
               IF memory \/ Whole(o)
               THEN [Advance(o) EXCEPT !.buffer = @ \o SubSeq(bytes, at + 1, at + chunk_size(o))]
               ELSE [o EXCEPT !.short = TRUE]]
  /\ UNCHANGED <<disk, data, sema_files, pos, mine>>

(* The end of inode_read_at, file_read and read.  A read that comes to the  *)
(* end of the file with bytes still to read returns 0.                      *)
file_read(p) ==
  LET o == io[p]
      atEnd == o.size > 0 /\ o.offset >= data.length
      res == IF atEnd THEN 0 ELSE o.done
  IN /\ o.fn = "read" /\ (o.size = 0 \/ atEnd \/ o.short)
     /\ pos' = [pos EXCEPT ![p] = @ + res]
     /\ io' = [io EXCEPT ![p] = [o EXCEPT !.fn = "got", !.done = res]]
     /\ sema_files' = NONE
     /\ UNCHANGED <<disk, data, mine>>

(* Mutant: the old sector is read only when there are bytes to keep on both sides. *)
KeepsOld_both(o) == sector_ofs(o.offset) > 0 /\ chunk_size(o) < sector_left(o.offset)

(* The sector has bytes before or after the chunk. *)
KeepsOld(o) == sector_ofs(o.offset) > 0 \/ chunk_size(o) < sector_left(o.offset)

(* A turn of the loop of inode_write_at up to the write to the disk. *)
FillBounce(p, memory) ==
  LET o == io[p] IN
  /\ o.fn = "write" /\ o.size > 0 /\ ~Whole(o) /\ o.bounce = NONE /\ ~o.short
  /\ io' = [io EXCEPT ![p] =
               IF ~memory THEN [o EXCEPT !.short = TRUE]
               ELSE [o EXCEPT !.bounce = IF KeepsOld(o) THEN disk[byte_to_sector(o.offset)] ELSE Zeros]]
  /\ UNCHANGED <<disk, data, sema_files, pos, mine>>

WriteSector(p) ==
  LET o == io[p]  at == sector_ofs(o.offset)
      into == IF Whole(o) THEN Zeros ELSE o.bounce
  IN /\ o.fn = "write" /\ o.size > 0 /\ (Whole(o) \/ o.bounce # NONE)
     /\ disk' = [disk EXCEPT ![byte_to_sector(o.offset)] =
                   [i \in 1 .. BLOCK_SECTOR_SIZE |->
                      IF i \in at + 1 .. at + chunk_size(o) THEN o.value ELSE into[i]]]
     /\ io' = [io EXCEPT ![p] = Advance(o)]
     /\ UNCHANGED <<data, sema_files, pos, mine>>

file_write(p) ==
  LET o == io[p] IN
  /\ o.fn = "write" /\ (o.size = 0 \/ o.short)
  /\ pos' = [pos EXCEPT ![p] = @ + o.done]
  /\ io' = [io EXCEPT ![p] = Idle]
  /\ mine' = [i \in DOMAIN mine |-> IF i \in o.offset - o.done .. o.offset - 1 THEN o.value ELSE mine[i]]
  /\ UNCHANGED <<disk, data, sema_files>>

FileSteps ==
  \E p \in Writers :
    \/ \E n \in Part[p] : seek(p, n)
    \/ \E n \in 1 .. Cardinality(Part[p]) + 1 : read(p, n) \/ \E v \in Written : write(p, n, v)
    \/ \E memory \in BOOLEAN : ReadSector(p, memory) \/ FillBounce(p, memory)
    \/ file_read(p) \/ WriteSector(p) \/ file_write(p)

-----------------------------------------------------------------------------
ByteAt(i) == disk[byte_to_sector(i)][sector_ofs(i) + 1]

(* Processes that write different sectors of a file at the same time, in    *)
(* chunks that cross sectors, fill part of one or stop when malloc fails,   *)
(* keep what each of them wrote: between its calls the bytes of its part    *)
(* are the ones it wrote last, a read that ends within the file and has     *)
(* memory returns all it asked for, the position moves by what was done,    *)
(* and no sector outside the file changes.  A read that comes to the end of *)
(* the file with bytes still to read returns 0, not the bytes before the    *)
(* end that inode_read_at's comment counts; and two processes that write    *)
(* parts of one sector can undo each other's writes.  Neither is claimed.   *)
FileBytesRight ==
  /\ \A p \in Writers : io[p].fn # "write" => \A i \in Part[p] : ByteAt(i) = mine[i]
  /\ \A p \in Writers : io[p].fn = "got" =>
       LET o == io[p]  start == pos[p] - o.done  asked == o.size + Len(o.buffer) IN
       /\ \A k \in 1 .. o.done : start + k - 1 \in Part[p] => o.buffer[k] = mine[start + k - 1]
       /\ ~o.short /\ start + asked <= data.length => o.done = asked
  /\ \A s \in Sectors : s \notin ToSet(data.sectors) => \A i \in 1 .. BLOCK_SECTOR_SIZE : disk[s][i] = Foreign
=============================================================================
