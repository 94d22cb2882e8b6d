------------------------------ MODULE Archive -------------------------------
(***************************************************************************)
(* The headers of tar archives, lib/ustar.c, and the actions extract and   *)
(* append that copy files from and to the scratch device with them,        *)
(* filesys/fsutil.c.  Characters are ASCII codes.  The fields of a header  *)
(* that are never read again are one field, rest.                          *)
(***************************************************************************)
EXTENDS Strings

CONSTANTS
  NameSize, SizeSize,   \* bytes of the fields name and size
  LongBits,             \* width of an unsigned long; an int is as wide
  SectorSize,           \* bytes of data in a sector, besides headers
  ScratchSize,          \* sectors of the scratch device
  MaxName               \* length of file names

ZERO == 48
SPACE_CHAR == 32
DOT == 46
SLASH == 47
ULONG_MAX == 2 ^ LongBits - 1
INT_MAX == 2 ^ (LongBits - 1) - 1
USTAR_REGULAR == 48
USTAR_DIRECTORY == 53
USTAR_EOF == -1
USTAR == <<117, 115, 116, 97, 114, NUL>>

Zeroed(n) == [i \in 1 .. n |-> 0]
ZeroHeader ==
  [name |-> Zeroed(NameSize), rest |-> Zeroed(2), size |-> Zeroed(SizeSize), chksum |-> Zeroed(8),
   typeflag |-> Zeroed(1), magic |-> Zeroed(6), version |-> Zeroed(2), prefix |-> Zeroed(2)]

RECURSIVE SumOf(_, _)
SumOf(s, i) == IF i = 0 THEN 0 ELSE s[i] + SumOf(s, i - 1)

ByteSum(s) == SumOf(s, Len(s))
calculate_chksum(h) ==
  ByteSum(h.name) + ByteSum(h.rest) + ByteSum(h.size) + 8 * SPACE_CHAR + ByteSum(h.typeflag) + ByteSum(h.magic)
    + ByteSum(h.version) + ByteSum(h.prefix)

(* From index i of the string s. *)
RECURSIVE StripFrom(_, _)
StripFrom(s, i) ==
  IF \/ s[i] = SLASH
     \/ memcmp(s, i, <<DOT, SLASH>>, 1, 2) = 0
     \/ memcmp(s, i, <<DOT, DOT, SLASH>>, 1, 3) = 0
  THEN StripFrom(s, strchr(s, i, SLASH) + 1)
  ELSE SubSeq(s, i, i + strlen(s, i))
strip_antisocial_prefixes(file_name) ==
  LET s == StripFrom(file_name, 1)
  IN IF s[1] = NUL \/ s = <<DOT, DOT, NUL>> THEN <<DOT, NUL>> ELSE s

(* snprintf of "%0no", n octal digits. *)
Octal(v, n) == [i \in 1 .. n |-> ZERO + ((v \div 8 ^ (n - i)) % 8)] \o <<NUL>>

ustar_make_header(file_name, type, size) ==
  LET name == strip_antisocial_prefixes(file_name)
      h == [ZeroHeader EXCEPT !.name = strlcpy(@, name, NameSize).m,
                              !.rest = <<ZERO, ZERO>>,
                              !.size = Octal(size, SizeSize - 1),
                              !.typeflag = <<type>>,
                              !.magic = USTAR,
                              !.version = <<ZERO, ZERO>>]
  IN [ok |-> strlen(name, 1) <= NameSize - 1,
      h |-> [h EXCEPT !.chksum = Octal(calculate_chksum(h), 7)]]

(* -1 for failure. *)
RECURSIVE OctalFrom(_, _, _)
OctalFrom(s, ofs, value) ==
  IF ofs > Len(s) THEN -1
  ELSE IF s[ofs] \in ZERO .. ZERO + 7
  THEN IF value > ULONG_MAX \div 8 THEN -1 ELSE OctalFrom(s, ofs + 1, s[ofs] - ZERO + value * 8)
  ELSE IF s[ofs] \in {SPACE_CHAR, NUL} /\ ofs > 1 THEN value ELSE -1
parse_octal_field(s) == OctalFrom(s, 1, 0)

is_all_zeros(h) == h = ZeroHeader

(* Mutant: the checksum is not compared. *)
ustar_parse_header_unchecked(h) ==
  LET Error(e) == [error |-> e, name |-> <<>>, type |-> 0, size |-> 0]
  IN IF is_all_zeros(h) THEN [error |-> "", name |-> <<>>, type |-> USTAR_EOF, size |-> 0]
     ELSE [error |-> "", name |-> strip_antisocial_prefixes(h.name), type |-> h.typeflag[1],
           size |-> IF h.typeflag[1] = USTAR_REGULAR THEN parse_octal_field(h.size) ELSE 0]

ustar_parse_header(h) ==
  LET type == h.typeflag[1]
      size == IF type = USTAR_REGULAR THEN parse_octal_field(h.size) ELSE 0
      Error(e) == [error |-> e, name |-> <<>>, type |-> 0, size |-> 0]
  IN IF is_all_zeros(h) THEN [error |-> "", name |-> <<>>, type |-> USTAR_EOF, size |-> 0]
     ELSE IF h.magic # USTAR THEN Error("not a ustar archive")
     ELSE IF h.version # <<ZERO, ZERO>> THEN Error("invalid ustar version")
     ELSE IF parse_octal_field(h.chksum) = -1 THEN Error("corrupt chksum field")
     ELSE IF parse_octal_field(h.chksum) # calculate_chksum(h) THEN Error("checksum mismatch")
     ELSE IF h.name[NameSize] # NUL \/ h.prefix[1] # NUL THEN Error("file name too long")
     ELSE IF type \notin {USTAR_REGULAR, USTAR_DIRECTORY} THEN Error("unimplemented file type")
     ELSE IF size = -1 THEN Error("corrupt file size field")
     ELSE IF size > INT_MAX THEN Error("file too large")
     ELSE [error |-> "", name |-> strip_antisocial_prefixes(h.name), type |-> type, size |-> size]

-----------------------------------------------------------------------------
(* The scratch device: sectors that hold a header or SectorSize bytes of a  *)
(* file.  A run of an action ends with ok or in PANIC.                      *)
HeaderSector(h) == [header |-> h, data |-> Zeroed(SectorSize)]
DataSector(d) == [header |-> ZeroHeader, data |-> d]
ZeroSector == HeaderSector(ZeroHeader)

Lesser(a, b) == IF a < b THEN a ELSE b

block_write(run, sector, s) ==
  IF sector \in DOMAIN run.dev THEN [run EXCEPT !.dev[sector] = s] ELSE [run EXCEPT !.ok = FALSE]

(* Copies the rest of a file, from byte pos on. *)
RECURSIVE AppendData(_, _, _)
AppendData(run, bytes, pos) ==
  LET size == Len(bytes) - pos
      chunk_size == Lesser(size, SectorSize)
      d == [i \in 1 .. SectorSize |-> IF i <= chunk_size THEN bytes[pos + i] ELSE 0]
  IN IF size <= 0 \/ ~run.ok THEN run
     ELSE AppendData([block_write(run, run.sector, DataSector(d)) EXCEPT !.sector = @ + 1],
                     bytes, pos + chunk_size)

(* The marker: both writes go to the same sector, and the second one is     *)
(* from buffer + 1.  Its last byte is beyond the buffer: beyond is what is  *)
(* there.                                                                   *)
EndMark(run, beyond) ==
  IF ~run.ok THEN run
  ELSE block_write(block_write(run, run.sector, ZeroSector), run.sector,
                   DataSector([Zeroed(SectorSize) EXCEPT ![SectorSize] = beyond]))

fsutil_append(run, file, beyond) ==
  LET header == ustar_make_header(file.name, USTAR_REGULAR, Len(file.bytes))
      wrote == [block_write(run, run.sector, HeaderSector(header.h)) EXCEPT !.sector = @ + 1]
  IN IF ~run.ok THEN run
     ELSE IF ~header.ok THEN [run EXCEPT !.ok = FALSE]
     ELSE EndMark(AppendData(wrote, file.bytes, 0), beyond)

(* fs is the files of the file system, by name. *)
Add(fs, name, bytes) == [n \in DOMAIN fs \cup {name} |-> IF n = name THEN bytes ELSE fs[n]]

RECURSIVE ExtractData(_, _, _)
ExtractData(x, size, bytes) ==
  LET chunk_size == Lesser(size, SectorSize)
  IN IF size <= 0 THEN [x EXCEPT !.fs = Add(@, x.name, bytes)]
     ELSE IF x.sector \notin DOMAIN x.dev THEN [x EXCEPT !.ok = FALSE]
     ELSE ExtractData([x EXCEPT !.sector = @ + 1], size - chunk_size,
                      bytes \o SubSeq(x.dev[x.sector].data, 1, chunk_size))

Erased(x) == [x EXCEPT !.dev[0] = ZeroSector, !.dev[1] = ZeroSector]

(* A sector that holds bytes of a file is no header. *)
RECURSIVE fsutil_extract(_)
fsutil_extract(x) ==
  LET s == x.dev[x.sector]
      r == ustar_parse_header(s.header)
      next == [x EXCEPT !.sector = @ + 1, !.name = r.name]
  IN IF ~x.ok THEN x
     ELSE IF x.sector \notin DOMAIN x.dev \/ s.data # Zeroed(SectorSize) \/ r.error # ""
     THEN [x EXCEPT !.ok = FALSE]
     ELSE IF r.type = USTAR_EOF THEN Erased(next)
     ELSE IF r.type = USTAR_DIRECTORY THEN fsutil_extract(next)
     ELSE IF r.name \in DOMAIN x.fs THEN [x EXCEPT !.ok = FALSE]
     ELSE fsutil_extract(ExtractData(next, r.size, <<>>))

(* A boot of the kernel: both actions start at sector 0. *)
Boots(dev) == [dev |-> dev, sector |-> 0, fs |-> [n \in {} |-> <<>>], name |-> <<>>, ok |-> TRUE]

RECURSIVE AppendAll(_, _, _)
AppendAll(run, files, beyond) ==
  IF files = <<>> THEN run ELSE AppendAll(fsutil_append(run, Head(files), beyond), Tail(files), beyond)

-----------------------------------------------------------------------------
FileNames == {s \o <<NUL>> : s \in UNION {[1 .. n -> {97, DOT, SLASH}] : n \in 1 .. MaxName}}
SizesOf == {0, 1, 7, 8, INT_MAX}
Lengths == 0 .. 2 * SectorSize + 1
(* Bytes of a file, with zeros among them. *)
Content(n) == [i \in 1 .. n |-> i % 3]

(* What was on the device before: the files of another archive, or others. *)
OldDevices ==
  {[i \in 0 .. ScratchSize - 1 |-> ZeroSector],
   [i \in 0 .. ScratchSize - 1 |-> DataSector([j \in 1 .. SectorSize |-> 9])],
   [i \in 0 .. ScratchSize - 1 |->
      HeaderSector(ustar_make_header(<<98, NUL>>, USTAR_REGULAR, 0).h)]}

ArchiveCalls ==
  \/ \E name \in FileNames, type \in {USTAR_REGULAR, USTAR_DIRECTORY}, size \in SizesOf :
       Enter("ustar", [name |-> name, type |-> type, size |-> size],
             LET made == ustar_make_header(name, type, size)
             IN [made |-> made, parsed |-> ustar_parse_header(made.h)])
  \/ \E field \in DOMAIN ZeroHeader, byte \in {0, 1, SPACE_CHAR, ZERO, ZERO + 1, 56, 97, 255},
        type \in {USTAR_REGULAR, USTAR_DIRECTORY}, size \in SizesOf :
       \E i \in DOMAIN ZeroHeader[field] :
         LET good == ustar_make_header(<<97, SLASH, 97, NUL>>, type, size).h
         IN Enter("damaged", [good |-> good, bad |-> [good EXCEPT ![field][i] = byte]],
                  [good |-> ustar_parse_header(good),
                   bad |-> ustar_parse_header([good EXCEPT ![field][i] = byte])])
  \/ \E old \in OldDevices, m, n \in Lengths, cnt \in 1 .. 2, beyond \in {0, 9} :
       LET files == SubSeq(<<[name |-> <<97, NUL>>, bytes |-> Content(m)],
                             [name |-> <<97, 97, NUL>>, bytes |-> Content(n)]>>, 1, cnt)
           run == AppendAll(Boots(old), files, beyond)
           first == fsutil_extract(Boots(run.dev))
       IN Enter("archive", [files |-> files, beyond |-> beyond],
                [appended |-> run.ok, used |-> run.sector, first |-> first,
                 second |-> fsutil_extract(Boots(first.dev))])

-----------------------------------------------------------------------------
Begins(t, p) == Len(p) <= Len(t) /\ SubSeq(t, 1, Len(p)) = p
SectorsOf(n) == (n + SectorSize - 1) \div SectorSize

(* A header that was made is read back with its type, its size and its      *)
(* name, which begins with neither "/", "./" nor "../" and ends as the      *)
(* given one did; a header with one byte damaged is rejected or still means *)
(* the same.  Files appended to a scratch device that has the room are the  *)
(* files that extract puts into an empty file system in the next boot,      *)
(* whatever was on the device.  If the byte that append's second write      *)
(* takes from beyond its buffer is zero, that boot ends well and one after  *)
(* it extracts nothing; if it is not, the extract panics behind the last    *)
(* file.  Nothing is said of a device with room for only one of the two     *)
(* sectors of the end-of-archive marker: append goes on there.              *)
ArchiveRight ==
  LET a == call.args IN
  /\ call.fn = "ustar" =>
       LET name == ret.parsed.name
           t == Text(name)
       IN /\ ret.made.ok = (Len(strip_antisocial_prefixes(a.name)) <= NameSize)
          /\ ret.made.ok =>
               /\ ret.parsed.error = "" /\ ret.parsed.type = a.type
               /\ ret.parsed.size = IF a.type = USTAR_REGULAR THEN a.size ELSE 0
               /\ t \notin {<<>>, <<DOT, DOT>>}
               /\ \A p \in {<<SLASH>>, <<DOT, SLASH>>, <<DOT, DOT, SLASH>>} : ~Begins(t, p)
               /\ t # <<DOT>> => SubSeq(a.name, Len(a.name) - Len(t), Len(a.name)) = name
  /\ call.fn = "damaged" => ret.bad.error # "" \/ ret.bad = ret.good
  /\ call.fn = "archive" =>
       LET files == a.files
           needed(n) == 1 + SectorsOf(n)
           all == needed(Len(files[1].bytes)) + (IF Len(files) = 2 THEN needed(Len(files[2].bytes)) ELSE 0)
       IN /\ all + 2 <= ScratchSize => ret.appended
          /\ all >= ScratchSize => ~ret.appended
          /\ ret.appended /\ all + 2 <= ScratchSize =>
               /\ DOMAIN ret.first.fs = {files[i].name : i \in DOMAIN files}
               /\ \A i \in DOMAIN files : ret.first.fs[files[i].name] = files[i].bytes
               /\ ret.first.ok = (a.beyond = 0)
               /\ ret.first.ok => ret.second.ok /\ DOMAIN ret.second.fs = {}
=============================================================================
