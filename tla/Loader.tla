------------------------------- MODULE Loader -------------------------------
(***************************************************************************)
(* What load (userprog/process.c) puts in a new address space: the         *)
(* segments of the executable, page by page, and the first page of the     *)
(* stack with the arguments.  Addresses have AddressBits bits.  Byte i of  *)
(* the executable is i + 1.                                                *)
(***************************************************************************)
EXTENDS Strings, FiniteSets

CONSTANTS
  PGSIZE, PHYS_BASE,   \* bytes of a page, end of user memory
  AddressBits,
  FileLength,          \* bytes of the executable
  UserPages,           \* pages of the user pool
  StackTop,            \* bytes of the stack's page
  Letters, MaxCommand, \* of the command lines
  LineSize, ArgsSize   \* load's s[100] and setup_stack's args[130]

Blank == 1

Address(n) == n % (2 ^ AddressBits)
PGMASK(n) == n % PGSIZE
PageOf(n) == n - PGMASK(n)
ROUND_UP(n) == Address(PageOf(Address(n + PGSIZE - 1)))
is_user_vaddr(vaddr) == vaddr < PHYS_BASE

validate_segment(phdr) ==
  /\ PGMASK(phdr.p_offset) = PGMASK(phdr.p_vaddr)
  /\ phdr.p_offset <= FileLength
  /\ phdr.p_memsz >= phdr.p_filesz
  /\ phdr.p_memsz # 0
  /\ is_user_vaddr(phdr.p_vaddr)
  /\ is_user_vaddr(Address(phdr.p_vaddr + phdr.p_memsz))
  /\ Address(phdr.p_vaddr + phdr.p_memsz) >= phdr.p_vaddr
  /\ phdr.p_vaddr >= PGSIZE

(* The address space being built: the pages mapped so far (a function from  *)
(* addresses), what is left in the user pool, how many more times           *)
(* pagedir_set_page finds memory for a page table, the result, and whether  *)
(* load comes to its end, where it tells the parent.                        *)
Space(free, tables) ==
  [pages |-> [a \in {} |-> 0], free |-> free, tables |-> tables, ok |-> TRUE, ends |-> TRUE]
Fails(m) == [m EXCEPT !.ok = FALSE]

install_page(m, upage, page) ==
  IF upage \in DOMAIN m.pages \/ m.tables = 0 THEN Fails(m)
  ELSE [m EXCEPT !.tables = @ - 1,
                 !.pages = [a \in DOMAIN @ \cup {upage} |-> IF a = upage THEN page ELSE @[a]]]

(* file_read at offset pos returns size unless it comes to the end of the file. *)
Reads(pos, size) == size = 0 \/ pos + size <= FileLength

RECURSIVE load_segment(_, _, _, _, _, _)
load_segment(m, ofs, upage, read_bytes, zero_bytes, writable) ==
  IF read_bytes = 0 /\ zero_bytes = 0 THEN m
  ELSE
    LET page_read_bytes == IF read_bytes < PGSIZE THEN read_bytes ELSE PGSIZE
        page_zero_bytes == PGSIZE - page_read_bytes
        page == [bytes |-> [i \in 0 .. PGSIZE - 1 |-> IF i < page_read_bytes THEN ofs + i + 1 ELSE 0],
                 writable |-> writable]
        got == [m EXCEPT !.free = @ - 1]
        installed == install_page(got, upage, page)
    IN IF m.free = 0 THEN Fails(m)
       ELSE IF ~Reads(ofs, page_read_bytes) \/ ~installed.ok
       THEN Fails([got EXCEPT !.free = @ + 1])
       ELSE load_segment(installed, ofs + page_read_bytes, Address(upage + PGSIZE),
                         read_bytes - page_read_bytes, Address(zero_bytes - page_zero_bytes), writable)

(* Mutant: the first bytes of the first page are not counted as read. *)
SegmentBytes_unaligned(phdr) ==
  LET page_offset == PGMASK(phdr.p_vaddr)
      all == ROUND_UP(page_offset + phdr.p_memsz)
      read_bytes == phdr.p_filesz
  IN [read |-> read_bytes, zero |-> Address(all - read_bytes)]

(* read_bytes and zero_bytes of a segment. *)
SegmentBytes(phdr) ==
  LET page_offset == PGMASK(phdr.p_vaddr)
      all == ROUND_UP(page_offset + phdr.p_memsz)
      read_bytes == IF phdr.p_filesz > 0 THEN page_offset + phdr.p_filesz ELSE 0
  IN [read |-> read_bytes, zero |-> Address(all - read_bytes)]

(* The switch of load on the type of a program header. *)
LoadHeader(m, phdr) ==
  CASE phdr.p_type \in {"PT_DYNAMIC", "PT_INTERP", "PT_SHLIB"} -> Fails(m)
    [] phdr.p_type = "PT_LOAD" ->
         IF ~validate_segment(phdr) THEN Fails(m)
         ELSE LET b == SegmentBytes(phdr)
              IN load_segment(m, PageOf(phdr.p_offset), PageOf(phdr.p_vaddr), b.read, b.zero, phdr.p_w)
    [] OTHER -> m

(* The stack's page is the one below PHYS_BASE.  Without it setup_stack     *)
(* goes on with *esp = 0: its first store is a page fault of the kernel,    *)
(* and load does not end.                                                   *)
StackPage(m) ==
  IF m.free = 0 THEN [Fails(m) EXCEPT !.ends = FALSE]
  ELSE LET installed == install_page([m EXCEPT !.free = @ - 1], PHYS_BASE - PGSIZE,
                                     [bytes |-> [i \in 0 .. PGSIZE - 1 |-> 0], writable |-> TRUE])
       IN IF installed.ok THEN installed ELSE [Fails(m) EXCEPT !.ends = FALSE]

(* The program headers in order, then the stack.  readable is the number of *)
(* headers that lie within the file.                                        *)
RECURSIVE load(_, _, _)
load(m, phdrs, readable) ==
  IF ~m.ok THEN m
  ELSE IF phdrs = << >> THEN StackPage(m)
  ELSE IF readable = 0 THEN Fails(m)
  ELSE load(LoadHeader(m, Head(phdrs)), Tail(phdrs), readable - 1)

-----------------------------------------------------------------------------
(* Arguments on the stack.  A stored word is a value at its own address and *)
(* three zeros; the page was zeroed.                                        *)

Push(st, v) == [st EXCEPT !.esp = @ - 1, !.m[st.esp - 1] = v]
PushWord(st, v) ==
  [esp |-> st.esp - 4,
   m |-> [a \in DOMAIN st.m |-> CASE a = st.esp - 4 -> v
                                  [] a \in st.esp - 3 .. st.esp - 1 -> 0
                                  [] OTHER -> st.m[a]]]
(* Only the first byte of the word is stored. *)
PushByteOfWord(st, v) == [st EXCEPT !.esp = @ - 4, !.m[st.esp - 4] = v]

(* The loop over strtok_r: the cut string and the places of the tokens. *)
RECURSIVE Split(_, _, _)
Split(m, s, args) ==
  LET r == strtok_r(m, s, <<Blank, NUL>>)
  IN IF r.token = 0 THEN [m |-> r.m, args |-> args] ELSE Split(r.m, r.save, Append(args, r.token))

RECURSIVE PushChars(_, _, _, _)
PushChars(st, s, at, i) == IF i < 0 THEN st ELSE PushChars(Push(st, s[at + i]), s, at, i - 1)

(* The arguments, last first; where collects their addresses. *)
RECURSIVE PushArgs(_, _, _, _)
PushArgs(st, s, args, where) ==
  IF args = << >> THEN [st |-> st, where |-> where]
  ELSE LET at == args[Len(args)]
           pushed == PushChars(Push(st, NUL), s, at, strlen(s, at + 1))
       IN PushArgs(pushed, s, SubSeq(args, 1, Len(args) - 1), <<pushed.esp>> \o where)

RECURSIVE PushPadding(_, _)
PushPadding(st, align) == IF align = 0 THEN st ELSE PushPadding(Push(st, 0), align - 1)

RECURSIVE PushWhere(_, _)
PushWhere(st, where) ==
  IF where = << >> THEN st
  ELSE PushWhere(PushWord(st, where[Len(where)]), SubSeq(where, 1, Len(where) - 1))

(* An address of the stack is a negative int, and so is its remainder. *)
Align(esp) == (IF esp % 4 = 0 THEN 0 ELSE (esp % 4) - 4) + 4

(* cmd has been copied to load's s, and its arguments go to args, whose     *)
(* size the ASSERT in the loop does not keep: the one before the first that *)
(* fails is stored beyond the end.  What the kernel does after a store      *)
(* beyond an array is not known.                                            *)
Overrun == [overrun |-> TRUE]

(* junk is in the local variable ret, which is not initialized. *)
setup_stack(cmd, junk) ==
  LET split == Split(cmd, 1, << >>)
      strings == PushArgs([esp |-> StackTop, m |-> [a \in 0 .. StackTop - 1 |-> 0]],
                          split.m, split.args, << >>)
      aligned == PushPadding(strings.st, Align(strings.st.esp))
      argv == PushWhere(PushByteOfWord(aligned, 0), strings.where)
      counted == PushByteOfWord(PushWord(argv, argv.esp), Len(split.args))
  IN IF Len(cmd) > LineSize \/ Len(split.args) > ArgsSize THEN Overrun
     ELSE PushByteOfWord(counted, junk)

-----------------------------------------------------------------------------
Addresses == 0 .. 2 ^ AddressBits - 1
Sizes == 0 .. 2 * PGSIZE + 1 \cup {2 ^ AddressBits - PGSIZE - 1, 2 ^ AddressBits - 1}
Phdrs(offsets, vaddrs, fileszs, memszs) ==
  [p_type : {"PT_LOAD"}, p_offset : offsets, p_vaddr : vaddrs, p_filesz : fileszs,
   p_memsz : memszs, p_w : BOOLEAN]
(* Any one segment; and pairs of segments of one or two pages in places     *)
(* where they may share a page, or of other headers.                        *)
AnyOne == Phdrs(0 .. FileLength + 1, Addresses, 0 .. PGSIZE + 1, Sizes)
Small == Phdrs({1}, {PGSIZE + 1, 2 * PGSIZE + 1, PHYS_BASE - PGSIZE + 1}, {0, 1}, {1, 2})
           \cup [p_type : {"PT_NOTE", "PT_INTERP"}]
Commands == UNION {[1 .. n -> Letters \cup {Blank}] : n \in 1 .. MaxCommand}

LoaderCalls ==
  \/ \E phdr \in AnyOne :
       Enter("load", [phdrs |-> <<phdr>>, readable |-> 1, free |-> UserPages, tables |-> UserPages],
             load(Space(UserPages, UserPages), <<phdr>>, 1))
  \/ \E one \in Small, two \in Small, readable \in {1, 2}, free \in 1 .. UserPages, tables \in 2 .. UserPages :
       Enter("load", [phdrs |-> <<one, two>>, readable |-> readable, free |-> free, tables |-> tables],
             load(Space(free, tables), <<one, two>>, readable))
  \/ \E cmd \in Commands, junk \in {0, 7} :
       Enter("setup_stack", cmd, setup_stack(Append(cmd, NUL), junk))

-----------------------------------------------------------------------------
(* The k-th maximal run of letters of a command line. *)
RECURSIVE Argument(_, _)
Argument(cmd, k) ==
  LET first == Least({i \in DOMAIN cmd : cmd[i] # Blank})
      end == Least({i \in first .. Len(cmd) : cmd[i] = Blank})
      last == IF end = 0 THEN Len(cmd) ELSE end - 1
  IN IF k = 0 THEN SubSeq(cmd, first, last) ELSE Argument(SubSeq(cmd, last + 1, Len(cmd)), k - 1)
ArgumentCount(cmd) == Cardinality({i \in DOMAIN cmd : cmd[i] # Blank /\ (i = 1 \/ cmd[i - 1] = Blank)})

Pages(phdr) == {PageOf(a) : a \in phdr.p_vaddr .. phdr.p_vaddr + phdr.p_memsz - 1}
Segments(a) == SelectSeq(a.phdrs, LAMBDA h : h.p_type = "PT_LOAD")

(* A load that succeeds has put every segment where its header says, the    *)
(* bytes of the file first and zeros after them, on pages of its own below  *)
(* PHYS_BASE and never on page 0, with the protection the header asks for,  *)
(* whatever the alignment, the sizes and the wrap-around of addresses; one  *)
(* that fails keeps no page that is not mapped, and it fails only where a   *)
(* segment is bad or memory runs out.  The parent is told of every load but *)
(* the ones in which all segments are loaded and there is no page for the   *)
(* stack, or a segment has taken it: those end in the kernel's page fault.  *)
(* For a command line that fits in s and whose arguments fit in args, the   *)
(* stack holds argc, argv and every argument where main looks for them;     *)
(* nothing is said of longer ones.                                          *)
LoadRight ==
  LET a == call.args IN
  /\ call.fn = "load" =>
       LET segs == Segments(a)
           Good(h) == /\ h.p_offset % PGSIZE = h.p_vaddr % PGSIZE
                      /\ h.p_filesz <= h.p_memsz /\ h.p_memsz > 0
                      /\ h.p_vaddr >= PGSIZE /\ h.p_vaddr + h.p_memsz < PHYS_BASE
                      /\ h.p_offset + h.p_filesz <= FileLength
           stack == {PHYS_BASE - PGSIZE}
           ofSegments == UNION {Pages(segs[i]) : i \in DOMAIN segs}
           wanted == stack \cup ofSegments
           loaded == /\ \A i \in DOMAIN segs : Good(segs[i])
                     /\ \A i \in DOMAIN a.phdrs : a.phdrs[i].p_type # "PT_INTERP"
                     /\ \A i, j \in DOMAIN segs : i # j => Pages(segs[i]) \cap Pages(segs[j]) = {}
                     /\ a.readable = Len(a.phdrs)
                     /\ a.free >= Cardinality(ofSegments) /\ a.tables >= Cardinality(ofSegments)
       IN /\ a.free - ret.free = Cardinality(DOMAIN ret.pages)
          /\ ret.ok => /\ DOMAIN ret.pages = wanted
                       /\ \A i \in DOMAIN segs :
                            LET h == segs[i]
                                Byte(n) == ret.pages[PageOf(h.p_vaddr + n)].bytes[PGMASK(h.p_vaddr + n)]
                            IN /\ \A n \in 0 .. h.p_memsz - 1 :
                                    Byte(n) = IF n < h.p_filesz THEN h.p_offset + n + 1 ELSE 0
                               /\ \A p \in Pages(h) : ret.pages[p].writable = h.p_w
          /\ ret.ok = /\ loaded /\ stack \cap ofSegments = {}
                      /\ a.free >= Cardinality(wanted) /\ a.tables >= Cardinality(wanted)
          /\ ret.ends = (ret.ok \/ ~loaded)
  /\ call.fn = "setup_stack" /\ Len(a) < LineSize /\ ArgumentCount(a) <= ArgsSize =>
       LET argc == ArgumentCount(a)
           argv == ret.esp + 12
           WordAt(p) == IF \A i \in 1 .. 3 : ret.m[p + i] = 0 THEN ret.m[p] ELSE -1
       IN /\ ret.esp % 4 = 0
          /\ WordAt(ret.esp + 4) = argc /\ WordAt(ret.esp + 8) = argv
          /\ WordAt(argv + 4 * argc) = 0
          /\ \A k \in 0 .. argc - 1 :
               LET p == WordAt(argv + 4 * k)  arg == Argument(a, k) IN
               /\ p > argv + 4 * argc + 3 /\ p + Len(arg) < StackTop
               /\ \A i \in 1 .. Len(arg) : ret.m[p + i - 1] = arg[i]
               /\ ret.m[p + Len(arg)] = NUL
=============================================================================
