------------------------------- MODULE Bitmaps -------------------------------
(***************************************************************************)
(* The bitmaps of lib/kernel/bitmap.c: bits packed in elements of ElemBits *)
(* bits.  An element is the set of the positions of its bits that are set. *)
(***************************************************************************)
EXTENDS Calls, Integers, FiniteSets

CONSTANTS
  ElemBits,   \* ELEM_BITS
  MaxBits     \* bits of a bitmap

BITMAP_ERROR == -1
Positions == 0 .. ElemBits - 1

elem_idx(bit_idx) == bit_idx \div ElemBits
bit_mask(bit_idx) == {bit_idx % ElemBits}
elem_cnt(bit_cnt) == (bit_cnt + ElemBits - 1) \div ElemBits

(* The bits of the last element that are used. *)
last_mask(b) ==
  LET last_bits == b.bit_cnt % ElemBits
  IN IF last_bits # 0 THEN 0 .. last_bits - 1 ELSE Positions

bitmap_mark(b, i) == [b EXCEPT !.bits[elem_idx(i)] = @ \cup bit_mask(i)]
bitmap_reset(b, i) == [b EXCEPT !.bits[elem_idx(i)] = @ \ bit_mask(i)]
bitmap_flip(b, i) ==
  [b EXCEPT !.bits[elem_idx(i)] = (@ \ bit_mask(i)) \cup (bit_mask(i) \ @)]
bitmap_test(b, i) == b.bits[elem_idx(i)] \cap bit_mask(i) # {}
bitmap_set(b, i, value) == IF value THEN bitmap_mark(b, i) ELSE bitmap_reset(b, i)

RECURSIVE bitmap_set_multiple(_, _, _, _)
bitmap_set_multiple(b, start, cnt, value) ==
  IF cnt = 0 THEN b
  ELSE bitmap_set_multiple(bitmap_set(b, start, value), start + 1, cnt - 1, value)

bitmap_set_all(b, value) == bitmap_set_multiple(b, 0, b.bit_cnt, value)

bitmap_create(bit_cnt, garbage) ==
  bitmap_set_all([bit_cnt |-> bit_cnt, bits |-> [e \in 0 .. elem_cnt(bit_cnt) - 1 |-> garbage]], FALSE)

RECURSIVE bitmap_count(_, _, _, _)
bitmap_count(b, start, cnt, value) ==
  IF cnt = 0 THEN 0
  ELSE (IF bitmap_test(b, start) = value THEN 1 ELSE 0) + bitmap_count(b, start + 1, cnt - 1, value)

RECURSIVE bitmap_contains(_, _, _, _)
bitmap_contains(b, start, cnt, value) ==
  cnt # 0 /\ (bitmap_test(b, start) = value \/ bitmap_contains(b, start + 1, cnt - 1, value))

bitmap_any(b, start, cnt) == bitmap_contains(b, start, cnt, TRUE)
bitmap_none(b, start, cnt) == ~bitmap_contains(b, start, cnt, TRUE)
bitmap_all(b, start, cnt) == ~bitmap_contains(b, start, cnt, FALSE)

(* Mutant: the last place where the group could start is left out. *)
RECURSIVE ScanFrom_short(_, _, _, _)
ScanFrom_short(b, i, cnt, value) ==
  IF i >= b.bit_cnt - cnt THEN BITMAP_ERROR
  ELSE IF ~bitmap_contains(b, i, cnt, ~value) THEN i ELSE ScanFrom_short(b, i + 1, cnt, value)

RECURSIVE ScanFrom(_, _, _, _)
ScanFrom(b, i, cnt, value) ==
  IF i > b.bit_cnt - cnt THEN BITMAP_ERROR
  ELSE IF ~bitmap_contains(b, i, cnt, ~value) THEN i ELSE ScanFrom(b, i + 1, cnt, value)

bitmap_scan(b, start, cnt, value) ==
  IF cnt <= b.bit_cnt THEN ScanFrom(b, start, cnt, value) ELSE BITMAP_ERROR

bitmap_scan_and_flip(b, start, cnt, value) ==
  LET idx == bitmap_scan(b, start, cnt, value)
  IN [idx |-> idx, b |-> IF idx # BITMAP_ERROR THEN bitmap_set_multiple(b, idx, cnt, ~value) ELSE b]

bitmap_write(b) == b.bits

(* file holds elements that bitmap_write has written, or anything else, and *)
(* may be too short.                                                        *)
bitmap_read(b, file) ==
  LET read == [e \in DOMAIN b.bits |-> IF e \in DOMAIN file THEN file[e] ELSE b.bits[e]]
  IN [success |-> DOMAIN b.bits \subseteq DOMAIN file,
      b |-> IF b.bit_cnt = 0 THEN b
            ELSE [b EXCEPT !.bits = [read EXCEPT ![elem_cnt(b.bit_cnt) - 1] = @ \cap last_mask(b)]]]

-----------------------------------------------------------------------------
(* A bitmap whose bits are those of set. *)
RECURSIVE Marked(_, _)
Marked(b, set) ==
  IF set = {} THEN b
  ELSE LET i == CHOOSE i \in set : TRUE IN Marked(bitmap_mark(b, i), set \ {i})

BitmapCalls ==
  \E n \in 0 .. MaxBits : \E set \in SUBSET (0 .. n - 1) :
    LET b == Marked(bitmap_create(n, Positions), set) IN
    \/ \E start \in 0 .. n, cnt \in 0 .. n + 1, value \in BOOLEAN :
         LET a == [n |-> n, set |-> set, start |-> start, cnt |-> cnt, value |-> value] IN
         \/ Enter("bitmap_scan_and_flip", a, bitmap_scan_and_flip(b, start, cnt, value))
         \/ /\ start + cnt <= n
            /\ Enter("bitmap_count", a,
                     [count |-> bitmap_count(b, start, cnt, value),
                      any |-> bitmap_any(b, start, cnt), none |-> bitmap_none(b, start, cnt),
                      all |-> bitmap_all(b, start, cnt)])
    \/ \E i \in 0 .. n - 1 : Enter("bitmap_flip", [n |-> n, set |-> set, i |-> i], bitmap_flip(b, i))
    \/ \E rest \in SUBSET Positions, elems \in 0 .. elem_cnt(n) :
         LET whole == [bitmap_write(b) EXCEPT ![elem_cnt(n) - 1] = @ \cup rest]
         IN Enter("bitmap_read", [n |-> n, set |-> set, rest |-> rest, elems |-> elems],
                  bitmap_read(bitmap_create(n, {}), [e \in 0 .. elems - 1 |-> whole[e]]))

-----------------------------------------------------------------------------
(* The bits that are set, those beyond bit_cnt in the last element included. *)
BitsOf(b) == {i \in 0 .. ElemBits * elem_cnt(b.bit_cnt) - 1 : bitmap_test(b, i)}

(* A bitmap is the set of its bits: functions that change it change just    *)
(* the bits they are asked for, across elements, bitmap_scan_and_flip finds *)
(* the first group that is long enough wherever it ends, and a bitmap read  *)
(* from a file has the bits of the file that it has room for.  Where an     *)
(* empty group is found from a start other than 0 it says nothing: the      *)
(* comment promises 0, the code returns start.                              *)
BitmapsRight ==
  LET f == call.fn  a == call.args
      within == a.start .. a.start + a.cnt - 1
      Is(i) == i \in a.set
      Group(i) == \A j \in i .. i + a.cnt - 1 : Is(j) = a.value
      groups == {i \in a.start .. a.n - a.cnt : Group(i)}
      extra == {ElemBits * (elem_cnt(a.n) - 1) + p : p \in a.rest}
  IN
  /\ f = "bitmap_scan_and_flip" =>
       /\ a.cnt > 0 \/ a.start = 0 =>
            ret.idx = IF groups = {} THEN BITMAP_ERROR ELSE CHOOSE i \in groups : \A j \in groups : i <= j
       /\ LET flipped == IF groups = {} THEN {} ELSE ret.idx .. ret.idx + a.cnt - 1
              others == BitsOf(Marked(bitmap_create(a.n, Positions), a.set)) \ flipped
          IN BitsOf(ret.b) = IF a.value THEN others ELSE others \cup flipped
  /\ f = "bitmap_count" =>
       /\ ret.count = Cardinality({i \in within : Is(i) = a.value})
       /\ ret.any = (\E i \in within : Is(i)) /\ ret.none = ~ret.any
       /\ ret.all = (\A i \in within : Is(i))
  /\ f = "bitmap_flip" => \A j \in 0 .. a.n - 1 : bitmap_test(ret, j) = (Is(j) # (j = a.i))
  /\ f = "bitmap_read" =>
       /\ ret.success = (a.elems = elem_cnt(a.n))
       /\ BitsOf(ret.b) = {i \in a.set \cup extra : i \in 0 .. a.n - 1 /\ i < ElemBits * a.elems}
=============================================================================
