-------------------------------- MODULE Hash --------------------------------
(***************************************************************************)
(* The hash tables of lib/kernel/hash.c: an array of buckets, each a list, *)
(* that rehash() replaces by a larger or a smaller one.                    *)
(***************************************************************************)
EXTENDS Integers, Sequences, SequencesExt, Bitwise

CONSTANTS
  Elements, NoElem, NoTable,
  MinBuckets,              \* the least number of buckets, 4 in the code
  BEST_ELEMS_PER_BUCKET,
  hash(_)                  \* the caller's hash function

VARIABLES
  table,                   \* struct hash, NoTable before hash_init
  op, answer               \* the last call and what it returned

hvars == <<table, op, answer>>

find_bucket(h, e) == hash(e) & (h.bucket_cnt - 1)

(* less() orders elements by key. *)
find_elem(h, bucket, e) ==
  LET l == h.buckets[bucket]
      equal == {i \in DOMAIN l : ~(l[i].key < e.key) /\ ~(e.key < l[i].key)}
  IN IF equal = {} THEN NoElem ELSE l[CHOOSE i \in equal : \A j \in equal : i <= j]

insert_elem(h, bucket, e) ==
  [h EXCEPT !.elem_cnt = @ + 1, !.buckets[bucket] = <<e>> \o @]

(* list_remove() unlinks the element from whichever bucket it is in. *)
remove_elem(h, e) ==
  [h EXCEPT !.elem_cnt = @ - 1, !.buckets = [b \in DOMAIN @ |-> SelectSeq(@[b], LAMBDA o : o # e)]]

turn_off_least_1bit(x) == x & (x - 1)
is_power_of_2(x) == x # 0 /\ turn_off_least_1bit(x) = 0

RECURSIVE PowerOf2(_)
PowerOf2(n) == IF is_power_of_2(n) THEN n ELSE PowerOf2(turn_off_least_1bit(n))

new_bucket_cnt(h) ==
  LET n == h.elem_cnt \div BEST_ELEMS_PER_BUCKET
  IN PowerOf2(IF n < MinBuckets THEN MinBuckets ELSE n)

Empty(cnt) == [b \in 0 .. cnt - 1 |-> << >>]

(* The elements in the order in which the loops over the buckets meet them. *)
Traverse(h) == FlattenSeq([b \in 1 .. h.bucket_cnt |-> h.buckets[b - 1]])

MoveElem(h, e) == [h EXCEPT !.buckets[find_bucket(h, e)] = <<e>> \o @]

(* Mutant: the elements are moved before the new bucket count is installed. *)
Move_early(h, cnt) ==
  LET moved == FoldLeft(MoveElem, [h EXCEPT !.buckets = Empty(IF cnt > h.bucket_cnt THEN cnt ELSE h.bucket_cnt)], Traverse(h))
  IN [moved EXCEPT !.bucket_cnt = cnt, !.buckets = [b \in 0 .. cnt - 1 |-> @[b]]]

(* Installs the new buckets, then moves each old element to its bucket. *)
Move(h, cnt) == FoldLeft(MoveElem, [h EXCEPT !.bucket_cnt = cnt, !.buckets = Empty(cnt)], Traverse(h))

(* memory: malloc() of the new buckets succeeds. *)
rehash(h, memory) ==
  LET cnt == new_bucket_cnt(h) IN IF cnt = h.bucket_cnt \/ ~memory THEN h ELSE Move(h, cnt)

Done(fn, e, h, r) ==
  /\ table' = h
  /\ op' = [fn |-> fn, e |-> e]
  /\ answer' = [val |-> r, size |-> IF h = NoTable THEN 0 ELSE h.elem_cnt]

-----------------------------------------------------------------------------
hash_init(memory) ==
  /\ table = NoTable
  /\ Done("hash_init", NoElem,
          IF memory THEN [elem_cnt |-> 0, bucket_cnt |-> MinBuckets, buckets |-> Empty(MinBuckets)]
          ELSE NoTable, memory)

(* An element may be inserted when it is in no list. *)
Loose(e) == e \notin ToSet(Traverse(table))

hash_insert(e, memory) ==
  LET bucket == find_bucket(table, e)  old == find_elem(table, bucket, e) IN
  /\ Loose(e)
  /\ Done("hash_insert", e,
          rehash(IF old = NoElem THEN insert_elem(table, bucket, e) ELSE table, memory), old)

hash_replace(e, memory) ==
  LET bucket == find_bucket(table, e)  old == find_elem(table, bucket, e) IN
  /\ Loose(e)
  /\ Done("hash_replace", e,
          rehash(insert_elem(IF old # NoElem THEN remove_elem(table, old) ELSE table, bucket, e), memory),
          old)

hash_find(e) == Done("hash_find", e, table, find_elem(table, find_bucket(table, e), e))

hash_delete(e, memory) ==
  LET found == find_elem(table, find_bucket(table, e), e)
  IN Done("hash_delete", e,
          IF found # NoElem THEN rehash(remove_elem(table, found), memory) ELSE table, found)

hash_apply == Done("hash_apply", NoElem, table, Traverse(table))

(* An iterator is a bucket and a place in its list, 0 for the list's head. *)
hash_first == [bucket |-> 0, at |-> 0]

RECURSIVE SkipEnds(_)
SkipEnds(i) ==
  IF i.at <= Len(table.buckets[i.bucket]) THEN i
  ELSE IF i.bucket + 1 >= table.bucket_cnt THEN NoElem
  ELSE SkipEnds([bucket |-> i.bucket + 1, at |-> 1])

hash_next(i) == SkipEnds([i EXCEPT !.at = @ + 1])

RECURSIVE Iterate(_)
Iterate(i) ==
  LET n == hash_next(i) IN IF n = NoElem THEN << >> ELSE <<table.buckets[n.bucket][n.at]>> \o Iterate(n)

hash_iterate == Done("hash_next", NoElem, table, Iterate(hash_first))

(* The destructor is called for each element. *)
hash_clear ==
  Done("hash_clear", NoElem,
       [table EXCEPT !.elem_cnt = 0, !.buckets = Empty(table.bucket_cnt)], Traverse(table))

hash_destroy == Done("hash_destroy", NoElem, NoTable, Traverse(table))

-----------------------------------------------------------------------------
HashInit ==
  /\ table = NoTable
  /\ op = [fn |-> "none", e |-> NoElem]
  /\ answer = [val |-> NoElem, size |-> 0]

HashCalls ==
  \/ \E memory \in BOOLEAN : hash_init(memory)
  \/ /\ table # NoTable
     /\ \/ \E e \in Elements, memory \in BOOLEAN :
             hash_insert(e, memory) \/ hash_replace(e, memory) \/ hash_delete(e, memory)
        \/ \E e \in Elements : hash_find(e)
        \/ hash_apply \/ hash_iterate \/ hash_clear \/ hash_destroy

Promised == INSTANCE Dictionary
              WITH elems <- IF table = NoTable THEN NoTable ELSE ToSet(Traverse(table))

(* The table implements a set of elements of different keys whatever the    *)
(* sequence of calls, however the number of buckets grew and shrank and     *)
(* whether or not malloc() gave rehash() its buckets: an equal element is   *)
(* found in the bucket the present count gives, hash_size() counts the      *)
(* elements, and a traversal meets each of them once.                       *)
ImplementsDictionary == Promised!Spec
=============================================================================
