-------------------------------- MODULE Lists --------------------------------
(***************************************************************************)
(* The doubly linked lists of lib/kernel/list.c, on the prev and next      *)
(* pointers: a memory m has m.prev[x] and m.next[x] for every list element *)
(* x, the heads and tails of the lists included.                           *)
(***************************************************************************)
EXTENDS Calls, Integers, Sequences, SequencesExt

CONSTANTS
  MaxElems,   \* elements of a list
  Values      \* values of elements, which less compares

(* Two lists and the elements that may be on them. *)
List == [head |-> 0, tail |-> -1]
Other == [head |-> -2, tail |-> -3]
NIL == -4
Elems == 1 .. MaxElems + 1
Nodes == Elems \cup {0, -1, -2, -3}

-----------------------------------------------------------------------------
list_init(m, l) ==
  [m EXCEPT !.prev[l.head] = NIL, !.next[l.head] = l.tail,
            !.prev[l.tail] = l.head, !.next[l.tail] = NIL]

list_begin(m, l) == m.next[l.head]
list_end(l) == l.tail
list_rbegin(m, l) == m.prev[l.tail]
list_rend(l) == l.head
list_empty(m, l) == list_begin(m, l) = list_end(l)

(* Inserts e just before element before. *)
list_insert(m, before, e) ==
  [m EXCEPT !.prev[e] = m.prev[before], !.next[e] = before,
            !.next[m.prev[before]] = e, !.prev[before] = e]

list_push_front(m, l, e) == list_insert(m, list_begin(m, l), e)
list_push_back(m, l, e) == list_insert(m, list_end(l), e)

list_remove(m, e) ==
  [m EXCEPT !.next[m.prev[e]] = m.next[e], !.prev[m.next[e]] = m.prev[e]]

list_pop_front(m, l) == list_remove(m, list_begin(m, l))
list_pop_back(m, l) == list_remove(m, m.prev[l.tail])

(* Moves the elements from first up to, not including, last before before. *)
list_splice(m, before, first, last) ==
  LET z == m.prev[last]
      cut == [m EXCEPT !.next[m.prev[first]] = m.next[z], !.prev[m.next[z]] = m.prev[first]]
  IN IF first = last THEN m
     ELSE [cut EXCEPT !.prev[first] = cut.prev[before], !.next[z] = before,
                      !.next[cut.prev[before]] = first, !.prev[before] = z]

RECURSIVE SizeFrom(_, _, _)
SizeFrom(m, e, end) == IF e = end THEN 0 ELSE 1 + SizeFrom(m, m.next[e], end)
list_size(m, l) == SizeFrom(m, list_begin(m, l), list_end(l))

(* swap (&e->prev, &e->next) along the list, then of the ends. *)
RECURSIVE SwapFrom(_, _, _)
SwapFrom(m, e, end) ==
  IF e = end THEN m
  ELSE LET s == [m EXCEPT !.prev[e] = m.next[e], !.next[e] = m.prev[e]]
       IN SwapFrom(s, s.prev[e], end)

list_reverse(m, l) ==
  LET s == SwapFrom(m, list_begin(m, l), list_end(l))
      t == [s EXCEPT !.next[l.head] = s.prev[l.tail], !.prev[l.tail] = s.next[l.head]]
      first == t.next[l.head]  last == t.prev[l.tail]
  IN IF list_empty(m, l) THEN m
     ELSE [t EXCEPT !.prev[first] = t.next[last], !.next[last] = t.prev[first]]

-----------------------------------------------------------------------------
(* Functions that compare: v[e] is the value of element e. *)
less(v, a, b) == v[a] < v[b]

RECURSIVE SortedFrom(_, _, _, _)
SortedFrom(m, v, a, b) ==
  a = b \/ (~less(v, a, m.prev[a]) /\ SortedFrom(m, v, m.next[a], b))

is_sorted(m, v, a, b) == a = b \/ SortedFrom(m, v, m.next[a], b)

(* The end of the nondecreasing run that starts at a, at most b. *)
RECURSIVE find_end_of_run(_, _, _, _)
find_end_of_run(m, v, a, b) ==
  LET n == m.next[a]
  IN IF n # b /\ ~less(v, n, a) THEN find_end_of_run(m, v, n, b) ELSE n

(* Mutant: takes the second run's element when the two are equal. *)
RECURSIVE inplace_merge_unstable(_, _, _, _, _)
inplace_merge_unstable(m, v, a0, a1b0, b1) ==
  IF a0 = a1b0 \/ a1b0 = b1 THEN m
  ELSE IF less(v, a0, a1b0) THEN inplace_merge_unstable(m, v, m.next[a0], a1b0, b1)
  ELSE LET n == m.next[a1b0]
       IN inplace_merge_unstable(list_splice(m, a0, m.prev[n], n), v, a0, n, b1)

(* Merges the runs a0 up to a1b0 and a1b0 up to b1. *)
RECURSIVE inplace_merge(_, _, _, _, _)
inplace_merge(m, v, a0, a1b0, b1) ==
  IF a0 = a1b0 \/ a1b0 = b1 THEN m
  ELSE IF ~less(v, a1b0, a0) THEN inplace_merge(m, v, m.next[a0], a1b0, b1)
  ELSE LET n == m.next[a1b0]
       IN inplace_merge(list_splice(m, a0, m.prev[n], n), v, a0, n, b1)

(* One pass of list_sort from a0: the memory and the number of runs. *)
RECURSIVE MergePairs(_, _, _, _, _)
MergePairs(m, v, a0, end, runs) ==
  IF a0 = end THEN [m |-> m, runs |-> runs]
  ELSE LET a1b0 == find_end_of_run(m, v, a0, end)
           b1 == find_end_of_run(m, v, a1b0, end)
       IN IF a1b0 = end THEN [m |-> m, runs |-> runs + 1]
          ELSE MergePairs(inplace_merge(m, v, a0, a1b0, b1), v, b1, end, runs + 1)

RECURSIVE list_sort(_, _, _)
list_sort(m, v, l) ==
  LET pass == MergePairs(m, v, list_begin(m, l), list_end(l), 0)
  IN IF pass.runs > 1 THEN list_sort(pass.m, v, l) ELSE pass.m

RECURSIVE AfterNotLess(_, _, _, _, _)
AfterNotLess(m, v, e, end, elem) ==
  IF e = end \/ less(v, elem, e) THEN e ELSE AfterNotLess(m, v, m.next[e], end, elem)

list_insert_ordered(m, v, l, elem) ==
  list_insert(m, AfterNotLess(m, v, list_begin(m, l), list_end(l), elem), elem)

(* Removes all but the first of each set of adjacent equal elements and     *)
(* appends them to list dup.                                                *)
RECURSIVE UniqueFrom(_, _, _, _, _)
UniqueFrom(m, v, e, end, dup) ==
  LET n == m.next[e] IN
  IF n = end THEN m
  ELSE IF ~less(v, e, n) /\ ~less(v, n, e)
       THEN UniqueFrom(list_push_back(list_remove(m, n), dup, n), v, e, end, dup)
       ELSE UniqueFrom(m, v, n, end, dup)

list_unique(m, v, l, dup) ==
  IF list_empty(m, l) THEN m ELSE UniqueFrom(m, v, list_begin(m, l), list_end(l), dup)

RECURSIVE BestFrom(_, _, _, _, _)
BestFrom(m, v, e, end, best) ==
  IF e = end THEN best
  ELSE BestFrom(m, v, m.next[e], end, IF less(v, best, e) THEN e ELSE best)

list_max(m, v, l) == BestFrom(m, v, list_begin(m, l), list_end(l), list_begin(m, l))
list_min(m, v, l) == list_max(m, [e \in DOMAIN v |-> -v[e]], l)

-----------------------------------------------------------------------------
(* A list with n elements, 1 to n, appended in this order; n + 1 is free. *)
Memory == [prev |-> [x \in Nodes |-> NIL], next |-> [x \in Nodes |-> NIL]]
RECURSIVE Filled(_)
Filled(n) == IF n = 0 THEN list_init(list_init(Memory, List), Other)
             ELSE list_push_back(Filled(n - 1), List, n)

ListComparing(n, v) ==
  LET m == Filled(n)  a == [n |-> n, v |-> v] IN
  \/ Enter("list_sort", a, list_sort(m, v, List))
  \/ Enter("is_sorted", a, is_sorted(m, v, list_begin(m, List), list_end(List)))
  \/ Enter("list_insert_ordered", a, list_insert_ordered(m, v, List, n + 1))
  \/ Enter("list_unique", a, list_unique(m, v, List, Other))
  \/ n > 0 /\ Enter("list_max", a, list_max(m, v, List))
  \/ n > 0 /\ Enter("list_min", a, list_min(m, v, List))

ListMoving(n, i, j, k) ==
  LET m == Filled(n)  a == [n |-> n, i |-> i, j |-> j, k |-> k]
      At(x) == IF x > n THEN list_end(List) ELSE x
  IN \/ i <= j /\ (k < i \/ k >= j)
        /\ Enter("list_splice", a, list_splice(m, At(k), At(i), At(j)))
     \/ i <= j /\ k = 1 /\ Enter("splice_other", a, list_splice(m, list_end(Other), At(i), At(j)))
     \/ i = 1 /\ j = 1 /\ k <= n /\ Enter("list_remove", a, list_remove(m, k))
     \/ i = 1 /\ j = 1 /\ k = 1
        /\ \/ Enter("list_reverse", a, list_reverse(m, List))
           \/ Enter("list_size", a, list_size(m, List))
           \/ Enter("list_push_front", a, list_push_front(m, List, n + 1))
           \/ n > 0 /\ Enter("list_pop_front", a, list_pop_front(m, List))
           \/ n > 0 /\ Enter("list_pop_back", a, list_pop_back(m, List))

ListCalls ==
  \E n \in 0 .. MaxElems :
    \/ \E v \in [1 .. n + 1 -> Values] : ListComparing(n, v)
    \/ \E i, j, k \in 1 .. n + 1 : ListMoving(n, i, j, k)

-----------------------------------------------------------------------------
(* The elements in the order of next, or of prev. *)
RECURSIVE Walk(_, _, _)
Walk(p, e, end) == IF e = end THEN <<>> ELSE <<e>> \o Walk(p, p[e], end)

(* Memory m holds the sequence s in list l, seen from either end. *)
Holds(m, l, s) ==
  /\ Walk(m.next, m.next[l.head], l.tail) = s
  /\ Walk(m.prev, m.prev[l.tail], l.head) = Reverse(s)

(* The first of the elements 1 to n for which v is extreme. *)
FirstBest(n, v, e) == \A i \in 1 .. n : v[i] < v[e] \/ (v[i] = v[e] /\ e <= i)

(* The elements 1 to n in the order of their values, equal ones as they were. *)
Ordered(n, v, s) ==
  /\ Len(s) = n /\ {s[i] : i \in 1 .. n} = 1 .. n
  /\ \A i, j \in 1 .. n : i < j => v[s[i]] < v[s[j]] \/ (v[s[i]] = v[s[j]] /\ s[i] < s[j])

(* Every function leaves lists whose prev and next pointers agree and which *)
(* hold the elements it promises: list_sort a stable permutation in order,  *)
(* list_insert_ordered the new element after all that are not greater,      *)
(* list_unique the first of each group of equal elements with the others on *)
(* the second list, list_splice the range moved as it was, list_reverse the *)
(* elements in reverse, and list_max and list_min the first extreme one.    *)
ListsRight ==
  LET f == call.fn  a == call.args
      Ids(i, j) == [x \in 1 .. j - i + 1 |-> i + x - 1]
      First(i) == i = 1 \/ a.v[i] # a.v[i - 1]
      NotGreater == {i \in 1 .. a.n : \A j \in 1 .. i : a.v[j] <= a.v[a.n + 1]}
      Inserted == Ids(1, Cardinality(NotGreater)) \o <<a.n + 1>> \o Ids(Cardinality(NotGreater) + 1, a.n)
      Moved == Ids(a.i, a.j - 1)
      Rest == Ids(1, a.i - 1) \o Ids(a.j, a.n)
  IN
  /\ f = "list_sort" => LET s == Walk(ret.next, ret.next[List.head], List.tail)
                        IN Holds(ret, List, s) /\ Ordered(a.n, a.v, s)
  /\ f = "is_sorted" => (ret <=> \A i \in 2 .. a.n : a.v[i - 1] <= a.v[i])
  /\ f = "list_insert_ordered" => Holds(ret, List, Inserted)
  /\ f = "list_unique" =>
       /\ Holds(ret, List, SelectSeq(Ids(1, a.n), First))
       /\ Holds(ret, Other, SelectSeq(Ids(1, a.n), LAMBDA i : ~First(i)))
  /\ f = "list_max" => FirstBest(a.n, a.v, ret)
  /\ f = "list_min" => FirstBest(a.n, [i \in 1 .. a.n |-> -a.v[i]], ret)
  /\ f = "list_splice" =>
       LET k == IF a.k <= a.i THEN a.k ELSE a.k - (a.j - a.i)
       IN Holds(ret, List, SubSeq(Rest, 1, k - 1) \o Moved \o SubSeq(Rest, k, Len(Rest)))
  /\ f = "splice_other" => Holds(ret, List, Rest) /\ Holds(ret, Other, Moved)
  /\ f = "list_remove" => Holds(ret, List, Ids(1, a.k - 1) \o Ids(a.k + 1, a.n))
  /\ f = "list_reverse" => Holds(ret, List, Reverse(Ids(1, a.n)))
  /\ f = "list_size" => ret = a.n
  /\ f = "list_push_front" => Holds(ret, List, <<a.n + 1>> \o Ids(1, a.n))
  /\ f = "list_pop_front" => Holds(ret, List, Ids(2, a.n))
  /\ f = "list_pop_back" => Holds(ret, List, Ids(1, a.n - 1))
=============================================================================
