----------------------------- MODULE Dictionary -----------------------------
(***************************************************************************)
(* What lib/kernel/hash.h promises: a hash table holds a set of elements,  *)
(* no two of them equal.                                                   *)
(***************************************************************************)
EXTENDS Sequences, FiniteSets

CONSTANTS
  Elements,      \* records; two with the same key are equal to less()
  NoElem, NoTable

VARIABLES
  elems,         \* the elements of the table, NoTable when there is none
  op,            \* the last call: its function and its element
  answer         \* what it returned, and the number of elements then

Equal(e) == {o \in elems : o.key = e.key}
First(set) == IF set = {} THEN NoElem ELSE CHOOSE o \in set : TRUE

Changes(fn, e, set, r) ==
  /\ elems' = set
  /\ op' = [fn |-> fn, e |-> e]
  /\ answer' = [val |-> r, size |-> IF set = NoTable THEN 0 ELSE Cardinality(set)]

EachOnce(s, set) == {s[i] : i \in DOMAIN s} = set /\ Len(s) = Cardinality(set)

Start ==
  /\ elems = NoTable
  /\ \E ok \in BOOLEAN : Changes("hash_init", NoElem, IF ok THEN {} ELSE NoTable, ok)
Insert(e) ==
  Changes("hash_insert", e, IF Equal(e) = {} THEN elems \cup {e} ELSE elems, First(Equal(e)))
Replace(e) == Changes("hash_replace", e, (elems \ Equal(e)) \cup {e}, First(Equal(e)))
Find(e) == Changes("hash_find", e, elems, First(Equal(e)))
Delete(e) == Changes("hash_delete", e, elems \ Equal(e), First(Equal(e)))
Visit(fn) ==
  /\ op'.fn = fn
  /\ EachOnce(answer'.val, elems)
  /\ Changes(fn, NoElem, CASE fn = "hash_clear" -> {} [] fn = "hash_destroy" -> NoTable
                           [] OTHER -> elems, answer'.val)

Init == /\ elems = NoTable
        /\ op = [fn |-> "none", e |-> NoElem]
        /\ answer = [val |-> NoElem, size |-> 0]
Next ==
  \/ Start
  \/ /\ elems # NoTable
     /\ \/ \E e \in Elements : \/ e \notin elems /\ (Insert(e) \/ Replace(e))
                               \/ Find(e) \/ Delete(e)
        \/ \E fn \in {"hash_apply", "hash_next", "hash_clear", "hash_destroy"} : Visit(fn)
Spec == Init /\ [][Next]_<<elems, op, answer>>
=============================================================================
