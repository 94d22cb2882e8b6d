------------------------------- MODULE Numbers -------------------------------
(***************************************************************************)
(* Sorting, searching and atoi of lib/stdlib.c, the 64-bit division of     *)
(* lib/arithmetic.c on words of WordBits bits instead of 32, and the       *)
(* generator of lib/random.c on RandomSize bytes instead of 256.           *)
(***************************************************************************)
EXTENDS Calls, Integers, Sequences, FiniteSets

CONSTANTS
  WordBits,     \* a power of 2
  IntBits,      \* width of an int in atoi
  RandomSize,
  MaxArray,     \* elements of an array
  Keys          \* values of its elements

-----------------------------------------------------------------------------
(* do_swap and do_compare work on 1-based indexes. *)
do_swap(a, i, j) == [a EXCEPT ![i] = a[j], ![j] = a[i]]
do_compare(a, i, j) == a[i] - a[j]

(* Floats element i down in the heap a[1 .. cnt]. *)
RECURSIVE heapify(_, _, _)
heapify(a, i, cnt) ==
  LET left == 2 * i  right == 2 * i + 1
      m == IF left <= cnt /\ do_compare(a, left, i) > 0 THEN left ELSE i
      max == IF right <= cnt /\ do_compare(a, right, m) > 0 THEN right ELSE m
  IN IF max = i THEN a ELSE heapify(do_swap(a, i, max), max, cnt)

RECURSIVE BuildHeap(_, _)
BuildHeap(a, i) == IF i = 0 THEN a ELSE BuildHeap(heapify(a, i, Len(a)), i - 1)

RECURSIVE SortHeap(_, _)
SortHeap(a, i) == IF i <= 1 THEN a ELSE SortHeap(heapify(do_swap(a, 1, i), 1, i - 1), i - 1)

sort(a) == SortHeap(BuildHeap(a, Len(a) \div 2), Len(a))

(* In a[first .. last - 1]; 0 for NULL. *)
RECURSIVE BinarySearch(_, _, _, _)
BinarySearch(key, a, first, last) ==
  LET middle == first + (last - first) \div 2 IN
  IF first >= last THEN 0
  ELSE IF key < a[middle] THEN BinarySearch(key, a, first, middle)
  ELSE IF key > a[middle] THEN BinarySearch(key, a, middle + 1, last)
  ELSE middle
binary_search(key, a) == BinarySearch(key, a, 1, Len(a) + 1)

-----------------------------------------------------------------------------
(* The value that x has in a signed integer of w bits. *)
Wrap(x, w) == LET u == x % 2 ^ w IN IF u < 2 ^ (w - 1) THEN u ELSE u - 2 ^ w

(* The digits are numbers; the value is built as a negative number. *)
RECURSIVE ParseDigits(_, _, _)
ParseDigits(s, i, value) ==
  IF s[i] \in 0 .. 9 THEN ParseDigits(s, i + 1, Wrap(value * 10 - s[i], IntBits)) ELSE value

RECURSIVE SkipSpace(_, _)
SkipSpace(s, i) == IF s[i] = 32 THEN SkipSpace(s, i + 1) ELSE i

EndOfString == -1
PLUS == 43
MINUS == 45
atoi(s) ==
  LET i == SkipSpace(s, 1)
      value == ParseDigits(s, IF s[i] \in {PLUS, MINUS} THEN i + 1 ELSE i, 0)
  IN IF s[i] = MINUS THEN value ELSE Wrap(-value, IntBits)

-----------------------------------------------------------------------------
Word == 2 ^ WordBits
Double == Word * Word
TRAP == -1

divl(n, d) == IF d = 0 \/ n \div d >= Word THEN TRAP ELSE n \div d

(* The leading zero bits of a word, halving the shift from half a word to 1. *)
RECURSIVE Nlz(_, _)
Nlz(x, k) == IF k = 0 THEN 0
             ELSE IF x <= 2 ^ (WordBits - k) - 1 THEN k + Nlz(x * 2 ^ k, k \div 2)
             ELSE Nlz(x, k \div 2)
nlz(x) == Nlz(x, WordBits \div 2)

(* By a divisor of one word, digit by digit. *)
ShortDivision(n, d) ==
  LET n1 == n \div Word  n0 == n % Word
      q == divl(Word * (n1 % d) + n0, d)
  IN IF q = TRAP THEN TRAP ELSE q + Word * (n1 \div d)

(* Mutant: the estimate of the quotient is not corrected. *)
LongDivision_estimate(n, d) ==
  LET s == nlz(d \div Word)
      e == divl(n \div 2, ((d * 2 ^ s) % Double) \div Word)
  IN IF n < d THEN 0 ELSE IF e = TRAP THEN TRAP ELSE e \div 2 ^ (WordBits - 1 - s)

(* By a longer divisor: an estimate, at most one too large. *)
LongDivision(n, d) ==
  LET s == nlz(d \div Word)
      e == divl(n \div 2, ((d * 2 ^ s) % Double) \div Word)
      q == e \div 2 ^ (WordBits - 1 - s)
  IN IF n < d THEN 0
     ELSE IF e = TRAP THEN TRAP
     ELSE IF (n - (q - 1) * d) % Double < d THEN (q - 1) % Double ELSE q

udiv64(n, d) == IF d < Word THEN ShortDivision(n, d) ELSE LongDivision(n, d)

(* The result is a word. *)
umod64(n, d) == (n - d * udiv64(n, d)) % Word

Magnitude(x) == IF x >= 0 THEN x ELSE (-x) % Double

sdiv64(n, d) ==
  LET q == udiv64(Magnitude(n), Magnitude(d))
  IN IF (n < 0) = (d < 0) THEN Wrap(q, 2 * WordBits) ELSE -q

smod64(n, d) == Wrap(n - d * sdiv64(n, d), WordBits)

-----------------------------------------------------------------------------
(* The generator: the permutation s and the indexes i and j. *)
Bytes == 0 .. RandomSize - 1
swap_byte(s, i, j) == [s EXCEPT ![i] = s[j], ![j] = s[i]]

RECURSIVE Schedule(_, _, _, _)
Schedule(s, seed, i, j) ==
  IF i = RandomSize THEN s
  ELSE LET k == (j + s[i] + seed[(i % Len(seed)) + 1]) % RandomSize
       IN Schedule(swap_byte(s, i, k), seed, i + 1, k)

random_init(seed) == [s |-> Schedule([b \in Bytes |-> b], seed, 0, 0), i |-> 0, j |-> 0, out |-> <<>>]

RECURSIVE random_bytes(_, _)
random_bytes(g, size) ==
  IF size = 0 THEN g
  ELSE LET i == (g.i + 1) % RandomSize
           j == (g.j + g.s[i]) % RandomSize
           s == swap_byte(g.s, i, j)
       IN random_bytes([s |-> s, i |-> i, j |-> j,
                        out |-> Append(g.out, s[(s[i] + s[j]) % RandomSize])], size - 1)

-----------------------------------------------------------------------------
Arrays == UNION {[1 .. n -> Keys] : n \in 0 .. MaxArray}
Ascending(a) == \A i \in 2 .. Len(a) : a[i - 1] <= a[i]

NumberCalls ==
  \/ \E a \in Arrays : Enter("sort", a, sort(a))
  \/ \E a \in {b \in Arrays : Ascending(b)}, key \in Keys :
       Enter("binary_search", [a |-> a, key |-> key], binary_search(key, a))
  \/ \E pre \in {<<>>, <<32>>, <<32, 32>>}, sign \in {<<>>, <<PLUS>>, <<MINUS>>},
        digits \in UNION {[1 .. n -> {0, 1, 2, 7, 8, 9}] : n \in 0 .. 3} :
       Enter("atoi", [sign |-> sign, digits |-> digits], atoi(pre \o sign \o digits \o <<EndOfString>>))
  \/ \E d \in 1 .. Double - 1 :
       \/ Enter("udiv64", d, [n \in 0 .. Double - 1 |-> udiv64(n, d)])
       \/ Enter("umod64", d, [n \in 0 .. Double - 1 |-> umod64(n, d)])
  \/ \E d \in (-Double \div 2 .. Double \div 2 - 1) \ {0} :
       \/ Enter("sdiv64", d, [n \in -Double \div 2 .. Double \div 2 - 1 |-> sdiv64(n, d)])
       \/ Enter("smod64", d, [n \in -Double \div 2 .. Double \div 2 - 1 |-> smod64(n, d)])
  \/ \E seed \in [1 .. 2 -> Bytes], size \in 0 .. RandomSize :
       Enter("random_bytes", [seed |-> seed, size |-> size], random_bytes(random_init(seed), size))

-----------------------------------------------------------------------------
Count(a, k) == Cardinality({i \in DOMAIN a : a[i] = k})

(* Quotient of C: truncated toward zero. *)
Quotient(n, d) ==
  LET abs(x) == IF x < 0 THEN -x ELSE x
      q == abs(n) \div abs(d)
  IN IF (n < 0) = (d < 0) THEN q ELSE -q

RECURSIVE Value(_)
Value(digits) ==
  IF digits = <<>> THEN 0
  ELSE 10 * Value(SubSeq(digits, 1, Len(digits) - 1)) + digits[Len(digits)]

(* sort returns its array in order and nothing else; binary_search finds a  *)
(* key exactly when it is there; atoi returns every number an int can hold, *)
(* the least one included; the division of double words never traps in divl *)
(* and is exact for every dividend and divisor, and so is a remainder that  *)
(* fits in one word.  umod64 and smod64 return a word, so of a longer       *)
(* remainder, which their comments promise too, nothing is said.  The       *)
(* random generator's state stays a permutation.                            *)
NumbersRight ==
  LET f == call.fn  a == call.args
      low == -Double \div 2
  IN
  /\ f = "sort" => Ascending(ret) /\ Len(ret) = Len(a) /\ \A k \in Keys : Count(ret, k) = Count(a, k)
  /\ f = "binary_search" =>
       IF ret = 0 THEN Count(a.a, a.key) = 0 ELSE a.a[ret] = a.key
  /\ f = "atoi" =>
       LET v == IF a.sign = <<MINUS>> THEN -Value(a.digits) ELSE Value(a.digits)
       IN v \in -(2 ^ (IntBits - 1)) .. 2 ^ (IntBits - 1) - 1 => ret = v
  /\ f = "udiv64" => \A n \in DOMAIN ret : ret[n] = n \div a
  /\ f = "umod64" => \A n \in DOMAIN ret : n % a < Word => ret[n] = n % a
  /\ f = "sdiv64" => \A n \in DOMAIN ret : ret[n] = Quotient(n, a) \/ (n = low /\ a = -1 /\ ret[n] = low)
  /\ f = "smod64" => \A n \in DOMAIN ret :
       LET r == n - a * Quotient(n, a)
       IN r \in -(Word \div 2) .. Word \div 2 - 1 => ret[n] = r
  /\ f = "random_bytes" =>
       /\ {ret.s[b] : b \in Bytes} = Bytes
       /\ Len(ret.out) = a.size /\ \A i \in 1 .. a.size : ret.out[i] \in Bytes
=============================================================================
