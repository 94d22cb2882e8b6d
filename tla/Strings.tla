------------------------------- MODULE Strings -------------------------------
(***************************************************************************)
(* Block and string functions of lib/string.c.  A block of memory is a     *)
(* sequence of characters, a pointer into it an index, and a string is     *)
(* ended by the character NUL; 0 as a pointer is NULL.  TLC stops when a   *)
(* function reads outside the block it was given.                          *)
(***************************************************************************)
EXTENDS Calls, Integers, Sequences, FiniteSets

CONSTANTS
  Chars,      \* characters other than NUL, as numbers
  MaxStr      \* length of a string

NUL == 0

-----------------------------------------------------------------------------
RECURSIVE CopyUp(_, _, _, _)
CopyUp(m, d, s, n) == IF n = 0 THEN m ELSE CopyUp([m EXCEPT ![d] = m[s]], d + 1, s + 1, n - 1)

RECURSIVE CopyDown(_, _, _, _)
CopyDown(m, d, s, n) ==
  IF n = 0 THEN m ELSE CopyDown([m EXCEPT ![d + n - 1] = m[s + n - 1]], d, s, n - 1)

(* Mutant: always copies upward. *)
memmove_up(m, d, s, n) == [m |-> CopyUp(m, d, s, n), p |-> d]

(* The memory and the pointer returned. *)
memmove(m, d, s, n) ==
  IF d < s THEN [m |-> CopyUp(m, d, s, n), p |-> d + n]
  ELSE [m |-> CopyDown(m, d, s, n), p |-> d]

(* memcpy from a block of its own. *)
RECURSIVE memcpy(_, _, _, _)
memcpy(m, d, src, n) ==
  IF n = 0 THEN m ELSE [memcpy(m, d, src, n - 1) EXCEPT ![d + n - 1] = src[n]]

RECURSIVE memset(_, _, _, _)
memset(m, d, c, n) == IF n = 0 THEN m ELSE memset([m EXCEPT ![d] = c], d + 1, c, n - 1)

Difference(x, y) == IF x = y THEN 0 ELSE IF x > y THEN 1 ELSE -1

(* Compares n characters of a from i on with b from j on. *)
RECURSIVE memcmp(_, _, _, _, _)
memcmp(a, i, b, j, n) ==
  IF n = 0 THEN 0
  ELSE IF a[i] # b[j] THEN Difference(a[i], b[j]) ELSE memcmp(a, i + 1, b, j + 1, n - 1)

RECURSIVE strcmp(_, _, _)
strcmp(a, b, i) ==
  IF a[i] # NUL /\ a[i] = b[i] THEN strcmp(a, b, i + 1) ELSE Difference(a[i], b[i])

RECURSIVE memchr(_, _, _, _)
memchr(b, i, c, n) == IF n = 0 THEN 0 ELSE IF b[i] = c THEN i ELSE memchr(b, i + 1, c, n - 1)

RECURSIVE strchr(_, _, _)
strchr(s, i, c) == IF s[i] = c THEN i ELSE IF s[i] = NUL THEN 0 ELSE strchr(s, i + 1, c)

RECURSIVE strlen(_, _)
strlen(s, i) == IF s[i] = NUL THEN 0 ELSE 1 + strlen(s, i + 1)

RECURSIVE strnlen(_, _, _)
strnlen(s, i, maxlen) == IF s[i] = NUL \/ i > maxlen THEN i - 1 ELSE strnlen(s, i + 1, maxlen)

RECURSIVE strcspn(_, _, _)
strcspn(s, i, stop) ==
  IF s[i] = NUL \/ strchr(stop, 1, s[i]) # 0 THEN i - 1 ELSE strcspn(s, i + 1, stop)

RECURSIVE strspn(_, _, _)
strspn(s, i, skip) ==
  IF s[i] = NUL \/ strchr(skip, 1, s[i]) = 0 THEN i - 1 ELSE strspn(s, i + 1, skip)

RECURSIVE strpbrk(_, _, _)
strpbrk(s, i, stop) ==
  IF s[i] = NUL THEN 0 ELSE IF strchr(stop, 1, s[i]) # 0 THEN i ELSE strpbrk(s, i + 1, stop)

RECURSIVE strrchr(_, _, _, _)
strrchr(s, i, c, p) == IF s[i] = NUL THEN p ELSE strrchr(s, i + 1, c, IF s[i] = c THEN i ELSE p)

RECURSIVE StrstrFrom(_, _, _)
StrstrFrom(haystack, needle, i) ==
  IF i + strlen(needle, 1) > strlen(haystack, 1) + 1 THEN 0
  ELSE IF memcmp(haystack, i, needle, 1, strlen(needle, 1)) = 0 THEN i
  ELSE StrstrFrom(haystack, needle, i + 1)
strstr(haystack, needle) == StrstrFrom(haystack, needle, 1)

-----------------------------------------------------------------------------
(* strtok_r called on the string m at s, or where it stopped: the memory,   *)
(* the token or NULL, and save_ptr.                                         *)
RECURSIVE SkipDelimiters(_, _, _)
SkipDelimiters(m, s, delims) ==
  IF m[s] # NUL /\ strchr(delims, 1, m[s]) # 0 THEN SkipDelimiters(m, s + 1, delims) ELSE s

RECURSIVE TokenEnd(_, _, _)
TokenEnd(m, s, delims) ==
  IF strchr(delims, 1, m[s]) = 0 THEN TokenEnd(m, s + 1, delims) ELSE s

strtok_r(m, s, delims) ==
  LET token == SkipDelimiters(m, s, delims)
      e == TokenEnd(m, token, delims)
  IN IF m[token] = NUL THEN [m |-> m, token |-> 0, save |-> token]
     ELSE IF m[e] # NUL THEN [m |-> [m EXCEPT ![e] = NUL], token |-> token, save |-> e + 1]
     ELSE [m |-> m, token |-> token, save |-> e]

(* The tokens of a loop over the string, as the caller reads them. *)
RECURSIVE Tokens(_, _, _)
Tokens(m, s, delims) ==
  LET r == strtok_r(m, s, delims)
  IN IF r.token = 0 THEN <<>>
     ELSE <<[at |-> r.token, len |-> strlen(r.m, r.token)]>> \o Tokens(r.m, r.save, delims)

-----------------------------------------------------------------------------
strlcpy(dst, src, size) ==
  LET src_len == strlen(src, 1)
      dst_len == IF src_len < size - 1 THEN src_len ELSE size - 1
  IN [len |-> src_len,
      m |-> IF size = 0 THEN dst
            ELSE [memcpy(dst, 1, src, dst_len) EXCEPT ![dst_len + 1] = NUL]]

strlcat(dst, src, size) ==
  LET src_len == strlen(src, 1)
      dst_len == strlen(dst, 1)
      copy_cnt == IF src_len < size - dst_len - 1 THEN src_len ELSE size - dst_len - 1
  IN [len |-> src_len + dst_len,
      m |-> IF size = 0 \/ dst_len >= size THEN dst
            ELSE [memcpy(dst, dst_len + 1, src, copy_cnt) EXCEPT ![dst_len + copy_cnt + 1] = NUL]]

-----------------------------------------------------------------------------
Blocks(n) == [1 .. n -> Chars]
Strs == {b \o <<NUL>> : b \in UNION {Blocks(n) : n \in 0 .. MaxStr}}

BlockCalls ==
  \/ \E m \in Blocks(MaxStr), d, s \in 1 .. MaxStr, n \in 0 .. MaxStr :
       /\ d + n <= MaxStr + 1 /\ s + n <= MaxStr + 1
       /\ Enter("memmove", [m |-> m, d |-> d, s |-> s, n |-> n], memmove(m, d, s, n))
  \/ \E a, b \in Blocks(MaxStr - 1), n \in 0 .. MaxStr - 1 :
       Enter("memcmp", [a |-> a, b |-> b, n |-> n], memcmp(a, 1, b, 1, n))
  \/ \E m \in Blocks(MaxStr), c \in Chars, n \in 0 .. MaxStr :
       \/ Enter("memchr", [m |-> m, c |-> c, n |-> n], memchr(m, 1, c, n))
       \/ Enter("memset", [m |-> m, c |-> c, n |-> n], memset(m, 1, c, n))

StringCalls ==
  \/ \E s, t \in Strs :
       LET a == [s |-> s, t |-> t] IN
       \/ Enter("strcmp", a, strcmp(s, t, 1))
       \/ Enter("strspn", a, <<strspn(s, 1, t), strcspn(s, 1, t), strpbrk(s, 1, t)>>)
       \/ Enter("strstr", a, strstr(s, t))
       \/ Enter("strtok_r", a, Tokens(s, 1, t))
  \/ \E s \in Strs, c \in Chars \cup {NUL} :
       Enter("strchr", [s |-> s, c |-> c], <<strchr(s, 1, c), strrchr(s, 1, c, 0)>>)
  \/ \E s \in Strs, n \in 0 .. MaxStr : Enter("strnlen", [s |-> s, n |-> n], strnlen(s, 1, n))
  \/ \E src \in Strs, dst \in {s \in Strs : Len(s) <= 2}, size \in 0 .. MaxStr :
       LET buf == dst \o [i \in 1 .. MaxStr - Len(dst) + 1 |-> 9]
           a == [dst |-> dst, buf |-> buf, src |-> src, size |-> size]
       IN Enter("strlcpy", a, strlcpy(buf, src, size)) \/ Enter("strlcat", a, strlcat(buf, src, size))

-----------------------------------------------------------------------------
(* The text of a string, and its first n characters in a block with NUL. *)
Text(s) == SubSeq(s, 1, Len(s) - 1)
Least(S) == IF S = {} THEN 0 ELSE CHOOSE i \in S : \A j \in S : i <= j
Greatest(S) == IF S = {} THEN 0 ELSE CHOOSE i \in S : \A j \in S : j <= i

(* What strlcpy and strlcat leave in a block that held old and begins with  *)
(* kept characters: as much of the text as size admits and NUL; nothing     *)
(* beyond.                                                                  *)
Truncated(m, old, text, kept, size) ==
  LET n == IF Len(text) < size THEN Len(text) ELSE size - 1
  IN m = IF size <= kept THEN old
         ELSE SubSeq(text, 1, n) \o <<NUL>> \o SubSeq(old, n + 2, Len(old))

(* The block functions leave the memory that their comments promise for     *)
(* every overlap and length, memmove as if through a copy, and memmove      *)
(* returns DST unless DST lies before SRC: the code then returns the end of *)
(* the copy, against its comment.  Searches find the first (strrchr the     *)
(* last) match and the spans are maximal; strtok_r yields exactly the       *)
(* maximal runs of characters that are no delimiters, in order; strlcpy and *)
(* strlcat return the full length and never write at or beyond dst + size.  *)
StringsRight ==
  LET f == call.fn  a == call.args
      First(s, P(_)) == Least({i \in 1 .. Len(s) : P(s[i])})
      In(c, t) == \E i \in 1 .. Len(t) - 1 : t[i] = c
  IN
  /\ f = "memmove" =>
       /\ ret.m = [i \in 1 .. Len(a.m) |->
                     IF a.d <= i /\ i < a.d + a.n THEN a.m[a.s + i - a.d] ELSE a.m[i]]
       /\ a.d >= a.s => ret.p = a.d
  /\ f = "memcmp" =>
       LET i == Least({j \in 1 .. a.n : a.a[j] # a.b[j]})
       IN ret = IF i = 0 THEN 0 ELSE Difference(a.a[i], a.b[i])
  /\ f = "memchr" => ret = Least({i \in 1 .. a.n : a.m[i] = a.c})
  /\ f = "memset" => ret = [i \in 1 .. Len(a.m) |-> IF i <= a.n THEN a.c ELSE a.m[i]]
  /\ f = "strcmp" =>
       LET i == Least({j \in 1 .. Len(a.s) : j > Len(a.t) \/ a.s[j] # a.t[j]})
       IN ret = IF i = 0 THEN 0 ELSE Difference(a.s[i], a.t[i])
  /\ f = "strspn" =>
       LET out == First(a.s, LAMBDA c : ~In(c, a.t))
           in == First(a.s, LAMBDA c : c = NUL \/ In(c, a.t))
       IN ret = <<out - 1, in - 1, IF in = Len(a.s) THEN 0 ELSE in>>
  /\ f = "strstr" =>
       ret = Least({i \in 1 .. Len(a.s) - Len(a.t) + 1 : \A j \in 1 .. Len(a.t) - 1 : a.s[i + j - 1] = a.t[j]})
  /\ f = "strchr" =>
       ret = <<First(a.s, LAMBDA c : c = a.c), Greatest({i \in 1 .. Len(a.s) - 1 : a.s[i] = a.c})>>
  /\ f = "strnlen" => ret = IF Len(a.s) - 1 < a.n THEN Len(a.s) - 1 ELSE a.n
  /\ f = "strtok_r" =>
       LET other == {i \in 1 .. Len(a.s) - 1 : ~In(a.s[i], a.t)}
           starts == {i \in other : i - 1 \notin other}
       IN /\ Len(ret) = Cardinality(starts)
          /\ \A k \in 1 .. Len(ret) :
               /\ ret[k].at = Least({i \in starts : k = 1 \/ i > ret[k - 1].at})
               /\ ret[k].len = Least({i \in ret[k].at .. Len(a.s) : i \notin other}) - ret[k].at
  /\ f = "strlcpy" => ret.len = Len(a.src) - 1 /\ Truncated(ret.m, a.buf, Text(a.src), 0, a.size)
  /\ f = "strlcat" =>
       /\ ret.len = Len(a.src) + Len(a.dst) - 2
       /\ Truncated(ret.m, a.buf, Text(a.dst) \o Text(a.src), Len(a.dst) - 1, a.size)
=============================================================================
