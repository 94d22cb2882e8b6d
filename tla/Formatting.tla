----------------------------- MODULE Formatting -----------------------------
(***************************************************************************)
(* printf of lib/stdio.c: parsing of conversions, integers, strings, and   *)
(* the buffer of vsnprintf; hex_dump and print_human_readable_size.        *)
(*                                                                         *)
(* A format is a sequence of characters that ends with NUL.  The widths of *)
(* the integer types and the size of the digit buffer are constants, so    *)
(* that small numbers reach their limits.                                  *)
(***************************************************************************)
EXTENDS Calls, Integers, Sequences, FiniteSets, TLC

CONSTANTS
  Bits,       \* Bits[type]: width of the argument's type
  BufSize,    \* sizeof buf in format_integer
  PerLine,    \* per_line of hex_dump
  Kilo,       \* 1024 in print_human_readable_size
  Raw         \* Raw[type]: arguments, as unsigned numbers of that width

EndOfFormat == ""
DigitChars == <<"0", "1", "2", "3", "4", "5", "6", "7", "8", "9", "a", "b", "c", "d", "e", "f">>
isdigit(c) == \E i \in 1 .. 10 : DigitChars[i] = c
DigitValue(c) == CHOOSE i \in 0 .. 15 : DigitChars[i + 1] = c
Dup(c, n) == [i \in 1 .. n |-> c]

base_d == [base |-> 10, digits |-> DigitChars, x |-> "none", group |-> 3]
base_o == [base |-> 8, digits |-> DigitChars, x |-> "none", group |-> 3]
base_x == [base |-> 16, digits |-> DigitChars, x |-> "x", group |-> 4]
base_X == [base |-> 16, digits |-> SubSeq(DigitChars, 1, 10) \o <<"A", "B", "C", "D", "E", "F">>,
           x |-> "X", group |-> 4]

-----------------------------------------------------------------------------
(* parse_conversion.  Flags are their characters. *)
RECURSIVE EndOfFlags(_, _)
EndOfFlags(s, i) == IF s[i] \in {"-", "+", " ", "#", "0", "'"} THEN EndOfFlags(s, i + 1) ELSE i

RECURSIVE Number(_, _, _)
Number(s, i, n) ==
  IF isdigit(s[i]) THEN Number(s, i + 1, 10 * n + DigitValue(s[i])) ELSE [at |-> i, n |-> n]

(* A number, or an argument for "*": where it ends, its value, and the      *)
(* arguments that are left.                                                 *)
NumberOrArg(s, i, args) ==
  IF s[i] = "*" THEN [at |-> i + 1, n |-> Head(args), args |-> Tail(args)]
  ELSE Number(s, i, 0) @@ [args |-> args]

TypeAt(s, i) ==
  IF s[i] \in {"h", "l"} /\ s[i + 1] = s[i] THEN [at |-> i + 2, type |-> s[i] \o s[i]]
  ELSE IF s[i] \in {"h", "l", "j", "t", "z"} THEN [at |-> i + 1, type |-> s[i]]
  ELSE [at |-> i, type |-> "int"]

parse_conversion(s, i, args) ==
  LET f == EndOfFlags(s, i)
      given == {s[j] : j \in i .. f - 1}
      w == NumberOrArg(s, f, args)
      p == IF s[w.at] = "." THEN NumberOrArg(s, w.at + 1, w.args)
           ELSE [at |-> w.at, n |-> -1, args |-> w.args]
      t == TypeAt(s, p.at)
  IN [at |-> t.at, type |-> t.type, args |-> p.args,
      width |-> IF w.n < 0 THEN -w.n ELSE w.n,
      precision |-> IF p.n < 0 THEN -1 ELSE p.n,
      flags |-> {g \in given : /\ g = "0" => "-" \notin given /\ p.n < 0
                               /\ g = " " => "+" \notin given}
                \cup (IF w.n < 0 THEN {"-"} ELSE {})]

-----------------------------------------------------------------------------
(* The argument as va_arg and the conversions to intmax_t and uintmax_t give *)
(* it: the low bits of its type, with or without a sign.                    *)
Unsigned(raw, type) == raw % 2 ^ Bits[type]
Signed(raw, type) ==
  LET u == Unsigned(raw, type) IN IF u > 2 ^ (Bits[type] - 1) - 1 THEN u - 2 ^ Bits[type] ELSE u

(* The digits in reverse, with commas. *)
RECURSIVE ReverseDigits(_, _, _, _)
ReverseDigits(value, b, group, digit_cnt) ==
  IF value = 0 THEN <<>>
  ELSE (IF group /\ digit_cnt > 0 /\ digit_cnt % b.group = 0 THEN <<",">> ELSE <<>>)
       \o <<b.digits[(value % b.base) + 1]>>
       \o ReverseDigits(value \div b.base, b, group, digit_cnt + 1)

(* The content of buf: zeros are added for the precision and for "#". *)
DigitBuffer(value, b, c) ==
  LET d == ReverseDigits(value, b, "'" \in c.flags, 0)
      precision == IF c.precision < 0 THEN 1 ELSE c.precision
      wanted == IF precision < BufSize - 1 THEN precision ELSE BufSize - 1
      z == d \o Dup("0", IF Len(d) < wanted THEN wanted - Len(d) ELSE 0)
  IN IF "#" \in c.flags /\ b.base = 8 /\ (z = <<>> \/ z[Len(z)] # "0") THEN z \o <<"0">> ELSE z

Backwards(s) == [i \in 1 .. Len(s) |-> s[Len(s) + 1 - i]]

SignOf(negative, c) ==
  IF negative THEN <<"-">>
  ELSE IF "+" \in c.flags THEN <<"+">> ELSE IF " " \in c.flags THEN <<" ">> ELSE <<>>

(* Mutant: the sign is not counted. *)
PadCount_no_sign(c, buf, x, sign) ==
  LET n == c.width - Len(buf) - Len(x) IN IF n < 0 THEN 0 ELSE n

PadCount(c, buf, x, sign) ==
  LET n == c.width - Len(buf) - Len(x) - Len(sign) IN IF n < 0 THEN 0 ELSE n

format_integer(value, is_signed, negative, b, c) ==
  LET sign == IF is_signed THEN SignOf(negative, c) ELSE <<>>
      x == IF "#" \in c.flags /\ value # 0 /\ b.x # "none" THEN <<"0", b.x>> ELSE <<>>
      buf == DigitBuffer(value, b, c)
      pad_cnt == PadCount(c, buf, x, sign)
      Pad(ch, p) == IF p THEN Dup(ch, pad_cnt) ELSE <<>>
  IN Pad(" ", c.flags \cap {"-", "0"} = {}) \o sign \o x \o Pad("0", "0" \in c.flags)
     \o Backwards(buf) \o Pad(" ", "-" \in c.flags)

format_string(s, length, c) ==
  LET pad == Dup(" ", IF c.width > length THEN c.width - length ELSE 0)
  IN IF "-" \in c.flags THEN SubSeq(s, 1, length) \o pad ELSE pad \o SubSeq(s, 1, length)

(* One conversion: the output and the arguments that are left.  A string    *)
(* argument is a sequence of characters, with <<"NULL">> for a null pointer.*)
Convert(ch, c) ==
  LET arg == Head(c.args)
      s == IF arg = <<"NULL">> THEN <<"(", "n", "u", "l", "l", ")">> ELSE arg
      n == Signed(arg, c.type)
      u == Unsigned(arg, c.type)
  IN CASE ch \in {"d", "i"} -> format_integer(IF n < 0 THEN -n ELSE n, TRUE, n < 0, base_d, c)
       [] ch = "u" -> format_integer(u, FALSE, FALSE, base_d, c)
       [] ch = "o" -> format_integer(u, FALSE, FALSE, base_o, c)
       [] ch = "x" -> format_integer(u, FALSE, FALSE, base_x, c)
       [] ch = "X" -> format_integer(u, FALSE, FALSE, base_X, c)
       [] ch = "c" -> format_string(arg, 1, c)
       [] ch = "s" -> format_string(s, IF 0 <= c.precision /\ c.precision < Len(s)
                                       THEN c.precision ELSE Len(s), c)
       [] ch = "p" -> format_integer(arg, FALSE, FALSE, base_x, [c EXCEPT !.flags = {"#"}])

(* The output of __vprintf from format character i on. *)
RECURSIVE __vprintf(_, _, _)
__vprintf(s, i, args) ==
  IF s[i] = EndOfFormat THEN <<>>
  ELSE IF s[i] # "%" THEN <<s[i]>> \o __vprintf(s, i + 1, args)
  ELSE IF s[i + 1] = "%" THEN <<"%">> \o __vprintf(s, i + 2, args)
  ELSE LET c == parse_conversion(s, i + 1, args)
           ch == s[c.at]
       IN IF ch \in {"d", "i", "u", "o", "x", "X", "c", "s", "p"}
          THEN Convert(ch, c) \o __vprintf(s, c.at + 1, Tail(c.args))
          ELSE <<"<", "<", ch, ">", ">">> \o __vprintf(s, c.at + 1, c.args)

(* The helper counts every character and stores those that fit. *)
RECURSIVE Store(_, _, _, _)
Store(buf, out, length, max_length) ==
  IF length = Len(out) THEN [buf |-> buf, length |-> length]
  ELSE Store(IF length < max_length THEN [buf EXCEPT ![length + 1] = out[length + 1]] ELSE buf,
             out, length + 1, max_length)

vsnprintf(buffer, buf_size, out) ==
  LET max_length == IF buf_size > 0 THEN buf_size - 1 ELSE 0
      r == Store(buffer, out, 0, max_length)
      p == IF r.length < max_length THEN r.length ELSE max_length
  IN [r EXCEPT !.buf = IF buf_size > 0 THEN [@ EXCEPT ![p + 1] = "NUL"] ELSE @]

-----------------------------------------------------------------------------
(* One line of hex_dump per turn: its offset, the empty columns before the  *)
(* first byte, and the bytes.                                               *)
RECURSIVE hex_dump(_, _)
hex_dump(ofs, buf) ==
  IF buf = <<>> THEN <<>>
  ELSE LET start == ofs % PerLine
           end == IF PerLine - start > Len(buf) THEN start + Len(buf) ELSE PerLine
           n == end - start
       IN <<[ofs |-> ofs - start, empty |-> start, bytes |-> SubSeq(buf, 1, n)]>>
          \o hex_dump(ofs + n, SubSeq(buf, n + 1, Len(buf)))

(* The number printed and the index of its unit: bytes, kB, MB, GB, TB. *)
RECURSIVE print_human_readable_size(_, _)
print_human_readable_size(size, fp) ==
  IF size >= Kilo /\ fp < 4 THEN print_human_readable_size(size \div Kilo, fp + 1)
  ELSE [n |-> size, unit |-> fp]

-----------------------------------------------------------------------------
Types == DOMAIN Bits
TypeChars == [t \in Types |-> CASE t = "hh" -> <<"h", "h">> [] t = "ll" -> <<"l", "l">>
                                [] t = "int" -> <<>> [] OTHER -> <<t>>]
Flags == {"-", "+", " ", "#", "0", "'"}
RECURSIVE Listed(_)
Listed(S) == IF S = {} THEN <<>> ELSE LET x == CHOOSE x \in S : TRUE IN <<x>> \o Listed(S \ {x})

(* A conversion of an integer: its flags, the width and the precision, each *)
(* absent, a digit or an argument, and the type.                            *)
IntFormat(flags, width, precision, type, ch) ==
  <<"%">> \o Listed(flags)
  \o (IF width = "none" THEN <<>> ELSE <<width>>)
  \o (IF precision = "none" THEN <<>> ELSE <<".", precision>>)
  \o TypeChars[type] \o <<ch, EndOfFormat>>

EnterInteger(flags, width, precision, type, ch, arg, star) ==
  Enter("printf",
        [flags |-> flags, width |-> width, precision |-> precision, type |-> type, ch |-> ch,
         arg |-> arg, star |-> star],
        __vprintf(IntFormat(flags, width, precision, type, ch), 1,
                  (IF width = "*" THEN <<star>> ELSE <<>>)
                  \o (IF precision = "*" THEN <<star>> ELSE <<>>) \o <<arg>>))

FormatCalls ==
  \/ \E flags \in SUBSET Flags, width \in {"none", "5", "*"}, precision \in {"none", "0", "4", "9"},
       ch \in {"d", "o", "x"}, arg \in Raw["int"] :
       EnterInteger(flags, width, precision, "int", ch, arg, -6)
  \/ \E type \in Types, ch \in {"i", "u", "X"}, precision \in {"none", "*"} :
       \E arg \in Raw[type] : EnterInteger({}, "none", precision, type, ch, arg, -1)
  \/ \E n \in 0 .. 4, width \in 0 .. 4, precision \in 0 .. 5, minus \in BOOLEAN, size \in 0 .. 7 :
       LET fmt == <<"<", "%">> \o (IF minus THEN <<"-">> ELSE <<>>)
                  \o <<DigitChars[width + 1], ".", DigitChars[precision + 1], "s", ">", EndOfFormat>>
       IN Enter("snprintf",
                [n |-> n, width |-> width, precision |-> precision, minus |-> minus, size |-> size],
                vsnprintf(Dup("z", 8), size, __vprintf(fmt, 1, <<Dup("a", n)>>)))
  \/ LET fmt == <<"%", "%", "%", "3", "c", "%", "p", "%", "f", "%", "s", EndOfFormat>>
     IN Enter("mixed", fmt, __vprintf(fmt, 1, <<<<"c">>, 26, <<"NULL">>>>))
  \/ \E ofs \in 0 .. PerLine, n \in 0 .. 2 * PerLine :
       Enter("hex_dump", [ofs |-> ofs, n |-> n], hex_dump(ofs, [i \in 1 .. n |-> i]))
  \/ \E size \in 0 .. Kilo ^ 5 :
       Enter("print_human_readable_size", size, print_human_readable_size(size, 0))

-----------------------------------------------------------------------------
(* The number that a sequence of digits and commas denotes. *)
RECURSIVE Denotes(_, _)
Denotes(s, b) ==
  IF s = <<>> THEN 0
  ELSE LET last == s[Len(s)]  init == SubSeq(s, 1, Len(s) - 1)
       IN IF last = "," THEN Denotes(init, b)
          ELSE (CHOOSE i \in 0 .. b.base - 1 : b.digits[i + 1] = last) + b.base * Denotes(init, b)

MaxOf(x, y) == IF x > y THEN x ELSE y
MinOf(x, y) == IF x < y THEN x ELSE y

NaturalDigits(v, base) == CHOOSE n \in 0 .. 20 : base ^ n > v /\ (n = 0 \/ base ^ (n - 1) <= v)

(* How many digits the C standard gives the number: no zero in front but    *)
(* for the precision, which also counts the commas and goes as far as the   *)
(* buffer does, or "#" with octal.                                          *)
DigitCount(v, base, precision, commas, octal_zero) ==
  LET natural == NaturalDigits(v, base)
      n == MaxOf(natural, MinOf(IF precision < 0 THEN 1 ELSE precision, BufSize - 1) - commas)
  IN IF octal_zero /\ n = natural THEN n + 1 ELSE n

(* An integer conversion: out is spaces, a sign, 0x, digits and spaces; the *)
(* digits denote the value, there are as many as wanted, groups are         *)
(* separated from the right, and the field has exactly its width unless the *)
(* number is longer, filled on the left, with zeros, or on the right.       *)
IntegerRight(out, a) ==
  LET signed == a.ch \in {"d", "i"}
      v == IF signed THEN Signed(a.arg, a.type) ELSE Unsigned(a.arg, a.type)
      b == CASE a.ch = "o" -> base_o [] a.ch = "x" -> base_x [] a.ch = "X" -> base_X [] OTHER -> base_d
      abs == IF v < 0 THEN -v ELSE v
      width == CASE a.width = "none" -> 0 [] a.width = "*" -> 6 [] OTHER -> 5
      precision == CASE a.precision \in {"none", "*"} -> -1 [] OTHER -> DigitValue(a.precision)
      left == "-" \in a.flags \/ a.width = "*"
      zeros == "0" \in a.flags /\ ~left /\ precision < 0
      sign == CASE ~signed -> <<>> [] v < 0 -> <<"-">> [] "+" \in a.flags -> <<"+">>
                [] " " \in a.flags -> <<" ">> [] OTHER -> <<>>
      x == IF "#" \in a.flags /\ b.x # "none" /\ v # 0 THEN <<"0", b.x>> ELSE <<>>
      groups == IF "'" \in a.flags /\ abs > 0 THEN (NaturalDigits(abs, b.base) - 1) \div b.group ELSE 0
      wanted == DigitCount(abs, b.base, precision, groups, "#" \in a.flags /\ b.base = 8)
  IN \E pre, post \in 0 .. Len(out) :
       LET digits == SubSeq(out, pre + Len(sign) + Len(x) + 1, Len(out) - post)
           commas == {i \in 1 .. Len(digits) : digits[i] = ","}
           n == Len(digits) - Cardinality(commas)
           Right(i) == Cardinality({j \in i + 1 .. Len(digits) : digits[j] # ","})
       IN /\ pre + post <= Len(out) - Len(sign) - Len(x)
          /\ out = Dup(" ", pre) \o sign \o x \o digits \o Dup(" ", post)
          /\ \A i \in 1 .. Len(digits) : digits[i] \in {b.digits[k] : k \in 1 .. b.base} \cup {","}
          /\ Denotes(digits, b) = abs
          /\ Len(out) = MaxOf(width, Len(out) - pre - post - (IF zeros THEN n - wanted ELSE 0))
          /\ pre > 0 => ~left /\ ~zeros
          /\ post > 0 => left
          /\ IF zeros THEN n >= wanted ELSE n = wanted
          /\ Cardinality(commas) = groups /\ \A i \in commas : i > 1 /\ Right(i) % b.group = 0

(* A negative width given as an argument sets "-" after "0" has been looked *)
(* at: format_integer then pads on both sides.                              *)
PadsTwice(a) == a.width = "*" /\ a.precision = "none" /\ "0" \in a.flags /\ "-" \notin a.flags

(* printf writes what its format and arguments ask for, for every           *)
(* combination of flags, width, precision and type, but for a negative "*"  *)
(* width with the flag "0"; snprintf stores as much as fits with a null     *)
(* terminator, leaves the rest of the buffer alone and returns the length   *)
(* it would have had; hex_dump prints every byte once in the column of its  *)
(* address; sizes are rounded down to a unit they fit.                      *)
FormatRight ==
  LET f == call.fn  a == call.args IN
  /\ f = "printf" /\ ~PadsTwice(a) => IntegerRight(ret, a)
  /\ f = "snprintf" =>
       LET text == Dup("a", MinOf(a.n, a.precision))
           pad == Dup(" ", MaxOf(a.width - Len(text), 0))
           out == <<"<">> \o (IF a.minus THEN text \o pad ELSE pad \o text) \o <<">">>
           n == MinOf(Len(out), a.size - 1)
       IN /\ ret.length = Len(out)
          /\ ret.buf = IF a.size = 0 THEN Dup("z", 8)
                       ELSE SubSeq(out, 1, n) \o <<"NUL">> \o Dup("z", 7 - n)
  /\ f = "mixed" =>
       ret = <<"%", " ", " ", "c", "0", "x", "1", "a", "<", "<", "f", ">", ">",
               "(", "n", "u", "l", "l", ")">>
  /\ f = "hex_dump" =>
       \A i \in 1 .. a.n : Cardinality({<<l, c>> \in (1 .. Len(ret)) \X (1 .. PerLine) :
           /\ ret[l].ofs % PerLine = 0 /\ c > ret[l].empty /\ c <= ret[l].empty + Len(ret[l].bytes)
           /\ ret[l].ofs + c - 1 = a.ofs + i - 1 /\ ret[l].bytes[c - ret[l].empty] = i}) = 1
  /\ f = "print_human_readable_size" =>
       /\ ret.n * Kilo ^ ret.unit <= a /\ a < (ret.n + 1) * Kilo ^ ret.unit
       /\ ret.n < Kilo \/ ret.unit = 4
       /\ ret.unit > 0 => ret.n > 0
=============================================================================
