-------------------------------- MODULE Text --------------------------------
(***************************************************************************)
(* Conversions between numbers, bytes and text: lib/itoa.c, strtol.c,      *)
(* stdlib.c, vsnprintf.c, base64.c, hex.c, and the searches and copies of  *)
(* string.c and its neighbours.  A string is the sequence of the codes of  *)
(* its characters, without the terminator.  int and long keep their signs  *)
(* and their wrap-around but have IntBits and LongBits bits.               *)
(***************************************************************************)
EXTENDS Integers, Sequences, SequencesExt

CONSTANTS IntBits, LongBits, Bases, Widths, Letters, MaxString, SomeBytes, MaxBytes

VARIABLES
  job,       \* the call made: a conversion and its arguments
  outcome,   \* what it returned
  returned   \* whether it has

textVars == <<job, outcome, returned>>

SPACE == 32
PERCENT == 37
PLUS == 43
MINUS == 45
ZERO == 48
EQUALS == 61

Within(c, from, to) == from <= c /\ c <= to
Upper(c) == Within(c, 65, 90)
Lower(c) == Within(c, 97, 122)
Digit(c) == Within(c, 48, 57)
isspace(c) == c \in {32, 9, 10, 13, 12, 11}

\* The length of the longest prefix of s whose characters pass the test
Span(s, Test(_)) ==
  LET i == SelectInSeq(s, LAMBDA c : ~Test(c)) IN IF i = 0 THEN Len(s) ELSE i - 1
Drop(s, n) == SubSeq(s, n + 1, Len(s))
First(s) == IF s = <<>> THEN 0 ELSE s[1]
Signed(v, bits) == ((v + 2 ^ (bits - 1)) % 2 ^ bits) - 2 ^ (bits - 1)

\* The digits of int_to_str_internal, least significant first
RECURSIVE Digits(_, _)
Digits(u, base) ==
  LET d == u % base
      c == IF d < 10 THEN ZERO + d ELSE 97 + d - 10
  IN IF u < base THEN <<c>> ELSE <<c>> \o Digits(u \div base, base)

int_to_str_internal(value, base) ==
  IF ~(2 <= base /\ base <= 36) THEN <<>>
  ELSE IF value < 0 THEN Reverse(Append(Digits(-value, base), MINUS))
  ELSE Reverse(Digits(value, base))

\* A faulty variant: lower-case digits start at the wrong value
digit_value_base(c, base) ==
  LET v == IF Digit(c) THEN c - 48 ELSE IF Lower(c) THEN c - 97 + 9
           ELSE IF Upper(c) THEN c - 65 + 10 ELSE -1
  IN IF v < base THEN v ELSE -1

digit_value(c, base) ==
  LET v == IF Digit(c) THEN c - 48 ELSE IF Lower(c) THEN c - 97 + 10
           ELSE IF Upper(c) THEN c - 65 + 10 ELSE -1
  IN IF v < base THEN v ELSE -1

\* The value of the digits s starts with, and what follows them
Number(s, base, bits) ==
  LET n == Span(s, LAMBDA c : digit_value(c, base) >= 0)
  IN [value |-> FoldLeft(LAMBDA r, c : Signed(r * base + digit_value(c, base), bits),
                         0, SubSeq(s, 1, n)),
      rest |-> Drop(s, n)]

\* strtol, and strtoll; a prefix 0x is skipped in base 0 and in base 16
strtol(str, base) ==
  LET a == Drop(str, Span(str, isspace))
      b == IF First(a) \in {MINUS, PLUS} THEN Tail(a) ELSE a
      hex == First(b) = ZERO /\ Len(b) > 1 /\ b[2] \in {120, 88}
      octal == First(b) = ZERO /\ ~hex
      r == IF base = 0
           THEN IF hex THEN Number(Drop(b, 2), 16, LongBits)
                ELSE IF octal THEN Number(Tail(b), 8, LongBits) ELSE Number(b, 10, LongBits)
           ELSE Number(IF base = 16 /\ hex THEN Drop(b, 2) ELSE b, base, LongBits)
  IN IF First(a) = MINUS THEN [r EXCEPT !.value = Signed(-@, LongBits)] ELSE r

\* strtoul, and strtoull: no sign but +, and no prefix in base 16
strtoul(str, base) ==
  LET a == Drop(str, Span(str, isspace))
      b == IF First(a) = PLUS THEN Tail(a) ELSE a
      r == IF base = 0 THEN strtol(b, 0) ELSE Number(b, base, LongBits)
  IN [r EXCEPT !.value = @ % 2 ^ LongBits]

\* atoi; atol and atoll are the same over long
atoi(s, bits) ==
  LET a == Drop(s, Span(s, LAMBDA c : c \in {SPACE, 9}))
      b == IF First(a) \in {MINUS, PLUS} THEN Tail(a) ELSE a
      v == Number(b, 10, bits).value
  IN IF First(a) = MINUS THEN Signed(-v, bits) ELSE v
-----------------------------------------------------------------------------
Spaces(n) == [i \in 1 .. n |-> SPACE]
Zeros(n) == [i \in 1 .. n |-> ZERO]

\* A faulty variant: the zeros come before the sign
emit_padded_sign_last(str, width, left_align, zero_pad) ==
  LET pad == IF width > Len(str) THEN width - Len(str) ELSE 0
  IN IF left_align THEN str \o Spaces(pad)
     ELSE IF zero_pad THEN Zeros(pad) \o str ELSE Spaces(pad) \o str

emit_padded(str, width, left_align, zero_pad) ==
  LET pad == IF width > Len(str) THEN width - Len(str) ELSE 0
      sign == IF First(str) = MINUS THEN <<MINUS>> ELSE <<>>
  IN IF left_align THEN str \o Spaces(pad)
     ELSE IF zero_pad THEN sign \o Zeros(pad) \o Drop(str, Len(sign))
     ELSE Spaces(pad) \o str

\* What one conversion emits for its argument; l says whether it was read as a long
Converted(conv, arg, l, width, left_align, zero_pad) ==
  LET bits == IF l THEN LongBits ELSE IntBits IN
  CASE conv \in {99, 115} -> emit_padded(arg, width, left_align, FALSE)
    [] conv \in {100, 105} ->
         emit_padded(int_to_str_internal(Signed(arg, bits), 10), width, left_align, zero_pad)
    [] conv = 117 ->
         emit_padded(int_to_str_internal(arg % 2 ^ bits, 10), width, left_align, zero_pad)
    [] conv \in {120, 88} ->
         emit_padded(int_to_str_internal(arg % 2 ^ bits, 16), width, left_align, zero_pad)
    [] conv = 112 ->
         <<ZERO, 120>> \o emit_padded(int_to_str_internal(arg % 2 ^ LongBits, 16),
                                      width, left_align, zero_pad)
    [] conv = PERCENT -> <<PERCENT>>
    [] OTHER -> <<PERCENT, conv>>

\* vsnprintf without a limit: flags, width and length modifier, then the conversion
RECURSIVE Formatted(_, _)
Formatted(fmt, args) ==
  IF fmt = <<>> THEN <<>>
  ELSE IF fmt[1] # PERCENT THEN <<fmt[1]>> \o Formatted(Tail(fmt), args)
  ELSE LET f == Tail(fmt)
           flags == Span(f, LAMBDA c : c \in {MINUS, ZERO})
           digits == Span(Drop(f, flags), Digit)
           g == Drop(f, flags + digits)
           mods == CASE First(g) \in {108, 104} -> IF Len(g) > 1 /\ g[2] = g[1] THEN 2 ELSE 1
                     [] First(g) = 122 -> 1
                     [] OTHER -> 0
           conv == First(Drop(g, mods))
           takes == conv \in {99, 115, 100, 105, 117, 120, 88, 112}
       IN Converted(conv, IF takes THEN Head(args) ELSE 0, First(g) \in {108, 122},
                    atoi(SubSeq(f, flags + 1, flags + digits), 16),
                    Contains(SubSeq(f, 1, flags), MINUS), Contains(SubSeq(f, 1, flags), ZERO))
          \o Formatted(Drop(g, mods + 1), IF takes THEN Tail(args) ELSE args)

\* vsnprintf, and snprintf: emit_char drops what does not fit and is not counted
vsnprintf(size, fmt, args) ==
  LET full == Formatted(fmt, args)
  IN IF size = 0 THEN <<>> ELSE SubSeq(full, 1, IF Len(full) < size THEN Len(full) ELSE size - 1)
-----------------------------------------------------------------------------
g_base64_table ==
  [i \in 0 .. 63 |-> IF i < 26 THEN 65 + i ELSE IF i < 52 THEN 97 + i - 26
                     ELSE IF i < 62 THEN 48 + i - 52 ELSE IF i = 62 THEN 43 ELSE 47]

base64_encoded_size(n) == ((n + 2) \div 3) * 4
base64_decoded_size(s) ==
  LET Pad(i) == IF Len(s) > i /\ s[Len(s) - i] = EQUALS THEN 1 ELSE 0
  IN (Len(s) \div 4) * 3 - (Pad(0) + Pad(1))

RECURSIVE base64_encode(_)
base64_encode(in) ==
  IF in = <<>> THEN <<>>
  ELSE LET at(i) == IF i <= Len(in) THEN in[i] ELSE 0
           val == at(1) * 65536 + at(2) * 256 + at(3)
           out(shift) == g_base64_table[(val \div shift) % 64]
       IN <<out(262144), out(4096), IF Len(in) > 1 THEN out(64) ELSE EQUALS,
            IF Len(in) > 2 THEN out(1) ELSE EQUALS>> \o base64_encode(Drop(in, 3))

base64_value(c) ==
  IF Upper(c) THEN c - 65 ELSE IF Lower(c) THEN c - 97 + 26
  ELSE IF Digit(c) THEN c - 48 + 52 ELSE IF c = 43 THEN 62 ELSE IF c = 47 THEN 63 ELSE -1

\* A faulty variant: the bytes of the padding are kept
Bytes_kept(val, c, d) == <<val \div 65536, (val \div 256) % 256, val % 256>>

\* The bytes four characters stand for, the last two of which may be padding
Bytes(val, c, d) ==
  <<val \div 65536>> \o (IF c >= 0 THEN <<(val \div 256) % 256>> ELSE <<>>)
                     \o (IF d >= 0 THEN <<val % 256>> ELSE <<>>)

\* base64_decode, or <<-1>> when a group does not start with two digits
RECURSIVE base64_decode(_)
base64_decode(s) ==
  IF s = <<>> THEN <<>>
  ELSE LET v == [i \in 1 .. 4 |-> base64_value(s[i])]
           most(i) == IF v[i] >= 0 THEN v[i] ELSE 0
           val == v[1] * 262144 + v[2] * 4096 + most(3) * 64 + most(4)
       IN IF Len(s) % 4 # 0 \/ v[1] < 0 \/ v[2] < 0 THEN <<-1>>
          ELSE Bytes(val, v[3], v[4]) \o base64_decode(Drop(s, 4))

hex_digit(n) == IF n < 10 THEN 48 + n ELSE 97 + n - 10
hex_value(c) == digit_value(c, 16)
hex_encode(in) ==
  FlattenSeq([i \in 1 .. Len(in) |-> <<hex_digit(in[i] \div 16), hex_digit(in[i] % 16)>>])
hex_is_valid(s) == Len(s) % 2 = 0 /\ \A i \in 1 .. Len(s) : hex_value(s[i]) >= 0
hex_decode(s) ==
  IF ~hex_is_valid(s) THEN <<-1>>
  ELSE [i \in 1 .. Len(s) \div 2 |-> 16 * hex_value(s[2 * i - 1]) + hex_value(s[2 * i])]
-----------------------------------------------------------------------------
strcmp(s, t) ==
  LET same == Span([i \in 1 .. Len(s) |-> <<s[i], IF i <= Len(t) THEN t[i] ELSE 0>>],
                   LAMBDA p : p[1] = p[2])
  IN First(Drop(s, same)) - First(Drop(t, same))
strncmp(s, t, n) ==
  LET Cut(x) == SubSeq(x, 1, IF n < Len(x) THEN n ELSE Len(x)) IN strcmp(Cut(s), Cut(t))

\* strstr tries every position that holds a character; 0 is NULL
strstr(s, t) ==
  IF t = <<>> THEN 1
  ELSE SelectInSeq([i \in 1 .. Len(s) |-> strncmp(Drop(s, i - 1), t, Len(t))], LAMBDA c : c = 0)
strchr(s, c) == SelectInSeq(s, LAMBDA x : x = c)
strrchr(s, c) == IF c = 0 THEN Len(s) + 1 ELSE SelectLastInSeq(s, LAMBDA x : x = c)
strspn(s, accept) == Span(s, LAMBDA c : Contains(accept, c))
strcspn(s, reject) == Span(s, LAMBDA c : ~Contains(reject, c))

\* A faulty variant: always from the front
memmove_forward(mem, d, s, n) ==
  FoldLeft(LAMBDA m, i : [m EXCEPT ![d + i] = m[s + i]], mem, [i \in 1 .. n |-> i - 1])

\* memmove copies from the front when dest is below src, else from the back
memmove(mem, d, s, n) ==
  FoldLeft(LAMBDA m, i : [m EXCEPT ![d + i] = m[s + i]], mem,
           [i \in 1 .. n |-> IF d < s THEN i - 1 ELSE n - i])
-----------------------------------------------------------------------------
Strings == BoundedSeq(Letters, MaxString)
Numbers == -(2 ^ (LongBits - 1)) .. 2 ^ (LongBits - 1) - 1
Formats == [value : Numbers, width : Widths, left : BOOLEAN, zero : BOOLEAN,
            conv : {100, 117, 120}, l : BOOLEAN, size : {0, 1, 4, 20}]
Fmt(f) ==
  <<65, PERCENT>> \o (IF f.left THEN <<MINUS>> ELSE <<>>) \o (IF f.zero THEN <<ZERO>> ELSE <<>>)
    \o (IF f.width = 0 THEN <<>> ELSE Reverse(Digits(f.width, 10)))
    \o (IF f.l THEN <<108>> ELSE <<>>) \o <<f.conv>>

Jobs ==
  {[op |-> "itoa", v |-> v, base |-> b] : v \in Numbers, b \in Bases}
    \cup {[op |-> "codec", bytes |-> s] : s \in BoundedSeq(SomeBytes, MaxBytes)}
    \cup {[op |-> "search", s |-> s, t |-> t] : s \in Strings, t \in Strings}
    \cup {[op |-> "move", d |-> d, s |-> s, n |-> n] : d \in 1 .. 3, s \in 1 .. 3, n \in 0 .. 3}
    \cup [op : {"printf"}, f : Formats]

TextInit(jobs) == job \in jobs /\ outcome = <<>> /\ returned = FALSE

TextNext ==
  /\ ~returned /\ returned' = TRUE
  /\ outcome' =
       CASE job.op = "itoa" -> int_to_str_internal(job.v, job.base)
         [] job.op = "codec" -> <<base64_encode(job.bytes), hex_encode(job.bytes)>>
         [] job.op = "search" -> <<strstr(job.s, job.t), strcmp(job.s, job.t),
                                   strspn(job.s, job.t), strcspn(job.s, job.t)>>
         [] job.op = "move" -> memmove([i \in 1 .. 6 |-> i], job.d, job.s, job.n)
         [] job.op = "printf" -> vsnprintf(job.f.size, Fmt(job.f), <<job.f.value>>)
  /\ UNCHANGED job
-----------------------------------------------------------------------------
Done(op) == returned /\ job.op = op

(* Every number a long holds, the smallest included, written in any base   *)
(* by int_to_str_internal is read back by strtol, and in base 10 by atoi;  *)
(* nothing of the text is left over.                                       *)
NumbersReadBack ==
  Done("itoa") => /\ strtol(outcome, job.base) = [value |-> job.v, rest |-> <<>>]
                  /\ job.base = 10 => atoi(outcome, LongBits) = job.v
                  /\ job.v >= 0 => strtoul(outcome, job.base).value = job.v

(* A formatted number fills its field exactly, can be read back whatever   *)
(* its padding, sign and length modifier, and a buffer that is too small   *)
(* holds the beginning of it.                                              *)
FormatsReadBack ==
  Done("printf") =>
    LET f == job.f
        full == Formatted(Fmt(f), <<f.value>>)
        field == Tail(full)
        bits == IF f.l THEN LongBits ELSE IntBits
        base == IF f.conv = 120 THEN 16 ELSE 10
        value == IF f.conv = 100 THEN Signed(f.value, bits) ELSE f.value % 2 ^ bits
        text == int_to_str_internal(value, base)
    IN /\ Len(field) = IF f.width > Len(text) THEN f.width ELSE Len(text)
       /\ strtol(field, base).value = Signed(value, LongBits)
       /\ f.left => IsPrefix(text, field)
       /\ IsPrefix(outcome, full)
       /\ Len(outcome) = IF Len(full) < f.size THEN Len(full) ELSE IF f.size = 0 THEN 0 ELSE f.size - 1

(* Bytes encoded in base64 or in hexadecimal are decoded to the same bytes *)
(* for every length and padding, and the size functions say exactly how    *)
(* long the text and the bytes are.                                        *)
CodecsInvert ==
  Done("codec") =>
    /\ base64_decode(outcome[1]) = job.bytes /\ hex_decode(outcome[2]) = job.bytes
    /\ base64_encoded_size(Len(job.bytes)) = Len(outcome[1])
    /\ base64_decoded_size(outcome[1]) = Len(job.bytes)

(* strstr finds the first occurrence, strcmp orders as dictionaries do,    *)
(* strspn and strcspn count the longest prefix, and memmove copies         *)
(* overlapping regions as through a buffer.                                *)
SearchesAndCopies ==
  /\ Done("search") =>
       LET s == job.s
           t == job.t
           Found == {i \in 1 .. Len(s) : IsPrefix(t, Drop(s, i - 1))}
           Less(x, y) == \E i \in 0 .. Len(x) : /\ IsPrefix(SubSeq(x, 1, i), y) /\ i < Len(y)
                                                /\ i = Len(x) \/ x[i + 1] < y[i + 1]
       IN /\ IF t = <<>> THEN outcome[1] = 1
             ELSE IF Found = {} THEN outcome[1] = 0
             ELSE outcome[1] \in Found /\ \A i \in Found : outcome[1] <= i
          /\ outcome[2] = 0 <=> s = t
          /\ outcome[2] < 0 <=> Less(s, t)
          /\ \A i \in 0 .. Len(s) :
               /\ outcome[3] >= i <=> ToSet(SubSeq(s, 1, i)) \subseteq ToSet(t)
               /\ outcome[4] >= i <=> ToSet(SubSeq(s, 1, i)) \cap ToSet(t) = {}
  /\ Done("move") =>
       \A i \in 1 .. 6 : outcome[i] = IF Within(i, job.d, job.d + job.n - 1)
                                      THEN job.s + i - job.d ELSE i

(* Every conversion, search and copy of lib gives what its reference says. *)
TextAgrees == NumbersReadBack /\ FormatsReadBack /\ CodecsInvert /\ SearchesAndCopies
=============================================================================
