------------------------------ MODULE JsonScan ------------------------------
(***************************************************************************)
(* What cJSON's reader reads at one place of a text: white space, a        *)
(* string with its escapes, a number, the name of a member.  Bytes and     *)
(* characters are their codes; numbers are integers of few digits, strings *)
(* in UTF-8.  JsonRead puts the values together.                           *)
(***************************************************************************)
EXTENDS JsonList

CONSTANT MaxString \* the most bytes there is memory for in one string

ASSUME StringAssumption == MaxString \in Nat

Quote == 34
Backslash == 92

Str(s) ==
  CASE s = "null" -> <<110, 117, 108, 108>>
    [] s = "true" -> <<116, 114, 117, 101>>
    [] s = "false" -> <<102, 97, 108, 115, 101>>

-----------------------------------------------------------------------------
(* Unicode *)

HexValue(c) ==
  IF c \in 48..57 THEN c - 48 ELSE IF c \in 65..70 THEN c - 55
  ELSE IF c \in 97..102 THEN c - 87 ELSE -1

\* The four characters from i on; 0 if one is no digit.
parse_hex4(t, i) ==
  LET d == [k \in 1..4 |-> HexValue(t[i + k])]
  IN IF -1 \in ToSet(d) THEN 0 ELSE ((d[1] * 16 + d[2]) * 16 + d[3]) * 16 + d[4]

\* Mutant: the pairs are taken to begin at 0.
PairValue_FromZero(first, second) == (first % 1024) * 1024 + (second % 1024)

\* The code point of a surrogate pair.
PairValue(first, second) == 65536 + (first % 1024) * 1024 + (second % 1024)

\* The last bytes carry six bits each, the first the rest and a mark.
EncodeUtf8(c) ==
  LET length == IF c < 128 THEN 1 ELSE IF c < 2048 THEN 2 ELSE IF c < 65536 THEN 3 ELSE 4
      mark == <<0, 192, 224, 240>>[length]
      Shifted(i) == c \div <<1, 64, 4096, 262144>>[length - i + 1]
  IN [i \in 1..length |-> IF i = 1 THEN mark + Shifted(1) ELSE 128 + (Shifted(i) % 64)]

\* The bytes of the \u sequence, or pair of them, at i; length 0 if it is none.
utf16_literal_to_utf8(t, i, end) ==
  LET first == parse_hex4(t, i + 2)
      second == parse_hex4(t, i + 8)
      paired == /\ end - (i + 6) >= 6 /\ t[i + 7] = Backslash /\ t[i + 8] = 117
                /\ second \in 56320..57343
  IN IF end - i < 6 \/ first \in 56320..57343 THEN [bytes |-> <<>>, length |-> 0]
     ELSE IF first \notin 55296..56319 THEN [bytes |-> EncodeUtf8(first), length |-> 6]
     ELSE IF paired THEN [bytes |-> EncodeUtf8(PairValue(first, second)), length |-> 12]
     ELSE [bytes |-> <<>>, length |-> 0]

-----------------------------------------------------------------------------
(* Reading: t is the text, b how far it has been read and what was built *)

ParseBuffer ==
  [heap : Heap, offset : Nat, depth : Nat, ok : BOOLEAN, outside : BOOLEAN, head : Pointer]

Can(t, b) == b.offset < Len(t)
Look(t, b) == IF Can(t, b) THEN t[b.offset + 1] ELSE 0
Skip(b, n) == [b EXCEPT !.offset = @ + n]
Fail(b) == [b EXCEPT !.ok = FALSE]
StartsWith(t, b, s) ==
  b.offset + Len(s) <= Len(t) /\ SubSeq(t, b.offset + 1, b.offset + Len(s)) = s

\* A buffer that ends in white space is left with one character to read.
buffer_skip_whitespace(t, b) ==
  LET rest == {i \in b.offset..(Len(t) - 1) : t[i + 1] > 32}
  IN IF ~Can(t, b) THEN b
     ELSE IF rest = {} THEN [b EXCEPT !.offset = Len(t) - 1]
     ELSE [b EXCEPT !.offset = CHOOSE i \in rest : \A j \in rest : i <= j]

skip_utf8_bom(t, b) ==
  IF Len(t) > 4 /\ StartsWith(t, b, <<239, 187, 191>>) THEN Skip(b, 3) ELSE b

\* Where a string ends, Len(t) if nowhere, and how many backslashes it has.
StringEnd(t, i) ==
  LET end[k \in Nat] ==
        IF k >= Len(t) THEN [at |-> Len(t), skipped |-> 0]
        ELSE IF t[k + 1] = Quote THEN [at |-> k, skipped |-> 0]
        ELSE IF t[k + 1] = Backslash THEN [end[k + 2] EXCEPT !.skipped = @ + 1]
        ELSE end[k + 1]
  IN end[i]

EscapeOf(c) ==
  CASE c = 98 -> 8 [] c = 102 -> 12 [] c = 110 -> 10 [] c = 114 -> 13 [] c = 116 -> 9
    [] c \in {Quote, Backslash, 47} -> c
    [] OTHER -> 0

\* The character or escape sequence at i: the bytes it stands for and its
\* length, 0 if it cannot be understood.
Understood(t, i, end) ==
  IF t[i + 1] # Backslash THEN [bytes |-> <<t[i + 1]>>, length |-> 1]
  ELSE IF t[i + 2] = 117 THEN utf16_literal_to_utf8(t, i, end)
  ELSE IF EscapeOf(t[i + 2]) # 0 THEN [bytes |-> <<EscapeOf(t[i + 2])>>, length |-> 2]
  ELSE [bytes |-> <<>>, length |-> 0]

\* The bytes between i and the end, as far as they can be understood.
Unescape(t, i, end) ==
  LET read[k \in Nat] ==
        LET here == Understood(t, k, end)
        IN IF k >= end THEN [at |-> end, out |-> <<>>]
           ELSE IF here.length = 0 THEN [at |-> k, out |-> <<>>]
           ELSE [read[k + here.length] EXCEPT !.out = here.bytes \o @]
  IN read[i]

\* A string ends at its first zero, which a \u sequence may have put there.
CString(s) ==
  LET zero == SelectInSeq(s, LAMBDA c : c = 0)
  IN IF zero = 0 THEN s ELSE SubSeq(s, 1, zero - 1)

\* What parse_string allocates, its zero byte included.
Allocation(b, end) == end.at - b.offset - end.skipped + 1

\* What was read is the value of the item if there was memory for it and all
\* of it was understood; it must fit what was allocated for it.
TakeString(b, n, end, read) ==
  LET allocated == Allocation(b, end)
  IN IF allocated > MaxString THEN [Fail(b) EXCEPT !.offset = @ + 1]
     ELSE IF read.at < end.at THEN [Fail(b) EXCEPT !.offset = read.at]
     ELSE [b EXCEPT !.offset = end.at + 1, !.heap[n].kind = "string", !.heap[n].val = CString(read.out),
                    !.outside = @ \/ Len(read.out) + 1 > allocated]

\* The first character is looked at even where there is none.
parse_string(t, b, n) ==
  LET start == b.offset + 1
      end == StringEnd(t, start)
  IN IF Look(t, b) # Quote \/ end.at = Len(t)
     THEN [Fail(b) EXCEPT !.offset = start, !.outside = @ \/ ~Can(t, b)]
     ELSE TakeString(b, n, end, Unescape(t, start, end.at))

Digits(t, i) ==
  LET stops == {k \in i..Len(t) : k = Len(t) \/ t[k + 1] \notin 48..57}
  IN SubSeq(t, i + 1, CHOOSE k \in stops : \A j \in stops : k <= j)

\* strtod, on integers.
NumberOf(digits) == FoldLeft(LAMBDA v, c : 10 * v + c - 48, 0, digits)

parse_number(t, b, n) ==
  LET minus == IF Look(t, b) = 45 THEN 1 ELSE 0
      digits == Digits(t, b.offset + minus)
      number == NumberOf(digits)
  IN IF digits = <<>> THEN Fail(b)
     ELSE [Skip(b, minus + Len(digits)) EXCEPT
             !.heap[n].kind = "number",
             !.heap[n].val = <<IF minus = 1 THEN -number ELSE number>>]

SkipColon(t, b) ==
  IF ~b.ok THEN b
  ELSE IF Look(t, b) # 58 THEN Fail(b) ELSE buffer_skip_whitespace(t, Skip(b, 1))

\* A name is read as the value of the item.
TakeName(t, b, n) ==
  IF ~b.ok THEN b
  ELSE [buffer_skip_whitespace(t, b) EXCEPT !.heap[n].key = b.heap[n].val,
                                            !.heap[n].val = NoString]

\* The name of a member and the colon; nothing in an array.
parse_name(t, b, n, kind) ==
  IF kind = "array" THEN b ELSE SkipColon(t, TakeName(t, parse_string(t, b, n), n))
=============================================================================
