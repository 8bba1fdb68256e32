----------------------------- MODULE JsonBuffer -----------------------------
(***************************************************************************)
(* The buffer cJSON prints to, which grows or, given by the caller, does   *)
(* not, and the values that are printed in one piece.  A buffer is a       *)
(* record: its bytes, -1 where none was written yet, the offset, the       *)
(* nesting depth, if printing went well, and if anything was written or    *)
(* read behind the end.                                                    *)
(***************************************************************************)
EXTENDS JsonList

Garbage(n) == [i \in 1..n |-> -1]

Buffer(length, noalloc, format) ==
  [mem |-> Garbage(length), offset |-> 0, depth |-> 0, noalloc |-> noalloc,
   format |-> format, ok |-> TRUE, outside |-> FALSE]

PrintBuffer == [mem : Seq(Int), offset : Nat, depth : Nat, noalloc : BOOLEAN, format : BOOLEAN,
                ok : BOOLEAN, outside : BOOLEAN]

Fails(p) == [p EXCEPT !.ok = FALSE]

\* Mutant: a buffer of the caller's is thought to grow.
ensure_Grows(p, needed) ==
  LET length == Len(p.mem)
      all == p.offset + needed + 1
  IN IF length > 0 /\ p.offset >= length THEN Fails(p)
     ELSE IF all <= length \/ p.noalloc THEN p
     ELSE [p EXCEPT !.mem = @ \o Garbage(2 * all - length)]

\* The buffer grows to twice what is needed.
ensure(p, needed) ==
  LET length == Len(p.mem)
      all == p.offset + needed + 1
  IN IF length > 0 /\ p.offset >= length THEN Fails(p)
     ELSE IF all <= length THEN p
     ELSE IF p.noalloc THEN Fails(p)
     ELSE [p EXCEPT !.mem = @ \o Garbage(2 * all - length)]

\* Bytes at the offset, which moves on by n; nothing if printing has failed.
Write(p, s, n) ==
  IF ~p.ok THEN p
  ELSE [p EXCEPT !.mem = [i \in DOMAIN @ |-> IF i - p.offset \in DOMAIN s THEN s[i - p.offset]
                                             ELSE @[i]],
                 !.offset = @ + n,
                 !.outside = @ \/ p.offset + Len(s) > Len(p.mem)]

\* To the zero that ends what was printed.
update_offset(p) ==
  LET ends == {i \in (p.offset + 1)..Len(p.mem) : p.mem[i] = 0}
  IN IF ~p.ok THEN p
     ELSE IF ends = {} THEN [p EXCEPT !.outside = TRUE]
     ELSE [p EXCEPT !.offset = (CHOOSE i \in ends : \A j \in ends : i <= j) - 1]

-----------------------------------------------------------------------------
(* Values of one piece *)

HexDigit(d) == IF d < 10 THEN 48 + d ELSE 87 + d

\* The characters a character is printed as.
Escaped(c) ==
  CASE c \in {34, 92} -> <<92, c>>
    [] c = 8 -> <<92, 98>> [] c = 12 -> <<92, 102>> [] c = 10 -> <<92, 110>>
    [] c = 13 -> <<92, 114>> [] c = 9 -> <<92, 116>>
    [] c \in (1..31) \ {8, 9, 10, 12, 13} ->
         <<92, 117, 48, 48, HexDigit(c \div 16), HexDigit(c % 16)>>
    [] OTHER -> <<c>>

\* The offset stays in front: update_offset moves it.
print_string_ptr(p, s) ==
  LET out == IF s = NoString THEN <<>> ELSE FlattenSeq([i \in DOMAIN s |-> Escaped(s[i])])
  IN Write(ensure(p, Len(out) + 3), <<34>> \o out \o <<34, 0>>, 0)

print_raw(p, s) ==
  IF s = NoString THEN Fails(p) ELSE Write(ensure(p, Len(s) + 1), Append(s, 0), 0)

print_literal(p, s) == Write(ensure(p, Len(s) + 1), Append(s, 0), 0)

\* The digits of a number, as printf writes them.
Decimal(n) ==
  LET digits[m \in Nat] == IF m < 10 THEN <<48 + m>> ELSE Append(digits[m \div 10], 48 + (m % 10))
  IN IF n < 0 THEN <<45>> \o digits[-n] ELSE digits[n]

\* A number, whose digits are s, moves the offset itself.
print_digits(p, s) == Write(ensure(p, Len(s) + 1), Append(s, 0), Len(s))
print_number(p, n) == print_digits(p, Decimal(n))

-----------------------------------------------------------------------------
(* What is printed around the elements of an array *)

open_array(p) == [Write(ensure(p, 1), <<91>>, 1) EXCEPT !.depth = @ + 1]

print_comma(p) ==
  LET comma == IF p.format THEN <<44, 32>> ELSE <<44>>
  IN Write(ensure(p, Len(comma) + 1), Append(comma, 0), Len(comma))

close_array(p) == [Write(ensure(p, 2), <<93, 0>>, 0) EXCEPT !.depth = @ - 1]

-----------------------------------------------------------------------------
(* What is printed around the members of an object, each on a line of its  *)
(* own and indented if formatted                                           *)

Tabs(n) == [i \in 1..n |-> 9]

open_object(p) ==
  LET brace == IF p.format THEN <<123, 10>> ELSE <<123>>
  IN [Write(ensure(p, Len(brace) + 1), brace, Len(brace)) EXCEPT !.depth = @ + 1]

print_indent(p) == IF p.format THEN Write(ensure(p, p.depth), Tabs(p.depth), p.depth) ELSE p

print_colon(p) ==
  LET colon == IF p.format THEN <<58, 9>> ELSE <<58>>
  IN Write(ensure(p, Len(colon)), colon, Len(colon))

end_member(p, last) ==
  LET end == (IF last THEN <<>> ELSE <<44>>) \o (IF p.format THEN <<10>> ELSE <<>>)
  IN Write(ensure(p, Len(end) + 1), Append(end, 0), Len(end))

close_object(p) ==
  LET close == IF p.format THEN Tabs(p.depth - 1) ELSE <<>>
  IN [Write(ensure(p, IF p.format THEN p.depth + 1 ELSE 2), close \o <<125, 0>>, 0) EXCEPT !.depth = @ - 1]
=============================================================================
