----------------------------- MODULE JsonRead -----------------------------
(***************************************************************************)
(* cJSON's reader: from a text to a tree of nodes, one function per        *)
(* function of the code, out of the pieces of JsonScan.  The functions     *)
(* that call one another take as `items` what reads the items of a list.   *)
(***************************************************************************)
EXTENDS JsonScan

CONSTANT Nesting \* CJSON_NESTING_LIMIT

\* A list in the middle of being read: where, its first item and its last one.
Unfinished == [at : ParseBuffer, kind : {"array", "object"}, head : Pointer, last : Pointer]

\* Mutant: the items read so far stay behind.
GiveUp_Keeps(b, first) == Fail(b)

GiveUp(b, first) == [Fail(b) EXCEPT !.heap = Delete(@, first)]

Opening(kind) == IF kind = "array" THEN 91 ELSE 123
Closing(kind) == IF kind = "array" THEN 93 ELSE 125

\* An empty list has no first item.
ListInside(t, items, b, kind) ==
  IF Look(t, b) = Closing(kind) THEN [b EXCEPT !.head = NULL]
  ELSE items[[at |-> Skip(b, -1), kind |-> kind, head |-> NULL, last |-> NULL]]

ListClosed(b, n, kind) ==
  IF ~b.ok THEN b
  ELSE [Skip(b, 1) EXCEPT !.depth = @ - 1, !.heap[n].kind = kind, !.heap[n].child = b.head]

\* What parse_array and parse_object have in common.
parse_list(t, items, b, n, kind) ==
  LET inside == buffer_skip_whitespace(t, Skip([b EXCEPT !.depth = @ + 1], 1))
  IN IF b.depth >= Nesting THEN Fail(b)
     ELSE IF ~Can(t, inside) THEN Fail(Skip(inside, -1))
     ELSE ListClosed(ListInside(t, items, inside, kind), n, kind)

parse_array(t, items, b, n) == parse_list(t, items, b, n, "array")
parse_object(t, items, b, n) == parse_list(t, items, b, n, "object")

parse_literal(b, n, word) == [Skip(b, Len(Str(word))) EXCEPT !.heap[n].kind = word]

parse_value(t, items, b, n) ==
  IF StartsWith(t, b, Str("null")) THEN parse_literal(b, n, "null")
  ELSE IF StartsWith(t, b, Str("false")) THEN parse_literal(b, n, "false")
  ELSE IF StartsWith(t, b, Str("true")) THEN parse_literal(b, n, "true")
  ELSE CASE Look(t, b) = Quote -> parse_string(t, b, n)
         [] Look(t, b) \in {45} \cup 48..57 -> parse_number(t, b, n)
         [] Look(t, b) = Opening("array") -> parse_array(t, items, b, n)
         [] Look(t, b) = Opening("object") -> parse_object(t, items, b, n)
         [] OTHER -> Fail(b)

\* White space behind a value, where it is to be skipped.
SkipBehind(t, value, wanted) ==
  IF value.ok /\ wanted THEN buffer_skip_whitespace(t, value) ELSE value

ItemValue(t, items, name, n) ==
  IF ~name.ok THEN name ELSE SkipBehind(t, parse_value(t, items, name, n), TRUE)

\* What follows the item n of a list: another item or the end.
ItemsBehind(t, items, b, kind, first, n) ==
  IF ~b.ok THEN GiveUp(b, first)
  ELSE IF Look(t, b) = 44 THEN items[[at |-> b, kind |-> kind, head |-> first, last |-> n]]
  ELSE IF Look(t, b) = Closing(kind) THEN [b EXCEPT !.heap[first].prev = n, !.head = first]
  ELSE GiveUp(b, first)

\* One more item after the character at hand, and all that follow it; those
\* read so far are deleted when one cannot be read.
ReadItems(t, items, x) ==
  LET new == New_Item(x.at.heap, "invalid")
      n == new.node
      linked == IF x.head = NULL THEN new.heap ELSE suffix_object(new.heap, x.last, n)
      name == parse_name(t, buffer_skip_whitespace(t, Skip([x.at EXCEPT !.heap = linked], 1)), n, x.kind)
  IN IF n = NULL THEN GiveUp(x.at, x.head)
     ELSE ItemsBehind(t, items, ItemValue(t, items, name, n), x.kind,
                      IF x.head = NULL THEN n ELSE x.head, n)

\* The loops of parse_array and parse_object.
ItemsOf(t) == LET items[x \in Unfinished] == ReadItems(t, items, x) IN items

\* The item, unless reading failed or did not end where it must; then it is deleted.
Parsed(t, n, end, require_null_terminated) ==
  IF end.ok /\ (require_null_terminated => Can(t, end) /\ Look(t, end) = 0)
  THEN [heap |-> end.heap, node |-> n, end |-> end.offset, outside |-> end.outside]
  ELSE [heap |-> Delete(end.heap, n), node |-> NULL,
        end |-> IF end.offset < Len(t) THEN end.offset ELSE Len(t) - 1,
        outside |-> end.outside]

\* The item, NULL if there is none, the heap, and where reading ended.
ParseWithLengthOpts(h, t, require_null_terminated) ==
  LET new == New_Item(h, "invalid")
      start == [heap |-> new.heap, offset |-> 0, depth |-> 0, ok |-> TRUE,
                outside |-> FALSE, head |-> NULL]
      begin == buffer_skip_whitespace(t, skip_utf8_bom(t, start))
      value == parse_value(t, ItemsOf(t), begin, new.node)
  IN IF t = <<>> \/ new.node = NULL
     THEN [heap |-> h, node |-> NULL, end |-> 0, outside |-> FALSE]
     ELSE Parsed(t, new.node, SkipBehind(t, value, require_null_terminated), require_null_terminated)
=============================================================================
