----------------------------- MODULE JsonPrint -----------------------------
(***************************************************************************)
(* cJSON's printer: from a tree of nodes to a text in a buffer, out of the *)
(* pieces of JsonBuffer.  The functions that call one another take as      *)
(* `items` what prints the items of a list.                                *)
(***************************************************************************)
EXTENDS JsonBuffer

\* A list in the middle of being printed: to what buffer, from what item on.
Unprinted == [to : PrintBuffer, kind : {"array", "object"}, from : Node]

\* The items of a list, between its brackets.
print_list(h, items, p, n, kind) ==
  IF h[n].child = NULL THEN p ELSE items[[to |-> p, kind |-> kind, from |-> h[n].child]]

print_array(h, items, p, n) == close_array(print_list(h, items, open_array(p), n, "array"))
print_object(h, items, p, n) == close_object(print_list(h, items, open_object(p), n, "object"))

print_value(h, items, p, n) ==
  IF ~p.ok THEN p
  ELSE CASE h[n].kind = "null" -> print_literal(p, <<110, 117, 108, 108>>)
         [] h[n].kind = "false" -> print_literal(p, <<102, 97, 108, 115, 101>>)
         [] h[n].kind = "true" -> print_literal(p, <<116, 114, 117, 101>>)
         [] h[n].kind = "number" -> print_number(p, h[n].val[1])
         [] h[n].kind = "raw" -> print_raw(p, h[n].val)
         [] h[n].kind = "string" -> print_string_ptr(p, h[n].val)
         [] h[n].kind = "array" -> print_array(h, items, p, n)
         [] h[n].kind = "object" -> print_object(h, items, p, n)
         [] OTHER -> Fails(p)

\* An element and, if another follows, a comma.
print_element(h, items, p, n) ==
  LET value == update_offset(print_value(h, items, p, n))
  IN IF h[n].next = NULL THEN value ELSE print_comma(value)

\* The name and the value of a member.
print_member(h, items, p, n) ==
  LET name == update_offset(print_string_ptr(print_indent(p), h[n].key))
      value == update_offset(print_value(h, items, print_colon(name), n))
  IN end_member(value, h[n].next = NULL)

\* One item and all that follow it.
PrintItems(h, items, x) ==
  LET p == IF x.kind = "array" THEN print_element(h, items, x.to, x.from)
           ELSE print_member(h, items, x.to, x.from)
      next == h[x.from].next
  IN IF next = NULL THEN p ELSE items[[x EXCEPT !.to = p, !.from = next]]

\* The loops of print_array and print_object.
ItemsIn(h) == LET items[x \in Unprinted] == PrintItems(h, items, x) IN items

\* cJSON_Print, cJSON_PrintUnformatted and cJSON_PrintBuffered: into a buffer
\* of some length to begin with.
PrintItem(h, n, length, format) ==
  update_offset(print_value(h, ItemsIn(h), Buffer(length, FALSE, format), n))

\* cJSON_PrintPreallocated: into a buffer of the caller's.
PrintPreallocated(h, n, length, format) ==
  print_value(h, ItemsIn(h), Buffer(length, TRUE, format), n)

\* The string in a buffer.
Printed(p) == SubSeq(p.mem, 1, SelectInSeq(p.mem, LAMBDA c : c = 0) - 1)
=============================================================================
