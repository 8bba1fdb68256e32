----------------------------- MODULE JsonHeap -----------------------------
(***************************************************************************)
(* The functions of cJSON that go through the lists and trees JsonList     *)
(* links: they find, copy and sort items.                          *)
(***************************************************************************)
EXTENDS JsonList

-----------------------------------------------------------------------------
(* Finding, adding and removing *)

RECURSIVE Chain(_, _)
Chain(h, n) == IF n = NULL THEN <<>> ELSE <<n>> \o Chain(h, h[n].next)

Kids(h, n) == IF n = NULL THEN <<>> ELSE Chain(h, h[n].child)

get_array_item(h, array, which) ==
  LET s == Kids(h, array) IN IF which + 1 \in DOMAIN s THEN s[which + 1] ELSE NULL

\* The case-sensitive search ends at a child without a name, the other not.
get_object_item(h, object, name, sensitive) ==
  LET s == Kids(h, object)
      i == SelectInSeq(s, LAMBDA e : \/ sensitive /\ h[e].key = NoString
                                     \/ SameKey(name, h[e].key, sensitive))
  IN IF name = NoString \/ i = 0 THEN NULL
     ELSE IF h[s[i]].key = NoString THEN NULL ELSE s[i]

DeleteItem(h, parent, item) ==
  IF item = NULL THEN h ELSE Delete(DetachItemViaPointer(h, parent, item), item)

InsertItemInArray(h, array, which, newitem) ==
  LET item == get_array_item(h, array, which)
  IN IF item = NULL THEN AddItemToArray(h, array, newitem)
     ELSE InsertBefore(h, array, item, newitem)

\* Where the parent has no children, the item is NULL or the replacement
\* itself, nothing is done.
ReplaceItemViaPointer(h, parent, item, new) ==
  IF item \in {NULL, new} \/ h[parent].child = NULL THEN h
  ELSE Delete(ReplaceLinks(h, parent, item, new), item)

-----------------------------------------------------------------------------
(* Copies *)

RECURSIVE Duplicate(_, _, _), DuplicateKids(_, _, _, _)

\* Without memory for a node, all that was copied is deleted.
Duplicate(h, item, recurse) ==
  LET new == New_Item(h, h[item].kind)
      n == new.node
      copy == [new.heap EXCEPT ![n].val = h[item].val, ![n].key = h[item].key]
  IN IF n = NULL THEN new
     ELSE IF recurse THEN DuplicateKids(copy, n, NULL, h[item].child)
     ELSE [heap |-> copy, node |-> n]

DuplicateKids(h, n, last, item) ==
  IF item = NULL THEN [heap |-> CloseList(h, n, last), node |-> n]
  ELSE LET new == Duplicate(h, item, TRUE)
       IN IF new.node = NULL THEN [heap |-> Delete(new.heap, n), node |-> NULL]
          ELSE DuplicateKids(LinkNext(new.heap, n, last, new.node), n, new.node, h[item].next)

\* cJSON_CreateIntArray and the like: an array of `count` items of a kind.
RECURSIVE CreateItems(_, _, _, _, _)
CreateItems(h, a, last, kind, count) ==
  IF count = 0 THEN [heap |-> CloseList(h, a, last), node |-> a]
  ELSE LET new == New_Item(h, kind)
       IN IF new.node = NULL THEN [heap |-> Delete(h, a), node |-> NULL]
          ELSE CreateItems(LinkNext(new.heap, a, last, new.node), a, new.node, kind, count - 1)

CreateArrayOf(h, kind, count) ==
  LET a == New_Item(h, "array")
  IN IF a.node = NULL THEN a ELSE CreateItems(a.heap, a.node, NULL, kind, count)

-----------------------------------------------------------------------------
(* cJSON_Utils: merge sort of the members of an object *)

\* The first item of the two lists with the smaller key, the second list's on
\* a tie, goes to the end of the result.
RECURSIVE Merge(_, _, _, _, _, _)
Merge(h, first, second, result, tail, sensitive) ==
  LET one == IF second = NULL THEN first
             ELSE IF first = NULL THEN second
             ELSE IF KeyPrecedes(h[first].key, h[second].key, sensitive) THEN first ELSE second
      linked == IF result = NULL THEN h ELSE suffix_object(h, tail, one)
      head == IF result = NULL THEN one ELSE result
  IN IF first = NULL \/ second = NULL THEN [heap |-> linked, node |-> head]
     ELSE IF one = first THEN Merge(linked, h[first].next, second, head, one, sensitive)
     ELSE Merge(linked, first, h[second].next, head, one, sensitive)

\* A list in strictly ascending order is left alone; another is cut behind its
\* first half.  The prev of the first item is not set again at the end.
RECURSIVE sort_list(_, _, _)
sort_list(h, list, sensitive) ==
  LET s == Chain(h, list)
      second == s[(Len(s) + 1) \div 2 + 1]
      cut == IF h[second].prev = NULL THEN h
             ELSE [h EXCEPT ![h[second].prev].next = NULL, ![second].prev = NULL]
      a == sort_list(cut, list, sensitive)
      b == sort_list(a.heap, second, sensitive)
  IN IF \A i \in 1..(Len(s) - 1) : KeyPrecedes(h[s[i]].key, h[s[i + 1]].key, sensitive)
     THEN [heap |-> h, node |-> list]
     ELSE Merge(b.heap, a.node, b.node, NULL, NULL, sensitive)

sort_object(h, object, sensitive) ==
  LET Linked(sorted) == [sorted.heap EXCEPT ![object].child = sorted.node]
  IN Linked(sort_list(h, h[object].child, sensitive))

-----------------------------------------------------------------------------
(* What the functions rely on *)

WellLinked(h) ==
  /\ \A n \in Live(h) : {h[n].child, h[n].next, h[n].prev} \subseteq Live(h) \cup {NULL}
  /\ \A n \in Live(h) : ~h[n].ref => WellLinkedList(h, Kids(h, n))

\* The items below an item, itself included; without those only referred to.
RECURSIVE Below(_, _)
Below(h, n) ==
  {n} \cup IF h[n].ref THEN {} ELSE UNION {Below(h, c) : c \in ToSet(Kids(h, n))}

-----------------------------------------------------------------------------
(* The value a tree stands for *)

\* The tree below an item, and a tree made anew of such a value.
RECURSIVE Tree(_, _)
Tree(h, n) ==
  [kind |-> h[n].kind, key |-> h[n].key, val |-> h[n].val,
   kids |-> [i \in DOMAIN Kids(h, n) |-> Tree(h, Kids(h, n)[i])]]

RECURSIVE Build(_, _)
Build(h, v) ==
  LET new == New_Item(h, v.kind)
      item == [new EXCEPT !.heap[new.node] = [@ EXCEPT !.key = v.key, !.val = v.val]]
      Add(made, kid) ==
        LET child == Build(made.heap, kid)
        IN [made EXCEPT !.heap = AddItemToArray(child.heap, made.node, child.node)]
  IN FoldLeft(Add, item, v.kids)
=============================================================================
