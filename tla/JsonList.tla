------------------------------ MODULE JsonList ------------------------------
(***************************************************************************)
(* The nodes of cJSON, the order of their names and the functions that     *)
(* link them into lists: a node knows its first child and its neighbours   *)
(* in the list it is in; the first node of a list keeps a pointer to the   *)
(* last one in its prev.  A heap is a function from addresses to nodes; a  *)
(* function that allocates returns the heap and the address, NULL when     *)
(* there is no memory.                                                     *)
(***************************************************************************)
EXTENDS Integers, Sequences, SequencesExt

CONSTANTS Node, \* the addresses there is memory for
          NULL

ASSUME NullAssumption == NULL \notin Node

\* Strings are sequences of character codes; NoString is the null pointer.
NoString == <<-1>>

Kinds == {"free", "invalid", "false", "true", "null", "number", "string", "array", "object", "raw"}
Pointer == Node \cup {NULL}
Cell == [kind : Kinds, ref : BOOLEAN, val : Seq(Int), key : Seq(Int),
         child : Pointer, next : Pointer, prev : Pointer]
Heap == [Node -> Cell]

Free == [kind |-> "free", ref |-> FALSE, val |-> NoString, key |-> NoString,
         child |-> NULL, next |-> NULL, prev |-> NULL]

Empty == [n \in Node |-> Free]
Live(h) == {n \in Node : h[n].kind # "free"}
IsContainer(h, n) == n # NULL /\ h[n].kind \in {"array", "object"}

-----------------------------------------------------------------------------
(* Names *)

ToLower(c) == IF c \in 65..90 THEN c + 32 ELSE c
Fold(s, sensitive) == IF sensitive THEN s ELSE [i \in DOMAIN s |-> ToLower(s[i])]

\* strcmp(a, b) < 0
Precedes(a, b) ==
  \E i \in DOMAIN b :
    /\ \A j \in 1..(i - 1) : j \in DOMAIN a /\ a[j] = b[j]
    /\ i > Len(a) \/ a[i] < b[i]

\* compare_strings: null pointers are equal to nothing and before nothing.
SameKey(a, b, sensitive) ==
  NoString \notin {a, b} /\ Fold(a, sensitive) = Fold(b, sensitive)
KeyPrecedes(a, b, sensitive) ==
  NoString \notin {a, b} /\ Precedes(Fold(a, sensitive), Fold(b, sensitive))

-----------------------------------------------------------------------------
(* Allocation *)

New_Item(h, kind) ==
  LET free == Node \ Live(h)
  IN IF free = {} THEN [heap |-> h, node |-> NULL]
     ELSE LET n == CHOOSE n \in free : TRUE
          IN [heap |-> [h EXCEPT ![n] = [Free EXCEPT !.kind = kind]], node |-> n]

\* A node that shares the children and the value of another.
create_reference(h, item) ==
  LET new == New_Item(h, h[item].kind)
  IN IF new.node = NULL THEN new
     ELSE [new EXCEPT !.heap[new.node] =
             [h[item] EXCEPT !.ref = TRUE, !.key = NoString, !.next = NULL, !.prev = NULL]]

-----------------------------------------------------------------------------
(* Deleting *)

\* Mutant: the children of a reference are deleted with it.
FreedWith_Borrowed(h, S) == (UNION {{h[n].next, h[n].child} : n \in S}) \ {NULL}

\* What follows items in their lists, and their own children.
FreedWith(h, S) ==
  (UNION {{h[n].next} \cup (IF h[n].ref THEN {} ELSE {h[n].child}) : n \in S}) \ {NULL}

\* The item, what follows it in its list, and all that is below them.
Delete(h, item) ==
  LET all[S \in SUBSET Node] ==
        IF FreedWith(h, S) \subseteq S THEN S ELSE all[S \cup FreedWith(h, S)]
      gone == all[{item} \ {NULL}]
  IN [n \in Node |-> IF n \in gone THEN Free ELSE h[n]]

-----------------------------------------------------------------------------
(* Lists *)

suffix_object(h, prev, item) == [h EXCEPT ![prev].next = item, ![item].prev = prev]

\* Mutant: the first item of a list is not told that it is the last, too.
AddItemToArray_NoTail(h, array, item) ==
  LET first == h[array].child
  IN IF first = NULL
     THEN [h EXCEPT ![array].child = item, ![item].next = NULL]
     ELSE IF h[first].prev = NULL THEN h
     ELSE [suffix_object(h, h[first].prev, item) EXCEPT ![first].prev = item]

\* Where the first item has no prev, nothing is done, and TRUE is returned.
AddItemToArray(h, array, item) ==
  LET first == h[array].child
  IN IF first = NULL
     THEN [h EXCEPT ![array].child = item, ![item].prev = item, ![item].next = NULL]
     ELSE IF h[first].prev = NULL THEN h
     ELSE [suffix_object(h, h[first].prev, item) EXCEPT ![first].prev = item]

AddItemToObject(h, object, name, item) ==
  AddItemToArray([h EXCEPT ![item].key = name], object, item)

DetachItemViaPointer(h, parent, item) ==
  LET n == h[item]
      before == IF item = h[parent].child THEN h ELSE [h EXCEPT ![n.prev].next = n.next]
      after == IF n.next = NULL THEN before ELSE [before EXCEPT ![n.next].prev = n.prev]
      ends == IF item = h[parent].child THEN [after EXCEPT ![parent].child = n.next]
              ELSE IF n.next = NULL THEN [after EXCEPT ![h[parent].child].prev = n.prev]
              ELSE after
  IN [ends EXCEPT ![item].prev = NULL, ![item].next = NULL]

\* In front of another item of the list; the new first item inherits the
\* pointer to the last.
InsertBefore(h, array, item, newitem) ==
  LET linked == [h EXCEPT ![newitem].next = item, ![newitem].prev = h[item].prev,
                          ![item].prev = newitem]
  IN IF item = h[array].child THEN [linked EXCEPT ![array].child = newitem]
     ELSE [linked EXCEPT ![h[item].prev].next = newitem]

\* An item gets the neighbours of another; the one behind it knows.
TakePlace(h, item, new) ==
  LET n == h[item]
      linked == [h EXCEPT ![new].next = n.next, ![new].prev = n.prev]
  IN IF n.next = NULL THEN linked ELSE [linked EXCEPT ![n.next].prev = new]

\* Another item takes the place of one in the list, which leaves it.
ReplaceLinks(h, parent, item, new) ==
  LET n == h[item]
      after == TakePlace(h, item, new)
      first == IF n.prev = item THEN [after EXCEPT ![new].prev = new] ELSE after
      ends == IF item = h[parent].child THEN [first EXCEPT ![parent].child = new]
              ELSE LET middle == [after EXCEPT ![n.prev].next = new]
                   IN IF n.next = NULL THEN [middle EXCEPT ![h[parent].child].prev = new]
                      ELSE middle
  IN [ends EXCEPT ![item].next = NULL, ![item].prev = NULL]

\* One node more at the end of a list that is being built behind `parent`;
\* the first one gets its prev when the list is complete (CloseList).
LinkNext(h, parent, last, n) ==
  IF last = NULL THEN [h EXCEPT ![parent].child = n] ELSE suffix_object(h, last, n)

CloseList(h, parent, last) ==
  IF h[parent].child = NULL THEN h ELSE [h EXCEPT ![h[parent].child].prev = last]

-----------------------------------------------------------------------------
(* What the functions rely on *)

\* "To find the last item in array quickly, we use prev in array"
WellLinkedList(h, s) ==
  /\ \A i \in 2..Len(s) : h[s[i]].prev = s[i - 1]
  /\ s # <<>> => h[s[1]].prev = Last(s)
=============================================================================
