----------------------------- MODULE JsonTree -----------------------------
(***************************************************************************)
(* A program that builds and changes trees of cJSON items through the      *)
(* functions of cJSON.c and the sort of cJSON_Utils.c, and keeps to what   *)
(* they ask of it: what it adds is a root of its own, it adds nothing      *)
(* below itself, and while a reference shows a list, the list stays.  It   *)
(* may run out of memory at every allocation.                              *)
(***************************************************************************)
EXTENDS JsonHeap, FiniteSets

CONSTANTS Kind,         \* the kinds of item the program creates
          Name,         \* the names it gives them
          MaxReferences \* bound: references at a time

ASSUME KindAssumption == Kind \subseteq {"null", "number", "string", "array", "object"}

VARIABLES heap, \* the nodes
          held  \* the roots the program has a pointer to

vars == <<heap, held>>

Visible == UNION {Below(heap, r) : r \in held}

\* What can be reached from an item, through references too.
RECURSIVE Seen(_, _)
Seen(h, n) == {n} \cup UNION {Seen(h, c) : c \in ToSet(Kids(h, n))}

References == {n \in Live(heap) : heap[n].ref /\ heap[n].child # NULL}

MayRefer == Cardinality({n \in Live(heap) : heap[n].ref}) < MaxReferences

\* A container of the program's own whose list nobody else shows.
Modifiable(p) ==
  /\ IsContainer(heap, p) /\ ~heap[p].ref
  /\ \A r \in References : heap[r].child # heap[p].child

Addable(p, i) == Modifiable(p) /\ p \notin Seen(heap, i)

\* No reference elsewhere shows a list of the items.
Deletable(S) == \A r \in References \ S : heap[r].child \notin S

Init == heap = Empty /\ held = {}

-----------------------------------------------------------------------------

\* The caller gets a pointer to what was made, if it was.
Returns(made) ==
  heap' = made.heap /\ held' = held \cup ({made.node} \ {NULL})

Create == \E kind \in Kind : Returns(New_Item(heap, kind))

CreateArray == \E kind \in Kind, count \in 1..2 : Returns(CreateArrayOf(heap, kind, count))

CreateReferenceTo ==
  \E n \in Visible :
    LET new == New_Item(heap, heap[n].kind)
    IN /\ MayRefer /\ IsContainer(heap, n) /\ heap[n].child # NULL /\ new.node # NULL
       /\ Returns([new EXCEPT !.heap[new.node].ref = TRUE,
                              !.heap[new.node].child = heap[n].child])

DuplicateItem == \E n \in Visible, recurse \in BOOLEAN : Returns(Duplicate(heap, n, recurse))

AddItem ==
  \E p \in Visible, i \in held :
    /\ Addable(p, i)
    /\ \/ heap' = AddItemToArray(heap, p, i)
       \/ \E name \in Name : heap' = AddItemToObject(heap, p, name, i)
    /\ held' = held \ {i}

\* cJSON_AddNullToObject and the like: without memory for the name the new
\* item is deleted.
AddNewToObject ==
  \E p \in Visible, kind \in Kind :
    LET new == New_Item(heap, kind)
    IN /\ Modifiable(p) /\ new.node # NULL
       /\ \/ \E name \in Name : heap' = AddItemToObject(new.heap, p, name, new.node)
          \/ heap' = Delete(new.heap, new.node)
       /\ UNCHANGED held

\* Without memory for the name the reference made is lost.
AddItemReference ==
  \E p \in Visible, i \in Visible :
    LET new == create_reference(heap, i)
    IN /\ MayRefer /\ Modifiable(p) /\ p \notin Seen(heap, i) /\ new.node # NULL
       /\ \/ heap' = AddItemToArray(new.heap, p, new.node)
          \/ \E name \in Name : heap' = AddItemToObject(new.heap, p, name, new.node)
          \/ heap' = new.heap
       /\ UNCHANGED held

\* The items of a list by place or by name, with or without regard to case.
Found(p) ==
  {get_array_item(heap, p, which) : which \in 0..(Len(Kids(heap, p)) - 1)}
  \cup {get_object_item(heap, p, name, sensitive) : name \in Name, sensitive \in BOOLEAN}

DetachItem ==
  \E p \in Visible :
    /\ Modifiable(p)
    /\ \E i \in Found(p) \ {NULL} :
         heap' = DetachItemViaPointer(heap, p, i) /\ held' = held \cup {i}

DeleteItemFrom ==
  \E p \in Visible :
    /\ Modifiable(p)
    /\ \E i \in Found(p) \ {NULL} : Deletable(Below(heap, i)) /\ heap' = DeleteItem(heap, p, i)
    /\ UNCHANGED held

DeleteRoot ==
  \E r \in held :
    /\ Deletable(Below(heap, r))
    /\ heap' = Delete(heap, r) /\ held' = held \ {r}

InsertItem ==
  \E p \in Visible, i \in held : \E which \in 0..Len(Kids(heap, p)) :
    /\ Addable(p, i)
    /\ heap' = InsertItemInArray(heap, p, which, i) /\ held' = held \ {i}

ReplaceItem ==
  \E p \in Visible, new \in held :
    /\ Addable(p, new)
    /\ \E i \in Found(p) \ {NULL} :
         Deletable(Below(heap, i)) /\ heap' = ReplaceItemViaPointer(heap, p, i, new)
    /\ held' = held \ {new}

\* The replacement is named before the item is looked for, and keeps the name
\* when there is none; without memory it has lost its own.
ReplaceItemInObject ==
  \E p \in Visible, new \in held, name \in Name, sensitive \in BOOLEAN :
    LET i == get_object_item(heap, p, name, sensitive)
        renamed == [heap EXCEPT ![new].key = name]
    IN /\ Addable(p, new) /\ (i # NULL => Deletable(Below(heap, i)))
       /\ \/ heap' = ReplaceItemViaPointer(renamed, p, i, new)
             /\ held' = IF i = NULL THEN held ELSE held \ {new}
          \/ heap' = [heap EXCEPT ![new].key = NoString] /\ UNCHANGED held

SortObject ==
  \E p \in Visible, sensitive \in BOOLEAN :
    /\ Modifiable(p)
    /\ heap' = sort_object(heap, p, sensitive)
    /\ UNCHANGED held

\* What the functions do to a list that the sort has left without a last item
\* is not followed up.
Next ==
  /\ WellLinked(heap)
  /\ \/ Create \/ CreateArray \/ CreateReferenceTo \/ DuplicateItem
     \/ AddItem \/ AddNewToObject \/ AddItemReference
     \/ DetachItem \/ DeleteItemFrom \/ DeleteRoot
     \/ InsertItem \/ ReplaceItem \/ ReplaceItemInObject \/ SortObject

Spec == Init /\ [][Next]_vars

-----------------------------------------------------------------------------
(* Properties *)

Forest == INSTANCE JsonForest WITH
  Item <- Node,
  tree <- [n \in Live(heap) |-> [kind |-> heap[n].kind, key |-> heap[n].key,
                                 own |-> ~heap[n].ref, kids |-> Kids(heap, n)]]

\* Whatever the order of the calls and wherever memory runs out, each call
\* does to the trees what it promises, to the items it was given and to no
\* others: none is lost, freed twice or left behind half-built.
ImplementsForest == Forest!Spec

\* "To find the last item in array quickly, we use prev in array": every
\* function but the sort leaves each list with a first item that knows the
\* last, and no pointer to a freed node.
LinksHold == [][SortObject \/ WellLinked(heap')]_vars
=============================================================================
