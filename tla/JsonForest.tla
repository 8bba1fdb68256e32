---------------------------- MODULE JsonForest ----------------------------
(***************************************************************************)
(* What cJSON promises to those who build and change trees with it: every  *)
(* item is in one list at one place, or a root somebody holds; a function  *)
(* moves, copies or frees the items it was asked to, whole subtrees at a   *)
(* time, and leaves all others as they are.                                *)
(***************************************************************************)
EXTENDS Integers, Sequences, FiniteSets, SequencesExt

CONSTANT Item

VARIABLES tree, \* the items there are: their kind and name, if they own their
                \* children, and the sequence of these
          held  \* the roots the caller has a pointer to

vars == <<tree, held>>

RECURSIVE Shape(_, _)
Shape(t, n) ==
  [kind |-> t[n].kind, key |-> t[n].key, kids |-> [i \in DOMAIN t[n].kids |-> Shape(t, t[n].kids[i])]]

RECURSIVE Subtree(_, _)
Subtree(t, n) ==
  {n} \cup IF t[n].own THEN UNION {Subtree(t, c) : c \in ToSet(t[n].kids)} ELSE {}

\* Two forests t and u, before and after a step.
New(t, u) == DOMAIN u \ DOMAIN t
SameBut(t, u, S) == \A n \in (DOMAIN t \cap DOMAIN u) \ S : u[n] = t[n]
SameItems(t, u) == DOMAIN u = DOMAIN t
Loses(t, u, S) == DOMAIN u = DOMAIN t \ S
Grows(t, u, S) == DOMAIN t \subseteq DOMAIN u /\ SameBut(t, u, S)
ButName(x, y) == [x EXCEPT !.key = y.key] = y

Init == tree = <<>> /\ held = {}

\* A new root: without children, with some of its own, or with borrowed ones.
Make(t, u) ==
  \E r \in New(t, u) :
    /\ Grows(t, u, {}) /\ New(t, u) = Subtree(u, r)
    /\ held' = held \cup {r}

\* A root becomes the child at one place of the list of its new parent.
Attach(t, u) ==
  /\ SameItems(t, u)
  /\ \E i \in held \ held', p \in DOMAIN t :
       /\ p \notin Subtree(t, i)
       /\ \E k \in 1..(Len(t[p].kids) + 1) : u[p] = [t[p] EXCEPT !.kids = InsertAt(@, k, i)]
       /\ SameBut(t, u, {p, i}) /\ ButName(u[i], t[i])
       /\ held' = held \ {i}

\* A new item, which may be a reference, becomes the last child.
AttachNew(t, u) ==
  \E n \in New(t, u), p \in DOMAIN t :
    /\ New(t, u) = {n} /\ Grows(t, u, {p}) /\ (u[n].own => u[n].kids = <<>>)
    /\ u[p] = [t[p] EXCEPT !.kids = Append(@, n)]
    /\ held' = held

\* A child becomes a root, with all below it.
Detach(t, u) ==
  /\ SameItems(t, u)
  /\ \E i \in held' \ held, p \in DOMAIN t :
       /\ \E k \in DOMAIN t[p].kids :
            t[p].kids[k] = i /\ u[p] = [t[p] EXCEPT !.kids = RemoveAt(@, k)]
       /\ SameBut(t, u, {p}) /\ held' = held \cup {i}

\* A child, or a root, is freed with all below it.
FreeChild(t, u) ==
  /\ held' = held
  /\ \E p \in DOMAIN t : \E k \in DOMAIN t[p].kids :
       /\ Loses(t, u, Subtree(t, t[p].kids[k])) /\ SameBut(t, u, {p})
       /\ u[p] = [t[p] EXCEPT !.kids = RemoveAt(@, k)]

FreeRoot(t, u) ==
  \E r \in held \ held' :
    /\ Loses(t, u, Subtree(t, r)) /\ SameBut(t, u, {})
    /\ held' = held \ {r}

\* A root takes the place of a child, which is freed with all below it.
Replace(t, u) ==
  \E i \in held \ held', p \in DOMAIN t : \E k \in DOMAIN t[p].kids :
    /\ Loses(t, u, Subtree(t, t[p].kids[k])) /\ SameBut(t, u, {p, i})
    /\ u[p] = [t[p] EXCEPT !.kids[k] = i] /\ ButName(u[i], t[i])
    /\ held' = held \ {i}

\* A root changes its name.
Rename(t, u) ==
  /\ held' = held /\ SameItems(t, u)
  /\ \E i \in held : SameBut(t, u, {i}) /\ ButName(u[i], t[i])

\* A new root of the same shape as an item, that owns all it has; or of the
\* item alone.
Copy(t, u) ==
  \E r \in held' \ held, n \in DOMAIN t :
    /\ Grows(t, u, {}) /\ New(t, u) = Subtree(u, r) /\ \A m \in New(t, u) : u[m].own
    /\ Shape(u, r) \in {Shape(t, n), [Shape(t, n) EXCEPT !.kids = <<>>]}
    /\ held' = held \cup {r}

\* The children of an item change their order.
Reorder(t, u) ==
  /\ held' = held /\ SameItems(t, u)
  /\ \E p \in DOMAIN t :
       /\ [u[p] EXCEPT !.kids = t[p].kids] = t[p] /\ SameBut(t, u, {p})
       /\ Len(u[p].kids) = Len(t[p].kids) /\ ToSet(u[p].kids) = ToSet(t[p].kids)

\* The one leak there is: a reference nobody has a pointer to.
Lose(t, u) ==
  \E n \in New(t, u) :
    New(t, u) = {n} /\ Grows(t, u, {}) /\ ~u[n].own /\ held' = held

Next ==
  LET t == tree
      u == tree'
  IN \/ Make(t, u) \/ Attach(t, u) \/ AttachNew(t, u) \/ Detach(t, u)
     \/ FreeChild(t, u) \/ FreeRoot(t, u) \/ Replace(t, u) \/ Rename(t, u)
     \/ Copy(t, u) \/ Reorder(t, u) \/ Lose(t, u)

Spec == Init /\ [][Next]_vars
=============================================================================
