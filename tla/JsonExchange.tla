---------------------------- MODULE JsonExchange ----------------------------
(***************************************************************************)
(* Two programs that hold the same document: one changes it and sends the  *)
(* other a patch or a merge patch, made with cJSON_Utils and printed; the  *)
(* other reads it and applies it to its own document.                      *)
(***************************************************************************)
EXTENDS JsonText, JsonPatch

CONSTANT Goals \* the documents a document may be changed into

VARIABLES goal, \* the document the first program has now; NoDoc before
          sort  \* the sort of patch, and if names are compared with case

NoDoc == [kind |-> "free", key |-> NoString, val |-> NoString, kids |-> <<>>]
Sorts == [how : {"patch", "merge", "edit"}, sensitive : BOOLEAN]

exchangeVars == <<vars, goal, sort>>

ExchangeInit == Init /\ goal = NoDoc /\ sort = [how |-> "patch", sensitive |-> TRUE]

-----------------------------------------------------------------------------

\* A text of patches on its way, none if there is no difference.
Send(patch) ==
  /\ buffer' = IF patch.node = NULL THEN NotPrinted ELSE PrintItem(patch.heap, patch.node, 256, FALSE)
  /\ text' = IF patch.node = NULL THEN <<>> ELSE Printed(buffer')
  /\ pc' = IF patch.node = NULL THEN "same" ELSE "patch sent"
  /\ UNCHANGED <<doc, result>>

\* Both documents are changed on the way: their objects are sorted.
SendPatch ==
  /\ pc = "built" /\ doc \in Goals
  /\ \E to \in Goals, x \in Sorts :
       LET old == Build(Empty, Encoded(doc))
           new == Build(old.heap, Encoded(to))
       IN /\ x.how # "edit" /\ goal' = to /\ sort' = x
          /\ Send(IF x.how = "merge"
                  THEN generate_merge_patch(new.heap, old.node, new.node, x.sensitive)
                  ELSE GeneratePatches(new.heap, old.node, new.node, x.sensitive))

\* Patches made by hand: a copy of an item is put at the top, tested, and
\* takes the item's place.
SpareName == <<122>>
Spare == <<Slash>> \o SpareName

SendEdits ==
  /\ pc = "built" /\ doc \in Goals /\ doc.kind = "object"
  /\ \E item \in Below(Item.heap, Item.node), sensitive \in BOOLEAN :
       LET path == FindPointerFromObjectTo(Item.heap, Item.node, item)
           list == New_Item(Item.heap, "array")
           Compose(h, op, p, value) == compose_patch(h, list.node, op, p, value)
           From(h, p) == AddText(h, Last(Kids(h, list.node)), FromKey, p)
           copied == From(Compose(list.heap, COPY, Spare, NULL), path)
           tested == Compose(copied, TEST, Spare, item)
           removed == Compose(tested, REMOVE, path, NULL)
       IN /\ item # Item.node
          /\ goal' = doc /\ sort' = [how |-> "edit", sensitive |-> sensitive]
          /\ Send([heap |-> From(Compose(removed, MOVE, path, NULL), Spare), node |-> list.node])

Apply(own, patch) ==
  LET Merged(m) == [heap |-> m.heap, node |-> m.node, end |-> 0, outside |-> FALSE]
      Patched(p) == [heap |-> p.heap, node |-> own.node, end |-> p.status, outside |-> FALSE]
  IN IF sort.how = "merge" THEN Merged(merge_patch(own.heap, own.node, patch, sort.sensitive))
     ELSE Patched(ApplyPatches(own.heap, own.node, patch, sort.sensitive))

\* What the other program's document becomes, if it can read the patch.
ApplyPatch ==
  /\ pc = "patch sent"
  /\ \E patch \in {ParseWithLengthOpts(Empty, Append(text, 0), TRUE)} :
       IF patch.node = NULL THEN pc' = "refused" /\ UNCHANGED result
       ELSE pc' = "patched" /\ result' = Apply(Build(patch.heap, Encoded(doc)), patch.node)
  /\ UNCHANGED <<doc, text, buffer, goal, sort>>

ExchangeNext == (Next /\ UNCHANGED <<goal, sort>>) \/ SendPatch \/ SendEdits \/ ApplyPatch

ExchangeSpec == ExchangeInit /\ [][ExchangeNext]_exchangeVars

-----------------------------------------------------------------------------
(* Properties *)

\* The names in a document.
RECURSIVE Names(_)
Names(v) == {v.key} \cup UNION {Names(v.kids[i]) : i \in DOMAIN v.kids}

\* A member of an object is null; merge patches replace arrays as a whole.
RECURSIVE NullMembers(_)
NullMembers(v) ==
  v.kind = "object" /\ \E i \in DOMAIN v.kids : v.kids[i].kind = "null" \/ NullMembers(v.kids[i])

\* Names decode_pointer_inplace decodes: without a slash, a tilde only at the
\* end; detach_path always ignores case, so no two names may differ by it alone.
PatchableNames(S) ==
  /\ \A s \in S : \A i \in DOMAIN s : s[i] # Slash /\ (s[i] = Tilde => i = Len(s))
  /\ \A s, t \in S : s # t => Fold(s, FALSE) # Fold(t, FALSE)

\* Names that are in the same order with and without regard to case: merge
\* patches are made from members sorted in one order and compared in the other.
MergeableNames(S) == \A s \in S : Fold(s, FALSE) = s

\* A test sorts what it compares, and leaves the list half linked.
Becomes(v) ==
  LET both == Build(result.heap, Encoded(v))
  IN /\ sort.how = "edit" \/ WellLinked(result.heap)
     /\ Compare(both.heap, result.node, both.node, TRUE)

\* A pointer made to an item leads to this item.
PointersLead(h, root) ==
  \A n \in Below(h, root) :
    get_item_from_pointer(h, root, FindPointerFromObjectTo(h, root, n), TRUE) = n

\* A pointer made to an item of a document leads to that very item; and the
\* other program gets the very document the first one has, from the patch
\* that one generated and printed, or its own back after edits that undo one
\* another; unless the patch, which nests a value two
\* levels deeper, cannot be read.
PatchRoundTrip ==
  /\ pc = "built" => PointersLead(Item.heap, Item.node)
  /\ sort.how # "merge" /\ PatchableNames(Names(doc) \cup Names(goal)) =>
    /\ pc = "patched" => result.end = 0 /\ Becomes(goal)
    /\ pc = "refused" => Depth(goal) + 2 > Nesting

\* Likewise with a merge patch, in which a null stands for a member that is to
\* go; no patch is made only if nothing is different.
MergeRoundTrip ==
  MergeableNames(Names(doc) \cup Names(goal)) =>
    /\ pc = "patched" /\ sort.how = "merge" /\ ~NullMembers(goal) => Becomes(goal)
    /\ pc = "refused" /\ sort.how = "merge" => Depth(goal) > Nesting
    /\ pc = "same" =>
         LET one == Build(Empty, Encoded(doc))
             two == Build(one.heap, Encoded(goal))
         IN Compare(two.heap, one.node, two.node, TRUE)
=============================================================================
