----------------------------- MODULE JsonPatch -----------------------------
(***************************************************************************)
(* cJSON_Utils: JSON pointers, JSON patches and merge patches, on the      *)
(* nodes of JsonHeap, with memory enough.  Functions that change nodes     *)
(* return the heap with what they return in C.                             *)
(***************************************************************************)
EXTENDS JsonHeap, JsonBuffer

Slash == 47
Tilde == 126

\* Member names and operations of a patch, as character codes.
OpKey == <<111, 112>>
PathKey == <<112, 97, 116, 104>>
ValueKey == <<118, 97, 108, 117, 101>>
FromKey == <<102, 114, 111, 109>>
ADD == <<97, 100, 100>>
REMOVE == <<114, 101, 109, 111, 118, 101>>
REPLACE == <<114, 101, 112, 108, 97, 99, 101>>
MOVE == <<109, 111, 118, 101>>
COPY == <<99, 111, 112, 121>>
TEST == <<116, 101, 115, 116>>

Rest(s, i) == SubSeq(s, i, Len(s))

-----------------------------------------------------------------------------
(* Pointers *)

\* Is the name what the pointer has before its next slash?
RECURSIVE compare_pointers(_, _, _)
compare_pointers(name, pointer, sensitive) ==
  LET done == pointer = <<>> \/ (pointer # <<>> /\ Head(pointer) = Slash)
      escape == IF Len(pointer) > 1 THEN pointer[2] ELSE 0
  IN /\ name # NoString
     /\ IF done \/ name = <<>> THEN done /\ name = <<>>
        ELSE IF Head(pointer) = Tilde
        THEN /\ <<escape, Head(name)>> \in {<<48, Tilde>>, <<49, Slash>>}
             /\ compare_pointers(Tail(name), Rest(pointer, 3), sensitive)
        ELSE /\ Fold(<<Head(name)>>, sensitive) = Fold(<<Head(pointer)>>, sensitive)
             /\ compare_pointers(Tail(name), Tail(pointer), sensitive)

\* Mutant: a tilde is not escaped.
encode_string_as_pointer_SlashOnly(s) ==
  FlattenSeq([i \in DOMAIN s |-> IF s[i] = Slash THEN <<Tilde, 49>> ELSE <<s[i]>>])

encode_string_as_pointer(s) ==
  FlattenSeq([i \in DOMAIN s |->
    IF s[i] = Slash THEN <<Tilde, 49>> ELSE IF s[i] = Tilde THEN <<Tilde, 48>> ELSE <<s[i]>>])

\* The path from an item to one below it, NoString if it is not there.
RECURSIVE FindPointerFromObjectTo(_, _, _)
FindPointerFromObjectTo(h, object, target) ==
  LET s == Kids(h, object)
      path == [i \in DOMAIN s |-> FindPointerFromObjectTo(h, s[i], target)]
      k == SelectInSeq(path, LAMBDA p : p # NoString)
      step == IF h[object].kind = "array" THEN Decimal(k - 1)
              ELSE encode_string_as_pointer(h[s[k]].key)
  IN IF object = target THEN <<>>
     ELSE IF k = 0 THEN NoString ELSE <<Slash>> \o step \o path[k]

\* The number before the next slash; -1 if it is none.  Only the first
\* character is compared with 9: what follows may be any above 0.
decode_array_index_from_pointer(pointer) ==
  LET At(i) == IF i \in DOMAIN pointer THEN pointer[i] ELSE 0
      stop == CHOOSE i \in 1..(Len(pointer) + 1) :
                /\ ~(At(i) >= 48 /\ At(1) <= 57)
                /\ \A j \in 1..(i - 1) : At(j) >= 48 /\ At(1) <= 57
  IN IF (At(1) = 48 /\ At(2) \notin {0, Slash}) \/ At(stop) \notin {0, Slash} THEN -1
     ELSE FoldLeft(LAMBDA n, c : 10 * n + c - 48, 0, SubSeq(pointer, 1, stop - 1))

\* Where the next slash is.
NextSlash(s) == CHOOSE i \in 1..(Len(s) + 1) :
  (i > Len(s) \/ s[i] = Slash) /\ \A j \in 1..(i - 1) : s[j] # Slash

RECURSIVE get_item_from_pointer(_, _, _, _)
get_item_from_pointer(h, item, pointer, sensitive) ==
  LET token == Tail(pointer)
      index == decode_array_index_from_pointer(token)
      s == Kids(h, item)
      k == SelectInSeq(s, LAMBDA e : compare_pointers(h[e].key, token, sensitive))
      next == CASE h[item].kind = "array" /\ index >= 0 -> get_array_item(h, item, index)
                [] h[item].kind = "object" /\ k > 0 -> s[k]
                [] OTHER -> NULL
  IN IF item = NULL \/ pointer = <<>> THEN item
     ELSE IF Head(pointer) # Slash THEN item
     ELSE get_item_from_pointer(h, next, Rest(token, NextSlash(token)), sensitive)

\* The string is decoded in its own place: d characters are written when r
\* have been read.  A character that is no escape is not moved down, and a
\* slash is written one place too far.
RECURSIVE DecodeInPlace(_, _, _)
DecodeInPlace(s, r, d) ==
  LET escape == IF r + 2 <= Len(s) THEN s[r + 2] ELSE 0
  IN IF r >= Len(s) THEN SubSeq(s, 1, d)
     ELSE IF s[r + 1] # Tilde THEN DecodeInPlace(s, r + 1, d + 1)
     ELSE IF escape = 48 THEN DecodeInPlace([s EXCEPT ![d + 1] = Tilde], r + 2, d + 1)
     ELSE IF escape = 49 THEN DecodeInPlace([s EXCEPT ![d + 2] = Slash], r + 2, d + 1)
     ELSE s

decode_pointer_inplace(s) == DecodeInPlace(s, 0, 0)

LastSlash(s) == SelectLastInSeq(s, LAMBDA c : c = Slash)

-----------------------------------------------------------------------------
(* Comparing, detaching, inserting *)

\* Objects are sorted before they are compared.
RECURSIVE compare_json(_, _, _, _), CompareLists(_, _, _, _, _)

CompareLists(h, a, b, named, sensitive) ==
  LET Onward(same) ==
        IF ~same.equal THEN same
        ELSE CompareLists(same.heap, same.heap[a].next, same.heap[b].next, named, sensitive)
  IN IF a = NULL \/ b = NULL THEN [heap |-> h, equal |-> a = b]
     ELSE IF named /\ ~SameKey(h[a].key, h[b].key, sensitive) THEN [heap |-> h, equal |-> FALSE]
     ELSE Onward(compare_json(h, a, b, sensitive))

compare_json(h, a, b, sensitive) ==
  LET Members(sorted) == CompareLists(sorted, sorted[a].child, sorted[b].child, TRUE, sensitive)
  IN IF a = NULL \/ b = NULL \/ h[a].kind # h[b].kind THEN [heap |-> h, equal |-> FALSE]
     ELSE CASE h[a].kind \in {"number", "string"} -> [heap |-> h, equal |-> h[a].val = h[b].val]
            [] h[a].kind = "array" -> CompareLists(h, h[a].child, h[b].child, FALSE, sensitive)
            [] h[a].kind = "object" ->
                 Members(sort_object(sort_object(h, a, sensitive), b, sensitive))
            [] OTHER -> [heap |-> h, equal |-> TRUE]

\* In an object the name is always looked for without regard to case.
DetachChild(h, parent, child) ==
  LET index == decode_array_index_from_pointer(child)
      Detached(item) == IF item = NULL THEN [heap |-> h, node |-> NULL]
                        ELSE [heap |-> DetachItemViaPointer(h, parent, item), node |-> item]
  IN IF parent = NULL THEN [heap |-> h, node |-> NULL]
     ELSE CASE h[parent].kind = "array" /\ index >= 0 -> Detached(get_array_item(h, parent, index))
            [] h[parent].kind = "object" -> Detached(get_object_item(h, parent, child, FALSE))
            [] OTHER -> [heap |-> h, node |-> NULL]

detach_path(h, object, path, sensitive) ==
  LET cut == LastSlash(path)
  IN IF cut = 0 THEN [heap |-> h, node |-> NULL]
     ELSE DetachChild(h, get_item_from_pointer(h, object, SubSeq(path, 1, cut - 1), sensitive),
                      decode_pointer_inplace(Rest(path, cut + 1)))

\* Not further than one place behind the end.
insert_item_in_array(h, array, which, item) ==
  IF which > Len(Kids(h, array)) THEN [heap |-> h, done |-> FALSE]
  ELSE [heap |-> InsertItemInArray(h, array, which, item), done |-> TRUE]

\* The root itself takes over all a new item has; the new item is freed.
overwrite_item(h, root, item) ==
  LET gone == Delete(h, h[root].child)
  IN [gone EXCEPT ![root] = [gone[item] EXCEPT !.key = NoString], ![item] = Free]

-----------------------------------------------------------------------------
(* Patches *)

\* The value is added to the parent the path names; the heap and a status.
PutIn(h, parent, child, value, sensitive) ==
  LET index == decode_array_index_from_pointer(child)
      inserted == insert_item_in_array(h, parent, index, value)
      old == get_object_item(h, parent, child, sensitive)
      Refuse(status) == [heap |-> Delete(h, value), status |-> status]
  IN IF parent = NULL THEN Refuse(9)
     ELSE CASE h[parent].kind = "array" ->
                 IF child = <<45>> THEN [heap |-> AddItemToArray(h, parent, value), status |-> 0]
                 ELSE IF index = -1 THEN Refuse(11)
                 ELSE IF inserted.done THEN [heap |-> inserted.heap, status |-> 0]
                 ELSE Refuse(10)
            [] h[parent].kind = "object" ->
                 [heap |-> AddItemToObject(DeleteItem(h, parent, old), parent, child, value),
                  status |-> 0]
            [] OTHER -> Refuse(9)

PutAt(h, object, path, value, sensitive) ==
  LET cut == LastSlash(path)
  IN PutIn(h, IF cut = 0 THEN NULL
              ELSE get_item_from_pointer(h, object, SubSeq(path, 1, cut - 1), sensitive),
           decode_pointer_inplace(Rest(path, cut + 1)), value, sensitive)

Member(h, patch, key, sensitive) == get_object_item(h, patch, key, sensitive)
TextOf(h, n) == IF n = NULL THEN NoString ELSE IF h[n].kind = "string" THEN h[n].val ELSE NoString

\* No status: the program ends in strlen(NULL).
Crashed == -1

\* MOVE and COPY take the value from another place.  COPY finds nothing where
\* the name of that place is no string; MOVE does not look before it copies it.
ApplyMove(h, object, op, path, from, sensitive) ==
  LET Copy(source) == IF source = NULL THEN [heap |-> h, node |-> NULL]
                      ELSE Duplicate(h, source, TRUE)
      Put(moved) == IF moved.node = NULL THEN [heap |-> h, status |-> 5]
                    ELSE PutAt(moved.heap, object, path, moved.node, sensitive)
  IN IF from = NULL THEN [heap |-> h, status |-> 4]
     ELSE IF TextOf(h, from) = NoString
     THEN [heap |-> h, status |-> IF op = MOVE THEN Crashed ELSE 5]
     ELSE IF op = MOVE THEN Put(detach_path(h, object, h[from].val, sensitive))
     ELSE Put(Copy(get_item_from_pointer(h, object, h[from].val, sensitive)))

ApplyAdd(h, object, path, value, sensitive) ==
  LET copy == Duplicate(h, value, TRUE)
  IN IF value = NULL THEN [heap |-> h, status |-> 7]
     ELSE PutAt(copy.heap, object, path, copy.node, sensitive)

\* The root is emptied or replaced.
ApplyToRoot(h, object, op, value) ==
  LET copy == Duplicate(h, value, TRUE)
      gone == Delete(h, h[object].child)
  IN IF op = REMOVE
     THEN [heap |-> [gone EXCEPT ![object] = [Free EXCEPT !.kind = "invalid"]], status |-> 0]
     ELSE IF value = NULL THEN [heap |-> h, status |-> 7]
     ELSE [heap |-> overwrite_item(copy.heap, object, copy.node), status |-> 0]

\* One operation; the heap and a status.
apply_patch(h, object, patch, sensitive) ==
  LET path == TextOf(h, Member(h, patch, PathKey, sensitive))
      op == TextOf(h, Member(h, patch, OpKey, sensitive))
      value == Member(h, patch, ValueKey, sensitive)
      Tested(same) == [heap |-> same.heap, status |-> IF same.equal THEN 0 ELSE 1]
      Without(old) ==
        IF old.node = NULL THEN [heap |-> h, status |-> 13]
        ELSE IF op = REMOVE THEN [heap |-> Delete(old.heap, old.node), status |-> 0]
        ELSE ApplyAdd(Delete(old.heap, old.node), object, path, value, sensitive)
  IN IF path = NoString THEN [heap |-> h, status |-> 2]
     ELSE IF op \notin {ADD, REMOVE, REPLACE, MOVE, COPY, TEST} THEN [heap |-> h, status |-> 3]
     ELSE IF op = TEST
     THEN Tested(compare_json(h, get_item_from_pointer(h, object, path, sensitive), value, sensitive))
     ELSE IF path = <<>> /\ op \in {REMOVE, REPLACE, ADD} THEN ApplyToRoot(h, object, op, value)
     ELSE IF op \in {MOVE, COPY}
     THEN ApplyMove(h, object, op, path, Member(h, patch, FromKey, sensitive), sensitive)
     ELSE IF op = ADD THEN ApplyAdd(h, object, path, value, sensitive)
     ELSE Without(detach_path(h, object, path, sensitive))

\* One after the other, to the first that fails.
ApplyPatches(h, object, patches, sensitive) ==
  LET Apply(done, patch) == IF done.status # 0 THEN done
                            ELSE apply_patch(done.heap, object, patch, sensitive)
  IN IF h[patches].kind # "array" THEN [heap |-> h, status |-> 1]
     ELSE FoldLeft(Apply, [heap |-> h, status |-> 0], Kids(h, patches))

AddText(h, object, key, s) ==
  LET new == New_Item(h, "string")
  IN AddItemToObject([new.heap EXCEPT ![new.node].val = s], object, key, new.node)

\* One more patch; NULL for no value.
compose_patch(h, patches, op, path, value) ==
  LET new == New_Item(h, "object")
      AddValue(copy) == AddItemToObject(copy.heap, new.node, ValueKey, copy.node)
      Full(texts) == IF value = NULL THEN texts ELSE AddValue(Duplicate(texts, value, TRUE))
      Texts(with) == AddText(AddText(with, new.node, OpKey, op), new.node, PathKey, path)
  IN AddItemToArray(Full(Texts(new.heap)), patches, new.node)

Behind(path, name) == path \o <<Slash>> \o encode_string_as_pointer(name)

RECURSIVE create_patches(_, _, _, _, _, _), PatchItems(_, _, _, _, _, _), PatchMembers(_, _, _, _, _, _)

\* The elements two arrays have in common, then what one has more.
PatchItems(h, patches, path, from, to, index) ==
  IF from # NULL /\ to # NULL
  THEN PatchItems(create_patches(h, patches, path \o <<Slash>> \o Decimal(index.at), from, to, index.sensitive),
                  patches, path, h[from].next, h[to].next, [index EXCEPT !.at = @ + 1])
  ELSE IF from # NULL
  THEN PatchItems(compose_patch(h, patches, REMOVE, Behind(path, Decimal(index.at)), NULL),
                  patches, path, h[from].next, to, index)
  ELSE IF to # NULL
  THEN PatchItems(compose_patch(h, patches, ADD, Behind(path, <<45>>), to),
                  patches, path, from, h[to].next, index)
  ELSE h

\* Two sorted lists of members, side by side.
PatchMembers(h, patches, path, from, to, sensitive) ==
  IF from = NULL /\ to = NULL THEN h
  ELSE IF from # NULL /\ to # NULL /\ SameKey(h[from].key, h[to].key, sensitive)
  THEN LET both == create_patches(h, patches, Behind(path, h[from].key), from, to, sensitive)
       IN PatchMembers(both, patches, path, both[from].next, both[to].next, sensitive)
  ELSE IF to = NULL \/ (from # NULL /\ KeyPrecedes(h[from].key, h[to].key, sensitive))
  THEN PatchMembers(compose_patch(h, patches, REMOVE, Behind(path, h[from].key), NULL),
                    patches, path, h[from].next, to, sensitive)
  ELSE PatchMembers(compose_patch(h, patches, ADD, Behind(path, h[to].key), to),
                    patches, path, from, h[to].next, sensitive)

create_patches(h, patches, path, from, to, sensitive) ==
  LET Members(sorted) ==
        PatchMembers(sorted, patches, path, sorted[from].child, sorted[to].child, sensitive)
      kind == h[from].kind
  IN IF kind # h[to].kind \/ (kind \in {"number", "string"} /\ h[from].val # h[to].val)
     THEN compose_patch(h, patches, REPLACE, path, to)
     ELSE IF kind = "array"
     THEN PatchItems(h, patches, path, h[from].child, h[to].child, [at |-> 0, sensitive |-> sensitive])
     ELSE IF kind = "object"
     THEN Members(sort_object(sort_object(h, from, sensitive), to, sensitive))
     ELSE h

GeneratePatches(h, from, to, sensitive) ==
  LET patches == New_Item(h, "array")
  IN [heap |-> create_patches(patches.heap, patches.node, <<>>, from, to, sensitive),
      node |-> patches.node]

-----------------------------------------------------------------------------
(* Merge patches *)

RECURSIVE merge_patch(_, _, _, _)
merge_patch(h, target, patch, sensitive) ==
  LET keeps == target # NULL /\ h[target].kind = "object"
      object == IF keeps THEN [heap |-> h, node |-> target]
                ELSE New_Item(IF target = NULL THEN h ELSE Delete(h, target), "object")
      o == object.node
      Step(now, child) ==
        LET key == h[child].key
            old == get_object_item(now, o, key, sensitive)
            apart == IF old = NULL THEN now ELSE DetachItemViaPointer(now, o, old)
            new == merge_patch(apart, old, child, sensitive)
        IN IF h[child].kind = "null" THEN DeleteItem(now, o, old)
           ELSE AddItemToObject(new.heap, o, key, new.node)
  IN IF h[patch].kind # "object"
     THEN Duplicate(IF target = NULL THEN h ELSE Delete(h, target), patch, TRUE)
     ELSE [heap |-> FoldLeft(Step, object.heap, Kids(h, patch)), node |-> o]

\* Mutant: a member that is gone is not mentioned.
AddNull_Not(h, patch, key) == h

\* A null stands for a member that is to go.
AddNull(h, patch, key) ==
  LET null == New_Item(h, "null") IN AddItemToObject(null.heap, patch, key, null.node)

RECURSIVE generate_merge_patch(_, _, _, _), MergeMembers(_, _, _, _, _)

\* The lists are sorted in one order and compared in another, strcmp's.
MergeMembers(h, patch, from, to, sensitive) ==
  LET AddInner(inner) == IF inner.node = NULL THEN inner.heap
                         ELSE AddItemToObject(inner.heap, patch, h[to].key, inner.node)
      Changed(same) == IF same.equal THEN same.heap
                       ELSE AddInner(generate_merge_patch(same.heap, from, to, FALSE))
      Onward(now) == MergeMembers(now, patch, now[from].next, now[to].next, sensitive)
      AddCopy(copy) == AddItemToObject(copy.heap, patch, h[to].key, copy.node)
  IN IF from = NULL /\ to = NULL THEN h
     ELSE IF to = NULL \/ (from # NULL /\ to # NULL /\ Precedes(h[from].key, h[to].key))
     THEN MergeMembers(AddNull(h, patch, h[from].key),
                       patch, h[from].next, to, sensitive)
     ELSE IF from = NULL \/ h[from].key # h[to].key
     THEN MergeMembers(AddCopy(Duplicate(h, to, TRUE)), patch, from, h[to].next, sensitive)
     ELSE Onward(Changed(compare_json(h, from, to, sensitive)))

\* NULL when there is no difference.
generate_merge_patch(h, from, to, sensitive) ==
  LET Patch(new) == MergeMembers(new.heap, new.node, new.heap[from].child, new.heap[to].child, sensitive)
      IfAny(full, n) == IF full[n].child = NULL THEN [heap |-> Delete(full, n), node |-> NULL]
                        ELSE [heap |-> full, node |-> n]
      Made(new) == IfAny(Patch(new), new.node)
  IN IF h[from].kind # "object" \/ h[to].kind # "object" THEN Duplicate(h, to, TRUE)
     ELSE Made(New_Item(sort_object(sort_object(h, from, sensitive), to, sensitive), "object"))
=============================================================================
