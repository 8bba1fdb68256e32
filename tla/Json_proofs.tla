---------------------------- MODULE Json_proofs ----------------------------
(***************************************************************************)
(* What the list functions of cJSON do to the lists of a heap, for any set *)
(* of addresses.  `lists` gives every node the sequence of its children    *)
(* and Represents(h, lists, open) says that the pointers of h are those of *)
(* `lists`: no node is in two lists or twice in one, child points to the   *)
(* first item, next and prev to the neighbours, the next of the last item  *)
(* and of a node in no list is NULL, the prev of the first item is the     *)
(* last one, but in the lists being built, which are `open`.  A reference, *)
(* which shares another node's children, owns no list.                     *)
(*                                                                         *)
(* Each function is shown to be an operation on sequences: Append,         *)
(* RemoveAt, InsertAt, [s EXCEPT ![k] = x].  An operation sets pointers    *)
(* one after the other (AddNext, DetachSets, InsertSets, ReplaceSets say   *)
(* what comes of it), which links the new sequence (LinkedAppend,          *)
(* LinkedRemoved, LinkedInserted, LinkedExchanged) and leaves the lists of *)
(* the other nodes alone (OtherLists).                                     *)
(*                                                                         *)
(* Then the pieces a value is printed from: each fits in its buffer        *)
(* (Fits), grown by ensure or not, and where update_offset goes on there   *)
(* is a zero (Ended).  Last, what is read in one piece: an offset stays in *)
(* front of the zero that ends the text (Inside), a string within what was *)
(* allocated for it (Left), and what was escaped is read as it was.        *)
(***************************************************************************)
EXTENDS JsonRead, JsonUnicode, SequenceTheorems, WellFoundedInduction, TLAPS

USE NullAssumption

-----------------------------------------------------------------------------
(* The lists of a heap *)

Elements(s) == {s[i] : i \in 1..Len(s)}

Distinct(s) == \A i, j \in 1..Len(s) : s[i] = s[j] => i = j

\* What comes after the first i of a list.
After(s, i) == IF i = Len(s) THEN NULL ELSE s[i + 1]

\* The list of p is s, up to the prev of its first item.
Linked(h, p, s) ==
  /\ h[p].child = After(s, 0)
  /\ \A i \in 1..Len(s) : h[s[i]].next = After(s, i)
  /\ \A i \in 2..Len(s) : h[s[i]].prev = s[i - 1]

\* The first item knows the last.
Tailed(h, s) == s # << >> => h[s[1]].prev = s[Len(s)]

\* n is in no list.
Rooted(lists, n) == \A p \in Node : n \notin Elements(lists[p])

Apart(lists) ==
  \A p, q \in Node : \A i \in 1..Len(lists[p]), j \in 1..Len(lists[q]) :
     lists[p][i] = lists[q][j] => p = q /\ i = j

Represents(h, lists, open) ==
  /\ h \in Heap /\ lists \in [Node -> Seq(Node)]
  /\ Apart(lists)
  /\ \A p \in Node :
       IF h[p].ref \/ h[p].kind = "free" THEN lists[p] = << >>
       ELSE Linked(h, p, lists[p]) /\ (p \notin open => Tailed(h, lists[p]))
  /\ \A n \in Node : IF Rooted(lists, n) THEN h[n].next = NULL ELSE h[n].kind # "free"

\* A container whose list is its own.
Owner(h, p) == p \in Node /\ ~h[p].ref /\ h[p].kind # "free"

\* What the links of two heaps have in common, and all the rest.
SameData(g, h) ==
  \A m \in Node : /\ g[m].kind = h[m].kind /\ g[m].ref = h[m].ref
                  /\ g[m].val = h[m].val /\ g[m].key = h[m].key

-----------------------------------------------------------------------------
\* What an operation on the list of p does to the heap when it makes it s, of
\* nodes it had before and of roots.
Relinked(g, h, lists, p, s) ==
  /\ g \in Heap /\ s \in Seq(Node) /\ Distinct(s) /\ Linked(g, p, s)
  /\ \A i \in 1..Len(s) : s[i] \in Elements(lists[p])
                           \/ (Rooted(lists, s[i]) /\ h[s[i]].kind # "free")
  /\ \A m \in Node : g[m].kind = h[m].kind /\ g[m].ref = h[m].ref
  /\ \A m \in Node \ {p} : g[m].child = h[m].child
  /\ \A m \in Node : m \notin Elements(lists[p]) /\ m \notin Elements(s) =>
       g[m].next = h[m].next /\ g[m].prev = h[m].prev
  /\ \A m \in Elements(lists[p]) : m \notin Elements(s) => g[m].next = NULL

\* It leaves all other lists as they are.
LEMMA OtherLists ==
  ASSUME NEW h, NEW lists, NEW open, Represents(h, lists, open),
         NEW p, Owner(h, p), NEW g, NEW s, Relinked(g, h, lists, p, s),
         NEW now, \A q \in Node \ {p} : q \in now <=> q \in open,
         p \notin now => Tailed(g, s)
  PROVE  Represents(g, [lists EXCEPT ![p] = s], now)
<1>0. /\ g \in Heap /\ s \in Seq(Node) /\ Distinct(s) /\ Linked(g, p, s)
      /\ \A i \in 1..Len(s) : s[i] \in Elements(lists[p])
                              \/ (Rooted(lists, s[i]) /\ h[s[i]].kind # "free")
      /\ \A m \in Node : g[m].kind = h[m].kind /\ g[m].ref = h[m].ref
      /\ \A m \in Node \ {p} : g[m].child = h[m].child
      /\ \A m \in Node : m \notin Elements(lists[p]) /\ m \notin Elements(s) =>
           g[m].next = h[m].next /\ g[m].prev = h[m].prev
      /\ \A m \in Elements(lists[p]) : m \notin Elements(s) => g[m].next = NULL
  BY DEF Relinked
<1>. DEFINE l == [lists EXCEPT ![p] = s]
<1>1. /\ h \in Heap /\ lists \in [Node -> Seq(Node)] /\ Apart(lists) /\ p \in Node
      /\ ~h[p].ref /\ h[p].kind # "free"
  BY DEF Represents, Owner
<1>2. /\ l \in [Node -> Seq(Node)] /\ l[p] = s
      /\ \A q \in Node : q # p => l[q] = lists[q]
  BY <1>0, <1>1
<1>3. ASSUME NEW q \in Node, q # p
      PROVE  Elements(lists[q]) \cap (Elements(lists[p]) \cup Elements(s)) = {}
  <2>1. Elements(lists[q]) \cap Elements(lists[p]) = {}
    BY <1>1, <1>3 DEF Apart, Elements
  <2>2. ASSUME NEW i \in 1..Len(s), s[i] \in Elements(lists[q]) PROVE FALSE
    BY <1>0, <2>1, <2>2, <1>3 DEF Rooted
  <2>. QED
    BY <2>1, <2>2 DEF Elements
<1>4. Apart(l)
  <2>1. ASSUME NEW q \in Node, NEW r \in Node, NEW i \in 1..Len(l[q]), NEW j \in 1..Len(l[r]),
               l[q][i] = l[r][j]
        PROVE  q = r /\ i = j
    <3>1. CASE q = p /\ r = p
      BY <1>0, <1>2, <2>1, <3>1 DEF Distinct
    <3>2. CASE q # p /\ r # p
      <4>1. l[q] = lists[q] /\ l[r] = lists[r]
        BY <1>2, <3>2
      <4>. QED
        BY <1>1, <2>1, <4>1 DEF Apart
    <3>3. CASE q = p /\ r # p
      <4>1. l[r][j] \in Elements(lists[r]) /\ l[q][i] \in Elements(s)
        BY <1>2, <3>3 DEF Elements
      <4>. QED
        BY <1>3, <2>1, <3>3, <4>1
    <3>4. CASE q # p /\ r = p
      <4>1. l[q][i] \in Elements(lists[q]) /\ l[r][j] \in Elements(s)
        BY <1>2, <3>4 DEF Elements
      <4>. QED
        BY <1>3, <2>1, <3>4, <4>1
    <3>. QED
      BY <3>1, <3>2, <3>3, <3>4
  <2>. QED
    BY <2>1 DEF Apart
<1>5. ASSUME NEW q \in Node
      PROVE  IF g[q].ref \/ g[q].kind = "free" THEN l[q] = << >>
             ELSE Linked(g, q, l[q]) /\ (q \notin now => Tailed(g, l[q]))
  <2>1. CASE q = p
    BY <1>0, <1>1, <1>2, <2>1
  <2>2. CASE q # p
    <3>1. l[q] = lists[q] /\ lists[q] \in Seq(Node) /\ g[q].child = h[q].child
      BY <1>0, <1>1, <1>2, <2>2
    <3>2. \A i \in 1..Len(lists[q]) :
            /\ g[lists[q][i]].next = h[lists[q][i]].next
            /\ g[lists[q][i]].prev = h[lists[q][i]].prev
      <4>1. ASSUME NEW i \in 1..Len(lists[q])
            PROVE  /\ lists[q][i] \in Node /\ lists[q][i] \notin Elements(lists[p])
                   /\ lists[q][i] \notin Elements(s)
        <5>1. lists[q][i] \in Elements(lists[q])
          BY DEF Elements
        <5>. QED
          BY <1>3, <2>2, <3>1, <5>1
      <4>. QED
        BY <1>0, <4>1
    <3>3. IF g[q].ref \/ g[q].kind = "free" THEN lists[q] = << >>
          ELSE Linked(h, q, lists[q]) /\ (q \notin open => Tailed(h, lists[q]))
      BY <1>0 DEF Represents
    <3>4. Linked(h, q, lists[q]) => Linked(g, q, lists[q])
      BY <3>1, <3>2 DEF Linked
    <3>5. Tailed(h, lists[q]) => Tailed(g, lists[q])
      BY <3>1, <3>2 DEF Tailed
    <3>6. q \in now <=> q \in open
      BY <2>2
    <3>. QED
      BY <3>1, <3>3, <3>4, <3>5, <3>6
  <2>. QED
    BY <2>1, <2>2
<1>6. ASSUME NEW n \in Node
      PROVE  IF Rooted(l, n) THEN g[n].next = NULL ELSE g[n].kind # "free"
  <2>1. IF Rooted(lists, n) THEN h[n].next = NULL ELSE h[n].kind # "free"
    BY DEF Represents
  <2>2. CASE Rooted(l, n)
    <3>1. n \notin Elements(s)
      BY <1>1, <1>2, <2>2 DEF Rooted
    <3>2. CASE n \in Elements(lists[p])
      BY <1>0, <2>2, <3>1, <3>2
    <3>3. CASE n \notin Elements(lists[p])
      <4>1. Rooted(lists, n)
        BY <1>2, <2>2, <3>3 DEF Rooted
      <4>. QED
        BY <1>0, <2>1, <2>2, <3>1, <3>3, <4>1
    <3>. QED
      BY <3>2, <3>3
  <2>3. CASE ~Rooted(l, n)
    <3>1. PICK q \in Node : n \in Elements(l[q])
      BY <2>3 DEF Rooted
    <3>2. CASE q # p
      BY <1>0, <1>2, <2>1, <2>3, <3>1, <3>2 DEF Rooted
    <3>3. CASE q = p
      <4>1. PICK i \in 1..Len(s) : n = s[i]
        BY <1>2, <3>1, <3>3 DEF Elements
      <4>2. CASE n \in Elements(lists[p])
        BY <1>0, <1>1, <2>1, <2>3, <4>2 DEF Rooted
      <4>. QED
        BY <1>0, <2>3, <4>1, <4>2
    <3>. QED
      BY <3>2, <3>3
  <2>. QED
    BY <2>2, <2>3
<1>. QED
  BY <1>0, <1>2, <1>4, <1>5, <1>6 DEF Represents

-----------------------------------------------------------------------------
(* What setting a pointer does *)

\* g is h but for one pointer of node n, which is now x.
ChildSet(g, h, n, x) ==
  /\ g \in Heap /\ SameData(g, h)
  /\ \A m \in Node : /\ g[m].child = (IF m = n THEN x ELSE h[m].child)
                     /\ g[m].next = h[m].next /\ g[m].prev = h[m].prev

NextSet(g, h, n, x) ==
  /\ g \in Heap /\ SameData(g, h)
  /\ \A m \in Node : /\ g[m].next = (IF m = n THEN x ELSE h[m].next)
                     /\ g[m].child = h[m].child /\ g[m].prev = h[m].prev

PrevSet(g, h, n, x) ==
  /\ g \in Heap /\ SameData(g, h)
  /\ \A m \in Node : /\ g[m].prev = (IF m = n THEN x ELSE h[m].prev)
                     /\ g[m].child = h[m].child /\ g[m].next = h[m].next

\* The three are what EXCEPT does.
LEMMA SetPointers ==
  ASSUME NEW h \in Heap, NEW n \in Node, NEW x \in Pointer
  PROVE  /\ ChildSet([h EXCEPT ![n].child = x], h, n, x)
         /\ NextSet([h EXCEPT ![n].next = x], h, n, x)
         /\ PrevSet([h EXCEPT ![n].prev = x], h, n, x)
  BY DEF Heap, Cell, SameData, ChildSet, NextSet, PrevSet

\* A pointer that is set leaves a heap
LEMMA SetHeap ==
  ASSUME NEW g, NEW h, NEW n, NEW x,
         ChildSet(g, h, n, x) \/ NextSet(g, h, n, x) \/ PrevSet(g, h, n, x)
  PROVE  g \in Heap
  BY DEF ChildSet, NextSet, PrevSet

\* with the same data.
LEMMA SetSame ==
  ASSUME NEW f, NEW g, NEW h, NEW n, NEW x, SameData(g, h),
         ChildSet(f, g, n, x) \/ NextSet(f, g, n, x) \/ PrevSet(f, g, n, x)
  PROVE  SameData(f, h)
  BY DEF SameData, ChildSet, NextSet, PrevSet

-----------------------------------------------------------------------------
(* cJSON_AddItemToArray *)

\* On an empty list, and on one that has items.
LEMMA AddFirst ==
  ASSUME NEW h \in Heap, NEW p \in Node, NEW item \in Node, h[p].child = NULL
  PROVE  LET g == AddItemToArray(h, p, item)
         IN /\ g \in Heap /\ SameData(g, h)
            /\ \A m \in Node :
              /\ g[m].child = (IF m = p THEN item ELSE h[m].child)
              /\ g[m].next = (IF m = item THEN NULL ELSE h[m].next)
              /\ g[m].prev = (IF m = item THEN item ELSE h[m].prev)
<1>. DEFINE a == [h EXCEPT ![p].child = item]
            b == [a EXCEPT ![item].prev = item]
            c == [b EXCEPT ![item].next = NULL]
<1>0. item \in Pointer /\ NULL \in Pointer
  BY DEF Pointer
<1>1. AddItemToArray(h, p, item) = c
  BY DEF AddItemToArray
<1>2. ChildSet(a, h, p, item)
  BY <1>0, SetPointers
<1>. HIDE DEF a
<1>3. PrevSet(b, a, item, item)
  BY <1>0, <1>2, SetPointers, SetHeap
<1>. HIDE DEF b
<1>4. NextSet(c, b, item, NULL)
  BY <1>0, <1>3, SetPointers, SetHeap
<1>. HIDE DEF c
<1>5. SameData(c, h)
  BY <1>2, <1>3, <1>4, SetSame DEF ChildSet
<1>. QED
  BY <1>1, <1>2, <1>3, <1>4, <1>5 DEF ChildSet, NextSet, PrevSet

LEMMA AddNext ==
  ASSUME NEW h \in Heap, NEW p \in Node, NEW item \in Node,
         h[p].child \in Node, h[h[p].child].prev \in Node
  PROVE  LET g == AddItemToArray(h, p, item)
             first == h[p].child
             last == h[first].prev
         IN /\ g \in Heap /\ SameData(g, h)
            /\ \A m \in Node :
              /\ g[m].child = h[m].child
              /\ g[m].next = (IF m = last THEN item ELSE h[m].next)
              /\ g[m].prev = (IF m = first THEN item ELSE IF m = item THEN last ELSE h[m].prev)
<1>. DEFINE first == h[p].child
            last == h[first].prev
            a == [h EXCEPT ![last].next = item]
            b == [a EXCEPT ![item].prev = last]
            c == [b EXCEPT ![first].prev = item]
<1>0. item \in Pointer /\ last \in Pointer
  BY DEF Pointer
<1>1. AddItemToArray(h, p, item) = c
  <2>1. suffix_object(h, last, item) = b
    BY DEF suffix_object
  <2>2. AddItemToArray(h, p, item) = [suffix_object(h, last, item) EXCEPT ![first].prev = item]
    <3>1. h[p].child # NULL /\ h[h[p].child].prev # NULL
      OBVIOUS
    <3>. QED
      BY <3>1 DEF AddItemToArray
  <2>. QED
    BY <2>1, <2>2
<1>2. NextSet(a, h, last, item)
  BY <1>0, SetPointers
<1>. HIDE DEF a
<1>3. PrevSet(b, a, item, last)
  BY <1>0, <1>2, SetPointers, SetHeap
<1>. HIDE DEF b
<1>4. PrevSet(c, b, first, item)
  BY <1>0, <1>3, SetPointers, SetHeap
<1>. HIDE DEF c
<1>5. SameData(c, h)
  BY <1>2, <1>3, <1>4, SetSame DEF NextSet
<1>. QED
  BY <1>1, <1>2, <1>3, <1>4, <1>5 DEF NextSet, PrevSet

\* What a heap says of the list of one node.
LEMMA OwnList ==
  ASSUME NEW h, NEW lists, NEW open, Represents(h, lists, open), NEW p, Owner(h, p)
  PROVE  /\ h \in Heap /\ p \in Node /\ lists[p] \in Seq(Node) /\ Distinct(lists[p])
         /\ Linked(h, p, lists[p]) /\ (p \notin open => Tailed(h, lists[p]))
<1>1. h \in Heap /\ lists \in [Node -> Seq(Node)] /\ p \in Node
  BY DEF Represents, Owner
<1>2. Distinct(lists[p])
  BY <1>1 DEF Represents, Apart, Distinct
<1>. QED
  BY <1>1, <1>2 DEF Represents, Owner

\* A sequence with one more element.
LEMMA Appended ==
  ASSUME NEW s \in Seq(Node), Distinct(s), NEW item \in Node, item \notin Elements(s)
  PROVE  LET t == Append(s, item)
         IN /\ t \in Seq(Node) /\ Len(t) = Len(s) + 1 /\ t[Len(s) + 1] = item
            /\ \A i \in 1..Len(s) : t[i] = s[i]
            /\ Distinct(t) /\ Elements(t) = Elements(s) \cup {item}
<1>. DEFINE t == Append(s, item)
<1>1. /\ t \in Seq(Node) /\ Len(t) = Len(s) + 1 /\ t[Len(s) + 1] = item
      /\ \A i \in 1..Len(s) : t[i] = s[i]
  OBVIOUS
<1>2. Len(s) \in Nat
  OBVIOUS
<1>3. \A i \in 1..Len(s) : s[i] # item
  BY DEF Elements
<1>. HIDE DEF t
<1>4. Distinct(t)
  BY <1>1, <1>2, <1>3 DEF Distinct
<1>5. Elements(t) = Elements(s) \cup {item}
  BY <1>1, <1>2 DEF Elements
<1>. QED
  BY <1>1, <1>4, <1>5 DEF t

\* The links after an item has been appended.
LEMMA LinkedAppend ==
  ASSUME NEW g, NEW h, NEW p, NEW s, NEW t, NEW item,
         Len(s) \in Nat \ {0}, Len(t) = Len(s) + 1, t[Len(s) + 1] = item,
         \A i \in 1..Len(s) : t[i] = s[i] /\ s[i] \in Node,
         item \in Node, \A i \in 1..Len(s) : s[i] # item,
         Distinct(s), Linked(h, p, s), h[item].next = NULL,
         g[p].child = h[p].child,
         \A m \in Node :
            /\ g[m].next = (IF m = s[Len(s)] THEN item ELSE h[m].next)
            /\ m # s[1] => g[m].prev = (IF m = item THEN s[Len(s)] ELSE h[m].prev)
  PROVE  Linked(g, p, t)
<1>1. g[p].child = After(t, 0)
  BY DEF Linked, After
<1>2. ASSUME NEW i \in 1..Len(t) PROVE g[t[i]].next = After(t, i)
  <2>1. CASE i = Len(t)
    BY <2>1 DEF After
  <2>2. CASE i # Len(t)
    <3>1. i \in 1..Len(s) /\ t[i] = s[i]
      BY <2>2
    <3>2. i = Len(s) \/ s[i] # s[Len(s)]
      BY <3>1 DEF Distinct
    <3>3. h[s[i]].next = After(s, i) /\ g[s[i]].next = (IF s[i] = s[Len(s)] THEN item ELSE h[s[i]].next)
      BY <3>1 DEF Linked
    <3>4. After(t, i) = (IF i = Len(s) THEN item ELSE After(s, i))
      BY <3>1 DEF After
    <3>. QED
      BY <3>1, <3>2, <3>3, <3>4
  <2>. QED
    BY <2>1, <2>2
<1>3. ASSUME NEW i \in 2..Len(t) PROVE g[t[i]].prev = t[i - 1]
  <2>1. CASE i = Len(t)
    BY <2>1
  <2>2. CASE i # Len(t)
    <3>1. i \in 2..Len(s) /\ t[i] = s[i] /\ t[i - 1] = s[i - 1] /\ s[i] \in Node
      BY <2>2
    <3>2. s[i] # s[1] /\ s[i] # item
      BY <3>1 DEF Distinct
    <3>. QED
      BY <3>1, <3>2 DEF Linked
  <2>. QED
    BY <2>1, <2>2
<1>. QED
  BY <1>1, <1>2, <1>3 DEF Linked

\* A root is in the list of no node.
LEMMA NotOnList ==
  ASSUME NEW lists, NEW p \in Node, NEW n, Rooted(lists, n)
  PROVE  n \notin Elements(lists[p])
  BY DEF Rooted

\* cJSON_AddItemToArray puts a root at the end of the list.
THEOREM AddItemAppends ==
  ASSUME NEW h, NEW lists, NEW open, Represents(h, lists, open),
         NEW p, Owner(h, p), p \notin open,
         NEW item \in Node, Rooted(lists, item), h[item].kind # "free"
  PROVE  /\ Represents(AddItemToArray(h, p, item), [lists EXCEPT ![p] = Append(@, item)], open)
         /\ SameData(AddItemToArray(h, p, item), h)
<1>. DEFINE s == lists[p]
            t == Append(s, item)
            g == AddItemToArray(h, p, item)
<1>1. /\ h \in Heap /\ p \in Node /\ s \in Seq(Node) /\ Distinct(s)
      /\ Linked(h, p, s) /\ Tailed(h, s)
  BY OwnList
<1>2. h[item].next = NULL /\ item \notin Elements(s)
  BY <1>1, NotOnList DEF Represents
<1>3. /\ t \in Seq(Node) /\ Len(t) = Len(s) + 1 /\ t[Len(s) + 1] = item
      /\ \A i \in 1..Len(s) : t[i] = s[i]
      /\ Distinct(t) /\ Elements(t) = Elements(s) \cup {item}
  BY <1>1, <1>2, Appended
<1>4. /\ Len(s) \in Nat /\ (s # << >> => Len(s) # 0) 
      /\ \A i \in 1..Len(s) : s[i] \in Node /\ s[i] \in Elements(s) /\ s[i] # item
  BY <1>1, <1>2 DEF Elements
<1>. HIDE DEF s, t, g
<1>5. /\ g \in Heap /\ SameData(g, h) /\ Linked(g, p, t) /\ Tailed(g, t)
      /\ \A m \in Node \ {p} : g[m].child = h[m].child
      /\ \A m \in Node : m \notin Elements(t) => g[m].next = h[m].next /\ g[m].prev = h[m].prev
  <2>1. CASE s = << >>
    <3>1. h[p].child = NULL /\ Len(s) = 0
      BY <1>1, <2>1 DEF Linked, After
    <3>2. /\ g \in Heap /\ SameData(g, h)
          /\ \A m \in Node :
            /\ g[m].child = (IF m = p THEN item ELSE h[m].child)
            /\ g[m].next = (IF m = item THEN NULL ELSE h[m].next)
            /\ g[m].prev = (IF m = item THEN item ELSE h[m].prev)
      BY <1>1, <3>1, AddFirst DEF g
    <3>. QED
      BY <1>1, <1>3, <3>1, <3>2 DEF Linked, Tailed, After
  <2>2. CASE s # << >>
    <3>1. Len(s) # 0 /\ h[p].child = s[1] /\ h[s[1]].prev = s[Len(s)]
      BY <1>1, <1>4, <2>2 DEF Linked, Tailed, After
    <3>2. /\ s[1] \in Node /\ s[Len(s)] \in Node /\ s[1] \in Elements(t) /\ s[Len(s)] \in Elements(t)
          /\ s[1] # item
      BY <1>3, <1>4, <3>1
    <3>3. /\ g \in Heap /\ SameData(g, h)
          /\ \A m \in Node :
            /\ g[m].child = h[m].child
            /\ g[m].next = (IF m = s[Len(s)] THEN item ELSE h[m].next)
            /\ g[m].prev = (IF m = s[1] THEN item ELSE IF m = item THEN s[Len(s)] ELSE h[m].prev)
      BY <1>1, <3>1, <3>2, AddNext DEF g
    <3>4. Linked(g, p, t)
      BY <1>1, <1>2, <1>3, <1>4, <3>1, <3>3, LinkedAppend
    <3>5. Tailed(g, t)
      <4>1. t[1] = s[1] /\ t[Len(t)] = item
        BY <1>3, <1>4, <3>1
      <4>. QED
        BY <3>2, <3>3, <4>1 DEF Tailed
    <3>. QED
      BY <1>3, <3>2, <3>3, <3>4, <3>5
  <2>. QED
    BY <2>1, <2>2
<1>6. Relinked(g, h, lists, p, t)
  <2>1. /\ \A m \in Node : g[m].kind = h[m].kind /\ g[m].ref = h[m].ref
        /\ \A m \in Elements(s) : m \notin Elements(t) => g[m].next = NULL
        /\ \A m \in Node : m \notin Elements(s) /\ m \notin Elements(t) =>
             g[m].next = h[m].next /\ g[m].prev = h[m].prev
    BY <1>3, <1>5 DEF SameData
  <2>2. \A i \in 1..Len(t) : t[i] \in Elements(s) \/ (Rooted(lists, t[i]) /\ h[t[i]].kind # "free")
    BY <1>3, <1>4
  <2>. QED
    BY <1>3, <1>5, <2>1, <2>2 DEF s, Relinked
<1>7. Represents(g, [lists EXCEPT ![p] = t], open)
  BY <1>5, <1>6, OtherLists
<1>. QED
  BY <1>5, <1>7 DEF s, t, g

-----------------------------------------------------------------------------
(* Sequences *)

\* A sequence and another behind it.
LEMMA Concatenated ==
  ASSUME NEW a \in Seq(Node), NEW b \in Seq(Node)
  PROVE  /\ a \o b \in Seq(Node) /\ Len(a \o b) = Len(a) + Len(b)
         /\ \A i \in 1..Len(a \o b) :
              (a \o b)[i] = (IF i <= Len(a) THEN a[i] ELSE b[i - Len(a)])
  BY ConcatProperties

\* A part of a sequence.
LEMMA Part ==
  ASSUME NEW s \in Seq(Node), NEW m \in 1..(Len(s) + 1), NEW n \in 0..Len(s), m <= n + 1
  PROVE  /\ SubSeq(s, m, n) \in Seq(Node) /\ Len(SubSeq(s, m, n)) = n - m + 1
         /\ \A i \in 1..Len(SubSeq(s, m, n)) : SubSeq(s, m, n)[i] = s[m + i - 1]
<1>1. Len(s) \in Nat /\ \A i \in 1..Len(s) : s[i] \in Node
  OBVIOUS
<1>2. m \in Int /\ n \in Int /\ \A i \in m..n : s[i] \in Node
  BY <1>1
<1>3. /\ SubSeq(s, m, n) \in Seq(Node)
      /\ Len(SubSeq(s, m, n)) = (IF m <= n THEN n - m + 1 ELSE 0)
      /\ \A i \in 1..(n - m + 1) : SubSeq(s, m, n)[i] = s[m + i - 1]
  BY <1>2, SubSeqProperties
<1>4. (IF m <= n THEN n - m + 1 ELSE 0) = n - m + 1
  BY <1>1
<1>. QED
  BY <1>3, <1>4

\* A list without its element k.
LEMMA Removed ==
  ASSUME NEW s \in Seq(Node), Distinct(s), NEW k \in 1..Len(s)
  PROVE  LET t == RemoveAt(s, k)
         IN /\ t \in Seq(Node) /\ Len(t) = Len(s) - 1
            /\ \A i \in 1..Len(t) : t[i] = (IF i < k THEN s[i] ELSE s[i + 1])
            /\ Distinct(t) /\ Elements(t) = Elements(s) \ {s[k]}
<1>. DEFINE a == SubSeq(s, 1, k - 1)
            b == SubSeq(s, k + 1, Len(s))
            t == RemoveAt(s, k)
<1>1. /\ Len(s) \in Nat /\ k \in 1..(Len(s) + 1) /\ k + 1 \in 1..(Len(s) + 1) /\ k - 1 \in 0..Len(s)
      /\ Len(s) \in 0..Len(s)
  OBVIOUS
<1>2. /\ a \in Seq(Node) /\ Len(a) = k - 1 /\ \A i \in 1..Len(a) : a[i] = s[i]
  <2>1. /\ a \in Seq(Node) /\ Len(a) = (k - 1) - 1 + 1
        /\ \A i \in 1..Len(a) : a[i] = s[1 + i - 1]
    BY <1>1, Part
  <2>. HIDE DEF a
  <2>. QED
    BY <1>1, <2>1
<1>3. /\ b \in Seq(Node) /\ Len(b) = Len(s) - k /\ \A i \in 1..Len(b) : b[i] = s[k + i]
  <2>1. /\ b \in Seq(Node) /\ Len(b) = Len(s) - (k + 1) + 1
        /\ \A i \in 1..Len(b) : b[i] = s[(k + 1) + i - 1]
    BY <1>1, Part
  <2>. HIDE DEF b
  <2>. QED
    BY <1>1, <2>1
<1>4. t = a \o b
  BY DEF RemoveAt
<1>. HIDE DEF a, b, t
<1>5. /\ t \in Seq(Node) /\ Len(t) = Len(a) + Len(b)
      /\ \A i \in 1..Len(t) : t[i] = (IF i <= Len(a) THEN a[i] ELSE b[i - Len(a)])
  BY <1>2, <1>3, <1>4, Concatenated
<1>6. /\ Len(t) = Len(s) - 1
      /\ \A i \in 1..Len(t) : t[i] = (IF i < k THEN s[i] ELSE s[i + 1])
  <2>1. Len(t) = Len(s) - 1
    BY <1>1, <1>2, <1>3, <1>5
  <2>2. ASSUME NEW i \in 1..Len(t), i < k PROVE t[i] = s[i]
    <3>1. i \in 1..Len(a) /\ i <= Len(a)
      BY <1>1, <1>2, <2>2
    <3>. QED
      BY <1>2, <1>5, <3>1
  <2>3. ASSUME NEW i \in 1..Len(t), ~(i < k) PROVE t[i] = s[i + 1]
    <3>1. /\ ~(i <= Len(a)) /\ i - Len(a) \in 1..Len(b) /\ k + (i - Len(a)) = i + 1
      BY <1>1, <1>2, <1>3, <2>1, <2>3
    <3>. QED
      BY <1>3, <1>5, <3>1
  <2>. QED
    BY <2>1, <2>2, <2>3
<1>7. Distinct(t)
  BY <1>1, <1>6 DEF Distinct
<1>8. Elements(t) \subseteq Elements(s) \ {s[k]}
  BY <1>1, <1>6 DEF Distinct, Elements
<1>9. Elements(s) \ {s[k]} \subseteq Elements(t)
  <2>. SUFFICES ASSUME NEW i \in 1..Len(s), i # k PROVE s[i] \in Elements(t)
    BY DEF Elements
  <2>1. CASE i < k
    BY <1>1, <1>6, <2>1 DEF Elements
  <2>2. CASE i > k
    <3>1. i - 1 \in 1..Len(t) /\ t[i - 1] = s[i]
      BY <1>1, <1>6, <2>2
    <3>. QED
      BY <3>1 DEF Elements
  <2>. QED
    BY <2>1, <2>2
<1>. QED
  BY <1>5, <1>6, <1>7, <1>8, <1>9 DEF t

\* A list with a new element in front of its element k.
LEMMA Inserted ==
  ASSUME NEW s \in Seq(Node), Distinct(s), NEW k \in 1..Len(s), NEW x \in Node, x \notin Elements(s)
  PROVE  LET t == InsertAt(s, k, x)
         IN /\ t \in Seq(Node) /\ Len(t) = Len(s) + 1
            /\ \A i \in 1..Len(t) : t[i] = (IF i < k THEN s[i] ELSE IF i = k THEN x ELSE s[i - 1])
            /\ Distinct(t) /\ Elements(t) = Elements(s) \cup {x}
<1>. DEFINE a == SubSeq(s, 1, k - 1)
            b == SubSeq(s, k, Len(s))
            c == a \o <<x>>
            t == InsertAt(s, k, x)
<1>1. /\ Len(s) \in Nat /\ k \in 1..(Len(s) + 1) /\ k + 1 \in 1..(Len(s) + 1) /\ k - 1 \in 0..Len(s)
      /\ Len(s) \in 0..Len(s)
  OBVIOUS
<1>2. /\ a \in Seq(Node) /\ Len(a) = k - 1 /\ \A i \in 1..Len(a) : a[i] = s[i]
  <2>1. /\ a \in Seq(Node) /\ Len(a) = (k - 1) - 1 + 1
        /\ \A i \in 1..Len(a) : a[i] = s[1 + i - 1]
    BY <1>1, Part
  <2>. HIDE DEF a
  <2>. QED
    BY <1>1, <2>1
<1>3. /\ b \in Seq(Node) /\ Len(b) = Len(s) - k + 1 /\ \A i \in 1..Len(b) : b[i] = s[k + i - 1]
  BY <1>1, Part
<1>4. t = c \o b
  BY DEF InsertAt
<1>. HIDE DEF a, b, t
<1>5. /\ c \in Seq(Node) /\ Len(c) = k
      /\ \A i \in 1..Len(c) : c[i] = (IF i < k THEN s[i] ELSE x)
  BY <1>1, <1>2
<1>. HIDE DEF c
<1>6. /\ t \in Seq(Node) /\ Len(t) = Len(c) + Len(b)
      /\ \A i \in 1..Len(t) : t[i] = (IF i <= Len(c) THEN c[i] ELSE b[i - Len(c)])
  BY <1>3, <1>4, <1>5, Concatenated
<1>7. /\ Len(t) = Len(s) + 1
      /\ \A i \in 1..Len(t) : t[i] = (IF i < k THEN s[i] ELSE IF i = k THEN x ELSE s[i - 1])
  BY <1>1, <1>3, <1>5, <1>6
<1>8. \A i \in 1..Len(s) : s[i] # x
  BY DEF Elements
<1>9. Distinct(t)
  <2>1. ASSUME NEW i \in 1..Len(t), NEW j \in 1..Len(t), i < j PROVE t[i] # t[j]
    <3>1. CASE i = k
      <4>1. t[i] = x /\ t[j] = s[j - 1] /\ j - 1 \in 1..Len(s)
        BY <1>1, <1>7, <2>1, <3>1
      <4>. QED
        BY <1>8, <4>1
    <3>2. CASE j = k
      <4>1. t[j] = x /\ t[i] = s[i] /\ i \in 1..Len(s)
        BY <1>1, <1>7, <2>1, <3>2
      <4>. QED
        BY <1>8, <4>1
    <3>3. CASE i # k /\ j # k
      <4>1. PICK m \in 1..Len(s), n \in 1..Len(s) : t[i] = s[m] /\ t[j] = s[n] /\ m # n
        <5>1. /\ t[i] = s[IF i < k THEN i ELSE i - 1] /\ t[j] = s[IF j < k THEN j ELSE j - 1]
              /\ (IF i < k THEN i ELSE i - 1) \in 1..Len(s)
              /\ (IF j < k THEN j ELSE j - 1) \in 1..Len(s)
              /\ (IF i < k THEN i ELSE i - 1) # (IF j < k THEN j ELSE j - 1)
          BY <1>1, <1>7, <2>1, <3>3
        <5>. QED
          BY <5>1
      <4>. QED
        BY <4>1 DEF Distinct
    <3>. QED
      BY <3>1, <3>2, <3>3
  <2>2. Len(t) \in Nat
    BY <1>1, <1>7
  <2>. QED
    BY <2>1, <2>2 DEF Distinct
<1>10. Elements(t) \subseteq Elements(s) \cup {x}
  BY <1>1, <1>7 DEF Elements
<1>11. x \in Elements(t)
  <2>1. k \in 1..Len(t) /\ t[k] = x
    BY <1>1, <1>7
  <2>. QED
    BY <2>1 DEF Elements
<1>12. Elements(s) \subseteq Elements(t)
  <2>. SUFFICES ASSUME NEW i \in 1..Len(s) PROVE s[i] \in Elements(t)
    BY DEF Elements
  <2>1. CASE i < k
    BY <1>1, <1>7, <2>1 DEF Elements
  <2>2. CASE i >= k
    <3>1. i + 1 \in 1..Len(t) /\ t[i + 1] = s[i]
      BY <1>1, <1>7, <2>2
    <3>. QED
      BY <3>1 DEF Elements
  <2>. QED
    BY <2>1, <2>2
<1>. QED
  BY <1>6, <1>7, <1>9, <1>10, <1>11, <1>12 DEF t

\* A list with another node in the place of its element k.
LEMMA Exchanged ==
  ASSUME NEW s \in Seq(Node), Distinct(s), NEW k \in 1..Len(s), NEW x \in Node, x \notin Elements(s)
  PROVE  LET t == [s EXCEPT ![k] = x]
         IN /\ t \in Seq(Node) /\ Len(t) = Len(s)
            /\ \A i \in 1..Len(t) : t[i] = (IF i = k THEN x ELSE s[i])
            /\ Distinct(t) /\ Elements(t) = (Elements(s) \ {s[k]}) \cup {x}
<1>. DEFINE t == [s EXCEPT ![k] = x]
<1>1. /\ t \in Seq(Node) /\ Len(t) = Len(s) /\ Len(s) \in Nat
      /\ \A i \in 1..Len(t) : t[i] = (IF i = k THEN x ELSE s[i])
  OBVIOUS
<1>2. \A i \in 1..Len(s) : s[i] # x
  BY DEF Elements
<1>. HIDE DEF t
<1>3. Distinct(t)
  BY <1>1, <1>2 DEF Distinct
<1>4. Elements(t) \subseteq (Elements(s) \ {s[k]}) \cup {x}
  BY <1>1 DEF Elements, Distinct
<1>5. x \in Elements(t)
  BY <1>1 DEF Elements
<1>6. Elements(s) \ {s[k]} \subseteq Elements(t)
  BY <1>1 DEF Elements
<1>. QED
  BY <1>1, <1>3, <1>4, <1>5, <1>6 DEF t

\* What a pointer may be.
LEMMA Pointers ==
  ASSUME NEW h \in Heap, NEW n \in Node
  PROVE  h[n].child \in Pointer /\ h[n].next \in Pointer /\ h[n].prev \in Pointer
  BY DEF Heap, Cell

\* The pointers cJSON_DetachItemViaPointer sets.
LEMMA DetachSets ==
  ASSUME NEW h \in Heap, NEW p \in Node, NEW x \in Node, h[p].child \in Node,
         x # h[p].child => h[x].prev \in Node
  PROVE  LET g == DetachItemViaPointer(h, p, x)
             first == h[p].child
         IN /\ g \in Heap /\ SameData(g, h)
            /\ \A m \in Node :
              /\ g[m].child = (IF m = p /\ x = first THEN h[x].next ELSE h[m].child)
              /\ g[m].next = (IF m = x THEN NULL
                              ELSE IF m = h[x].prev /\ x # first THEN h[x].next
                              ELSE h[m].next)
              /\ g[m].prev = (IF m = x THEN NULL
                              ELSE IF m = h[x].next THEN h[x].prev
                              ELSE IF m = first /\ x # first /\ h[x].next = NULL THEN h[x].prev
                              ELSE h[m].prev)
<1>. DEFINE first == h[p].child
            nx == h[x].next
            pv == h[x].prev
            a == IF x = first THEN h ELSE [h EXCEPT ![pv].next = nx]
            b == IF nx = NULL THEN a ELSE [a EXCEPT ![nx].prev = pv]
            c == IF x = first THEN [b EXCEPT ![p].child = nx]
                 ELSE IF nx = NULL THEN [b EXCEPT ![first].prev = pv] ELSE b
            d == [c EXCEPT ![x].prev = NULL]
            e == [d EXCEPT ![x].next = NULL]
<1>1. DetachItemViaPointer(h, p, x) = e
  BY DEF DetachItemViaPointer
<1>2. /\ first \in Node /\ nx \in Pointer /\ pv \in Pointer /\ (x # first => pv \in Node)
      /\ NULL \in Pointer /\ (nx # NULL => nx \in Node)
  BY Pointers DEF Pointer
<1>3. IF x = first THEN a = h ELSE NextSet(a, h, pv, nx)
  BY <1>2, SetPointers
<1>4. a \in Heap /\ SameData(a, h)
  BY <1>3 DEF SameData, NextSet
<1>. HIDE DEF a
<1>5. IF nx = NULL THEN b = a ELSE PrevSet(b, a, nx, pv)
  BY <1>2, <1>4, SetPointers
<1>6. b \in Heap /\ SameData(b, h)
  BY <1>4, <1>5, SetSame, SetHeap
<1>. HIDE DEF b
<1>7. IF x = first THEN ChildSet(c, b, p, nx)
      ELSE IF nx = NULL THEN PrevSet(c, b, first, pv) ELSE c = b
  BY <1>2, <1>6, SetPointers
<1>8. c \in Heap /\ SameData(c, h)
  BY <1>6, <1>7, SetSame, SetHeap
<1>. HIDE DEF c
<1>9. PrevSet(d, c, x, NULL)
  BY <1>2, <1>8, SetPointers
<1>. HIDE DEF d
<1>10. NextSet(e, d, x, NULL)
  BY <1>2, <1>9, SetPointers, SetHeap
<1>. HIDE DEF e, first, nx, pv
<1>11. e \in Heap /\ SameData(e, h)
  BY <1>8, <1>9, <1>10, SetSame, SetHeap
<1>12. ASSUME NEW m \in Node
       PROVE  e[m].child = (IF m = p /\ x = first THEN nx ELSE h[m].child)
  BY <1>3, <1>5, <1>7, <1>9, <1>10 DEF ChildSet, NextSet, PrevSet
<1>13. ASSUME NEW m \in Node
       PROVE  e[m].next = (IF m = x THEN NULL ELSE IF m = pv /\ x # first THEN nx ELSE h[m].next)
  BY <1>3, <1>5, <1>7, <1>9, <1>10 DEF ChildSet, NextSet, PrevSet
<1>14. ASSUME NEW m \in Node
       PROVE  e[m].prev = (IF m = x THEN NULL ELSE IF m = nx THEN pv
                           ELSE IF m = first /\ x # first /\ nx = NULL THEN pv ELSE h[m].prev)
  BY <1>3, <1>5, <1>7, <1>9, <1>10 DEF ChildSet, NextSet, PrevSet
<1>. QED
  BY <1>1, <1>11, <1>12, <1>13, <1>14 DEF first, nx, pv

-----------------------------------------------------------------------------
(* cJSON_DetachItemViaPointer *)

\* What is in a list.
LEMMA Members ==
  ASSUME NEW s \in Seq(Node)
  PROVE  /\ (s = << >> <=> Len(s) = 0)
         /\ \A i \in 1..Len(s) : s[i] \in Elements(s) /\ s[i] \in Node
  BY DEF Elements

\* The pointers of the k-th item of a list.
LEMMA Position ==
  ASSUME NEW h, NEW p, NEW s \in Seq(Node), Distinct(s), Linked(h, p, s), Tailed(h, s),
         NEW k \in 1..Len(s)
  PROVE  /\ Len(s) \in Nat /\ h[p].child = s[1] /\ s[1] \in Node /\ s[k] \in Node
         /\ (s[k] = s[1] <=> k = 1)
         /\ h[s[k]].next = After(s, k) /\ (k # Len(s) => s[k + 1] \in Node)
         /\ h[s[k]].prev = (IF k = 1 THEN s[Len(s)] ELSE s[k - 1])
         /\ (k # 1 => s[k - 1] \in Node) /\ s[Len(s)] \in Node
<1>1. Len(s) \in Nat
  OBVIOUS
<1>2. /\ 1 \in 1..Len(s) /\ Len(s) \in 1..Len(s) /\ (k # 1 => k - 1 \in 1..Len(s))
      /\ (k # Len(s) => k + 1 \in 1..Len(s)) /\ (k # 1 => k \in 2..Len(s))
  BY <1>1
<1>3. \A i \in 1..Len(s) : s[i] \in Node
  OBVIOUS
<1>4. s # << >>
  BY <1>1
<1>5. h[p].child = s[1]
  BY <1>1, <1>2 DEF Linked, After
<1>6. s[k] = s[1] <=> k = 1
  BY <1>2 DEF Distinct
<1>7. h[s[k]].prev = (IF k = 1 THEN s[Len(s)] ELSE s[k - 1])
  BY <1>2, <1>4 DEF Linked, Tailed
<1>. QED
  BY <1>1, <1>2, <1>3, <1>5, <1>6, <1>7 DEF Linked

\* The pointers of a list the k-th item of which has been taken out.
CutOut(g, p, s, k) ==
  /\ g[p].child = (IF k = 1 THEN After(s, 1) ELSE s[1])
  /\ \A j \in 1..Len(s) : j # k =>
       /\ g[s[j]].next = (IF j = k - 1 THEN After(s, k) ELSE After(s, j))
       /\ g[s[j]].prev = (IF j = k + 1 THEN IF k = 1 THEN s[Len(s)] ELSE s[k - 1]
                          ELSE IF j = 1 THEN IF k = Len(s) THEN s[k - 1] ELSE s[Len(s)]
                          ELSE s[j - 1])

\* They link the list without the item.
LEMMA LinkedRemoved ==
  ASSUME NEW g, NEW p, NEW s, NEW t, NEW k \in 1..Len(s),
         Len(s) \in Nat, Len(t) = Len(s) - 1, t = << >> <=> Len(t) = 0,
         \A i \in 1..Len(t) : t[i] = (IF i < k THEN s[i] ELSE s[i + 1]),
         CutOut(g, p, s, k)
  PROVE  Linked(g, p, t) /\ Tailed(g, t)
<1>1. g[p].child = After(t, 0)
  BY DEF After, CutOut
<1>2. ASSUME NEW i \in 1..Len(t) PROVE g[t[i]].next = After(t, i)
  <2>1. CASE i < k
    <3>1. i \in 1..Len(s) /\ i # k /\ t[i] = s[i]
      BY <2>1
    <3>2. g[s[i]].next = (IF i = k - 1 THEN After(s, k) ELSE After(s, i))
      BY <3>1 DEF CutOut
    <3>3. After(t, i) = (IF i = k - 1 THEN After(s, k) ELSE After(s, i))
      <4>1. CASE i = k - 1
        <5>1. k # Len(s) => i + 1 \in 1..Len(t) /\ t[i + 1] = s[k + 1] /\ i # Len(t)
          BY <4>1
        <5>2. k = Len(s) => i = Len(t)
          BY <4>1
        <5>. QED
          BY <4>1, <5>1, <5>2 DEF After
      <4>2. CASE i # k - 1
        <5>1. i + 1 \in 1..Len(t) /\ t[i + 1] = s[i + 1] /\ i # Len(t) /\ i # Len(s)
          BY <2>1, <4>2
        <5>. QED
          BY <4>2, <5>1 DEF After
      <4>. QED
        BY <4>1, <4>2
    <3>. QED
      BY <3>1, <3>2, <3>3
  <2>2. CASE i >= k
    <3>1. i + 1 \in 1..Len(s) /\ i + 1 # k /\ i + 1 # k - 1 /\ t[i] = s[i + 1]
      BY <2>2
    <3>2. g[s[i + 1]].next = After(s, i + 1)
      BY <3>1 DEF CutOut
    <3>3. After(t, i) = After(s, i + 1)
      <4>1. CASE i = Len(t)
        BY <4>1 DEF After
      <4>2. CASE i # Len(t)
        <5>1. i + 1 \in 1..Len(t) /\ t[i + 1] = s[i + 2] /\ i + 1 # Len(s)
          BY <2>2, <4>2
        <5>. QED
          BY <4>2, <5>1 DEF After
      <4>. QED
        BY <4>1, <4>2
    <3>. QED
      BY <3>1, <3>2, <3>3
  <2>. QED
    BY <2>1, <2>2
<1>3. ASSUME NEW i \in 2..Len(t) PROVE g[t[i]].prev = t[i - 1]
  <2>1. CASE i < k
    <3>1. i \in 1..Len(s) /\ i # k /\ i # k + 1 /\ i # 1 /\ t[i] = s[i] /\ t[i - 1] = s[i - 1]
      BY <2>1
    <3>. QED
      BY <3>1 DEF CutOut
  <2>2. CASE i >= k
    <3>1. i + 1 \in 1..Len(s) /\ i + 1 # k /\ i + 1 # 1 /\ t[i] = s[i + 1]
      BY <2>2
    <3>2. t[i - 1] = (IF i = k THEN s[k - 1] ELSE s[i])
      BY <2>2
    <3>3. g[s[i + 1]].prev = (IF i = k THEN s[k - 1] ELSE s[i])
      BY <2>2, <3>1 DEF CutOut
    <3>. QED
      BY <3>1, <3>2, <3>3
  <2>. QED
    BY <2>1, <2>2
<1>4. Tailed(g, t)
  <2>. SUFFICES ASSUME Len(t) # 0 PROVE g[t[1]].prev = t[Len(t)]
    BY DEF Tailed
  <2>1. t[Len(t)] = (IF k = Len(s) THEN s[k - 1] ELSE s[Len(s)])
    OBVIOUS
  <2>2. t[1] = (IF k = 1 THEN s[2] ELSE s[1])
    OBVIOUS
  <2>3. CASE k = 1
    <3>1. 2 \in 1..Len(s) /\ 2 # k
      BY <2>3
    <3>. QED
      BY <2>1, <2>2, <2>3, <3>1 DEF CutOut
  <2>4. CASE k # 1
    <3>1. 1 \in 1..Len(s) /\ 1 # k + 1
      BY <2>4
    <3>2. g[s[1]].prev = (IF k = Len(s) THEN s[k - 1] ELSE s[Len(s)])
      BY <2>4, <3>1 DEF CutOut
    <3>. QED
      BY <2>1, <2>2, <2>4, <3>2
  <2>. QED
    BY <2>3, <2>4
<1>. QED
  BY <1>1, <1>2, <1>3, <1>4 DEF Linked

\* cJSON_DetachItemViaPointer takes an item out of its list: it is a root.
THEOREM DetachRemoves ==
  ASSUME NEW h, NEW lists, NEW open, Represents(h, lists, open),
         NEW p, Owner(h, p), p \notin open, NEW k \in 1..Len(lists[p])
  PROVE  LET item == lists[p][k]
             g == DetachItemViaPointer(h, p, item)
         IN /\ Represents(g, [lists EXCEPT ![p] = RemoveAt(@, k)], open)
            /\ SameData(g, h) /\ g[item].prev = NULL
<1>. DEFINE s == lists[p]
            t == RemoveAt(s, k)
            x == s[k]
            g == DetachItemViaPointer(h, p, x)
<1>1. /\ h \in Heap /\ p \in Node /\ s \in Seq(Node) /\ Distinct(s)
      /\ Linked(h, p, s) /\ Tailed(h, s)
  BY OwnList
<1>2. /\ Len(s) \in Nat /\ h[p].child = s[1] /\ s[1] \in Node /\ x \in Node
      /\ (x = s[1] <=> k = 1) /\ h[x].next = After(s, k)
      /\ h[x].prev = (IF k = 1 THEN s[Len(s)] ELSE s[k - 1])
      /\ (k # 1 => s[k - 1] \in Node) /\ (k # Len(s) => s[k + 1] \in Node)
  BY <1>1, Position
<1>14. k \in 1..Len(s)
  OBVIOUS
<1>3. /\ t \in Seq(Node) /\ Len(t) = Len(s) - 1
      /\ \A i \in 1..Len(t) : t[i] = (IF i < k THEN s[i] ELSE s[i + 1])
      /\ Distinct(t) /\ Elements(t) = Elements(s) \ {x}
  BY <1>1, Removed
<1>. HIDE DEF s, t, x, g
<1>4. /\ (t = << >> <=> Len(t) = 0) /\ s # << >>
      /\ \A i \in 1..Len(t) : t[i] \in Elements(t)
      /\ \A i \in 1..Len(s) : s[i] \in Elements(s) /\ s[i] \in Node
  <2>1. /\ (t = << >> <=> Len(t) = 0)
        /\ \A i \in 1..Len(t) : t[i] \in Elements(t)
    BY <1>3, Members
  <2>2. /\ (s = << >> <=> Len(s) = 0)
        /\ \A i \in 1..Len(s) : s[i] \in Elements(s) /\ s[i] \in Node
    BY <1>1, Members
  <2>3. Len(s) # 0
    BY <1>2, <1>14
  <2>. QED
    BY <2>1, <2>2, <2>3
<1>5. /\ g \in Heap /\ SameData(g, h)
      /\ \A m \in Node :
        /\ g[m].child = (IF m = p /\ x = s[1] THEN h[x].next ELSE h[m].child)
        /\ g[m].next = (IF m = x THEN NULL
                        ELSE IF m = h[x].prev /\ x # s[1] THEN h[x].next ELSE h[m].next)
        /\ g[m].prev = (IF m = x THEN NULL
                        ELSE IF m = h[x].next THEN h[x].prev
                        ELSE IF m = s[1] /\ x # s[1] /\ h[x].next = NULL THEN h[x].prev
                        ELSE h[m].prev)
  BY <1>1, <1>2, DetachSets DEF g
<1>6. Linked(g, p, t) /\ Tailed(g, t)
  <2>1. g[p].child = (IF k = 1 THEN After(s, 1) ELSE s[1])
    BY <1>1, <1>2, <1>5
  <2>2. ASSUME NEW j \in 1..Len(s), j # k
        PROVE  /\ g[s[j]].next = (IF j = k - 1 THEN After(s, k) ELSE After(s, j))
               /\ g[s[j]].prev = (IF j = k + 1 THEN IF k = 1 THEN s[Len(s)] ELSE s[k - 1]
                               ELSE IF j = 1 THEN IF k = Len(s) THEN s[k - 1] ELSE s[Len(s)]
                               ELSE s[j - 1])
    <3>0. /\ 1 \in 1..Len(s) /\ (k # 1 => k - 1 \in 1..Len(s))
          /\ (k # Len(s) => k + 1 \in 1..Len(s)) /\ k \in 1..Len(s)
      BY <1>2, <1>14
    <3>1. /\ s[j] \in Node /\ s[j] # x /\ (s[j] = s[1] <=> j = 1)
          /\ (k # 1 => (s[j] = s[k - 1] <=> j = k - 1))
          /\ (k # Len(s) => (s[j] = s[k + 1] <=> j = k + 1))
      BY <1>1, <1>4, <2>2, <3>0 DEF Distinct, x
    <3>2. /\ h[s[j]].next = After(s, j)
          /\ h[s[j]].prev = (IF j = 1 THEN s[Len(s)] ELSE s[j - 1])
      BY <1>1, Position
    <3>3. IF k = Len(s) THEN h[x].next = NULL ELSE h[x].next = s[k + 1]
      BY <1>2 DEF After
    <3>4. g[s[j]].next = (IF j = k - 1 THEN After(s, k) ELSE After(s, j))
      BY <1>2, <1>5, <3>1, <3>2
    <3>5. g[s[j]].prev = (IF j = k + 1 THEN h[x].prev
                          ELSE IF j = 1 /\ k # 1 /\ k = Len(s) THEN h[x].prev ELSE h[s[j]].prev)
      <4>1. CASE k = Len(s)
        BY <1>2, <1>5, <2>2, <3>1, <3>3, <4>1
      <4>2. CASE k # Len(s)
        BY <1>2, <1>5, <2>2, <3>1, <3>3, <4>2
      <4>. QED
        BY <4>1, <4>2
    <3>. QED
      BY <1>2, <2>2, <3>2, <3>4, <3>5
  <2>3. t = << >> <=> Len(t) = 0
    BY <1>4
  <2>4. Len(s) \in Nat /\ Len(t) = Len(s) - 1
    BY <1>2, <1>3
  <2>5. \A i \in 1..Len(t) : t[i] = (IF i < k THEN s[i] ELSE s[i + 1])
    BY <1>3
  <2>6. CutOut(g, p, s, k)
    BY <2>1, <2>2 DEF CutOut
  <2>. QED
    BY <1>14, <2>3, <2>4, <2>5, <2>6, LinkedRemoved
<1>7. Relinked(g, h, lists, p, t)
  <2>1. \A i \in 1..Len(t) : t[i] \in Elements(s)
    BY <1>3, <1>4
  <2>2. \A m \in Node \ {p} : g[m].child = h[m].child
    BY <1>5
  <2>3. ASSUME NEW m \in Node, m \notin Elements(s)
        PROVE  g[m].next = h[m].next /\ g[m].prev = h[m].prev
    <3>0. /\ 1 \in 1..Len(s) /\ (k # 1 => k - 1 \in 1..Len(s))
          /\ (k # Len(s) => k + 1 \in 1..Len(s)) /\ k \in 1..Len(s)
      BY <1>2, <1>14
    <3>1. m # x /\ m # s[1] /\ (k # 1 => m # s[k - 1]) /\ (k # Len(s) => m # s[k + 1])
      BY <1>4, <2>3, <3>0 DEF x
    <3>2. m # h[x].next /\ ~(m = h[x].prev /\ x # s[1])
      BY <1>2, <3>1 DEF After
    <3>. QED
      BY <1>5, <3>1, <3>2
  <2>4. \A m \in Elements(s) : m \notin Elements(t) => g[m].next = NULL
    BY <1>2, <1>3, <1>5
  <2>5. \A m \in Node : g[m].kind = h[m].kind /\ g[m].ref = h[m].ref
    BY <1>5 DEF SameData
  <2>. QED
    BY <1>3, <1>5, <1>6, <2>1, <2>2, <2>3, <2>4, <2>5 DEF s, Relinked
<1>8. Represents(g, [lists EXCEPT ![p] = t], open)
  BY <1>6, <1>7, OtherLists
<1>9. g[x].prev = NULL
  BY <1>2, <1>5
<1>. QED
  BY <1>5, <1>8, <1>9 DEF s, t, g, x

-----------------------------------------------------------------------------
(* cJSON_InsertItemInArray *)

\* g is h after new has been put in front of x in the list of p.
PutBefore(g, h, p, x, new, first) ==
  /\ g \in Heap /\ SameData(g, h)
  /\ \A m \in Node :
    /\ g[m].child = (IF m = p /\ x = first THEN new ELSE h[m].child)
    /\ g[m].next = (IF m = h[x].prev /\ x # first THEN new
                    ELSE IF m = new THEN x ELSE h[m].next)
    /\ g[m].prev = (IF m = x THEN new ELSE IF m = new THEN h[x].prev ELSE h[m].prev)

\* The pointers that insert an item in front of another.
LEMMA InsertSets ==
  ASSUME NEW h \in Heap, NEW p \in Node, NEW x \in Node, NEW new \in Node, h[p].child \in Node,
         x # h[p].child => h[x].prev \in Node
  PROVE  PutBefore(InsertBefore(h, p, x, new), h, p, x, new, h[p].child)
<1>. DEFINE first == h[p].child
            pv == h[x].prev
            a == [h EXCEPT ![new].next = x]
            b == [a EXCEPT ![new].prev = pv]
            c == [b EXCEPT ![x].prev = new]
            d == IF x = first THEN [c EXCEPT ![p].child = new] ELSE [c EXCEPT ![pv].next = new]
<1>1. InsertBefore(h, p, x, new) = d
  BY DEF InsertBefore
<1>2. first \in Node /\ pv \in Pointer /\ (x # first => pv \in Node) /\ x \in Pointer /\ new \in Pointer
  BY Pointers DEF Pointer
<1>3. NextSet(a, h, new, x)
  BY <1>2, SetPointers
<1>. HIDE DEF a
<1>4. PrevSet(b, a, new, pv)
  BY <1>2, <1>3, SetPointers, SetHeap
<1>. HIDE DEF b
<1>5. PrevSet(c, b, x, new)
  BY <1>2, <1>4, SetPointers, SetHeap
<1>6. c \in Heap /\ SameData(c, h)
  BY <1>3, <1>4, <1>5, SetSame, SetHeap DEF NextSet
<1>. HIDE DEF c
<1>7. IF x = first THEN ChildSet(d, c, p, new) ELSE NextSet(d, c, pv, new)
  BY <1>2, <1>6, SetPointers
<1>. HIDE DEF d, first, pv
<1>8. d \in Heap /\ SameData(d, h)
  BY <1>6, <1>7, SetSame, SetHeap
<1>9. ASSUME NEW m \in Node
      PROVE  d[m].child = (IF m = p /\ x = first THEN new ELSE h[m].child)
  BY <1>3, <1>4, <1>5, <1>7 DEF ChildSet, NextSet, PrevSet
<1>10. ASSUME NEW m \in Node
       PROVE  d[m].next = (IF m = pv /\ x # first THEN new ELSE IF m = new THEN x ELSE h[m].next)
  BY <1>3, <1>4, <1>5, <1>7 DEF ChildSet, NextSet, PrevSet
<1>11. ASSUME NEW m \in Node
       PROVE  d[m].prev = (IF m = x THEN new ELSE IF m = new THEN pv ELSE h[m].prev)
  BY <1>3, <1>4, <1>5, <1>7 DEF ChildSet, NextSet, PrevSet
<1>. QED
  BY <1>1, <1>8, <1>9, <1>10, <1>11 DEF PutBefore, first, pv

\* The pointers of a list with a new item in front of the k-th.
PutIn(g, p, s, k, x) ==
  /\ g[p].child = (IF k = 1 THEN x ELSE s[1])
  /\ g[x].next = s[k] /\ g[x].prev = (IF k = 1 THEN s[Len(s)] ELSE s[k - 1])
  /\ \A j \in 1..Len(s) :
       /\ g[s[j]].next = (IF j = k - 1 THEN x ELSE After(s, j))
       /\ g[s[j]].prev = (IF j = k THEN x ELSE IF j = 1 THEN s[Len(s)] ELSE s[j - 1])

\* They link the list with the item.
LEMMA LinkedInserted ==
  ASSUME NEW g, NEW p, NEW s, NEW t, NEW x, NEW k \in 1..Len(s),
         Len(s) \in Nat, Len(t) = Len(s) + 1,
         \A i \in 1..Len(t) : t[i] = (IF i < k THEN s[i] ELSE IF i = k THEN x ELSE s[i - 1]),
         PutIn(g, p, s, k, x)
  PROVE  Linked(g, p, t) /\ Tailed(g, t)
<1>1. g[p].child = After(t, 0)
  BY DEF After, PutIn
<1>2. ASSUME NEW i \in 1..Len(t) PROVE g[t[i]].next = After(t, i)
  <2>1. CASE i < k
    <3>1. /\ i \in 1..Len(s) /\ t[i] = s[i] /\ i # Len(t) /\ i + 1 \in 1..Len(t)
          /\ t[i + 1] = (IF i = k - 1 THEN x ELSE s[i + 1]) /\ (i # k - 1 => i # Len(s))
      BY <2>1
    <3>2. g[s[i]].next = (IF i = k - 1 THEN x ELSE After(s, i))
      BY <3>1 DEF PutIn
    <3>. QED
      BY <3>1, <3>2 DEF After
  <2>2. CASE i = k
    <3>1. t[i] = x /\ i # Len(t) /\ t[i + 1] = s[k]
      BY <2>2
    <3>. QED
      BY <3>1 DEF After, PutIn
  <2>3. CASE i > k
    <3>1. i - 1 \in 1..Len(s) /\ i - 1 # k - 1 /\ t[i] = s[i - 1] /\ (i = Len(t) <=> i - 1 = Len(s))
      BY <2>3
    <3>2. g[s[i - 1]].next = After(s, i - 1)
      BY <3>1 DEF PutIn
    <3>3. i # Len(t) => t[i + 1] = s[(i - 1) + 1]
      BY <2>3
    <3>. QED
      BY <3>1, <3>2, <3>3 DEF After
  <2>. QED
    BY <2>1, <2>2, <2>3
<1>3. ASSUME NEW i \in 2..Len(t) PROVE g[t[i]].prev = t[i - 1]
  <2>1. CASE i < k
    <3>1. i \in 1..Len(s) /\ i # k /\ i # 1 /\ t[i] = s[i] /\ t[i - 1] = s[i - 1]
      BY <2>1
    <3>. QED
      BY <3>1 DEF PutIn
  <2>2. CASE i = k
    <3>1. t[i] = x /\ k # 1 /\ t[i - 1] = s[k - 1]
      BY <2>2
    <3>. QED
      BY <3>1 DEF PutIn
  <2>3. CASE i > k
    <3>1. i - 1 \in 1..Len(s) /\ t[i] = s[i - 1]
      BY <2>3
    <3>2. g[s[i - 1]].prev = (IF i - 1 = k THEN x ELSE IF i - 1 = 1 THEN s[Len(s)] ELSE s[(i - 1) - 1])
      BY <3>1 DEF PutIn
    <3>3. t[i - 1] = (IF i - 1 = k THEN x ELSE s[(i - 1) - 1])
      BY <2>3
    <3>4. i - 1 # k => i - 1 # 1
      BY <2>3
    <3>. QED
      BY <3>1, <3>2, <3>3, <3>4
  <2>. QED
    BY <2>1, <2>2, <2>3
<1>4. Tailed(g, t)
  <2>1. t[Len(t)] = s[Len(s)] /\ t[1] = (IF k = 1 THEN x ELSE s[1]) /\ 1 \in 1..Len(s)
    OBVIOUS
  <2>2. k # 1 => g[s[1]].prev = s[Len(s)]
    BY <2>1 DEF PutIn
  <2>. QED
    BY <2>1, <2>2 DEF Tailed, PutIn
<1>. QED
  BY <1>1, <1>2, <1>3, <1>4 DEF Linked

\* A root put in front of the k-th item of a list is the k-th item.
THEOREM InsertPutsBefore ==
  ASSUME NEW h, NEW lists, NEW open, Represents(h, lists, open),
         NEW p, Owner(h, p), p \notin open, NEW k \in 1..Len(lists[p]),
         NEW new \in Node, Rooted(lists, new), h[new].kind # "free"
  PROVE  LET g == InsertBefore(h, p, lists[p][k], new)
         IN /\ Represents(g, [lists EXCEPT ![p] = InsertAt(@, k, new)], open)
            /\ SameData(g, h)
<1>. DEFINE s == lists[p]
            t == InsertAt(s, k, new)
            x == s[k]
            g == InsertBefore(h, p, x, new)
<1>1. /\ h \in Heap /\ p \in Node /\ s \in Seq(Node) /\ Distinct(s)
      /\ Linked(h, p, s) /\ Tailed(h, s)
  BY OwnList
<1>2. /\ Len(s) \in Nat /\ h[p].child = s[1] /\ s[1] \in Node /\ x \in Node
      /\ (x = s[1] <=> k = 1)
      /\ h[x].prev = (IF k = 1 THEN s[Len(s)] ELSE s[k - 1])
      /\ (k # 1 => s[k - 1] \in Node)
  BY <1>1, Position
<1>3. k \in 1..Len(s)
  OBVIOUS
<1>4. new \notin Elements(s)
  BY <1>1, NotOnList
<1>5. /\ t \in Seq(Node) /\ Len(t) = Len(s) + 1
      /\ \A i \in 1..Len(t) : t[i] = (IF i < k THEN s[i] ELSE IF i = k THEN new ELSE s[i - 1])
      /\ Distinct(t) /\ Elements(t) = Elements(s) \cup {new}
  BY <1>1, <1>4, Inserted
<1>. HIDE DEF s, t, x, g
<1>6. /\ \A i \in 1..Len(t) : t[i] \in Elements(t)
      /\ \A i \in 1..Len(s) : s[i] \in Elements(s) /\ s[i] \in Node /\ s[i] # new
  BY <1>1, <1>4, <1>5, Members
<1>7. /\ g \in Heap /\ SameData(g, h)
      /\ \A m \in Node :
        /\ g[m].child = (IF m = p /\ x = s[1] THEN new ELSE h[m].child)
        /\ g[m].next = (IF m = h[x].prev /\ x # s[1] THEN new
                        ELSE IF m = new THEN x ELSE h[m].next)
        /\ g[m].prev = (IF m = x THEN new ELSE IF m = new THEN h[x].prev ELSE h[m].prev)
  <2>1. h[p].child \in Node /\ (x # h[p].child => h[x].prev \in Node) /\ h[p].child = s[1]
    BY <1>2
  <2>2. h \in Heap /\ p \in Node /\ x \in Node /\ new \in Node
    BY <1>1, <1>2
  <2>3. PutBefore(g, h, p, x, new, s[1])
    BY <2>1, <2>2, InsertSets DEF g
  <2>. QED
    BY <2>3 DEF PutBefore
<1>8. /\ 1 \in 1..Len(s) /\ (k # 1 => k - 1 \in 1..Len(s)) /\ s[k] = x
  BY <1>2, <1>3 DEF x
<1>9. PutIn(g, p, s, k, new)
  <2>1. g[p].child = (IF k = 1 THEN new ELSE s[1])
    BY <1>1, <1>2, <1>7
  <2>2. x # new /\ (k # 1 => new # s[k - 1])
    BY <1>3, <1>6, <1>8
  <2>3. g[new].next = x /\ g[new].prev = (IF k = 1 THEN s[Len(s)] ELSE s[k - 1])
    BY <1>2, <1>7, <2>2
  <2>4. ASSUME NEW j \in 1..Len(s)
        PROVE  /\ g[s[j]].next = (IF j = k - 1 THEN new ELSE After(s, j))
               /\ g[s[j]].prev = (IF j = k THEN new ELSE IF j = 1 THEN s[Len(s)] ELSE s[j - 1])
    <3>1. /\ s[j] \in Node /\ s[j] # new /\ (s[j] = x <=> j = k)
          /\ (k # 1 => (s[j] = s[k - 1] <=> j = k - 1))
      BY <1>1, <1>3, <1>6, <1>8 DEF Distinct
    <3>2. /\ h[s[j]].next = After(s, j)
          /\ h[s[j]].prev = (IF j = 1 THEN s[Len(s)] ELSE s[j - 1])
      BY <1>1, Position
    <3>3. j = k - 1 => k # 1
      BY <1>2, <1>3
    <3>. QED
      BY <1>2, <1>7, <3>1, <3>2, <3>3
  <2>. QED
    BY <1>8, <2>1, <2>3, <2>4 DEF PutIn
<1>10. Linked(g, p, t) /\ Tailed(g, t)
  BY <1>2, <1>3, <1>5, <1>9, LinkedInserted
<1>11. Relinked(g, h, lists, p, t)
  <2>1. \A i \in 1..Len(t) : t[i] \in Elements(s) \/ (Rooted(lists, t[i]) /\ h[t[i]].kind # "free")
    BY <1>5, <1>6
  <2>2. \A m \in Node \ {p} : g[m].child = h[m].child
    BY <1>7
  <2>3. ASSUME NEW m \in Node, m \notin Elements(s), m \notin Elements(t)
        PROVE  g[m].next = h[m].next /\ g[m].prev = h[m].prev
    <3>1. m # x /\ m # new /\ (k # 1 => m # s[k - 1])
      BY <1>3, <1>5, <1>6, <1>8, <2>3
    <3>. QED
      BY <1>2, <1>7, <3>1
  <2>4. \A m \in Elements(s) : m \notin Elements(t) => g[m].next = NULL
    BY <1>5
  <2>5. \A m \in Node : g[m].kind = h[m].kind /\ g[m].ref = h[m].ref
    BY <1>7 DEF SameData
  <2>. QED
    BY <1>5, <1>7, <1>10, <2>1, <2>2, <2>3, <2>4, <2>5 DEF s, Relinked
<1>12. Represents(g, [lists EXCEPT ![p] = t], open)
  BY <1>10, <1>11, OtherLists
<1>. QED
  BY <1>7, <1>12 DEF s, t, g, x

-----------------------------------------------------------------------------
(* cJSON_ReplaceItemViaPointer *)

\* g is h after new has taken the place of x in the list of p.
Replaced(g, h, p, x, new, first) ==
  /\ g \in Heap /\ SameData(g, h)
  /\ \A m \in Node :
    /\ g[m].child = (IF m = p /\ x = first THEN new ELSE h[m].child)
    /\ g[m].next = (IF m = x THEN NULL
                    ELSE IF m = h[x].prev /\ x # first THEN new
                    ELSE IF m = new THEN h[x].next ELSE h[m].next)
    /\ g[m].prev = (IF m = x THEN NULL
                    ELSE IF m = first /\ x # first /\ h[x].next = NULL THEN new
                    ELSE IF m = new /\ h[x].prev = x THEN new
                    ELSE IF m = h[x].next THEN new
                    ELSE IF m = new THEN h[x].prev ELSE h[m].prev)

\* The pointers cJSON_ReplaceItemViaPointer sets.
LEMMA ReplaceSets ==
  ASSUME NEW h \in Heap, NEW p \in Node, NEW x \in Node, NEW new \in Node, h[p].child \in Node,
         x # h[p].child => h[x].prev \in Node /\ h[x].prev # x
  PROVE  Replaced(ReplaceLinks(h, p, x, new), h, p, x, new, h[p].child)
<1>. DEFINE first == h[p].child
            nx == h[x].next
            pv == h[x].prev
            a == [h EXCEPT ![new].next = nx]
            b == [a EXCEPT ![new].prev = pv]
            c == IF nx = NULL THEN b ELSE [b EXCEPT ![nx].prev = new]
            d == IF pv = x THEN [c EXCEPT ![new].prev = new] ELSE c
            e == IF x = first THEN [d EXCEPT ![p].child = new] ELSE [c EXCEPT ![pv].next = new]
            f == IF x # first /\ nx = NULL THEN [e EXCEPT ![first].prev = new] ELSE e
            u == [f EXCEPT ![x].next = NULL]
            w == [u EXCEPT ![x].prev = NULL]
<1>1. TakePlace(h, x, new) = c
  BY DEF TakePlace
<1>2. /\ first \in Node /\ nx \in Pointer /\ pv \in Pointer /\ (x # first => pv \in Node /\ pv # x)
      /\ NULL \in Pointer /\ (nx # NULL => nx \in Node) /\ new \in Pointer
  BY Pointers DEF Pointer
<1>3. NextSet(a, h, new, nx)
  BY <1>2, SetPointers
<1>. HIDE DEF a
<1>4. PrevSet(b, a, new, pv)
  BY <1>2, <1>3, SetPointers, SetHeap
<1>5. b \in Heap /\ SameData(b, h)
  BY <1>3, <1>4, SetSame, SetHeap DEF NextSet
<1>. HIDE DEF b
<1>6. IF nx = NULL THEN c = b ELSE PrevSet(c, b, nx, new)
  BY <1>2, <1>5, SetPointers
<1>7. c \in Heap /\ SameData(c, h)
  BY <1>5, <1>6, SetSame, SetHeap
<1>. HIDE DEF c
<1>8. ReplaceLinks(h, p, x, new) = w
  <2>1. CASE x = first
    BY <1>1, <2>1 DEF ReplaceLinks
  <2>2. CASE x # first
    BY <1>1, <2>2 DEF ReplaceLinks
  <2>. QED
    BY <2>1, <2>2
<1>9. IF pv = x THEN PrevSet(d, c, new, new) ELSE d = c
  BY <1>2, <1>7, SetPointers
<1>10. d \in Heap /\ SameData(d, h)
  BY <1>7, <1>9, SetSame, SetHeap
<1>. HIDE DEF d
<1>11. IF x = first THEN ChildSet(e, d, p, new) ELSE NextSet(e, c, pv, new)
  BY <1>2, <1>7, <1>10, SetPointers
<1>12. e \in Heap /\ SameData(e, h)
  BY <1>7, <1>10, <1>11, SetSame, SetHeap
<1>. HIDE DEF e
<1>13. IF x # first /\ nx = NULL THEN PrevSet(f, e, first, new) ELSE f = e
  BY <1>2, <1>12, SetPointers
<1>14. f \in Heap /\ SameData(f, h)
  BY <1>12, <1>13, SetSame, SetHeap
<1>. HIDE DEF f
<1>15. NextSet(u, f, x, NULL)
  BY <1>2, <1>14, SetPointers
<1>. HIDE DEF u
<1>16. PrevSet(w, u, x, NULL)
  BY <1>2, <1>15, SetPointers, SetHeap
<1>. HIDE DEF w, first, nx, pv
<1>17. w \in Heap /\ SameData(w, h)
  BY <1>14, <1>15, <1>16, SetSame, SetHeap
<1>18. ASSUME NEW m \in Node
       PROVE  /\ d[m].child = h[m].child
              /\ d[m].next = (IF m = new THEN nx ELSE h[m].next)
              /\ d[m].prev = (IF m = new /\ pv = x THEN new
                              ELSE IF m = nx THEN new ELSE IF m = new THEN pv ELSE h[m].prev)
  <2>1. /\ c[m].child = h[m].child
        /\ c[m].next = (IF m = new THEN nx ELSE h[m].next)
        /\ c[m].prev = (IF m = nx THEN new ELSE IF m = new THEN pv ELSE h[m].prev)
    BY <1>3, <1>4, <1>6 DEF NextSet, PrevSet
  <2>. QED
    BY <1>9, <2>1 DEF PrevSet
<1>19. x # first => d = c
  BY <1>2, <1>9
<1>20. IF x = first THEN ChildSet(e, d, p, new) ELSE NextSet(e, d, pv, new)
  BY <1>11, <1>19
<1>21. ASSUME NEW m \in Node
       PROVE  /\ f[m].child = (IF m = p /\ x = first THEN new ELSE h[m].child)
              /\ f[m].next = (IF m = pv /\ x # first THEN new ELSE d[m].next)
              /\ f[m].prev = (IF m = first /\ x # first /\ nx = NULL THEN new ELSE d[m].prev)
  BY <1>13, <1>18, <1>20 DEF ChildSet, NextSet, PrevSet
<1>22. ASSUME NEW m \in Node
       PROVE  /\ w[m].child = f[m].child
              /\ w[m].next = (IF m = x THEN NULL ELSE f[m].next)
              /\ w[m].prev = (IF m = x THEN NULL ELSE f[m].prev)
  BY <1>15, <1>16 DEF NextSet, PrevSet
<1>23. ASSUME NEW m \in Node
       PROVE  /\ w[m].child = (IF m = p /\ x = first THEN new ELSE h[m].child)
              /\ w[m].next = (IF m = x THEN NULL ELSE IF m = pv /\ x # first THEN new
                              ELSE IF m = new THEN nx ELSE h[m].next)
              /\ w[m].prev = (IF m = x THEN NULL ELSE IF m = first /\ x # first /\ nx = NULL THEN new
                              ELSE IF m = new /\ pv = x THEN new ELSE IF m = nx THEN new
                              ELSE IF m = new THEN pv ELSE h[m].prev)
  BY <1>18, <1>21, <1>22
<1>. QED
  BY <1>8, <1>17, <1>23 DEF Replaced, first, nx, pv

\* The pointers of a list the k-th item of which has been changed for another.
PutFor(g, p, s, k, x) ==
  /\ g[p].child = (IF k = 1 THEN x ELSE s[1])
  /\ g[x].next = After(s, k)
  /\ g[x].prev = (IF Len(s) = 1 THEN x ELSE IF k = 1 THEN s[Len(s)] ELSE s[k - 1])
  /\ \A j \in 1..Len(s) : j # k =>
       /\ g[s[j]].next = (IF j = k - 1 THEN x ELSE After(s, j))
       /\ g[s[j]].prev = (IF j = k + 1 THEN x
                          ELSE IF j = 1 THEN IF k = Len(s) THEN x ELSE s[Len(s)]
                          ELSE s[j - 1])

\* They link the list with the other item.
LEMMA LinkedExchanged ==
  ASSUME NEW g, NEW p, NEW s, NEW t, NEW x, NEW k \in 1..Len(s),
         Len(s) \in Nat, Len(t) = Len(s),
         \A i \in 1..Len(t) : t[i] = (IF i = k THEN x ELSE s[i]),
         PutFor(g, p, s, k, x)
  PROVE  Linked(g, p, t) /\ Tailed(g, t)
<1>1. g[p].child = After(t, 0)
  BY DEF After, PutFor
<1>2. ASSUME NEW i \in 1..Len(t) PROVE g[t[i]].next = After(t, i)
  <2>1. CASE i = k
    <3>1. t[i] = x /\ (i # Len(t) => t[i + 1] = s[i + 1])
      BY <2>1
    <3>. QED
      BY <2>1, <3>1 DEF After, PutFor
  <2>2. CASE i # k
    <3>1. /\ i \in 1..Len(s) /\ t[i] = s[i]
          /\ (i # Len(t) => t[i + 1] = (IF i = k - 1 THEN x ELSE s[i + 1]))
          /\ (i = k - 1 => i # Len(t))
      BY <2>2
    <3>2. g[s[i]].next = (IF i = k - 1 THEN x ELSE After(s, i))
      BY <2>2, <3>1 DEF PutFor
    <3>. QED
      BY <3>1, <3>2 DEF After
  <2>. QED
    BY <2>1, <2>2
<1>3. ASSUME NEW i \in 2..Len(t) PROVE g[t[i]].prev = t[i - 1]
  <2>1. CASE i = k
    <3>1. t[i] = x /\ t[i - 1] = s[k - 1] /\ k # 1 /\ Len(s) # 1
      BY <2>1
    <3>. QED
      BY <3>1 DEF PutFor
  <2>2. CASE i # k
    <3>1. i \in 1..Len(s) /\ t[i] = s[i] /\ t[i - 1] = (IF i = k + 1 THEN x ELSE s[i - 1]) /\ i # 1
      BY <2>2
    <3>. QED
      BY <2>2, <3>1 DEF PutFor
  <2>. QED
    BY <2>1, <2>2
<1>4. Tailed(g, t)
  <2>1. /\ t[Len(t)] = (IF k = Len(s) THEN x ELSE s[Len(s)]) /\ t[1] = (IF k = 1 THEN x ELSE s[1])
        /\ 1 \in 1..Len(s) /\ (k = Len(s) /\ k = 1 => Len(s) = 1)
        /\ (k = 1 /\ Len(s) = 1 => k = Len(s))
    OBVIOUS
  <2>2. k # 1 => g[s[1]].prev = (IF k = Len(s) THEN x ELSE s[Len(s)])
    <3>1. 1 # k + 1
      OBVIOUS
    <3>. QED
      BY <2>1, <3>1 DEF PutFor
  <2>. QED
    BY <2>1, <2>2 DEF Tailed, PutFor
<1>. QED
  BY <1>1, <1>2, <1>3, <1>4 DEF Linked

\* A root that replaces the k-th item of a list is the k-th item, and the
\* item it replaces is a root.
THEOREM ReplaceExchanges ==
  ASSUME NEW h, NEW lists, NEW open, Represents(h, lists, open),
         NEW p, Owner(h, p), p \notin open, NEW k \in 1..Len(lists[p]),
         NEW new \in Node, Rooted(lists, new), h[new].kind # "free"
  PROVE  LET item == lists[p][k]
             g == ReplaceLinks(h, p, item, new)
         IN /\ Represents(g, [lists EXCEPT ![p] = [@ EXCEPT ![k] = new]], open)
            /\ SameData(g, h) /\ g[item].prev = NULL
<1>. DEFINE s == lists[p]
            t == [s EXCEPT ![k] = new]
            x == s[k]
            g == ReplaceLinks(h, p, x, new)
<1>1. /\ h \in Heap /\ p \in Node /\ s \in Seq(Node) /\ Distinct(s)
      /\ Linked(h, p, s) /\ Tailed(h, s)
  BY OwnList
<1>2. /\ Len(s) \in Nat /\ h[p].child = s[1] /\ s[1] \in Node /\ x \in Node
      /\ (x = s[1] <=> k = 1) /\ h[x].next = After(s, k)
      /\ h[x].prev = (IF k = 1 THEN s[Len(s)] ELSE s[k - 1])
      /\ (k # 1 => s[k - 1] \in Node) /\ (k # Len(s) => s[k + 1] \in Node)
  BY <1>1, Position
<1>3. k \in 1..Len(s)
  OBVIOUS
<1>4. new \notin Elements(s)
  BY <1>1, NotOnList
<1>5. /\ t \in Seq(Node) /\ Len(t) = Len(s)
      /\ \A i \in 1..Len(t) : t[i] = (IF i = k THEN new ELSE s[i])
      /\ Distinct(t) /\ Elements(t) = (Elements(s) \ {x}) \cup {new}
  BY <1>1, <1>4, Exchanged
<1>. HIDE DEF s, t, x, g
<1>6. /\ \A i \in 1..Len(t) : t[i] \in Elements(t)
      /\ \A i \in 1..Len(s) : s[i] \in Elements(s) /\ s[i] \in Node /\ s[i] # new
  BY <1>1, <1>4, <1>5, Members
<1>7. /\ 1 \in 1..Len(s) /\ (k # 1 => k - 1 \in 1..Len(s)) /\ s[k] = x
      /\ (k # Len(s) => k + 1 \in 1..Len(s)) /\ Len(s) \in 1..Len(s)
      /\ (Len(s) = 1 => k = 1)
  BY <1>2, <1>3 DEF x
<1>8. (k # 1 => s[k - 1] # x) /\ (s[Len(s)] = x <=> k = Len(s)) /\ new # x
  BY <1>1, <1>3, <1>6, <1>7 DEF Distinct
<1>9. /\ g \in Heap /\ SameData(g, h)
      /\ \A m \in Node :
        /\ g[m].child = (IF m = p /\ x = s[1] THEN new ELSE h[m].child)
        /\ g[m].next = (IF m = x THEN NULL
                        ELSE IF m = h[x].prev /\ x # s[1] THEN new
                        ELSE IF m = new THEN h[x].next ELSE h[m].next)
        /\ g[m].prev = (IF m = x THEN NULL
                        ELSE IF m = s[1] /\ x # s[1] /\ h[x].next = NULL THEN new
                        ELSE IF m = new /\ h[x].prev = x THEN new
                        ELSE IF m = h[x].next THEN new
                        ELSE IF m = new THEN h[x].prev ELSE h[m].prev)
  <2>1. /\ h[p].child \in Node /\ h[p].child = s[1]
        /\ (x # h[p].child => h[x].prev \in Node /\ h[x].prev # x)
    BY <1>2, <1>8
  <2>2. h \in Heap /\ p \in Node /\ x \in Node /\ new \in Node
    BY <1>1, <1>2
  <2>3. Replaced(g, h, p, x, new, s[1])
    BY <2>1, <2>2, ReplaceSets DEF g
  <2>. QED
    BY <2>3 DEF Replaced
<1>10. IF k = Len(s) THEN h[x].next = NULL ELSE h[x].next = s[k + 1]
  BY <1>2 DEF After
<1>11. PutFor(g, p, s, k, new)
  <2>1. g[p].child = (IF k = 1 THEN new ELSE s[1])
    BY <1>1, <1>2, <1>9
  <2>2. g[new].next = After(s, k)
    <3>1. (k # 1 => new # s[k - 1])
      BY <1>6, <1>7
    <3>. QED
      BY <1>2, <1>8, <1>9, <3>1
  <2>3. g[new].prev = (IF Len(s) = 1 THEN new ELSE IF k = 1 THEN s[Len(s)] ELSE s[k - 1])
    <3>1. new # s[1] /\ (k # Len(s) => new # s[k + 1])
      BY <1>6, <1>7
    <3>2. new # h[x].next
      BY <1>10, <3>1
    <3>3. h[x].prev = x <=> Len(s) = 1
      BY <1>2, <1>7, <1>8
    <3>. QED
      BY <1>2, <1>8, <1>9, <3>1, <3>2, <3>3
  <2>4. ASSUME NEW j \in 1..Len(s), j # k
        PROVE  /\ g[s[j]].next = (IF j = k - 1 THEN new ELSE After(s, j))
               /\ g[s[j]].prev = (IF j = k + 1 THEN new
                          ELSE IF j = 1 THEN IF k = Len(s) THEN new ELSE s[Len(s)]
                          ELSE s[j - 1])
    <3>1. /\ s[j] \in Node /\ s[j] # new /\ s[j] # x /\ (s[j] = s[1] <=> j = 1)
          /\ (k # 1 => (s[j] = s[k - 1] <=> j = k - 1))
          /\ (k # Len(s) => (s[j] = s[k + 1] <=> j = k + 1))
      BY <1>1, <1>3, <1>6, <1>7, <2>4 DEF Distinct
    <3>2. /\ h[s[j]].next = After(s, j)
          /\ h[s[j]].prev = (IF j = 1 THEN s[Len(s)] ELSE s[j - 1])
      BY <1>1, Position
    <3>3. (j = k - 1 => k # 1) /\ (j = k + 1 => k # Len(s)) /\ (j = 1 => k # 1)
      BY <1>2, <1>3, <2>4
    <3>4. g[s[j]].next = (IF j = k - 1 THEN new ELSE After(s, j))
      BY <1>2, <1>9, <3>1, <3>2, <3>3
    <3>5. s[j] = h[x].next <=> j = k + 1
      <4>1. CASE k = Len(s)
        BY <1>10, <3>1, <3>3, <4>1
      <4>2. CASE k # Len(s)
        BY <1>10, <3>1, <4>2
      <4>. QED
        BY <4>1, <4>2
    <3>6. s[j] = s[1] /\ x # s[1] /\ h[x].next = NULL <=> j = 1 /\ k = Len(s)
      BY <1>2, <1>10, <3>1, <3>3
    <3>7. g[s[j]].prev = (IF j = 1 /\ k = Len(s) THEN new
                          ELSE IF j = k + 1 THEN new ELSE h[s[j]].prev)
      BY <1>9, <3>1, <3>5, <3>6
    <3>. QED
      BY <3>2, <3>3, <3>4, <3>7
  <2>. QED
    BY <2>1, <2>2, <2>3, <2>4 DEF PutFor
<1>12. Linked(g, p, t) /\ Tailed(g, t)
  BY <1>2, <1>3, <1>5, <1>11, LinkedExchanged
<1>13. Relinked(g, h, lists, p, t)
  <2>1. \A i \in 1..Len(t) : t[i] \in Elements(s) \/ (Rooted(lists, t[i]) /\ h[t[i]].kind # "free")
    BY <1>5, <1>6
  <2>2. \A m \in Node \ {p} : g[m].child = h[m].child
    BY <1>9
  <2>3. ASSUME NEW m \in Node, m \notin Elements(s), m \notin Elements(t)
        PROVE  g[m].next = h[m].next /\ g[m].prev = h[m].prev
    <3>1. /\ m # x /\ m # new /\ m # s[1] /\ (k # 1 => m # s[k - 1])
          /\ (k # Len(s) => m # s[k + 1])
      BY <1>3, <1>5, <1>6, <1>7, <2>3
    <3>2. m # h[x].next /\ ~(m = h[x].prev /\ x # s[1])
      BY <1>2, <1>10, <3>1
    <3>. QED
      BY <1>9, <3>1, <3>2
  <2>4. \A m \in Elements(s) : m \notin Elements(t) => g[m].next = NULL
    BY <1>2, <1>5, <1>9
  <2>5. \A m \in Node : g[m].kind = h[m].kind /\ g[m].ref = h[m].ref
    BY <1>9 DEF SameData
  <2>. QED
    BY <1>5, <1>9, <1>12, <2>1, <2>2, <2>3, <2>4, <2>5 DEF s, Relinked
<1>14. Represents(g, [lists EXCEPT ![p] = t], open)
  BY <1>12, <1>13, OtherLists
<1>15. g[x].prev = NULL
  BY <1>2, <1>9
<1>. QED
  BY <1>9, <1>14, <1>15 DEF s, t, g, x

-----------------------------------------------------------------------------
(* A list that is being built *)

\* A list put where it is.
LEMMA SameList ==
  ASSUME NEW lists \in [Node -> Seq(Node)], NEW p \in Node
  PROVE  [lists EXCEPT ![p] = lists[p]] = lists
  OBVIOUS

\* LinkNext puts a root at the end of a list whose first item may not yet
\* know the last.
THEOREM LinkNextAppends ==
  ASSUME NEW h, NEW lists, NEW open, Represents(h, lists, open),
         NEW p, Owner(h, p), p \in open, NEW last,
         last = (IF lists[p] = << >> THEN NULL ELSE lists[p][Len(lists[p])]),
         NEW n \in Node, Rooted(lists, n), h[n].kind # "free"
  PROVE  /\ Represents(LinkNext(h, p, last, n), [lists EXCEPT ![p] = Append(@, n)], open)
         /\ SameData(LinkNext(h, p, last, n), h)
<1>. DEFINE s == lists[p]
            t == Append(s, n)
            g == LinkNext(h, p, last, n)
<1>1. /\ h \in Heap /\ p \in Node /\ s \in Seq(Node) /\ Distinct(s) /\ Linked(h, p, s)
  BY OwnList
<1>2. h[n].next = NULL /\ n \notin Elements(s)
  BY <1>1, NotOnList DEF Represents
<1>3. /\ t \in Seq(Node) /\ Len(t) = Len(s) + 1 /\ t[Len(s) + 1] = n
      /\ \A i \in 1..Len(s) : t[i] = s[i]
      /\ Distinct(t) /\ Elements(t) = Elements(s) \cup {n}
  BY <1>1, <1>2, Appended
<1>4. last = (IF s = << >> THEN NULL ELSE s[Len(s)])
  OBVIOUS
<1>. HIDE DEF s, t, g
<1>5. /\ Len(s) \in Nat /\ (s = << >> <=> Len(s) = 0)
      /\ \A i \in 1..Len(s) : s[i] \in Elements(s) /\ s[i] \in Node /\ s[i] # n
  <2>1. Len(s) \in Nat
    BY <1>1
  <2>. QED
    BY <1>1, <1>2, <2>1, Members
<1>6. /\ g \in Heap /\ SameData(g, h) /\ Linked(g, p, t)
      /\ \A m \in Node \ {p} : g[m].child = h[m].child
      /\ \A m \in Node : m \notin Elements(t) => g[m].next = h[m].next /\ g[m].prev = h[m].prev
  <2>1. CASE s = << >>
    <3>1. g = [h EXCEPT ![p].child = n]
      BY <1>4, <2>1 DEF g, LinkNext
    <3>2. n \in Pointer
      BY DEF Pointer
    <3>3. ChildSet(g, h, p, n)
      BY <1>1, <3>1, <3>2, SetPointers
    <3>4. Len(t) = 1 /\ t[1] = n
      BY <1>3, <1>5, <2>1
    <3>5. Linked(g, p, t)
      BY <1>1, <1>2, <3>3, <3>4 DEF ChildSet, Linked, After
    <3>. QED
      BY <3>3, <3>5 DEF ChildSet
  <2>2. CASE s # << >>
    <3>. DEFINE a == [h EXCEPT ![last].next = n]
                b == [a EXCEPT ![n].prev = last]
    <3>1. /\ last = s[Len(s)] /\ Len(s) \in 1..Len(s) /\ last \in Node /\ last \in Elements(t)
          /\ Len(s) \in Nat \ {0}
      <4>1. Len(s) \in 1..Len(s)
        BY <1>5, <2>2
      <4>. QED
        BY <1>3, <1>4, <1>5, <2>2, <4>1
    <3>2. g = b
      BY <3>1 DEF g, LinkNext, suffix_object
    <3>3. n \in Pointer /\ last \in Pointer
      BY <3>1 DEF Pointer
    <3>. HIDE DEF a
    <3>4. NextSet(a, h, last, n)
      BY <1>1, <3>1, <3>3, SetPointers DEF a
    <3>. HIDE DEF b
    <3>5. PrevSet(b, a, n, last)
      BY <3>3, <3>4, SetPointers, SetHeap DEF b
    <3>6. g \in Heap /\ SameData(g, h)
      BY <3>2, <3>4, <3>5, SetSame, SetHeap DEF NextSet
    <3>7. \A m \in Node :
            /\ g[m].child = h[m].child
            /\ g[m].next = (IF m = s[Len(s)] THEN n ELSE h[m].next)
            /\ g[m].prev = (IF m = n THEN s[Len(s)] ELSE h[m].prev)
      BY <3>1, <3>2, <3>4, <3>5 DEF NextSet, PrevSet
    <3>8. Linked(g, p, t)
      BY <1>1, <1>2, <1>3, <1>5, <3>1, <3>7, LinkedAppend
    <3>9. \A m \in Node : m \notin Elements(t) => m # n /\ m # s[Len(s)]
      BY <1>3, <3>1
    <3>. QED
      BY <3>6, <3>7, <3>8, <3>9
  <2>. QED
    BY <2>1, <2>2
<1>7. Relinked(g, h, lists, p, t)
  <2>1. /\ \A m \in Node : g[m].kind = h[m].kind /\ g[m].ref = h[m].ref
        /\ \A m \in Elements(s) : m \notin Elements(t) => g[m].next = NULL
        /\ \A m \in Node : m \notin Elements(s) /\ m \notin Elements(t) =>
             g[m].next = h[m].next /\ g[m].prev = h[m].prev
    BY <1>3, <1>6 DEF SameData
  <2>2. \A i \in 1..Len(t) : t[i] \in Elements(s) \/ (Rooted(lists, t[i]) /\ h[t[i]].kind # "free")
    BY <1>3, <1>5
  <2>. QED
    BY <1>3, <1>6, <2>1, <2>2 DEF s, Relinked
<1>8. Represents(g, [lists EXCEPT ![p] = t], open)
  BY <1>6, <1>7, OtherLists
<1>. QED
  BY <1>6, <1>8 DEF s, t, g

\* CloseList completes it.
THEOREM CloseListCloses ==
  ASSUME NEW h, NEW lists, NEW open, Represents(h, lists, open),
         NEW p, Owner(h, p), NEW last,
         last = (IF lists[p] = << >> THEN NULL ELSE lists[p][Len(lists[p])])
  PROVE  /\ Represents(CloseList(h, p, last), lists, open \ {p})
         /\ SameData(CloseList(h, p, last), h)
<1>. DEFINE s == lists[p]
            g == CloseList(h, p, last)
<1>1. /\ h \in Heap /\ p \in Node /\ s \in Seq(Node) /\ Distinct(s) /\ Linked(h, p, s)
  BY OwnList
<1>2. last = (IF s = << >> THEN NULL ELSE s[Len(s)])
  OBVIOUS
<1>3. lists \in [Node -> Seq(Node)]
  BY DEF Represents
<1>4. [lists EXCEPT ![p] = s] = lists
  BY <1>1, <1>3, SameList
<1>. HIDE DEF s, g
<1>5. /\ Len(s) \in Nat /\ (s = << >> <=> Len(s) = 0)
      /\ \A i \in 1..Len(s) : s[i] \in Elements(s) /\ s[i] \in Node
  <2>1. Len(s) \in Nat
    BY <1>1
  <2>. QED
    BY <1>1, <2>1, Members
<1>6. /\ g \in Heap /\ SameData(g, h) /\ Linked(g, p, s) /\ Tailed(g, s)
      /\ \A m \in Node : g[m].child = h[m].child /\ g[m].next = h[m].next
      /\ \A m \in Node : m \notin Elements(s) => g[m].prev = h[m].prev
  <2>1. CASE s = << >>
    <3>1. h[p].child = NULL
      BY <1>1, <1>5, <2>1 DEF Linked, After
    <3>2. g = h
      BY <3>1 DEF g, CloseList
    <3>. QED
      BY <1>1, <2>1, <3>2 DEF SameData, Tailed
  <2>2. CASE s # << >>
    <3>1. 1 \in 1..Len(s) /\ Len(s) \in 1..Len(s) /\ 0 # Len(s)
      BY <1>5, <2>2
    <3>2. h[p].child = s[1] /\ s[1] \in Node /\ s[1] \in Elements(s) /\ last = s[Len(s)] /\ last \in Pointer
      BY <1>1, <1>2, <1>5, <2>2, <3>1 DEF Linked, After, Pointer
    <3>3. g = [h EXCEPT ![s[1]].prev = last]
      BY <3>2 DEF g, CloseList
    <3>4. PrevSet(g, h, s[1], last)
      BY <1>1, <3>2, <3>3, SetPointers
    <3>5. \A i \in 2..Len(s) : s[i] \in Node /\ s[i] # s[1]
      BY <1>1, <1>5, <3>1 DEF Distinct
    <3>6. Linked(g, p, s)
      BY <1>1, <1>5, <3>4, <3>5 DEF PrevSet, Linked
    <3>7. Tailed(g, s)
      BY <3>2, <3>4 DEF PrevSet, Tailed
    <3>. QED
      BY <3>2, <3>4, <3>6, <3>7 DEF PrevSet
  <2>. QED
    BY <2>1, <2>2
<1>7. Relinked(g, h, lists, p, s)
  BY <1>1, <1>5, <1>6 DEF s, Relinked, SameData
<1>8. Represents(g, lists, open \ {p})
  <2>1. Represents(g, [lists EXCEPT ![p] = s], open \ {p})
    BY <1>6, <1>7, OtherLists
  <2>. QED
    BY <1>4, <2>1
<1>. QED
  BY <1>6, <1>8 DEF g

-----------------------------------------------------------------------------
(* Allocation *)

\* A root without children may become anything that has none, or free.
LEMMA NewCell ==
  ASSUME NEW h, NEW lists, NEW open, Represents(h, lists, open),
         NEW n \in Node, Rooted(lists, n), lists[n] = << >>,
         NEW c \in Cell, c.next = NULL, c.ref \/ c.kind = "free" \/ c.child = NULL
  PROVE  Represents([h EXCEPT ![n] = c], lists, open)
<1>. DEFINE g == [h EXCEPT ![n] = c]
<1>1. h \in Heap /\ lists \in [Node -> Seq(Node)] /\ Apart(lists)
  BY DEF Represents
<1>2. g \in Heap /\ g[n] = c /\ \A m \in Node \ {n} : g[m] = h[m]
  BY <1>1 DEF Heap
<1>. HIDE DEF g
<1>3. ASSUME NEW p \in Node
      PROVE  IF g[p].ref \/ g[p].kind = "free" THEN lists[p] = << >>
             ELSE Linked(g, p, lists[p]) /\ (p \notin open => Tailed(g, lists[p]))
  <2>1. CASE p = n
    <3>1. Len(lists[p]) = 0 /\ lists[p] = << >>
      BY <2>1
    <3>. QED
      BY <1>2, <2>1, <3>1 DEF Linked, Tailed, After
  <2>2. CASE p # n
    <3>1. lists[p] \in Seq(Node)
      BY <1>1
    <3>2. \A i \in 1..Len(lists[p]) : lists[p][i] \in Node /\ lists[p][i] \in Elements(lists[p])
      BY <3>1, Members
    <3>3. \A i \in 1..Len(lists[p]) : g[lists[p][i]] = h[lists[p][i]]
      BY <1>2, <3>2 DEF Rooted
    <3>4. g[p] = h[p]
      BY <1>2, <2>2
    <3>5. Linked(h, p, lists[p]) => Linked(g, p, lists[p])
      <4>1. \A i \in 2..Len(lists[p]) : i \in 1..Len(lists[p])
        BY <3>1
      <4>. QED
        BY <3>3, <3>4, <4>1 DEF Linked
    <3>6. Tailed(h, lists[p]) => Tailed(g, lists[p])
      <4>1. lists[p] # << >> => 1 \in 1..Len(lists[p])
        BY <3>1
      <4>. QED
        BY <3>3, <4>1 DEF Tailed
    <3>. QED
      BY <3>4, <3>5, <3>6 DEF Represents
  <2>. QED
    BY <2>1, <2>2
<1>4. ASSUME NEW m \in Node
      PROVE  IF Rooted(lists, m) THEN g[m].next = NULL ELSE g[m].kind # "free"
  BY <1>2 DEF Represents
<1>. QED
  BY <1>1, <1>2, <1>3, <1>4 DEF g, Represents

\* New_Item returns a root that no list mentions, or NULL if there is no memory.
THEOREM NewItemIsRoot ==
  ASSUME NEW h, NEW lists, NEW open, Represents(h, lists, open),
         NEW kind \in Kinds \ {"free"}
  PROVE  LET new == New_Item(h, kind)
         IN /\ Represents(new.heap, lists, open)
            /\ new.node = NULL => new.heap = h /\ \A m \in Node : h[m].kind # "free"
            /\ new.node # NULL =>
                 /\ new.node \in Node /\ h[new.node].kind = "free"
                 /\ Rooted(lists, new.node) /\ lists[new.node] = << >>
                 /\ new.heap[new.node].kind = kind /\ Owner(new.heap, new.node)
                 /\ \A m \in Node \ {new.node} : new.heap[m] = h[m]
<1>. DEFINE free == Node \ Live(h)
            n == CHOOSE n \in free : TRUE
            c == [Free EXCEPT !.kind = kind]
<1>1. h \in Heap
  BY DEF Represents
<1>2. \A m \in Node : m \in free <=> h[m].kind = "free"
  BY DEF Live
<1>3. CASE free = {}
  <2>1. New_Item(h, kind) = [heap |-> h, node |-> NULL]
    BY <1>3 DEF New_Item
  <2>. QED
    BY <1>2, <1>3, <2>1
<1>4. CASE free # {}
  <2>1. New_Item(h, kind) = [heap |-> [h EXCEPT ![n] = c], node |-> n]
    BY <1>4 DEF New_Item
  <2>2. n \in free
    BY <1>4
  <2>. HIDE DEF free, n
  <2>3. n \in Node /\ h[n].kind = "free" /\ n # NULL
    BY <1>2, <2>2 DEF free
  <2>4. Rooted(lists, n) /\ lists[n] = << >>
    BY <2>3 DEF Represents
  <2>5. /\ c.kind = kind /\ ~c.ref /\ c.child = NULL /\ c.next = NULL
        /\ c \in Cell
    <3>1. NoString \in Seq(Int) /\ NULL \in Pointer
      BY DEF NoString, Pointer
    <3>. QED
      BY <3>1 DEF Free, Cell
  <2>. HIDE DEF c
  <2>6. Represents([h EXCEPT ![n] = c], lists, open)
    BY <2>3, <2>4, <2>5, NewCell
  <2>7. [h EXCEPT ![n] = c][n] = c /\ \A m \in Node \ {n} : [h EXCEPT ![n] = c][m] = h[m]
    BY <1>1, <2>3 DEF Heap
  <2>. QED
    BY <2>1, <2>3, <2>4, <2>5, <2>6, <2>7 DEF Owner
<1>. QED
  BY <1>3, <1>4

\* A reference shares the children of the item it refers to and owns none.
THEOREM ReferenceIsRoot ==
  ASSUME NEW h, NEW lists, NEW open, Represents(h, lists, open),
         NEW item \in Node, h[item].kind # "free"
  PROVE  LET new == create_reference(h, item)
         IN /\ Represents(new.heap, lists, open)
            /\ new.node # NULL =>
                 /\ new.node \in Node /\ h[new.node].kind = "free"
                 /\ Rooted(lists, new.node) /\ new.heap[new.node].ref
                 /\ new.heap[new.node].child = h[item].child
                 /\ \A m \in Node \ {new.node} : new.heap[m] = h[m]
<1>. DEFINE a == New_Item(h, h[item].kind)
            n == a.node
            c == [h[item] EXCEPT !.ref = TRUE, !.key = NoString, !.next = NULL, !.prev = NULL]
<1>1. h \in Heap /\ h[item] \in Cell /\ h[item].kind \in Kinds \ {"free"}
  BY DEF Represents, Heap, Cell
<1>2. /\ Represents(a.heap, lists, open)
      /\ n # NULL => /\ n \in Node /\ h[n].kind = "free" /\ Rooted(lists, n) /\ lists[n] = << >>
                     /\ \A m \in Node \ {n} : a.heap[m] = h[m]
  BY <1>1, NewItemIsRoot
<1>3. CASE n = NULL
  BY <1>2, <1>3 DEF create_reference
<1>4. CASE n # NULL
  <2>1. a = [heap |-> a.heap, node |-> n]
    BY DEF New_Item
  <2>2. create_reference(h, item) = [a EXCEPT !.heap[n] = c]
    BY <1>4 DEF create_reference
  <2>. HIDE DEF a
  <2>3. create_reference(h, item) = [heap |-> [a.heap EXCEPT ![n] = c], node |-> n]
    BY <2>1, <2>2
  <2>4. c \in Cell /\ c.next = NULL /\ c.ref /\ c.child = h[item].child
    <3>1. NoString \in Seq(Int) /\ NULL \in Pointer
      BY DEF NoString, Pointer
    <3>. QED
      BY <1>1, <3>1 DEF Cell
  <2>. HIDE DEF c
  <2>5. Represents([a.heap EXCEPT ![n] = c], lists, open)
    BY <1>2, <1>4, <2>4, NewCell
  <2>6. [a.heap EXCEPT ![n] = c][n] = c /\ \A m \in Node \ {n} : [a.heap EXCEPT ![n] = c][m] = h[m]
    <3>1. a.heap \in Heap
      BY <1>2 DEF Represents
    <3>. QED
      BY <1>2, <1>4, <3>1 DEF Heap
  <2>. QED
    BY <1>2, <1>4, <2>3, <2>4, <2>5, <2>6
<1>. QED
  BY <1>3, <1>4

-----------------------------------------------------------------------------
(* Names *)

\* The links are all that matters.
LEMMA LinksMatter ==
  ASSUME NEW h, NEW lists, NEW open, Represents(h, lists, open), NEW g \in Heap,
         \A m \in Node : /\ g[m].kind = h[m].kind /\ g[m].ref = h[m].ref
                         /\ g[m].child = h[m].child /\ g[m].next = h[m].next
                         /\ g[m].prev = h[m].prev
  PROVE  Represents(g, lists, open)
<1>1. lists \in [Node -> Seq(Node)] /\ Apart(lists)
  BY DEF Represents
<1>2. ASSUME NEW p \in Node
      PROVE  IF g[p].ref \/ g[p].kind = "free" THEN lists[p] = << >>
             ELSE Linked(g, p, lists[p]) /\ (p \notin open => Tailed(g, lists[p]))
  <2>1. lists[p] \in Seq(Node)
    BY <1>1
  <2>2. \A i \in 1..Len(lists[p]) : lists[p][i] \in Node
    BY <2>1, Members
  <2>3. Linked(h, p, lists[p]) => Linked(g, p, lists[p])
    <3>1. \A i \in 2..Len(lists[p]) : i \in 1..Len(lists[p])
      BY <2>1
    <3>. QED
      BY <2>2, <3>1 DEF Linked
  <2>4. Tailed(h, lists[p]) => Tailed(g, lists[p])
    <3>1. lists[p] # << >> => 1 \in 1..Len(lists[p])
      BY <2>1
    <3>. QED
      BY <2>2, <3>1 DEF Tailed
  <2>. QED
    BY <2>3, <2>4 DEF Represents
<1>3. ASSUME NEW m \in Node
      PROVE  IF Rooted(lists, m) THEN g[m].next = NULL ELSE g[m].kind # "free"
  BY DEF Represents
<1>. QED
  BY <1>1, <1>2, <1>3 DEF Represents

\* cJSON_AddItemToObject names a root and puts it at the end of the list.
THEOREM AddToObjectAppends ==
  ASSUME NEW h, NEW lists, NEW open, Represents(h, lists, open),
         NEW p, Owner(h, p), p \notin open, NEW name \in Seq(Int),
         NEW item \in Node, Rooted(lists, item), h[item].kind # "free"
  PROVE  LET g == AddItemToObject(h, p, name, item)
         IN /\ Represents(g, [lists EXCEPT ![p] = Append(@, item)], open)
            /\ g[item].key = name /\ \A m \in Node \ {item} : g[m].key = h[m].key
<1>. DEFINE a == [h EXCEPT ![item].key = name]
<1>1. /\ a \in Heap /\ a[item].key = name /\ \A m \in Node \ {item} : a[m].key = h[m].key
      /\ \A m \in Node : /\ a[m].kind = h[m].kind /\ a[m].ref = h[m].ref
                         /\ a[m].child = h[m].child /\ a[m].next = h[m].next
                         /\ a[m].prev = h[m].prev
  BY DEF Represents, Heap, Cell
<1>. HIDE DEF a
<1>2. Represents(a, lists, open)
  BY <1>1, LinksMatter
<1>3. Owner(a, p) /\ a[item].kind # "free"
  BY <1>1 DEF Owner
<1>4. /\ Represents(AddItemToArray(a, p, item), [lists EXCEPT ![p] = Append(@, item)], open)
      /\ SameData(AddItemToArray(a, p, item), a)
  BY <1>2, <1>3, AddItemAppends
<1>. QED
  BY <1>1, <1>4 DEF AddItemToObject, SameData, a

-----------------------------------------------------------------------------
(* The lists a heap represents *)

\* A set of numbers has a least one.
LEMMA NatMin ==
  ASSUME NEW T, T \subseteq Nat, T # {}
  PROVE  \E x \in T : \A y \in T : x <= y
<1> DEFINE R == {p \in Nat \X Nat : p[1] < p[2]}
<1>1. IsWellFoundedOn(R, Nat)
  <2>1. R = OpToRel(<, Nat)
    BY DEF OpToRel
  <2>. QED
    BY <2>1, NatLessThanWellFounded
<1>2. PICK x \in T : \A y \in T : ~(<<y, x>> \in R)
  <2>. HIDE DEF R
  <2>. QED
    BY <1>1, WFMin
<1>3. \A y \in T : ~(y < x)
  BY <1>2
<1>. QED
  BY <1>3

\* Following the pointers from a node, one finds one list.
LEMMA OneList ==
  ASSUME NEW h, NEW p, NEW s \in Seq(Node), NEW t \in Seq(Node),
         Linked(h, p, s), Linked(h, p, t), Len(s) <= Len(t)
  PROVE  s = t
<1>1. Len(s) \in Nat /\ Len(t) \in Nat
  OBVIOUS
<1>2. /\ \A i \in 1..Len(s) : s[i] \in Node
      /\ \A i \in 1..Len(t) : t[i] \in Node
  OBVIOUS
<1>3. \A i \in 1..Len(s) : s[i] = t[i]
  <2>. DEFINE T == {i \in 1..Len(s) : s[i] # t[i]}
  <2>. SUFFICES ASSUME T # {} PROVE FALSE
    OBVIOUS
  <2>1. PICK i \in T : \A j \in T : i <= j
    <3>1. T \subseteq Nat
      BY <1>1
    <3>. HIDE DEF T
    <3>. QED
      BY <3>1, NatMin
  <2>2. i \in 1..Len(s) /\ i \in 1..Len(t) /\ s[i] # t[i]
    BY <1>1, <2>1
  <2>3. CASE i = 1
    BY <1>1, <2>2, <2>3 DEF Linked, After
  <2>4. CASE i # 1
    <3>1. /\ i - 1 \in 1..Len(s) /\ i - 1 \in 1..Len(t) /\ ~(i <= i - 1) /\ (i - 1) + 1 = i
          /\ i - 1 # Len(s) /\ i - 1 # Len(t)
      BY <1>1, <2>2, <2>4
    <3>2. s[i - 1] = t[i - 1]
      BY <2>1, <3>1
    <3>3. After(s, i - 1) = s[i] /\ After(t, i - 1) = t[i]
      BY <3>1 DEF After
    <3>. QED
      BY <2>2, <3>1, <3>2, <3>3 DEF Linked
  <2>. QED
    BY <2>3, <2>4
<1>4. Len(s) = Len(t)
  <2>. SUFFICES ASSUME Len(s) < Len(t) PROVE FALSE
    BY <1>1
  <2>1. t[Len(s) + 1] \in Node /\ After(t, Len(s)) = t[Len(s) + 1] /\ After(s, Len(s)) = NULL
    BY <1>1, <1>2 DEF After
  <2>2. CASE Len(s) = 0
    BY <2>1, <2>2 DEF Linked
  <2>3. CASE Len(s) # 0
    <3>1. Len(s) \in 1..Len(s) /\ Len(s) \in 1..Len(t)
      BY <1>1, <2>3
    <3>. QED
      BY <1>3, <2>1, <3>1 DEF Linked
  <2>. QED
    BY <2>2, <2>3
<1>. QED
  BY <1>1, <1>3, <1>4

\* A heap represents one assignment of lists to nodes.
THEOREM ListsAreDetermined ==
  ASSUME NEW h, NEW open, NEW l1, NEW l2, Represents(h, l1, open), Represents(h, l2, open)
  PROVE  l1 = l2
<1>1. l1 \in [Node -> Seq(Node)] /\ l2 \in [Node -> Seq(Node)]
  BY DEF Represents
<1>2. ASSUME NEW p \in Node PROVE l1[p] = l2[p]
  <2>1. CASE h[p].ref \/ h[p].kind = "free"
    BY <2>1 DEF Represents
  <2>2. CASE ~(h[p].ref \/ h[p].kind = "free")
    <3>1. Linked(h, p, l1[p]) /\ Linked(h, p, l2[p])
      BY <2>2 DEF Represents
    <3>2. l1[p] \in Seq(Node) /\ l2[p] \in Seq(Node)
      BY <1>1
    <3>3. Len(l1[p]) <= Len(l2[p]) \/ Len(l2[p]) <= Len(l1[p])
      BY <3>2
    <3>. QED
      BY <3>1, <3>2, <3>3, OneList
  <2>. QED
    BY <2>1, <2>2
<1>. QED
  BY <1>1, <1>2

\* The lists are as the functions of cJSON that look for the end of a list
\* rely on.
THEOREM RepresentedIsWellLinked ==
  ASSUME NEW h, NEW lists, NEW open, Represents(h, lists, open),
         NEW p, Owner(h, p), p \notin open
  PROVE  WellLinkedList(h, lists[p])
<1>1. /\ lists[p] \in Seq(Node) /\ Linked(h, p, lists[p]) /\ Tailed(h, lists[p])
  BY OwnList
<1>2. lists[p] # << >> => Last(lists[p]) = lists[p][Len(lists[p])]
  BY DEF Last
<1>. QED
  BY <1>1, <1>2 DEF WellLinkedList, Linked, Tailed

-----------------------------------------------------------------------------
(* The order of names *)

\* No string is before itself.
LEMMA PrecedesStrict ==
  ASSUME NEW a \in Seq(Int) PROVE ~Precedes(a, a)
  BY DEF Precedes

\* Before and before is before.
LEMMA PrecedesTransitive ==
  ASSUME NEW a \in Seq(Int), NEW b \in Seq(Int), NEW c \in Seq(Int),
         Precedes(a, b), Precedes(b, c)
  PROVE  Precedes(a, c)
<1>1. /\ Len(a) \in Nat /\ DOMAIN a = 1..Len(a) /\ \A j \in 1..Len(a) : a[j] \in Int
      /\ Len(b) \in Nat /\ DOMAIN b = 1..Len(b) /\ \A j \in 1..Len(b) : b[j] \in Int
      /\ Len(c) \in Nat /\ DOMAIN c = 1..Len(c) /\ \A j \in 1..Len(c) : c[j] \in Int
  OBVIOUS
<1>2. PICK i \in 1..Len(b) : /\ \A j \in 1..(i - 1) : j \in 1..Len(a) /\ a[j] = b[j]
                             /\ i > Len(a) \/ a[i] < b[i]
  BY <1>1 DEF Precedes
<1>3. PICK k \in 1..Len(c) : /\ \A j \in 1..(k - 1) : j \in 1..Len(b) /\ b[j] = c[j]
                             /\ k > Len(b) \/ b[k] < c[k]
  BY <1>1 DEF Precedes
<1>. DEFINE m == IF i <= k THEN i ELSE k
<1>4. /\ m \in 1..Len(c) /\ m <= i /\ m <= k
      /\ (m = i /\ m = k) \/ (m = i /\ m < k) \/ (m = k /\ m < i)
  <2>1. CASE i <= k
    BY <1>1, <2>1
  <2>2. CASE i > k
    BY <1>1, <2>2
  <2>. QED
    BY <1>1, <2>1, <2>2
<1>. HIDE DEF m
<1>5. ASSUME NEW j \in 1..(m - 1) PROVE j \in 1..Len(a) /\ a[j] = c[j]
  <2>1. j \in 1..(i - 1) /\ j \in 1..(k - 1)
    BY <1>1, <1>4
  <2>. QED
    BY <1>2, <1>3, <2>1
<1>6. m > Len(a) \/ a[m] < c[m]
  <2>. SUFFICES ASSUME m <= Len(a) PROVE a[m] < c[m]
    BY <1>1, <1>4
  <2>1. m \in 1..Len(a) /\ m \in 1..Len(b)
    BY <1>1, <1>4
  <2>2. a[m] \in Int /\ b[m] \in Int /\ c[m] \in Int
    BY <1>1, <1>4, <2>1
  <2>3. CASE m = i /\ m = k
    BY <1>1, <1>2, <1>3, <2>1, <2>2, <2>3
  <2>4. CASE m = i /\ m < k
    <3>1. b[m] = c[m]
      BY <1>1, <1>3, <1>4, <2>4
    <3>. QED
      BY <1>1, <1>2, <2>1, <2>2, <2>4, <3>1
  <2>5. CASE m = k /\ m < i
    <3>1. a[m] = b[m]
      BY <1>1, <1>2, <1>4, <2>5
    <3>. QED
      BY <1>1, <1>3, <2>1, <2>2, <2>5, <3>1
  <2>. QED
    BY <1>4, <2>3, <2>4, <2>5
<1>. QED
  BY <1>1, <1>4, <1>5, <1>6 DEF Precedes

\* The next number is in range.
LEMMA NextUp ==
  ASSUME NEW m \in Nat, NEW n \in Nat, m <= n, m # n
  PROVE  m + 1 \in 1..n /\ m + 1 > m
  OBVIOUS

\* Of two strings one is before the other.
LEMMA PrecedesTotal ==
  ASSUME NEW a \in Seq(Int), NEW b \in Seq(Int), a # b, Len(a) <= Len(b)
  PROVE  Precedes(a, b) \/ Precedes(b, a)
<1>1. Len(a) \in Nat /\ DOMAIN a = 1..Len(a) /\ Len(b) \in Nat /\ DOMAIN b = 1..Len(b)
  OBVIOUS
<1>2. (\A j \in 1..Len(a) : a[j] \in Int) /\ (\A j \in 1..Len(b) : b[j] \in Int)
  OBVIOUS
<1>. DEFINE T == {i \in 1..Len(a) : a[i] # b[i]}
<1>3. CASE T = {}
  <2>1. \A i \in 1..Len(a) : a[i] = b[i]
    BY <1>3
  <2>2. Len(a) # Len(b)
    BY <2>1, SeqEqual
  <2>. HIDE DEF T
  <2>3. Len(a) + 1 \in 1..Len(b) /\ Len(a) + 1 > Len(a)
    BY <1>1, <2>2, NextUp
  <2>4. \A j \in 1..((Len(a) + 1) - 1) : j \in 1..Len(a)
    BY <1>1
  <2>. QED
    BY <1>1, <2>1, <2>3, <2>4 DEF Precedes
<1>4. CASE T # {}
  <2>1. PICK i \in T : \A j \in T : i <= j
    <3>1. T \subseteq Nat
      BY <1>1
    <3>. HIDE DEF T
    <3>. QED
      BY <1>4, <3>1, NatMin
  <2>2. i \in 1..Len(a) /\ i \in 1..Len(b) /\ a[i] # b[i]
    BY <1>1, <2>1
  <2>3. \A j \in 1..(i - 1) : j \in 1..Len(a) /\ j \in 1..Len(b) /\ a[j] = b[j]
    BY <1>1, <2>1, <2>2
  <2>4. a[i] < b[i] \/ b[i] < a[i]
    <3>1. a[i] \in Int /\ b[i] \in Int
      BY <1>2, <2>2
    <3>. QED
      BY <2>2, <3>1
  <2>. QED
    BY <1>1, <2>2, <2>3, <2>4 DEF Precedes
<1>. QED
  BY <1>3, <1>4

\* A name in lower case is a name.
LEMMA Folded ==
  ASSUME NEW a \in Seq(Int), NEW sensitive \in BOOLEAN
  PROVE  Fold(a, sensitive) \in Seq(Int)
<1>1. \A c \in Int : ToLower(c) \in Int
  BY DEF ToLower
<1>. HIDE DEF ToLower
<1>2. [i \in DOMAIN a |-> ToLower(a[i])] \in Seq(Int)
  <2>1. Len(a) \in Nat /\ DOMAIN a = 1..Len(a) /\ \A i \in 1..Len(a) : a[i] \in Int
    OBVIOUS
  <2>. QED
    BY <1>1, <2>1
<1>. QED
  BY <1>2 DEF Fold

\* compare_strings orders names: of two, one is before the other or they are
\* the same, never both, and what is before a name that is before a third is
\* before the third.  sort_list relies on it.
THEOREM NamesAreOrdered ==
  ASSUME NEW sensitive \in BOOLEAN, NEW a \in Seq(Int) \ {NoString},
         NEW b \in Seq(Int) \ {NoString}, NEW c \in Seq(Int) \ {NoString}
  PROVE  /\ KeyPrecedes(a, b, sensitive) \/ SameKey(a, b, sensitive) \/ KeyPrecedes(b, a, sensitive)
         /\ KeyPrecedes(a, b, sensitive) =>
              ~SameKey(a, b, sensitive) /\ ~KeyPrecedes(b, a, sensitive)
         /\ KeyPrecedes(a, b, sensitive) /\ KeyPrecedes(b, c, sensitive) =>
              KeyPrecedes(a, c, sensitive)
<1>. DEFINE A == Fold(a, sensitive)
            B == Fold(b, sensitive)
            C == Fold(c, sensitive)
<1>1. A \in Seq(Int) /\ B \in Seq(Int) /\ C \in Seq(Int)
  BY Folded
<1>2. /\ KeyPrecedes(a, b, sensitive) <=> Precedes(A, B)
      /\ KeyPrecedes(b, a, sensitive) <=> Precedes(B, A)
      /\ KeyPrecedes(b, c, sensitive) <=> Precedes(B, C)
      /\ KeyPrecedes(a, c, sensitive) <=> Precedes(A, C)
      /\ SameKey(a, b, sensitive) <=> A = B
  BY DEF KeyPrecedes, SameKey
<1>. HIDE DEF A, B, C
<1>3. Precedes(A, B) \/ A = B \/ Precedes(B, A)
  <2>1. Len(A) <= Len(B) \/ Len(B) <= Len(A)
    BY <1>1
  <2>. QED
    BY <1>1, <2>1, PrecedesTotal
<1>4. Precedes(A, B) => A # B /\ ~Precedes(B, A)
  BY <1>1, PrecedesStrict, PrecedesTransitive
<1>5. Precedes(A, B) /\ Precedes(B, C) => Precedes(A, C)
  BY <1>1, PrecedesTransitive
<1>. QED
  BY <1>2, <1>3, <1>4, <1>5

(* Printing *)

\* Nothing was read or written behind the end.
Fits(p) == p \in PrintBuffer /\ ~p.outside

\* A zero ends what was printed last.
Ended(p) == p.ok => \E i \in (p.offset + 1)..Len(p.mem) : p.mem[i] = 0

\* What is printed into q after p: the buffer of the caller's keeps its length
\* and what is in front of the offset stays.
Goes(p, q) ==
  /\ q.noalloc = p.noalloc /\ q.format = p.format /\ q.depth = p.depth
  /\ p.noalloc => Len(q.mem) = Len(p.mem)
  /\ Len(p.mem) <= Len(q.mem)
  /\ q.ok => p.ok /\ p.offset <= q.offset
  /\ \A i \in 1..Len(p.mem) : i <= p.offset => q.mem[i] = p.mem[i]

\* A buffer that has grown.
LEMMA Grown ==
  ASSUME NEW mem \in Seq(Int), NEW n \in Nat
  PROVE  /\ mem \o Garbage(n) \in Seq(Int) /\ Len(mem \o Garbage(n)) = Len(mem) + n
         /\ \A i \in 1..Len(mem) : (mem \o Garbage(n))[i] = mem[i]
<1>. DEFINE g == Garbage(n)
<1>1. g \in Seq(Int) /\ Len(g) = n
  BY DEF Garbage
<1>. HIDE DEF g
<1>2. mem \o g \in Seq(Int) /\ Len(mem \o g) = Len(mem) + Len(g)
  BY <1>1, ConcatProperties
<1>3. \A i \in 1..Len(mem) : i \in 1..(Len(mem) + Len(g)) /\ i <= Len(mem)
  BY <1>1
<1>4. \A i \in 1..(Len(mem) + Len(g)) : i <= Len(mem) => (mem \o g)[i] = mem[i]
  BY <1>1, ConcatProperties
<1>5. \A i \in 1..Len(mem) : (mem \o g)[i] = mem[i]
  BY <1>3, <1>4
<1>. QED
  BY <1>1, <1>2, <1>5 DEF g

\* Twice what is needed is more than there is when there is too little.
LEMMA Doubled ==
  ASSUME NEW a \in Nat, NEW l \in Nat, ~(a <= l)
  PROVE  2 * a - l \in Nat /\ l + (2 * a - l) >= a /\ l + (2 * a - l) >= l
  OBVIOUS

\* ensure fails or makes room for what is needed and a zero behind it, and a
\* buffer of the caller's does not grow.
THEOREM EnsureMakesRoom ==
  ASSUME NEW p, Fits(p), NEW needed \in Nat
  PROVE  LET q == ensure(p, needed)
         IN /\ Fits(q) /\ Goes(p, q) /\ q.offset = p.offset
            /\ q.ok => q.offset + needed + 1 <= Len(q.mem)
<1>. DEFINE all == p.offset + needed + 1
            length == Len(p.mem)
            q == ensure(p, needed)
<1>1. /\ p \in PrintBuffer /\ p.mem \in Seq(Int) /\ p.offset \in Nat /\ length \in Nat /\ all \in Nat
      /\ ~p.outside /\ p.ok \in BOOLEAN
  BY DEF Fits, PrintBuffer
<1>2. ASSUME q = Fails(p) PROVE Fits(q) /\ Goes(p, q) /\ q.offset = p.offset /\ ~q.ok
  <2>1. /\ q \in PrintBuffer /\ ~q.ok /\ q.mem = p.mem /\ q.offset = p.offset /\ ~q.outside
        /\ q.noalloc = p.noalloc /\ q.format = p.format /\ q.depth = p.depth
    BY <1>1, <1>2 DEF Fails, PrintBuffer
  <2>. QED
    BY <1>1, <2>1 DEF Fits, Goes
<1>3. CASE length > 0 /\ p.offset >= length
  BY <1>2, <1>3 DEF ensure
<1>4. CASE ~(length > 0 /\ p.offset >= length) /\ all <= length
  <2>1. q = p
    BY <1>4 DEF ensure
  <2>. QED
    BY <1>1, <1>4, <2>1 DEF Fits, Goes
<1>5. CASE ~(length > 0 /\ p.offset >= length) /\ ~(all <= length) /\ p.noalloc
  BY <1>2, <1>5 DEF ensure
<1>6. CASE ~(length > 0 /\ p.offset >= length) /\ ~(all <= length) /\ ~p.noalloc
  <2>. DEFINE mem == p.mem \o Garbage(2 * all - length)
  <2>1. q = [p EXCEPT !.mem = mem]
    BY <1>6 DEF ensure
  <2>2. 2 * all - length \in Nat /\ length + (2 * all - length) >= all /\ length + (2 * all - length) >= length
    BY <1>1, <1>6, Doubled
  <2>3. mem \in Seq(Int) /\ Len(mem) = length + (2 * all - length) /\ \A i \in 1..length : mem[i] = p.mem[i]
    BY <1>1, <2>2, Grown
  <2>. HIDE DEF mem, q
  <2>4. /\ q \in PrintBuffer /\ q.ok = p.ok /\ q.mem = mem /\ q.offset = p.offset /\ ~q.outside
        /\ q.noalloc = p.noalloc /\ q.format = p.format /\ q.depth = p.depth
    BY <1>1, <2>1, <2>3 DEF PrintBuffer
  <2>5. Goes(p, q)
    <3>1. Len(q.mem) >= Len(p.mem)
      BY <2>2, <2>3, <2>4
    <3>2. \A i \in 1..Len(p.mem) : q.mem[i] = p.mem[i]
      BY <2>3, <2>4
    <3>3. p.offset <= q.offset
      BY <1>1, <2>4
    <3>4. Len(p.mem) <= Len(q.mem) /\ (q.ok => p.ok) /\ ~p.noalloc
      BY <1>1, <1>6, <2>4, <3>1
    <3>. QED
      BY <2>4, <3>2, <3>3, <3>4 DEF Goes
  <2>. QED
    BY <2>2, <2>3, <2>4, <2>5 DEF Fits, q
<1>. QED
  BY <1>3, <1>4, <1>5, <1>6

\* A place behind the offset.
LEMMA Behind ==
  ASSUME NEW o \in Nat, NEW l \in Nat, NEW m \in Nat, o + l <= m, NEW i \in 1..l
  PROVE  o + i \in 1..m /\ (o + i) - o = i
  OBVIOUS

LEMMA LastBehind ==
  ASSUME NEW o \in Nat, NEW l \in Nat, NEW m \in Nat, o + l <= m, NEW n \in Nat, n < l
  PROVE  l \in 1..l /\ o + l \in ((o + n) + 1)..m
  OBVIOUS

\* What is written where room has been made stays inside the buffer, and a zero
\* at its end is found if the offset stays in front of it.
THEOREM WritesFit ==
  ASSUME NEW p, Fits(p), NEW needed \in Nat, NEW s \in Seq(Int), Len(s) <= needed + 1, NEW n \in Nat
  PROVE  LET q == Write(ensure(p, needed), s, n)
         IN /\ Fits(q) /\ Goes(p, q)
            /\ q.ok => \A i \in 1..Len(s) : q.mem[p.offset + i] = s[i]
            /\ n < Len(s) /\ s[Len(s)] = 0 => Ended(q)
<1>. DEFINE e == ensure(p, needed)
            mem == [i \in DOMAIN e.mem |-> IF i - e.offset \in DOMAIN s THEN s[i - e.offset] ELSE e.mem[i]]
            q == Write(e, s, n)
<1>1. Fits(e) /\ Goes(p, e) /\ e.offset = p.offset /\ (e.ok => e.offset + needed + 1 <= Len(e.mem))
  BY EnsureMakesRoom
<1>. HIDE DEF e
<1>2. CASE ~e.ok
  <2>1. q = e
    BY <1>2 DEF Write
  <2>. QED
    BY <1>1, <1>2, <2>1 DEF Ended, e
<1>3. CASE e.ok
  <2>1. /\ e \in PrintBuffer /\ e.mem \in Seq(Int) /\ e.offset \in Nat /\ Len(e.mem) \in Nat
        /\ DOMAIN e.mem = 1..Len(e.mem) /\ ~e.outside /\ Len(s) \in Nat /\ DOMAIN s = 1..Len(s)
        /\ \A i \in 1..Len(e.mem) : e.mem[i] \in Int
    BY <1>1 DEF Fits, PrintBuffer
  <2>2. /\ mem \in Seq(Int) /\ Len(mem) = Len(e.mem)
        /\ \A i \in 1..Len(e.mem) : mem[i] = (IF i - e.offset \in 1..Len(s) THEN s[i - e.offset] ELSE e.mem[i])
    <3>1. \A i \in 1..Len(s) : s[i] \in Int
      OBVIOUS
    <3>2. \A i \in DOMAIN e.mem :
            (IF i - e.offset \in DOMAIN s THEN s[i - e.offset] ELSE e.mem[i]) \in Int
      BY <2>1, <3>1
    <3>. QED
      BY <2>1, <3>2
  <2>3. e.offset + Len(s) <= Len(e.mem)
    BY <1>1, <1>3, <2>1
  <2>4. q = [e EXCEPT !.mem = mem, !.offset = @ + n, !.outside = @ \/ e.offset + Len(s) > Len(e.mem)]
    BY <1>3 DEF Write
  <2>. HIDE DEF mem, q
  <2>5. /\ q \in PrintBuffer /\ ~q.outside /\ q.mem = mem /\ q.offset = e.offset + n /\ q.ok
        /\ q.noalloc = e.noalloc /\ q.format = e.format /\ q.depth = e.depth
    <3>1. e.outside \/ e.offset + Len(s) > Len(e.mem) <=> FALSE
      BY <2>1, <2>3
    <3>2. e.offset + n \in Nat
      BY <2>1
    <3>. DEFINE o == e.offset + n
                b == e.outside \/ e.offset + Len(s) > Len(e.mem)
    <3>3. o \in Nat /\ b \in BOOLEAN /\ ~b
      BY <2>1, <3>1, <3>2
    <3>4. q = [e EXCEPT !.mem = mem, !.offset = o, !.outside = b]
      BY <2>4
    <3>. HIDE DEF o, b
    <3>5. /\ q \in PrintBuffer /\ ~q.outside /\ q.mem = mem /\ q.offset = o /\ q.ok
          /\ q.noalloc = e.noalloc /\ q.format = e.format /\ q.depth = e.depth
      BY <1>3, <2>1, <2>2, <3>3, <3>4 DEF PrintBuffer
    <3>. QED
      BY <3>5 DEF o
  <2>6. ASSUME NEW i \in 1..Len(s) PROVE p.offset + i \in 1..Len(mem) /\ q.mem[p.offset + i] = s[i]
    <3>1. e.offset + i \in 1..Len(e.mem) /\ (e.offset + i) - e.offset = i
      BY <2>1, <2>3, Behind
    <3>. DEFINE k == e.offset + i
    <3>2. k \in 1..Len(e.mem) /\ k - e.offset = i /\ k = p.offset + i
      BY <1>1, <3>1
    <3>. HIDE DEF k
    <3>3. mem[k] = s[i]
      BY <2>2, <3>2
    <3>4. k \in 1..Len(mem) /\ q.mem[k] = s[i]
      BY <2>2, <2>5, <3>2, <3>3
    <3>. QED
      BY <3>2, <3>4
  <2>7. ASSUME NEW i \in 1..Len(p.mem), i <= p.offset PROVE q.mem[i] = p.mem[i]
    <3>1. Len(p.mem) \in Nat /\ Len(p.mem) <= Len(e.mem) /\ e.mem[i] = p.mem[i]
      BY <1>1, <2>7 DEF Goes, Fits, PrintBuffer
    <3>2. i <= e.offset
      BY <1>1, <2>7
    <3>3. i \in 1..Len(e.mem) /\ i - e.offset \notin 1..Len(s)
      BY <2>1, <3>1, <3>2
    <3>. QED
      BY <2>2, <2>5, <3>1, <3>3
  <2>8. Goes(p, q)
    <3>1. /\ e.noalloc = p.noalloc /\ e.format = p.format /\ e.depth = p.depth
          /\ (p.noalloc => Len(e.mem) = Len(p.mem)) /\ Len(p.mem) <= Len(e.mem) /\ p.ok
      BY <1>1, <1>3 DEF Goes
    <3>2. p.offset <= q.offset
      BY <1>1, <2>1, <2>5
    <3>. QED
      BY <2>2, <2>5, <2>7, <3>1, <3>2 DEF Goes
  <2>9. ASSUME n < Len(s), s[Len(s)] = 0 PROVE Ended(q)
    <3>1. Len(s) \in 1..Len(s) /\ p.offset + Len(s) \in (q.offset + 1)..Len(mem)
      <4>1. Len(s) \in 1..Len(s) /\ e.offset + Len(s) \in ((e.offset + n) + 1)..Len(e.mem)
        BY <2>1, <2>3, <2>9, LastBehind
      <4>. QED
        BY <1>1, <2>2, <2>5, <4>1
    <3>2. q.mem[p.offset + Len(s)] = 0
      BY <2>6, <2>9, <3>1
    <3>. QED
      BY <2>5, <3>1, <3>2 DEF Ended
  <2>. QED
    BY <2>5, <2>6, <2>8, <2>9 DEF Fits, q, e
<1>. QED
  BY <1>2, <1>3

\* The first of some numbers.
LEMMA FirstOf ==
  ASSUME NEW T, T \subseteq Nat, T # {}
  PROVE  LET x == CHOOSE i \in T : \A j \in T : i <= j IN x \in T /\ \A j \in T : x <= j
<1>1. PICK i \in T : \A j \in T : i <= j
  BY NatMin
<1>. QED
  BY <1>1

\* update_offset stops at the zero behind what was printed.
THEOREM UpdateOffsetStops ==
  ASSUME NEW p, Fits(p), Ended(p)
  PROVE  LET q == update_offset(p)
         IN /\ Fits(q) /\ Goes(p, q) /\ q.mem = p.mem
            /\ q.ok => q.offset < Len(q.mem) /\ q.mem[q.offset + 1] = 0
<1>. DEFINE ends == {i \in (p.offset + 1)..Len(p.mem) : p.mem[i] = 0}
            x == CHOOSE i \in ends : \A j \in ends : i <= j
            q == update_offset(p)
<1>1. /\ p \in PrintBuffer /\ p.mem \in Seq(Int) /\ p.offset \in Nat /\ Len(p.mem) \in Nat /\ ~p.outside
  BY DEF Fits, PrintBuffer
<1>2. CASE ~p.ok
  <2>1. q = p
    BY <1>2 DEF update_offset
  <2>. QED
    BY <1>1, <1>2, <2>1 DEF Goes
<1>3. CASE p.ok
  <2>1. ends # {} /\ ends \subseteq Nat
    BY <1>1, <1>3 DEF Ended
  <2>2. q = [p EXCEPT !.offset = x - 1]
    BY <1>3, <2>1 DEF update_offset
  <2>. HIDE DEF ends
  <2>3. x \in ends
    BY <2>1, FirstOf
  <2>. HIDE DEF x
  <2>4. x \in (p.offset + 1)..Len(p.mem) /\ p.mem[x] = 0
    BY <2>3 DEF ends
  <2>5. x - 1 \in Nat /\ p.offset <= x - 1 /\ x - 1 < Len(p.mem) /\ (x - 1) + 1 = x
    BY <1>1, <2>4
  <2>. HIDE DEF q
  <2>6. /\ q \in PrintBuffer /\ ~q.outside /\ q.mem = p.mem /\ q.offset = x - 1 /\ q.ok = p.ok
        /\ q.noalloc = p.noalloc /\ q.format = p.format /\ q.depth = p.depth
    BY <1>1, <2>2, <2>5 DEF PrintBuffer
  <2>. QED
    BY <1>1, <1>3, <2>4, <2>5, <2>6 DEF Fits, Goes, q
<1>. QED
  BY <1>2, <1>3

\* Sequences put end to end are a sequence: the sequences put together so far
\* exist as far as any place, the first place they would not being wrong.
LEMMA FlattenExists ==
  ASSUME NEW S, NEW s \in Seq(Seq(S)), s # << >>
  PROVE  \E f \in [1..Len(s) -> Seq(S)] :
           /\ FlattenSeq(s) = f[Len(s)]
           /\ \A i \in 1..Len(s) : f[i] = IF i = 1 THEN s[i] ELSE f[i - 1] \o s[i]
<1>. DEFINE n == Len(s)
            Eq(f) == [i \in 1..n |-> IF i = 1 THEN s[i] ELSE f[i - 1] \o s[i]]
            flat == CHOOSE f : f = Eq(f)
            Upto(f, m) == \A i \in 1..m : f[i] = IF i = 1 THEN s[i] ELSE f[i - 1] \o s[i]
            Good(m) == \E f \in [1..m -> Seq(S)] : Upto(f, m)
<1>1. n \in Nat /\ \A i \in 1..n : s[i] \in Seq(S)
  OBVIOUS
<1>3. n > 0
  OBVIOUS
<1>4. \E f \in [1..n -> Seq(S)] : FlattenSeq(s) = f[n] /\ Upto(f, n)
  <2>1. FlattenSeq(s) = flat[n]
    BY <1>1, <1>3 DEF FlattenSeq
  <2>. HIDE DEF n
  <2>2. ASSUME NEW m \in 1..n, m > 1 => Good(m - 1) PROVE Good(m)
    <3>1. CASE m = 1
      <4>. DEFINE g == [i \in 1..m |-> s[1]]
      <4>1. g \in [1..m -> Seq(S)] /\ Upto(g, m)
        BY <1>1, <2>2, <3>1
      <4>. QED
        BY <4>1
    <3>2. CASE m > 1
      <4>1. m - 1 \in 1..n /\ m \in Nat /\ m - 1 \in 1..(m - 1)
        BY <1>1, <2>2, <3>2
      <4>2. PICK f \in [1..(m - 1) -> Seq(S)] : Upto(f, m - 1)
        BY <2>2, <3>2
      <4>. DEFINE g == [i \in 1..m |-> IF i < m THEN f[i] ELSE f[m - 1] \o s[m]]
      <4>3. f[m - 1] \o s[m] \in Seq(S)
        <5>1. f[m - 1] \in Seq(S) /\ s[m] \in Seq(S)
          BY <1>1, <4>1, <4>2
        <5>. QED
          BY <5>1
      <4>4. g \in [1..m -> Seq(S)]
        <5>1. ASSUME NEW i \in 1..m, i < m PROVE f[i] \in Seq(S)
          <6>1. i \in 1..(m - 1)
            BY <4>1, <5>1
          <6>. QED
            BY <4>2, <6>1
        <5>. QED
          BY <4>3, <5>1
      <4>5. ASSUME NEW i \in 1..m PROVE g[i] = IF i = 1 THEN s[i] ELSE g[i - 1] \o s[i]
        <5>1. CASE i < m
          <6>1. i \in 1..(m - 1) /\ (i # 1 => i - 1 \in 1..m /\ i - 1 < m)
            BY <4>1, <5>1
          <6>2. g[i] = f[i] /\ (i # 1 => g[i - 1] = f[i - 1])
            BY <5>1, <6>1
          <6>. QED
            BY <4>2, <6>1, <6>2
        <5>2. CASE i = m
          <6>1. m - 1 \in 1..m /\ m - 1 < m /\ m # 1 /\ m \in 1..m /\ ~(m < m)
            BY <3>2, <4>1
          <6>2. g[m] = f[m - 1] \o s[m] /\ g[m - 1] = f[m - 1]
            BY <6>1
          <6>. QED
            BY <5>2, <6>1, <6>2
        <5>. QED
          BY <4>1, <5>1, <5>2
      <4>. HIDE DEF g
      <4>. QED
        BY <4>4, <4>5
    <3>3. m = 1 \/ m > 1
      BY <1>1
    <3>. HIDE DEF Good
    <3>. QED
      BY <3>1, <3>2, <3>3
  <2>. DEFINE wrong == {m \in 1..n : ~Good(m)}
  <2>. HIDE DEF Good
  <2>3. ASSUME wrong # {} PROVE FALSE
    <3>1. PICK m \in wrong : \A k \in wrong : m <= k
      <4>1. wrong \subseteq Nat
        BY <1>1
      <4>. HIDE DEF wrong
      <4>. QED
        BY <2>3, <4>1, NatMin
    <3>2. m \in 1..n /\ ~Good(m)
      BY <3>1
    <3>3. m > 1 => m - 1 \in 1..n /\ ~(m <= m - 1)
      BY <1>1, <3>2
    <3>4. m > 1 => Good(m - 1)
      BY <3>1, <3>3
    <3>. QED
      BY <2>2, <3>2, <3>4
  <2>4. Good(n)
    BY <1>1, <1>3, <2>3
  <2>5. PICK f \in [1..n -> Seq(S)] : Upto(f, n)
    BY <2>4 DEF Good
  <2>6. f = Eq(f)
    BY <2>5
  <2>7. flat = Eq(flat)
    <3>. HIDE DEF Eq
    <3>. QED
      BY <2>6
  <2>. HIDE DEF flat
  <2>8. ASSUME NEW i \in 1..n PROVE flat[i] = IF i = 1 THEN s[i] ELSE flat[i - 1] \o s[i]
    BY <2>7
  <2>. DEFINE off == {i \in 1..n : flat[i] # f[i]}
  <2>9. ASSUME off # {} PROVE FALSE
    <3>1. PICK i \in off : \A k \in off : i <= k
      <4>1. off \subseteq Nat
        BY <1>1
      <4>. HIDE DEF off
      <4>. QED
        BY <2>9, <4>1, NatMin
    <3>2. i \in 1..n /\ flat[i] # f[i]
      BY <3>1
    <3>3. CASE i = 1
      BY <2>5, <2>8, <3>2, <3>3
    <3>4. CASE i # 1
      <4>1. i - 1 \in 1..n /\ ~(i <= i - 1)
        BY <1>1, <3>2, <3>4
      <4>2. flat[i - 1] = f[i - 1]
        BY <3>1, <4>1
      <4>. QED
        BY <2>5, <2>8, <3>2, <3>4, <4>2
    <3>. QED
      BY <3>3, <3>4
  <2>10. n \in 1..n
    BY <1>1, <1>3
  <2>11. flat[n] = f[n]
    BY <2>9, <2>10
  <2>. QED
    BY <2>1, <2>5, <2>10, <2>11
<1>. QED
  BY <1>4

LEMMA FlattenTyped ==
  ASSUME NEW S, NEW s \in Seq(Seq(S))
  PROVE  FlattenSeq(s) \in Seq(S)
<1>1. CASE s = << >>
  BY <1>1 DEF FlattenSeq
<1>2. CASE s # << >>
  <2>1. PICK f \in [1..Len(s) -> Seq(S)] : FlattenSeq(s) = f[Len(s)]
    BY <1>2, FlattenExists
  <2>2. Len(s) \in 1..Len(s)
    BY <1>2
  <2>. QED
    BY <2>1, <2>2
<1>. QED
  BY <1>1, <1>2

\* A character is printed as characters.
LEMMA EscapedTyped ==
  ASSUME NEW c \in Int
  PROVE  Escaped(c) \in Seq(Int)
<1>1. ASSUME NEW d \in Int PROVE HexDigit(d) \in Int
  BY <1>1 DEF HexDigit
<1>2. c \div 16 \in Int /\ c % 16 \in Int
  OBVIOUS
<1>3. HexDigit(c \div 16) \in Int /\ HexDigit(c % 16) \in Int
  BY <1>1, <1>2
<1>4. CASE c \in {34, 92}
  BY <1>4 DEF Escaped
<1>5. CASE c \in {8, 12, 10, 13, 9}
  BY <1>5 DEF Escaped
<1>6. CASE c \in (1..31) \ {8, 9, 10, 12, 13}
  <2>. DEFINE h == HexDigit(c \div 16)
              l == HexDigit(c % 16)
  <2>1. Escaped(c) = <<92, 117, 48, 48, h, l>>
    BY <1>6 DEF Escaped
  <2>2. h \in Int /\ l \in Int
    BY <1>3
  <2>. HIDE DEF h, l
  <2>. QED
    BY <2>1, <2>2
<1>7. CASE c \notin {34, 92, 8, 12, 10, 13, 9} /\ c \notin (1..31) \ {8, 9, 10, 12, 13}
  BY <1>7 DEF Escaped
<1>. QED
  BY <1>4, <1>5, <1>6, <1>7

\* Only the depth changes.
LEMMA Deeper ==
  ASSUME NEW p, Fits(p), NEW d \in Nat
  PROVE  LET q == [p EXCEPT !.depth = d]
         IN Fits(q) /\ q.mem = p.mem /\ q.offset = p.offset /\ q.ok = p.ok /\ q.depth = d
            /\ q.format = p.format /\ q.noalloc = p.noalloc /\ (Ended(p) => Ended(q))
<1>. DEFINE q == [p EXCEPT !.depth = d]
<1>1. /\ q.mem = p.mem /\ q.offset = p.offset /\ q.ok = p.ok /\ q.depth = d /\ q.format = p.format
      /\ q.noalloc = p.noalloc /\ q.outside = p.outside /\ q \in PrintBuffer
  BY DEF Fits, PrintBuffer
<1>. HIDE DEF q
<1>2. Fits(q) /\ (Ended(p) => Ended(q))
  BY <1>1 DEF Fits, Ended
<1>. QED
  BY <1>1, <1>2 DEF q

\* What can be said of a buffer something is printed into.
LEMMA BufferFields ==
  ASSUME NEW p, Fits(p)
  PROVE  p.depth \in Nat /\ p.format \in BOOLEAN /\ p.ok \in BOOLEAN
  BY DEF Fits, PrintBuffer

\* An empty buffer of any length fits.
LEMMA BufferFits ==
  ASSUME NEW length \in Nat, NEW noalloc \in BOOLEAN, NEW format \in BOOLEAN
  PROVE  Fits(Buffer(length, noalloc, format))
<1>1. Garbage(length) \in Seq(Int)
  BY DEF Garbage
<1>. QED
  BY <1>1 DEF Fits, PrintBuffer, Buffer

\* A text and the zero behind it.
LEMMA Zeroed ==
  ASSUME NEW s \in Seq(Int)
  PROVE  LET t == Append(s, 0) IN t \in Seq(Int) /\ Len(t) = Len(s) + 1 /\ t[Len(t)] = 0 /\ Len(s) \in Nat
  OBVIOUS

LEMMA ZeroedTwo ==
  ASSUME NEW s \in Seq(Int), NEW c \in Int
  PROVE  LET t == s \o <<c, 0>>
         IN t \in Seq(Int) /\ Len(t) = Len(s) + 2 /\ t[Len(t)] = 0 /\ Len(s) \in Nat
<1>. DEFINE z == <<c, 0>>
<1>1. z \in Seq(Int) /\ Len(z) = 2 /\ z[2] = 0
  OBVIOUS
<1>. HIDE DEF z
<1>2. s \o z \in Seq(Int) /\ Len(s \o z) = Len(s) + Len(z)
  BY <1>1, ConcatProperties
<1>3. Len(s) + 2 \in 1..(Len(s) + Len(z)) /\ ~(Len(s) + 2 <= Len(s)) /\ (Len(s) + 2) - Len(s) = 2
  BY <1>1
<1>4. (s \o z)[Len(s) + 2] = z[(Len(s) + 2) - Len(s)]
  BY <1>1, <1>3, ConcatProperties
<1>5. (s \o z)[Len(s) + 2] = 0
  BY <1>1, <1>3, <1>4
<1>. QED
  BY <1>1, <1>2, <1>5 DEF z

\* The text goes on, and fits.
Follows(p, q) == Fits(q) /\ Goes(p, q)

\* The values of one piece fit, failing or not, and a zero ends what was
\* printed: update_offset can be called.
THEOREM PiecesFit ==
  ASSUME NEW p, Fits(p), NEW s \in Seq(Int)
  PROVE  /\ Follows(p, print_string_ptr(p, s)) /\ Ended(print_string_ptr(p, s))
         /\ Follows(p, print_raw(p, s)) /\ Ended(print_raw(p, s))
         /\ Follows(p, print_literal(p, s)) /\ Ended(print_literal(p, s))
         /\ Follows(p, print_digits(p, s)) /\ Ended(print_digits(p, s))
<1>. DEFINE z == Append(s, 0)
<1>1. /\ z \in Seq(Int) /\ Len(z) = Len(s) + 1 /\ z[Len(z)] = 0 /\ Len(s) \in Nat
      /\ Len(s) + 1 \in Nat /\ Len(z) <= Len(s) + 1 + 1 /\ 0 < Len(z) /\ Len(s) < Len(z)
  <2>1. z \in Seq(Int) /\ Len(z) = Len(s) + 1 /\ z[Len(z)] = 0 /\ Len(s) \in Nat
    BY Zeroed
  <2>. HIDE DEF z
  <2>. QED
    BY <2>1
<1>. HIDE DEF z
<1>2. Follows(p, print_literal(p, s)) /\ Ended(print_literal(p, s))
  <2>1. print_literal(p, s) = Write(ensure(p, Len(s) + 1), z, 0)
    BY DEF print_literal, z
  <2>. QED
    BY <1>1, <2>1, WritesFit DEF Follows
<1>3. Follows(p, print_digits(p, s)) /\ Ended(print_digits(p, s))
  <2>1. print_digits(p, s) = Write(ensure(p, Len(s) + 1), z, Len(s))
    BY DEF print_digits, z
  <2>. QED
    BY <1>1, <2>1, WritesFit DEF Follows
<1>4. Follows(p, Fails(p)) /\ Ended(Fails(p))
  <2>. DEFINE q == Fails(p)
  <2>1. /\ q \in PrintBuffer /\ ~q.ok /\ ~q.outside /\ q.mem = p.mem /\ q.depth = p.depth
        /\ q.noalloc = p.noalloc /\ q.format = p.format
    BY DEF Fails, Fits, PrintBuffer
  <2>2. Len(p.mem) \in Nat
    BY DEF Fits, PrintBuffer
  <2>. HIDE DEF q
  <2>. QED
    BY <2>1, <2>2 DEF Fits, Ended, Goes, Follows, q
<1>5. Follows(p, print_raw(p, s)) /\ Ended(print_raw(p, s))
  <2>1. CASE s = NoString
    BY <1>4, <2>1 DEF print_raw
  <2>2. CASE s # NoString
    <3>1. print_raw(p, s) = print_literal(p, s)
      BY <2>2 DEF print_raw, print_literal
    <3>. QED
      BY <1>2, <3>1
  <2>. QED
    BY <2>1, <2>2
<1>6. Follows(p, print_string_ptr(p, s)) /\ Ended(print_string_ptr(p, s))
  <2>. DEFINE parts == [i \in DOMAIN s |-> Escaped(s[i])]
              out == IF s = NoString THEN <<>> ELSE FlattenSeq(parts)
              t == <<34>> \o out \o <<34, 0>>
  <2>1. parts \in Seq(Seq(Int))
    <3>1. DOMAIN s = 1..Len(s) /\ Len(s) \in Nat /\ \A i \in DOMAIN s : s[i] \in Int
      OBVIOUS
    <3>2. \A i \in DOMAIN s : Escaped(s[i]) \in Seq(Int)
      BY <3>1, EscapedTyped
    <3>. QED
      BY <3>1, <3>2
  <2>2. print_string_ptr(p, s) = Write(ensure(p, Len(out) + 3), t, 0)
    BY DEF print_string_ptr
  <2>. HIDE DEF parts
  <2>3. out \in Seq(Int)
    <3>1. FlattenSeq(parts) \in Seq(Int)
      BY <2>1, FlattenTyped
    <3>2. <<>> \in Seq(Int)
      OBVIOUS
    <3>. QED
      BY <3>1, <3>2
  <2>. HIDE DEF out
  <2>4. <<34>> \o out \in Seq(Int) /\ Len(<<34>> \o out) = Len(out) + 1
    <3>. DEFINE q == <<34>>
    <3>1. q \in Seq(Int) /\ Len(q) = 1
      OBVIOUS
    <3>. HIDE DEF q
    <3>2. q \o out \in Seq(Int) /\ Len(q \o out) = Len(q) + Len(out)
      BY <2>3, <3>1, ConcatProperties
    <3>3. Len(out) \in Nat
      BY <2>3
    <3>. QED
      BY <3>1, <3>2, <3>3 DEF q
  <2>5. t \in Seq(Int) /\ Len(t) = Len(<<34>> \o out) + 2 /\ t[Len(t)] = 0
    BY <2>4, ZeroedTwo
  <2>. HIDE DEF t
  <2>6. Len(out) \in Nat
    BY <2>3
  <2>7. Len(t) <= Len(out) + 3 + 1 /\ 0 < Len(t) /\ Len(out) + 3 \in Nat
    BY <2>4, <2>5, <2>6
  <2>. QED
    BY <2>2, <2>5, <2>7, WritesFit DEF Follows
<1>. QED
  BY <1>2, <1>3, <1>5, <1>6

\* Tabs are characters.
LEMMA TabsTyped ==
  ASSUME NEW n \in Nat
  PROVE  Tabs(n) \in Seq(Int) /\ Len(Tabs(n)) = n
  BY DEF Tabs

\* Nothing is printed.
LEMMA FollowsItself ==
  ASSUME NEW p, Fits(p)
  PROVE  Follows(p, p)
<1>1. p.mem \in Seq(Int) /\ p.offset \in Nat
  BY DEF Fits, PrintBuffer
<1>. QED
  BY <1>1 DEF Follows, Goes

\* What is printed around the elements of an array fits, whatever was printed
\* before, a zero ends the array, and it leaves the depth it found.
THEOREM ArraysFit ==
  ASSUME NEW p, Fits(p)
  PROVE  /\ Fits(open_array(p)) /\ open_array(p).depth = p.depth + 1
         /\ Follows(p, print_comma(p))
         /\ p.depth > 0 => LET q == close_array(p) IN Fits(q) /\ Ended(q) /\ q.depth = p.depth - 1
<1>1. Fits(open_array(p)) /\ open_array(p).depth = p.depth + 1
  <2>. DEFINE w == Write(ensure(p, 1), <<91>>, 1)
  <2>1. Fits(w) /\ w.depth = p.depth
    <3>. DEFINE s == <<91>>
    <3>1. s \in Seq(Int) /\ Len(s) <= 1 + 1
      OBVIOUS
    <3>. HIDE DEF s
    <3>2. Fits(Write(ensure(p, 1), s, 1)) /\ Write(ensure(p, 1), s, 1).depth = p.depth
      BY <3>1, WritesFit DEF Goes
    <3>. QED
      BY <3>2 DEF s
  <2>2. open_array(p) = [w EXCEPT !.depth = w.depth + 1]
    BY DEF open_array
  <2>. HIDE DEF w
  <2>3. w.depth + 1 \in Nat
    BY <2>1, BufferFields
  <2>. QED
    BY <2>1, <2>2, <2>3, Deeper
<1>2. Follows(p, print_comma(p))
  <2>. DEFINE comma == IF p.format THEN <<44, 32>> ELSE <<44>>
  <2>1. comma \in Seq(Int)
    OBVIOUS
  <2>2. print_comma(p) = print_digits(p, comma)
    BY DEF print_comma, print_digits
  <2>. HIDE DEF comma
  <2>. QED
    BY <2>1, <2>2, PiecesFit
<1>3. ASSUME p.depth > 0
      PROVE  LET q == close_array(p) IN Fits(q) /\ Ended(q) /\ q.depth = p.depth - 1
  <2>. DEFINE w == Write(ensure(p, 2), <<93, 0>>, 0)
  <2>1. Fits(w) /\ Ended(w) /\ w.depth = p.depth
    <3>. DEFINE s == <<93, 0>>
    <3>1. s \in Seq(Int) /\ Len(s) <= 2 + 1 /\ 0 < Len(s) /\ s[Len(s)] = 0
      OBVIOUS
    <3>. HIDE DEF s
    <3>2. /\ Fits(Write(ensure(p, 2), s, 0)) /\ Ended(Write(ensure(p, 2), s, 0))
          /\ Write(ensure(p, 2), s, 0).depth = p.depth
      BY <3>1, WritesFit DEF Goes
    <3>. QED
      BY <3>2 DEF s
  <2>2. close_array(p) = [w EXCEPT !.depth = w.depth - 1]
    BY DEF close_array
  <2>. HIDE DEF w
  <2>3. w.depth - 1 \in Nat
    BY <1>3, <2>1, BufferFields
  <2>. QED
    BY <2>1, <2>2, <2>3, Deeper
<1>. QED
  BY <1>1, <1>2, <1>3

\* What is printed around the members of an object fits, whatever was printed
\* before, a zero ends the object, and it leaves the depth it found.
THEOREM ObjectsFit ==
  ASSUME NEW p, Fits(p), NEW last \in BOOLEAN
  PROVE  /\ Fits(open_object(p)) /\ open_object(p).depth = p.depth + 1
         /\ Follows(p, print_indent(p)) /\ Follows(p, print_colon(p)) /\ Follows(p, end_member(p, last))
         /\ p.depth > 0 => LET q == close_object(p) IN Fits(q) /\ Ended(q) /\ q.depth = p.depth - 1
<1>1. Fits(open_object(p)) /\ open_object(p).depth = p.depth + 1
  <2>. DEFINE brace == IF p.format THEN <<123, 10>> ELSE <<123>>
              w == Write(ensure(p, Len(brace) + 1), brace, Len(brace))
  <2>1. open_object(p) = [w EXCEPT !.depth = w.depth + 1]
    BY DEF open_object
  <2>2. brace \in Seq(Int)
    OBVIOUS
  <2>. HIDE DEF brace
  <2>3. Len(brace) \in Nat /\ Len(brace) <= (Len(brace) + 1) + 1 /\ Len(brace) + 1 \in Nat
    BY <2>2
  <2>4. Fits(w) /\ w.depth = p.depth
    BY <2>2, <2>3, WritesFit DEF Goes
  <2>. HIDE DEF w
  <2>5. w.depth + 1 \in Nat
    BY <2>4, BufferFields
  <2>. QED
    BY <2>1, <2>4, <2>5, Deeper
<1>2. Follows(p, print_indent(p))
  <2>1. p.depth \in Nat
    BY BufferFields
  <2>2. CASE p.format
    <3>1. Tabs(p.depth) \in Seq(Int) /\ Len(Tabs(p.depth)) <= p.depth + 1
      BY <2>1, TabsTyped
    <3>2. print_indent(p) = Write(ensure(p, p.depth), Tabs(p.depth), p.depth)
      BY <2>2 DEF print_indent
    <3>. QED
      BY <2>1, <3>1, <3>2, WritesFit DEF Follows
  <2>3. CASE ~p.format
    BY <2>3, FollowsItself DEF print_indent
  <2>. QED
    BY <2>2, <2>3
<1>3. Follows(p, print_colon(p))
  <2>. DEFINE colon == IF p.format THEN <<58, 9>> ELSE <<58>>
  <2>1. print_colon(p) = Write(ensure(p, Len(colon)), colon, Len(colon))
    BY DEF print_colon
  <2>2. colon \in Seq(Int)
    OBVIOUS
  <2>. HIDE DEF colon
  <2>3. Len(colon) \in Nat /\ Len(colon) <= Len(colon) + 1
    BY <2>2
  <2>. QED
    BY <2>1, <2>2, <2>3, WritesFit DEF Follows
<1>4. Follows(p, end_member(p, last))
  <2>. DEFINE end == (IF last THEN <<>> ELSE <<44>>) \o (IF p.format THEN <<10>> ELSE <<>>)
  <2>1. end \in Seq(Int)
    <3>. DEFINE a == IF last THEN <<>> ELSE <<44>>
                b == IF p.format THEN <<10>> ELSE <<>>
    <3>1. a \in Seq(Int)
      OBVIOUS
    <3>2. b \in Seq(Int)
      OBVIOUS
    <3>. HIDE DEF a, b
    <3>3. a \o b \in Seq(Int)
      BY <3>1, <3>2, ConcatProperties
    <3>. QED
      BY <3>3 DEF a, b
  <2>2. end_member(p, last) = print_digits(p, end)
    BY DEF end_member, print_digits
  <2>. HIDE DEF end
  <2>. QED
    BY <2>1, <2>2, PiecesFit
<1>5. ASSUME p.depth > 0
      PROVE  LET q == close_object(p) IN Fits(q) /\ Ended(q) /\ q.depth = p.depth - 1
  <2>. DEFINE close == IF p.format THEN Tabs(p.depth - 1) ELSE <<>>
              needed == IF p.format THEN p.depth + 1 ELSE 2
              t == close \o <<125, 0>>
              w == Write(ensure(p, needed), t, 0)
  <2>1. close_object(p) = [w EXCEPT !.depth = w.depth - 1]
    BY DEF close_object
  <2>2. p.depth \in Nat /\ p.depth - 1 \in Nat
    BY <1>5, BufferFields
  <2>3. close \in Seq(Int) /\ Len(close) = (IF p.format THEN p.depth - 1 ELSE 0)
    <3>1. <<>> \in Seq(Int) /\ Len(<<>>) = 0
      OBVIOUS
    <3>2. Tabs(p.depth - 1) \in Seq(Int) /\ Len(Tabs(p.depth - 1)) = p.depth - 1
      BY <2>2, TabsTyped
    <3>. QED
      BY <3>1, <3>2
  <2>. HIDE DEF close
  <2>4. t \in Seq(Int) /\ Len(t) = Len(close) + 2 /\ t[Len(t)] = 0 /\ Len(close) \in Nat
    BY <2>3, ZeroedTwo
  <2>. HIDE DEF t
  <2>5. needed \in Nat /\ Len(t) <= needed + 1 /\ 0 < Len(t)
    BY <2>2, <2>3, <2>4
  <2>. HIDE DEF needed
  <2>6. Fits(w) /\ Ended(w) /\ w.depth = p.depth
    BY <2>4, <2>5, WritesFit DEF Goes
  <2>. HIDE DEF w
  <2>7. w.depth - 1 \in Nat
    BY <2>2, <2>6
  <2>. QED
    BY <2>1, <2>6, <2>7, Deeper
<1>. QED
  BY <1>1, <1>2, <1>3, <1>4, <1>5

-----------------------------------------------------------------------------
(* Reading a string *)

Byte == 0..255

\* What holds from N on, and at every place if it holds at all behind it, holds.
LEMMA DownwardInduction ==
  ASSUME NEW N \in Nat, NEW T \in SUBSET Nat,
         \A k \in Nat : k >= N => k \in T,
         \A k \in Nat : (\A j \in Nat : k < j => j \in T) => k \in T
  PROVE  T = Nat
<1>. DEFINE bad == {d \in Nat : \E k \in Nat : k >= N - d /\ k \notin T}
<1>1. ASSUME bad # {} PROVE FALSE
  <2>1. bad \subseteq Nat
    OBVIOUS
  <2>2. PICK d \in bad : \A c \in bad : d <= c
    <3>. HIDE DEF bad
    <3>. QED
      BY <1>1, <2>1, NatMin
  <2>3. d \in Nat
    OBVIOUS
  <2>4. PICK k \in Nat : k >= N - d /\ k \notin T
    BY <2>2
  <2>5. d - 1 \in Nat /\ ~(d <= d - 1)
    BY <2>3, <2>4
  <2>6. d - 1 \notin bad
    <3>. HIDE DEF bad
    <3>. QED
      BY <2>2, <2>5
  <2>7. ASSUME NEW j \in Nat, k < j PROVE j \in T
    <3>1. j >= N - (d - 1)
      BY <2>3, <2>4, <2>7
    <3>. QED
      BY <2>5, <2>6, <3>1
  <2>. QED
    BY <2>4, <2>7
<1>2. ASSUME NEW k \in Nat PROVE k \in T
  <2>1. N \in Nat /\ k >= N - N
    OBVIOUS
  <2>. QED
    BY <1>1, <2>1
<1>. QED
  BY <1>2

\* A function on the natural numbers may be defined from the values it takes
\* further on, if what it is from N on needs none: it is put together from N
\* downwards, and the first place it would not exist from is wrong.
LooksUpTo(N, R, B) ==
  \A k \in Nat, f, g \in [Nat -> R] :
     (\A j \in Nat : k < j /\ k < N => f[j] = g[j]) => B[<<k, f>>] = B[<<k, g>>]

LEMMA Downwards ==
  ASSUME NEW R, R # {}, NEW N \in Nat, NEW B \in [Nat \X [Nat -> R] -> R], LooksUpTo(N, R, B)
  PROVE  \E f \in [Nat -> R] : \A k \in Nat : f[k] = B[<<k, f>>]
<1>. DEFINE Good(m) == \E f \in [Nat -> R] : \A k \in Nat : m <= k => f[k] = B[<<k, f>>]
<1>0. ASSUME NEW k \in Nat, NEW f \in [Nat -> R] PROVE B[<<k, f>>] \in R
  <2>1. <<k, f>> \in Nat \X [Nat -> R]
    BY <1>0
  <2>. QED
    BY <2>1
<1>1. Good(N)
  <2>. PICK r \in R : TRUE
    OBVIOUS
  <2>. DEFINE none == [k \in Nat |-> r]
              f == [k \in Nat |-> B[<<k, none>>]]
  <2>1. none \in [Nat -> R]
    OBVIOUS
  <2>. HIDE DEF none
  <2>2. f \in [Nat -> R] /\ \A k \in Nat : f[k] = B[<<k, none>>]
    BY <1>0, <2>1
  <2>. HIDE DEF f
  <2>3. ASSUME NEW k \in Nat, N <= k PROVE f[k] = B[<<k, f>>]
    <3>1. \A j \in Nat : k < j /\ k < N => none[j] = f[j]
      BY <2>3
    <3>2. B[<<k, none>>] = B[<<k, f>>]
      BY <2>1, <2>2, <3>1 DEF LooksUpTo
    <3>. QED
      BY <2>2, <3>2
  <2>. QED
    BY <2>2, <2>3
<1>2. ASSUME NEW m \in Nat, m < N, Good(m + 1) PROVE Good(m)
  <2>1. PICK f \in [Nat -> R] : \A k \in Nat : m + 1 <= k => f[k] = B[<<k, f>>]
    BY <1>2
  <2>. DEFINE g == [f EXCEPT ![m] = B[<<m, f>>]]
  <2>2. B[<<m, f>>] \in R
    BY <1>0
  <2>3. g \in [Nat -> R] /\ g[m] = B[<<m, f>>] /\ \A k \in Nat : k # m => g[k] = f[k]
    BY <2>2
  <2>. HIDE DEF g
  <2>4. ASSUME NEW k \in Nat, m <= k PROVE g[k] = B[<<k, g>>]
    <3>1. \A j \in Nat : k < j /\ k < N => f[j] = g[j]
      BY <2>3, <2>4
    <3>2. B[<<k, f>>] = B[<<k, g>>]
      BY <2>3, <3>1 DEF LooksUpTo
    <3>3. CASE k = m
      BY <2>3, <3>2, <3>3
    <3>4. CASE k # m
      <4>1. m + 1 <= k
        BY <2>4, <3>4
      <4>. QED
        BY <2>1, <2>3, <3>2, <3>4, <4>1
    <3>. QED
      BY <3>3, <3>4
  <2>. QED
    BY <2>3, <2>4
<1>. DEFINE T == {m \in Nat : m <= N => Good(m)}
<1>. HIDE DEF Good
<1>3. T = Nat
  <2>1. ASSUME NEW m \in Nat, m >= N PROVE m \in T
    <3>1. m <= N => m = N
      BY <2>1
    <3>. QED
      BY <1>1, <3>1
  <2>2. ASSUME NEW m \in Nat, \A j \in Nat : m < j => j \in T PROVE m \in T
    <3>1. CASE m < N
      <4>1. m + 1 \in Nat /\ m < m + 1 /\ m + 1 <= N
        BY <3>1
      <4>. QED
        BY <1>2, <2>2, <3>1, <4>1
    <3>. QED
      BY <2>1, <3>1
  <2>. HIDE DEF T
  <2>3. T \in SUBSET Nat
    BY DEF T
  <2>. QED
    BY <2>1, <2>2, <2>3, DownwardInduction
<1>4. Good(0)
  <2>1. 0 \in T /\ 0 <= N
    BY <1>3
  <2>. QED
    BY <2>1
<1>5. PICK f \in [Nat -> R] : \A k \in Nat : 0 <= k => f[k] = B[<<k, f>>]
  BY <1>4 DEF Good
<1>. QED
  BY <1>5

Ending == [at : Nat, skipped : Nat]

\* Where a string ends is found one character, or one escape, after the other.
EndFrom(t, k, e) ==
  IF k >= Len(t) THEN [at |-> Len(t), skipped |-> 0]
  ELSE IF t[k + 1] = Quote THEN [at |-> k, skipped |-> 0]
  ELSE IF t[k + 1] = Backslash THEN [e[k + 2] EXCEPT !.skipped = @ + 1]
  ELSE e[k + 1]

LEMMA EndingBehind ==
  ASSUME NEW r \in Ending
  PROVE  [r EXCEPT !.skipped = @ + 1] \in Ending
BY DEF Ending

\* Where a string ends is read off the bytes further on.
LEMMA EndAhead ==
  ASSUME NEW t, Len(t) \in Nat, NEW k \in Nat, NEW f, NEW g,
         \A j \in Nat : k < j /\ k < Len(t) => f[j] = g[j]
  PROVE  EndFrom(t, k, f) = EndFrom(t, k, g)
<1>1. CASE k >= Len(t)
  BY <1>1 DEF EndFrom
<1>2. CASE ~(k >= Len(t))
  <2>1. f[k + 1] = g[k + 1] /\ f[k + 2] = g[k + 2]
    BY <1>2
  <2>. QED
    BY <2>1, Zenon DEF EndFrom
<1>. QED
  BY <1>1, <1>2

\* What Downwards says of endings.
LEMMA EndingDefined ==
  ASSUME NEW N \in Nat, Ending # {}, NEW B \in [Nat \X [Nat -> Ending] -> Ending], LooksUpTo(N, Ending, B)
  PROVE  \E f \in [Nat -> Ending] : \A k \in Nat : f[k] = B[<<k, f>>]
BY Downwards

LEMMA StringEndExists ==
  ASSUME NEW t, Len(t) \in Nat
  PROVE  \E e \in [Nat -> Ending] :
           /\ \A k \in Nat : e[k] = EndFrom(t, k, e)
           /\ \A i \in Nat : StringEnd(t, i) = e[i]
<1>. DEFINE B == [x \in Nat \X [Nat -> Ending] |-> EndFrom(t, x[1], x[2])]
            Eq(e) == [k \in Nat |-> EndFrom(t, k, e)]
            end == CHOOSE e : e = Eq(e)
<1>1. [at |-> 0, skipped |-> 0] \in Ending
  BY DEF Ending
<1>2. ASSUME NEW k \in Nat, NEW e \in [Nat -> Ending] PROVE EndFrom(t, k, e) \in Ending
  <2>1. k + 1 \in Nat /\ k + 2 \in Nat /\ e[k + 1] \in Ending /\ e[k + 2] \in Ending
    OBVIOUS
  <2>2. [e[k + 2] EXCEPT !.skipped = @ + 1] \in Ending
    BY <2>1, EndingBehind
  <2>. QED
    BY <2>1, <2>2 DEF EndFrom, Ending
<1>3. B \in [Nat \X [Nat -> Ending] -> Ending]
  BY <1>2
<1>4. ASSUME NEW k \in Nat, NEW f \in [Nat -> Ending] PROVE B[<<k, f>>] = EndFrom(t, k, f)
  OBVIOUS
<1>5. ASSUME NEW k \in Nat, NEW f \in [Nat -> Ending], NEW g \in [Nat -> Ending],
             \A j \in Nat : k < j /\ k < Len(t) => f[j] = g[j]
      PROVE  B[<<k, f>>] = B[<<k, g>>]
  <2>. HIDE DEF B
  <2>1. Len(t) \in Nat
    BY <1>1
  <2>2. EndFrom(t, k, f) = EndFrom(t, k, g)
    BY <1>5, <2>1, EndAhead
  <2>. QED
    BY <1>4, <2>2
<1>6. PICK e \in [Nat -> Ending] : \A k \in Nat : e[k] = B[<<k, e>>]
  <2>1. LooksUpTo(Len(t), Ending, B)
    BY <1>5 DEF LooksUpTo
  <2>2. Ending # {} /\ Len(t) \in Nat
    BY <1>1
  <2>3. ASSUME NEW C \in [Nat \X [Nat -> Ending] -> Ending], LooksUpTo(Len(t), Ending, C)
        PROVE  \E f \in [Nat -> Ending] : \A k \in Nat : f[k] = C[<<k, f>>]
    BY <2>2, <2>3, EndingDefined
  <2>. HIDE DEF B
  <2>. QED
    BY <1>3, <2>1, <2>3
<1>7. \A k \in Nat : e[k] = EndFrom(t, k, e)
  BY <1>4, <1>6
<1>8. e = Eq(e)
  BY <1>7
<1>9. end = Eq(end)
  <2>. HIDE DEF Eq
  <2>. QED
    BY <1>8
<1>10. \A i \in Nat : StringEnd(t, i) = end[i]
  BY DEF StringEnd, EndFrom
<1>. HIDE DEF end
<1>11. \A k \in Nat : end[k] = EndFrom(t, k, end)
  BY <1>9
<1>12. DOMAIN end = Nat
  BY <1>9
<1>. DEFINE T == {k \in Nat : end[k] = e[k]}
<1>13. T = Nat
  <2>1. ASSUME NEW k \in Nat, k >= Len(t) PROVE k \in T
    BY <1>7, <1>11, <2>1 DEF EndFrom
  <2>2. ASSUME NEW k \in Nat, \A j \in Nat : k < j => j \in T PROVE k \in T
    <3>1. k + 1 \in Nat /\ k + 2 \in Nat /\ k < k + 1 /\ k < k + 2
      OBVIOUS
    <3>2. end[k + 1] = e[k + 1] /\ end[k + 2] = e[k + 2]
      BY <2>2, <3>1
    <3>. QED
      BY <1>7, <1>11, <3>2 DEF EndFrom
  <2>3. T \in SUBSET Nat
    OBVIOUS
  <2>. HIDE DEF T
  <2>. QED
    BY <2>1, <2>2, <2>3, DownwardInduction
<1>14. ASSUME NEW k \in Nat PROVE end[k] = e[k]
  BY <1>13
<1>. QED
  BY <1>7, <1>10, <1>14

LEMMA StringEndStep ==
  ASSUME NEW t, Len(t) \in Nat, NEW k \in Nat
  PROVE  /\ StringEnd(t, k) \in Ending /\ StringEnd(t, k + 1) \in Ending /\ StringEnd(t, k + 2) \in Ending
         /\ k >= Len(t) => StringEnd(t, k) = [at |-> Len(t), skipped |-> 0]
         /\ k < Len(t) /\ t[k + 1] = Quote => StringEnd(t, k) = [at |-> k, skipped |-> 0]
         /\ k < Len(t) /\ t[k + 1] = Backslash =>
              /\ StringEnd(t, k).at = StringEnd(t, k + 2).at
              /\ StringEnd(t, k).skipped = StringEnd(t, k + 2).skipped + 1
         /\ k < Len(t) /\ t[k + 1] \notin {Quote, Backslash} => StringEnd(t, k) = StringEnd(t, k + 1)
<1>1. PICK e \in [Nat -> Ending] :
           /\ \A j \in Nat : e[j] = EndFrom(t, j, e)
           /\ \A i \in Nat : StringEnd(t, i) = e[i]
  BY StringEndExists
<1>2. k + 1 \in Nat /\ k + 2 \in Nat
  OBVIOUS
<1>3. StringEnd(t, k) = e[k] /\ StringEnd(t, k + 1) = e[k + 1] /\ StringEnd(t, k + 2) = e[k + 2]
  BY <1>1, <1>2
<1>4. e[k] \in Ending /\ e[k + 1] \in Ending /\ e[k + 2] \in Ending
  BY <1>1, <1>2
<1>5. e[k] = EndFrom(t, k, e)
  BY <1>1
<1>6. Quote # Backslash
  BY DEF Quote, Backslash
<1>7. LET r == [e[k + 2] EXCEPT !.skipped = @ + 1]
      IN r.at = e[k + 2].at /\ r.skipped = e[k + 2].skipped + 1
  BY <1>4 DEF Ending
<1>. QED
  BY <1>3, <1>4, <1>5, <1>6, <1>7 DEF EndFrom

\* A string ends at a quote behind where one begins to look for it, or nowhere.
LEMMA StringEndsAtQuote ==
  ASSUME NEW t, Len(t) \in Nat, NEW k \in Nat, k <= Len(t)
  PROVE  /\ StringEnd(t, k).at \in k..Len(t)
         /\ StringEnd(t, k).at < Len(t) => t[StringEnd(t, k).at + 1] = Quote
<1>. DEFINE Fine(m) == /\ StringEnd(t, m).at <= Len(t) /\ (m <= Len(t) => m <= StringEnd(t, m).at)
                       /\ StringEnd(t, m).at < Len(t) => t[StringEnd(t, m).at + 1] = Quote
            T == {m \in Nat : Fine(m)}
<1>1. ASSUME NEW m \in Nat, m >= Len(t) PROVE m \in T
  <2>1. StringEnd(t, m).at = Len(t)
    BY <1>1, StringEndStep
  <2>. QED
    BY <1>1, <2>1
<1>2. ASSUME NEW m \in Nat, \A j \in Nat : m < j => j \in T PROVE m \in T
  <2>1. m + 1 \in Nat /\ m + 2 \in Nat /\ m < m + 1 /\ m < m + 2
    OBVIOUS
  <2>2. Fine(m + 1) /\ Fine(m + 2)
    BY <1>2, <2>1
  <2>3. StringEnd(t, m).at \in Nat /\ StringEnd(t, m + 1).at \in Nat /\ StringEnd(t, m + 2).at \in Nat
    BY StringEndStep DEF Ending
  <2>4. CASE m < Len(t) /\ t[m + 1] = Quote
    <3>1. StringEnd(t, m) = [at |-> m, skipped |-> 0]
      BY <2>4, StringEndStep, Zenon
    <3>. QED
      BY <2>4, <3>1
  <2>5. CASE m < Len(t) /\ t[m + 1] = Backslash
    <3>1. StringEnd(t, m).at = StringEnd(t, m + 2).at
      BY <2>5, StringEndStep, Zenon
    <3>2. CASE m + 2 <= Len(t)
      BY <2>2, <2>3, <2>5, <3>1, <3>2
    <3>3. CASE m + 2 > Len(t)
      <4>1. StringEnd(t, m + 2).at = Len(t)
        <5>1. m + 2 >= Len(t)
          BY <3>3
        <5>2. StringEnd(t, m + 2) = [at |-> Len(t), skipped |-> 0]
          BY <2>1, <5>1, StringEndStep, Zenon
        <5>. QED
          BY <5>2
      <4>. QED
        BY <2>5, <3>1, <4>1
    <3>. QED
      BY <3>2, <3>3
  <2>6. CASE m < Len(t) /\ t[m + 1] \notin {Quote, Backslash}
    <3>1. StringEnd(t, m) = StringEnd(t, m + 1)
      BY <2>6, StringEndStep
    <3>2. m + 1 <= Len(t)
      BY <2>6
    <3>. QED
      BY <2>2, <2>3, <3>1, <3>2
  <2>. QED
    BY <1>1, <2>4, <2>5, <2>6
<1>3. T = Nat
  <2>1. T \in SUBSET Nat
    OBVIOUS
  <2>. HIDE DEF T
  <2>. QED
    BY <1>1, <1>2, <2>1, DownwardInduction
<1>4. Fine(k) /\ StringEnd(t, k).at \in Nat
  BY <1>3, StringEndStep DEF Ending
<1>. QED
  BY <1>4

-----------------------------------------------------------------------------
(* Escapes *)

\* The code points, and those of one \u sequence.
Code == {c \in Nat : c < 1114112}
Plane == {c \in Nat : c < 65536}

LEMMA HexValueRange ==
  ASSUME NEW c
  PROVE  HexValue(c) \in -1..15
BY DEF HexValue

LEMMA FourDigits ==
  ASSUME NEW a \in 0..15, NEW b \in 0..15, NEW c \in 0..15, NEW d \in 0..15
  PROVE  ((a * 16 + b) * 16 + c) * 16 + d \in Plane
BY SMT DEF Plane

LEMMA Hex4Range ==
  ASSUME NEW t, NEW i \in Int
  PROVE  parse_hex4(t, i) \in Plane
<1>. DEFINE d == [k \in 1..4 |-> HexValue(t[i + k])]
<1>1. d \in Seq(Int) /\ Len(d) = 4 /\ DOMAIN d = 1..4 /\ \A k \in 1..4 : d[k] \in -1..15
  BY HexValueRange
<1>2. parse_hex4(t, i) = IF -1 \in ToSet(d) THEN 0 ELSE ((d[1] * 16 + d[2]) * 16 + d[3]) * 16 + d[4]
  BY DEF parse_hex4
<1>. HIDE DEF d
<1>3. ASSUME -1 \notin ToSet(d) PROVE \A k \in 1..4 : d[k] \in 0..15
  <2>1. \A k \in 1..4 : d[k] # -1
    BY <1>1, <1>3 DEF ToSet
  <2>. QED
    BY <1>1, <2>1
<1>4. 1 \in 1..4 /\ 2 \in 1..4 /\ 3 \in 1..4 /\ 4 \in 1..4
  OBVIOUS
<1>5. 0 \in Plane
  BY SMT DEF Plane
<1>6. CASE -1 \in ToSet(d)
  BY <1>2, <1>5, <1>6
<1>7. CASE -1 \notin ToSet(d)
  <2>1. d[1] \in 0..15 /\ d[2] \in 0..15 /\ d[3] \in 0..15 /\ d[4] \in 0..15
    BY <1>3, <1>4, <1>7
  <2>2. ((d[1] * 16 + d[2]) * 16 + d[3]) * 16 + d[4] \in Plane
    BY <2>1, FourDigits
  <2>. QED
    BY <1>2, <1>7, <2>2
<1>. QED
  BY <1>6, <1>7

LEMMA PairRange ==
  ASSUME NEW a \in Nat, NEW b \in Nat
  PROVE  PairValue(a, b) \in Code
BY SMT DEF PairValue, Code

LEMMA Tuples ==
  ASSUME NEW f
  PROVE  /\ f \in [1..1 -> Int] => f = <<f[1]>>
         /\ f \in [1..2 -> Int] => f = <<f[1], f[2]>>
         /\ f \in [1..3 -> Int] => f = <<f[1], f[2], f[3]>>
         /\ f \in [1..4 -> Int] => f = <<f[1], f[2], f[3], f[4]>>
<1>1. CASE f \in [1..1 -> Int]
  BY <1>1
<1>2. CASE f \in [1..2 -> Int]
  BY <1>2
<1>3. CASE f \in [1..3 -> Int]
  BY <1>3
<1>4. CASE f \in [1..4 -> Int]
  BY <1>4
<1>. QED
  BY <1>1, <1>2, <1>3, <1>4

\* UTF-8 is what the code encodes a code point in, byte by byte from the end.
THEOREM EncodesUtf8 ==
  ASSUME NEW c \in Code
  PROVE  EncodeUtf8(c) = Utf8(c)
<1>a. c \in Nat
  BY SMT DEF Code
<1>. DEFINE Weight == <<1, 64, 4096, 262144>>
            Cont(w) == 128 + ((c \div w) % 64)
            Made(n, mark) == [i \in 1..n |-> IF i = 1 THEN mark + (c \div Weight[n]) ELSE Cont(Weight[n - i + 1])]
<1>. HIDE DEF Weight, Cont
<1>c. Weight[1] = 1 /\ Weight[2] = 64 /\ Weight[3] = 4096 /\ Weight[4] = 262144
  BY DEF Weight
<1>b. Cont(1) \in Int /\ Cont(64) \in Int /\ Cont(4096) \in Int
  BY <1>a, SMT DEF Cont
<1>1. CASE c < 128
  <2>. DEFINE f == Made(1, 0)
  <2>1. EncodeUtf8(c) = f
    BY <1>1, <1>a, SMT DEF EncodeUtf8, Weight, Cont
  <2>2. f \in [1..1 -> Int] /\ f[1] = 0 + (c \div 1)
    BY <1>a, <1>c, <1>b, SMT
  <2>. HIDE DEF f
  <2>3. f = <<f[1]>>
    BY <2>2, Tuples
  <2>4. Utf8(c) = <<c>>
    BY <1>1, <1>a, SMT DEF Utf8, Cont
  <2>. QED
    BY <1>a, <2>1, <2>2, <2>3, <2>4, SMT
<1>2. CASE c >= 128 /\ c < 2048
  <2>. DEFINE f == Made(2, 192)
  <2>1. EncodeUtf8(c) = f
    BY <1>2, <1>a, SMT DEF EncodeUtf8, Weight, Cont
  <2>2. f \in [1..2 -> Int] /\ f[1] = 192 + (c \div 64) /\ f[2] = Cont(1)
    BY <1>a, <1>c, <1>b, SMT
  <2>. HIDE DEF f
  <2>3. f = <<f[1], f[2]>>
    BY <2>2, Tuples
  <2>4. Utf8(c) = <<192 + (c \div 64), Cont(1)>>
    BY <1>2, <1>a, SMT DEF Utf8, Cont
  <2>. QED
    BY <1>a, <2>1, <2>2, <2>3, <2>4, SMT
<1>3. CASE c >= 2048 /\ c < 65536
  <2>. DEFINE f == Made(3, 224)
  <2>1. EncodeUtf8(c) = f
    BY <1>3, <1>a, SMT DEF EncodeUtf8, Weight, Cont
  <2>2. f \in [1..3 -> Int] /\ f[1] = 224 + (c \div 4096) /\ f[2] = Cont(64) /\ f[3] = Cont(1)
    BY <1>a, <1>c, <1>b, SMT
  <2>. HIDE DEF f
  <2>3. f = <<f[1], f[2], f[3]>>
    BY <2>2, Tuples
  <2>4. Utf8(c) = <<224 + (c \div 4096), Cont(64), Cont(1)>>
    BY <1>3, <1>a, SMT DEF Utf8, Cont
  <2>. QED
    BY <1>a, <2>1, <2>2, <2>3, <2>4, SMT
<1>4. CASE c >= 65536
  <2>. DEFINE f == Made(4, 240)
  <2>1. EncodeUtf8(c) = f
    BY <1>4, <1>a, SMT DEF EncodeUtf8, Weight, Cont
  <2>2. f \in [1..4 -> Int] /\ f[1] = 240 + (c \div 262144) /\ f[2] = Cont(4096) /\ f[3] = Cont(64) /\ f[4] = Cont(1)
    BY <1>a, <1>c, <1>b, SMT
  <2>. HIDE DEF f
  <2>3. f = <<f[1], f[2], f[3], f[4]>>
    BY <2>2, Tuples
  <2>4. Utf8(c) = <<240 + (c \div 262144), Cont(4096), Cont(64), Cont(1)>>
    BY <1>4, <1>a, SMT DEF Utf8, Cont
  <2>. QED
    BY <1>a, <2>1, <2>2, <2>3, <2>4, SMT
<1>. QED
  BY <1>a, <1>1, <1>2, <1>3, <1>4, SMT

\* Its bytes are bytes, three at most below 65536.
LEMMA Utf8Bytes ==
  ASSUME NEW c \in Code
  PROVE  /\ Utf8(c) \in Seq(Byte) /\ Len(Utf8(c)) <= 4
         /\ c \in Plane => Len(Utf8(c)) <= 3
<1>0. c \in Nat /\ c < 1114112 /\ (c \in Plane => c < 65536)
  BY SMT DEF Code, Plane
<1>. DEFINE Cont(w) == 128 + ((c \div w) % 64)
<1>1. Cont(1) \in Byte /\ Cont(64) \in Byte /\ Cont(4096) \in Byte
  BY <1>0, SMT DEF Byte
<1>2. CASE c < 128
  BY <1>0, <1>2, SMT DEF Utf8, Byte
<1>3. CASE c >= 128 /\ c < 2048
  <2>1. 192 + (c \div 64) \in Byte
    BY <1>0, <1>3, SMT DEF Byte
  <2>2. Utf8(c) = <<192 + (c \div 64), Cont(1)>>
    BY <1>0, <1>3, SMT DEF Utf8
  <2>. HIDE DEF Cont
  <2>. QED
    BY <1>0, <1>1, <1>3, <2>1, <2>2, SMT
<1>4. CASE c >= 2048 /\ c < 65536
  <2>1. 224 + (c \div 4096) \in Byte
    BY <1>0, <1>4, SMT DEF Byte
  <2>2. Utf8(c) = <<224 + (c \div 4096), Cont(64), Cont(1)>>
    BY <1>0, <1>4, SMT DEF Utf8
  <2>. HIDE DEF Cont
  <2>. QED
    BY <1>0, <1>1, <1>4, <2>1, <2>2, SMT
<1>5. CASE c >= 65536
  <2>1. 240 + (c \div 262144) \in Byte
    BY <1>0, <1>5, SMT DEF Byte
  <2>2. Utf8(c) = <<240 + (c \div 262144), Cont(4096), Cont(64), Cont(1)>>
    BY <1>0, <1>5, SMT DEF Utf8
  <2>. HIDE DEF Cont
  <2>. QED
    BY <1>0, <1>1, <1>5, <2>1, <2>2, SMT
<1>. QED
  BY <1>0, <1>2, <1>3, <1>4, <1>5, SMT

LEMMA EncodedBytes ==
  ASSUME NEW c \in Code
  PROVE  /\ EncodeUtf8(c) \in Seq(Byte) /\ Len(EncodeUtf8(c)) <= 4
         /\ c \in Plane => Len(EncodeUtf8(c)) <= 3
BY EncodesUtf8, Utf8Bytes, Zenon

\* An escape stands for less than its length: six characters for three bytes
\* at most, twelve for four.
SmallSequence(u, i, end) ==
  /\ u.bytes \in Seq(Byte)
  /\ \/ u.length = 0 /\ Len(u.bytes) = 0
     \/ u.length = 6 /\ i + 6 <= end /\ Len(u.bytes) <= 3
     \/ u.length = 12 /\ i + 12 <= end /\ Len(u.bytes) <= 4

LEMMA SequenceIsSmall ==
  ASSUME NEW t, NEW i \in Nat, NEW end \in Nat
  PROVE  SmallSequence(utf16_literal_to_utf8(t, i, end), i, end)
<1>. DEFINE first == parse_hex4(t, i + 2)
            second == parse_hex4(t, i + 8)
            u == utf16_literal_to_utf8(t, i, end)
<1>1. first \in Plane /\ first \in Code /\ second \in Plane /\ first \in Nat /\ second \in Nat
  <2>1. first \in Plane /\ second \in Plane
    BY Hex4Range
  <2>. HIDE DEF first, second
  <2>. QED
    BY <2>1, SMT DEF Plane, Code
<1>2. EncodeUtf8(first) \in Seq(Byte) /\ Len(EncodeUtf8(first)) <= 3
  BY <1>1, EncodedBytes
<1>3. EncodeUtf8(PairValue(first, second)) \in Seq(Byte) /\ Len(EncodeUtf8(PairValue(first, second))) <= 4
  BY <1>1, PairRange, EncodedBytes
<1>4. \/ u = [bytes |-> << >>, length |-> 0]
      \/ ~(end - i < 6) /\ u = [bytes |-> EncodeUtf8(first), length |-> 6]
      \/ end - (i + 6) >= 6 /\ u = [bytes |-> EncodeUtf8(PairValue(first, second)), length |-> 12]
  <2>. DEFINE none == [bytes |-> << >>, length |-> 0]
              six == [bytes |-> EncodeUtf8(first), length |-> 6]
              twelve == [bytes |-> EncodeUtf8(PairValue(first, second)), length |-> 12]
              short == end - i < 6
              low == first \in 56320..57343
              alone == first \notin 55296..56319
              room == end - (i + 6) >= 6
              paired == room /\ t[i + 7] = Backslash /\ t[i + 8] = 117 /\ second \in 56320..57343
  <2>1. u = IF short \/ low THEN none ELSE IF alone THEN six ELSE IF paired THEN twelve ELSE none
    BY DEF utf16_literal_to_utf8
  <2>2. paired => room
    OBVIOUS
  <2>. HIDE DEF u, none, six, twelve, short, low, alone, room, paired
  <2>3. u = none \/ (~short /\ u = six) \/ (room /\ u = twelve)
    BY <2>1, <2>2
  <2>. QED
    BY <2>3 DEF none, six, twelve, short, room
<1>. HIDE DEF u, first, second
<1>5. ASSUME u = [bytes |-> << >>, length |-> 0] PROVE SmallSequence(u, i, end)
  BY <1>5 DEF SmallSequence
<1>6. ASSUME ~(end - i < 6) /\ u = [bytes |-> EncodeUtf8(first), length |-> 6] PROVE SmallSequence(u, i, end)
  BY <1>2, <1>6 DEF SmallSequence
<1>7. ASSUME end - (i + 6) >= 6 /\ u = [bytes |-> EncodeUtf8(PairValue(first, second)), length |-> 12] PROVE SmallSequence(u, i, end)
  BY <1>3, <1>7 DEF SmallSequence
<1>8. SmallSequence(u, i, end)
  BY <1>4, <1>5, <1>6, <1>7
<1>. QED
  BY <1>8 DEF u

\* What is understood at i is a character for a byte, two for one, or such an
\* escape.
Small(u, i, end, plain) ==
  /\ u.bytes \in Seq(Byte)
  /\ \/ u.length = 0
     \/ u.length = 1 /\ plain /\ Len(u.bytes) = 1
     \/ u.length = 2 /\ Len(u.bytes) = 1
     \/ SmallSequence(u, i, end)

LEMMA UnderstoodIsSmall ==
  ASSUME NEW t \in Seq(Byte), NEW i \in Nat, NEW end \in Nat, i < end, end < Len(t)
  PROVE  Small(Understood(t, i, end), i, end, t[i + 1] # Backslash)
<1>. DEFINE u == Understood(t, i, end)
            a == t[i + 1]
            x == t[i + 2]
            w == utf16_literal_to_utf8(t, i, end)
<1>1. a \in Byte /\ x \in Byte
  <2>1. i + 1 \in 1..Len(t) /\ i + 2 \in 1..Len(t)
    OBVIOUS
  <2>. QED
    BY <2>1
<1>2. SmallSequence(w, i, end)
  BY SequenceIsSmall
<1>3. EscapeOf(x) \in Byte
  BY <1>1 DEF EscapeOf, Byte, Quote, Backslash
<1>4. \/ a # Backslash /\ u = [bytes |-> <<a>>, length |-> 1]
      \/ u = w
      \/ u = [bytes |-> <<EscapeOf(x)>>, length |-> 2]
      \/ u = [bytes |-> << >>, length |-> 0]
  BY DEF Understood
<1>. HIDE DEF u, a, x, w
<1>5. ASSUME a # Backslash /\ u = [bytes |-> <<a>>, length |-> 1] PROVE Small(u, i, end, a # Backslash)
  BY <1>1, <1>5 DEF Small, a
<1>6. ASSUME u = w PROVE Small(u, i, end, a # Backslash)
  BY <1>2, <1>6, Zenon DEF Small, SmallSequence
<1>7. ASSUME u = [bytes |-> <<EscapeOf(x)>>, length |-> 2] PROVE Small(u, i, end, a # Backslash)
  BY <1>3, <1>7 DEF Small
<1>8. ASSUME u = [bytes |-> << >>, length |-> 0] PROVE Small(u, i, end, a # Backslash)
  BY <1>8 DEF Small
<1>9. Small(u, i, end, a # Backslash)
  BY <1>4, <1>5, <1>6, <1>7, <1>8
<1>. QED
  BY <1>9 DEF u, a

\* The bytes of a string are found one character, or one escape, after the other.
Reading == [at : Nat, out : Seq(Byte)]

ReadFrom(t, k, end, r) ==
  LET here == Understood(t, k, end)
  IN IF k >= end THEN [at |-> end, out |-> << >>]
     ELSE IF here.length = 0 THEN [at |-> k, out |-> << >>]
     ELSE [r[k + here.length] EXCEPT !.out = here.bytes \o @]

LEMMA ReadingBehind ==
  ASSUME NEW r \in Reading, NEW s \in Seq(Byte)
  PROVE  LET q == [r EXCEPT !.out = s \o @]
         IN q \in Reading /\ q.at = r.at /\ q.out = s \o r.out
<1>1. r.out \in Seq(Byte) /\ r = [at |-> r.at, out |-> r.out]
  BY DEF Reading
<1>2. s \o r.out \in Seq(Byte)
  BY <1>1
<1>. QED
  BY <1>1, <1>2 DEF Reading

\* How far an escape, or a character, goes.
LEMMA Onwards ==
  ASSUME NEW t \in Seq(Byte), NEW i \in Nat, NEW end \in Nat, i < end, end < Len(t),
         Understood(t, i, end).length # 0
  PROVE  /\ i + Understood(t, i, end).length \in Nat /\ i < i + Understood(t, i, end).length
         /\ Understood(t, i, end).bytes \in Seq(Byte)
<1>. DEFINE u == Understood(t, i, end)
<1>1. Small(u, i, end, t[i + 1] # Backslash)
  BY UnderstoodIsSmall
<1>. HIDE DEF u
<1>2. u.bytes \in Seq(Byte) /\ u.length \in {0, 1, 2, 6, 12}
  BY <1>1 DEF Small, SmallSequence
<1>3. u.length # 0
  BY DEF u
<1>4. i + u.length \in Nat /\ i < i + u.length /\ u.bytes \in Seq(Byte)
  BY <1>2, <1>3
<1>. QED
  BY <1>4 DEF u

LEMMA ReadingDefined ==
  ASSUME NEW N \in Nat, Reading # {}, NEW B \in [Nat \X [Nat -> Reading] -> Reading], LooksUpTo(N, Reading, B)
  PROVE  \E f \in [Nat -> Reading] : \A k \in Nat : f[k] = B[<<k, f>>]
BY Downwards

LEMMA UnescapeExists ==
  ASSUME NEW t \in Seq(Byte), NEW end \in Nat, end < Len(t)
  PROVE  \E r \in [Nat -> Reading] :
           /\ \A k \in Nat : r[k] = ReadFrom(t, k, end, r)
           /\ \A i \in Nat : Unescape(t, i, end) = r[i]
<1>. DEFINE B == [x \in Nat \X [Nat -> Reading] |-> ReadFrom(t, x[1], end, x[2])]
            Eq(r) == [k \in Nat |-> ReadFrom(t, k, end, r)]
            read == CHOOSE r : r = Eq(r)
<1>1. [at |-> end, out |-> << >>] \in Reading /\ \A k \in Nat : [at |-> k, out |-> << >>] \in Reading
  BY DEF Reading
<1>2. ASSUME NEW k \in Nat, NEW r \in [Nat -> Reading] PROVE ReadFrom(t, k, end, r) \in Reading
  <2>1. CASE k >= end
    BY <1>1, <2>1 DEF ReadFrom
  <2>2. CASE k < end /\ Understood(t, k, end).length = 0
    BY <1>1, <2>2 DEF ReadFrom
  <2>3. CASE k < end /\ Understood(t, k, end).length # 0
    <3>. DEFINE u == Understood(t, k, end)
    <3>1. k + u.length \in Nat /\ u.bytes \in Seq(Byte)
      BY <2>3, Onwards
    <3>2. ReadFrom(t, k, end, r) = [r[k + u.length] EXCEPT !.out = u.bytes \o @]
      BY <2>3 DEF ReadFrom
    <3>. HIDE DEF u
    <3>3. r[k + u.length] \in Reading
      BY <3>1
    <3>. QED
      BY <3>1, <3>2, <3>3, ReadingBehind
  <2>. QED
    BY <2>1, <2>2, <2>3
<1>3. B \in [Nat \X [Nat -> Reading] -> Reading]
  BY <1>2
<1>4. ASSUME NEW k \in Nat, NEW f \in [Nat -> Reading] PROVE B[<<k, f>>] = ReadFrom(t, k, end, f)
  OBVIOUS
<1>5. ASSUME NEW k \in Nat, NEW f, NEW g,
             \A j \in Nat : k < j /\ k < end => f[j] = g[j]
      PROVE  ReadFrom(t, k, end, f) = ReadFrom(t, k, end, g)
  <2>1. CASE k >= end
    BY <2>1 DEF ReadFrom
  <2>2. CASE k < end /\ Understood(t, k, end).length = 0
    BY <2>2 DEF ReadFrom
  <2>3. CASE k < end /\ Understood(t, k, end).length # 0
    <3>. DEFINE u == Understood(t, k, end)
    <3>1. k + u.length \in Nat /\ k < k + u.length
      BY <2>3, Onwards
    <3>2. /\ ReadFrom(t, k, end, f) = [f[k + u.length] EXCEPT !.out = u.bytes \o @]
          /\ ReadFrom(t, k, end, g) = [g[k + u.length] EXCEPT !.out = u.bytes \o @]
      BY <2>3 DEF ReadFrom
    <3>. HIDE DEF u
    <3>3. f[k + u.length] = g[k + u.length]
      BY <1>5, <2>3, <3>1
    <3>. QED
      BY <3>2, <3>3
  <2>. QED
    BY <2>1, <2>2, <2>3
<1>6. PICK r \in [Nat -> Reading] : \A k \in Nat : r[k] = B[<<k, r>>]
  <2>1. LooksUpTo(end, Reading, B)
    <3>1. ASSUME NEW k \in Nat, NEW f \in [Nat -> Reading], NEW g \in [Nat -> Reading],
                 \A j \in Nat : k < j /\ k < end => f[j] = g[j]
          PROVE  B[<<k, f>>] = B[<<k, g>>]
      <4>1. ReadFrom(t, k, end, f) = ReadFrom(t, k, end, g)
        BY <1>5, <3>1
      <4>. QED
        BY <1>4, <4>1
    <3>. QED
      BY <3>1 DEF LooksUpTo
  <2>2. Reading # {} /\ end \in Nat
    BY <1>1
  <2>3. \A C \in [Nat \X [Nat -> Reading] -> Reading] : LooksUpTo(end, Reading, C) =>
          \E f \in [Nat -> Reading] : \A k \in Nat : f[k] = C[<<k, f>>]
    BY <2>2, ReadingDefined
  <2>. HIDE DEF B
  <2>. QED
    BY <1>3, <2>1, <2>3
<1>7. \A k \in Nat : r[k] = ReadFrom(t, k, end, r)
  BY <1>4, <1>6
<1>8. r = Eq(r)
  BY <1>7
<1>9. read = Eq(read)
  <2>. HIDE DEF Eq
  <2>. QED
    BY <1>8
<1>10. \A i \in Nat : Unescape(t, i, end) = read[i]
  BY DEF Unescape, ReadFrom
<1>. HIDE DEF read
<1>11. \A k \in Nat : read[k] = ReadFrom(t, k, end, read)
  BY <1>9
<1>. DEFINE T == {k \in Nat : read[k] = r[k]}
<1>12. T = Nat
  <2>1. ASSUME NEW k \in Nat, k >= end PROVE k \in T
    BY <1>7, <1>11, <2>1 DEF ReadFrom
  <2>2. ASSUME NEW k \in Nat, \A j \in Nat : k < j => j \in T PROVE k \in T
    <3>1. \A j \in Nat : k < j /\ k < end => read[j] = r[j]
      BY <2>2
    <3>2. ReadFrom(t, k, end, read) = ReadFrom(t, k, end, r)
      BY <1>5, <3>1
    <3>. QED
      BY <1>7, <1>11, <3>2
  <2>3. T \in SUBSET Nat
    OBVIOUS
  <2>. HIDE DEF T
  <2>. QED
    BY <2>1, <2>2, <2>3, DownwardInduction
<1>13. ASSUME NEW i \in Nat PROVE Unescape(t, i, end) = r[i]
  BY <1>10, <1>12
<1>. QED
  BY <1>7, <1>13

LEMMA UnescapeStep ==
  ASSUME NEW t \in Seq(Byte), NEW end \in Nat, end < Len(t), NEW k \in Nat
  PROVE  LET here == Understood(t, k, end)
             rest == Unescape(t, k + here.length, end)
         IN /\ Unescape(t, k, end) \in Reading
            /\ k >= end => Unescape(t, k, end) = [at |-> end, out |-> << >>]
            /\ k < end /\ here.length = 0 => Unescape(t, k, end) = [at |-> k, out |-> << >>]
            /\ k < end /\ here.length # 0 =>
                 /\ rest \in Reading
                 /\ Unescape(t, k, end).at = rest.at
                 /\ Unescape(t, k, end).out = here.bytes \o rest.out
<1>. DEFINE u == Understood(t, k, end)
<1>1. PICK r \in [Nat -> Reading] :
           /\ \A j \in Nat : r[j] = ReadFrom(t, j, end, r)
           /\ \A i \in Nat : Unescape(t, i, end) = r[i]
  BY UnescapeExists
<1>2. Unescape(t, k, end) = r[k] /\ r[k] = ReadFrom(t, k, end, r) /\ r[k] \in Reading
  BY <1>1
<1>3. ReadFrom(t, k, end, r) = IF k >= end THEN [at |-> end, out |-> << >>]
                               ELSE IF u.length = 0 THEN [at |-> k, out |-> << >>]
                               ELSE [r[k + u.length] EXCEPT !.out = u.bytes \o @]
  BY DEF ReadFrom
<1>4. ASSUME k < end, u.length # 0
      PROVE  /\ Unescape(t, k + u.length, end) \in Reading
             /\ Unescape(t, k, end).at = Unescape(t, k + u.length, end).at
             /\ Unescape(t, k, end).out = u.bytes \o Unescape(t, k + u.length, end).out
  <2>1. k + u.length \in Nat /\ u.bytes \in Seq(Byte)
    BY <1>4, Onwards
  <2>. HIDE DEF u
  <2>. DEFINE n == k + u.length
  <2>. HIDE DEF n
  <2>2. Unescape(t, n, end) = r[n] /\ r[n] \in Reading
    BY <1>1, <2>1 DEF n
  <2>3. Unescape(t, k, end) = [r[n] EXCEPT !.out = u.bytes \o @]
    BY <1>2, <1>3, <1>4 DEF n
  <2>4. Unescape(t, k, end).at = r[n].at /\ Unescape(t, k, end).out = u.bytes \o r[n].out
    <3>1. LET q == [r[n] EXCEPT !.out = u.bytes \o @]
          IN q \in Reading /\ q.at = r[n].at /\ q.out = u.bytes \o r[n].out
      BY <2>1, <2>2, ReadingBehind
    <3>. QED
      BY <2>3, <3>1
  <2>. QED
    BY <2>2, <2>4 DEF n
<1>. HIDE DEF u
<1>6. /\ Unescape(t, k, end) \in Reading
      /\ k >= end => Unescape(t, k, end) = [at |-> end, out |-> << >>]
  BY <1>2, <1>3
<1>7. k < end /\ u.length = 0 => Unescape(t, k, end) = [at |-> k, out |-> << >>]
  BY <1>2, <1>3
<1>5. /\ Unescape(t, k, end) \in Reading
      /\ k >= end => Unescape(t, k, end) = [at |-> end, out |-> << >>]
      /\ k < end /\ u.length = 0 => Unescape(t, k, end) = [at |-> k, out |-> << >>]
      /\ k < end /\ u.length # 0 =>
           /\ Unescape(t, k + u.length, end) \in Reading
           /\ Unescape(t, k, end).at = Unescape(t, k + u.length, end).at
           /\ Unescape(t, k, end).out = u.bytes \o Unescape(t, k + u.length, end).out
  BY <1>4, <1>6, <1>7
<1>. QED
  BY <1>5 DEF u

\* One byte is allocated for every character up to the end but the skipped
\* backslashes: from m on there are L of them at least.  Reading may come, by
\* a \u sequence whose digits are none, to where the search for the end did not
\* stop, between a backslash and the character it skipped with it.
Left(t, m, end) == end - m - StringEnd(t, m).skipped

InStep(t, m, end, L) == StringEnd(t, m).at = end /\ Left(t, m, end) <= L
Between(t, m, end, L) == m > 0 /\ t[m] = Backslash /\ InStep(t, m - 1, end, L)
Slot(t, m, end, L) == InStep(t, m, end, L) \/ Between(t, m, end, L)

LEMMA Weaken ==
  ASSUME NEW t, Len(t) \in Nat, NEW m \in Nat, NEW end \in Nat, NEW L \in Int, NEW M \in Int, L <= M
  PROVE  /\ InStep(t, m, end, L) => InStep(t, m, end, M)
         /\ Slot(t, m, end, L) => Slot(t, m, end, M)
<1>1. ASSUME NEW k \in Nat PROVE InStep(t, k, end, L) => InStep(t, k, end, M)
  <2>1. StringEnd(t, k).skipped \in Nat
    BY StringEndStep DEF Ending
  <2>. QED
    BY <2>1 DEF InStep, Left
<1>2. CASE m > 0
  <2>1. m - 1 \in Nat
    BY <1>2
  <2>. QED
    BY <1>1, <2>1 DEF Slot, Between
<1>3. CASE m = 0
  BY <1>1, <1>3 DEF Slot, Between
<1>. QED
  BY <1>2, <1>3

LEMMA StepOn ==
  ASSUME NEW t, Len(t) \in Nat, NEW m \in Nat, NEW end \in Nat, m < end, end < Len(t), NEW L \in Int
  PROVE  /\ InStep(t, m, end, L) /\ t[m + 1] # Backslash => InStep(t, m + 1, end, L - 1)
         /\ InStep(t, m, end, L) /\ t[m + 1] = Backslash => Between(t, m + 1, end, L)
         /\ Between(t, m, end, L) => InStep(t, m + 1, end, L - 1)
<1>0. m + 1 \in Nat /\ m < Len(t) /\ (m + 1) - 1 = m /\ m + 1 > 0
  OBVIOUS
<1>1. ASSUME InStep(t, m, end, L), t[m + 1] # Backslash PROVE InStep(t, m + 1, end, L - 1)
  <2>1. t[m + 1] # Quote
    <3>1. t[m + 1] = Quote => StringEnd(t, m) = [at |-> m, skipped |-> 0]
      BY <1>0, StringEndStep, Zenon
    <3>2. t[m + 1] = Quote => StringEnd(t, m).at = m
      BY <3>1
    <3>. QED
      BY <1>1, <3>2 DEF InStep
  <2>2. StringEnd(t, m) = StringEnd(t, m + 1)
    <3>1. t[m + 1] \notin {Quote, Backslash}
      BY <1>1, <2>1
    <3>. QED
      BY <1>0, <3>1, StringEndStep, Zenon
  <2>3. StringEnd(t, m).skipped \in Nat
    BY StringEndStep DEF Ending
  <2>. QED
    BY <1>1, <2>2, <2>3 DEF InStep, Left
<1>2. ASSUME InStep(t, m, end, L), t[m + 1] = Backslash PROVE Between(t, m + 1, end, L)
  BY <1>0, <1>2 DEF Between
<1>3. ASSUME Between(t, m, end, L) PROVE InStep(t, m + 1, end, L - 1)
  <2>. DEFINE k == m - 1
  <2>1. k \in Nat /\ k < Len(t) /\ k + 1 = m /\ k + 2 = m + 1
    BY <1>3 DEF Between
  <2>2. t[k + 1] = Backslash /\ InStep(t, k, end, L)
    BY <1>3, <2>1 DEF Between
  <2>. HIDE DEF k
  <2>3. /\ StringEnd(t, k).at = StringEnd(t, k + 2).at
        /\ StringEnd(t, k).skipped = StringEnd(t, k + 2).skipped + 1
    BY <2>1, <2>2, StringEndStep, Zenon
  <2>4. StringEnd(t, k + 2).skipped \in Nat
    BY <2>1, StringEndStep DEF Ending
  <2>5. InStep(t, k + 2, end, L - 1)
    <3>. DEFINE p == StringEnd(t, k).skipped
                q == StringEnd(t, k + 2).skipped
    <3>1. p = q + 1 /\ q \in Nat /\ end - k - p <= L
      BY <2>2, <2>3, <2>4 DEF InStep, Left
    <3>2. StringEnd(t, k + 2).at = end
      BY <2>2, <2>3 DEF InStep
    <3>. HIDE DEF p, q
    <3>3. end - (k + 2) - q <= L - 1
      BY <2>1, <3>1
    <3>. QED
      BY <3>2, <3>3 DEF InStep, Left, q
  <2>. QED
    BY <2>1, <2>5
<1>. QED
  BY <1>1, <1>2, <1>3

\* Two characters leave one byte less at least.
LEMMA TwoOn ==
  ASSUME NEW t, Len(t) \in Nat, NEW m \in Nat, NEW end \in Nat, m + 1 < end, end < Len(t), NEW L \in Int,
         Slot(t, m, end, L)
  PROVE  Slot(t, m + 2, end, L - 1)
<1>1. m + 1 \in Nat /\ L - 1 \in Int /\ (m + 1) + 1 = m + 2 /\ m < end /\ m + 2 \in Nat
      /\ (L - 1) - 1 \in Int /\ (L - 1) - 1 <= L - 1
  OBVIOUS
<1>2. ASSUME InStep(t, m + 1, end, L - 1) PROVE Slot(t, m + 2, end, L - 1)
  <2>1. InStep(t, m + 2, end, (L - 1) - 1) \/ Between(t, m + 2, end, L - 1)
    BY <1>1, <1>2, StepOn
  <2>2. InStep(t, m + 2, end, (L - 1) - 1) => InStep(t, m + 2, end, L - 1)
    BY <1>1, Weaken
  <2>. QED
    BY <2>1, <2>2 DEF Slot
<1>3. ASSUME Between(t, m + 1, end, L) PROVE Slot(t, m + 2, end, L - 1)
  BY <1>1, <1>3, StepOn DEF Slot
<1>4. InStep(t, m + 1, end, L - 1) \/ Between(t, m + 1, end, L)
  BY <1>1, StepOn DEF Slot
<1>. QED
  BY <1>2, <1>3, <1>4

\* At the end nothing is owed.
LEMMA AtEnd ==
  ASSUME NEW t, Len(t) \in Nat, NEW end \in Nat, end < Len(t), NEW L \in Int, Slot(t, end, end, L)
  PROVE  L >= 0 /\ ~Between(t, end, end, L)
<1>1. ASSUME Between(t, end, end, L) PROVE FALSE
  <2>. DEFINE k == end - 1
  <2>1. k \in Nat /\ k < Len(t) /\ k + 1 = end /\ k + 2 = end + 1 /\ k + 2 <= Len(t)
    BY <1>1 DEF Between
  <2>2. t[k + 1] = Backslash /\ StringEnd(t, k).at = end
    BY <1>1, <2>1 DEF Between, InStep
  <2>. HIDE DEF k
  <2>3. StringEnd(t, k).at = StringEnd(t, k + 2).at
    BY <2>1, <2>2, StringEndStep, Zenon
  <2>4. StringEnd(t, k + 2).at \in (k + 2)..Len(t)
    BY <2>1, StringEndsAtQuote
  <2>. QED
    BY <2>1, <2>2, <2>3, <2>4
<1>2. CASE InStep(t, end, end, L)
  <2>1. StringEnd(t, end).at = end /\ end <= Len(t)
    BY <1>2 DEF InStep
  <2>2. t[end + 1] = Quote
    BY <2>1, StringEndsAtQuote
  <2>3. StringEnd(t, end) = [at |-> end, skipped |-> 0]
    BY <2>2, StringEndStep, Zenon
  <2>4. L >= 0
    BY <1>2, <2>3 DEF InStep, Left
  <2>. QED
    BY <1>1, <2>4
<1>. QED
  BY <1>1, <1>2 DEF Slot

\* In front of it there is a byte to write.
LEMMA AtLast ==
  ASSUME NEW t, Len(t) \in Nat, NEW m \in Nat, NEW end \in Nat, m + 1 = end, end < Len(t), NEW L \in Int,
         Slot(t, m, end, L)
  PROVE  L >= 1
<1>1. m < end /\ L - 1 \in Int
  OBVIOUS
<1>2. InStep(t, end, end, L - 1) \/ Between(t, end, end, L)
  BY <1>1, StepOn DEF Slot
<1>3. ~Between(t, end, end, L)
  BY AtEnd DEF Slot
<1>4. L - 1 >= 0
  BY <1>1, <1>2, <1>3, AtEnd DEF Slot
<1>. QED
  BY <1>4

\* One character leaves no more, a plain one one byte less.
LEMMA OneOn ==
  ASSUME NEW t, Len(t) \in Nat, NEW m \in Nat, NEW end \in Nat, m < end, end < Len(t), NEW L \in Int,
         Slot(t, m, end, L)
  PROVE  /\ Slot(t, m + 1, end, L)
         /\ t[m + 1] # Backslash => Slot(t, m + 1, end, L - 1)
<1>1. m + 1 \in Nat /\ L - 1 \in Int /\ L - 1 <= L
  OBVIOUS
<1>2. t[m + 1] # Backslash => InStep(t, m + 1, end, L - 1)
  BY StepOn DEF Slot
<1>3. InStep(t, m + 1, end, L - 1) \/ Between(t, m + 1, end, L)
  BY StepOn DEF Slot
<1>4. InStep(t, m + 1, end, L - 1) => InStep(t, m + 1, end, L)
  BY <1>1, Weaken
<1>. QED
  BY <1>2, <1>3, <1>4 DEF Slot

LEMMA SixOn ==
  ASSUME NEW t, Len(t) \in Nat, NEW m \in Nat, NEW end \in Nat, m + 6 <= end, end < Len(t), NEW L \in Int,
         Slot(t, m, end, L)
  PROVE  Slot(t, m + 6, end, L - 3)
<1>. DEFINE m2 == m + 2
            m4 == m + 4
<1>0. /\ m + 1 < end /\ m2 \in Nat /\ m2 + 1 < end /\ m4 \in Nat /\ m4 + 1 < end /\ m2 + 2 = m4 /\ m4 + 2 = m + 6
      /\ L - 1 \in Int /\ L - 2 \in Int /\ (L - 1) - 1 = L - 2 /\ (L - 2) - 1 = L - 3
  OBVIOUS
<1>1. Slot(t, m2, end, L - 1)
  BY <1>0, TwoOn
<1>. HIDE DEF m2, m4
<1>2. Slot(t, m4, end, L - 2)
  BY <1>0, <1>1, TwoOn
<1>3. Slot(t, m4 + 2, end, (L - 2) - 1)
  BY <1>0, <1>2, TwoOn
<1>. QED
  BY <1>0, <1>3

\* What reading from k on makes of a slot of L bytes.
LEMMA FitsSlot ==
  ASSUME NEW t \in Seq(Byte), NEW end \in Nat, end < Len(t), NEW k \in Nat, k <= end, NEW L \in Int,
         Slot(t, k, end, L)
  PROVE  Len(Unescape(t, k, end).out) <= L
<1>. DEFINE Out(m) == Unescape(t, m, end).out
            u(m) == Understood(t, m, end)
            T == {m \in Nat : m <= end => \A M \in Int : Slot(t, m, end, M) => Len(Out(m)) <= M}
<1>0. Len(t) \in Nat
  OBVIOUS
<1>1. ASSUME NEW m \in Nat PROVE Out(m) \in Seq(Byte) /\ Len(Out(m)) \in Nat
  <2>1. Unescape(t, m, end) \in Reading
    BY UnescapeStep
  <2>. QED
    BY <2>1 DEF Reading
<1>2. ASSUME NEW m \in Nat, m >= end PROVE Len(Out(m)) = 0
  <2>1. Unescape(t, m, end) = [at |-> end, out |-> << >>]
    BY <1>2, UnescapeStep
  <2>. QED
    BY <2>1
<1>3. ASSUME NEW m \in Nat, m >= end PROVE m \in T
  <2>1. ASSUME NEW M \in Int, m <= end, Slot(t, m, end, M) PROVE Len(Out(m)) <= M
    <3>1. m = end
      BY <1>3, <2>1
    <3>2. M >= 0
      BY <1>0, <2>1, <3>1, AtEnd
    <3>. QED
      BY <1>2, <1>3, <3>2
  <2>. QED
    BY <2>1
<1>. HIDE DEF Out, T
<1>4. ASSUME NEW m \in Nat, m < end, \A j \in Nat : m < j => j \in T,
             NEW M \in Int, Slot(t, m, end, M)
      PROVE  Len(Out(m)) <= M
  <2>0. Small(u(m), m, end, t[m + 1] # Backslash)
    BY <1>4, UnderstoodIsSmall
  <2>1. u(m).bytes \in Seq(Byte)
    BY <2>0 DEF Small
  <2>2. u(m).length # 0 => Out(m) = u(m).bytes \o Out(m + u(m).length)
    BY <1>4, UnescapeStep DEF Out
  <2>3. u(m).length = 0 => Out(m) = << >>
    <3>1. u(m).length = 0 => Unescape(t, m, end) = [at |-> m, out |-> << >>]
      BY <1>4, UnescapeStep
    <3>. QED
      BY <3>1 DEF Out
  <2>. DEFINE n == u(m).length
              b == u(m).bytes
  <2>4. /\ b \in Seq(Byte) /\ (n # 0 => Out(m) = b \o Out(m + n)) /\ (n = 0 => Out(m) = << >>)
        /\ \/ n = 0
           \/ n = 1 /\ t[m + 1] # Backslash /\ Len(b) = 1
           \/ n = 2 /\ Len(b) = 1
           \/ n = 6 /\ m + 6 <= end /\ Len(b) <= 3
           \/ n = 12 /\ m + 12 <= end /\ Len(b) <= 4
    BY <2>0, <2>1, <2>2, <2>3 DEF Small, SmallSequence
  <2>. HIDE DEF n, b, u
  <2>5. ASSUME NEW j \in Nat, m < j, j <= end, NEW K \in Int, Slot(t, j, end, K)
        PROVE  Len(Out(j)) <= K
    BY <1>4, <2>5 DEF T
  <2>6. ASSUME n # 0, m + n \in Nat PROVE Len(Out(m)) = Len(b) + Len(Out(m + n))
    <3>1. Out(m + n) \in Seq(Byte)
      BY <1>1, <2>6
    <3>. DEFINE rest == Out(m + n)
    <3>. HIDE DEF rest
    <3>2. rest \in Seq(Byte) /\ Out(m) = b \o rest
      BY <2>4, <2>6, <3>1 DEF rest
    <3>3. Len(b \o rest) = Len(b) + Len(rest)
      BY <2>4, <3>2, ConcatProperties
    <3>. QED
      BY <3>2, <3>3 DEF rest
  <2>7. ASSUME NEW d \in Nat, d # 0, n = d, m + d <= end,
               NEW c \in Nat, Len(b) <= c, Slot(t, m + d, end, M - c)
        PROVE  Len(Out(m)) <= M
    <3>1. m + d \in Nat /\ m < m + d /\ M - c \in Int /\ Len(b) \in Nat /\ n # 0 /\ m + n = m + d
      BY <2>4, <2>7
    <3>2. Len(Out(m + d)) <= M - c
      BY <2>5, <2>7, <3>1
    <3>3. Len(Out(m)) = Len(b) + Len(Out(m + d)) /\ Len(Out(m + d)) \in Nat
      BY <1>1, <2>6, <3>1
    <3>. QED
      BY <2>7, <3>1, <3>2, <3>3
  <2>8. CASE n = 0
    <3>1. Slot(t, m + 1, end, M) /\ m + 1 \in Nat /\ m < m + 1 /\ m + 1 <= end
      BY <1>0, <1>4, OneOn
    <3>2. Len(Out(m + 1)) <= M /\ Len(Out(m + 1)) \in Nat
      BY <1>1, <2>5, <3>1
    <3>3. Len(Out(m)) = 0
      BY <2>4, <2>8
    <3>. QED
      BY <3>2, <3>3
  <2>9. CASE n = 1 /\ t[m + 1] # Backslash /\ Len(b) = 1
    <3>1. Slot(t, m + 1, end, M - 1)
      BY <1>0, <1>4, <2>9, OneOn
    <3>2. m + 1 <= end /\ Len(b) <= 1
      BY <1>4, <2>9
    <3>3. 1 \in Nat /\ n = 1 /\ 1 # 0
      BY <2>9
    <3>. QED
      BY <2>7, <3>1, <3>2, <3>3
  <2>10. CASE n = 2 /\ Len(b) = 1 /\ m + 2 <= end
    <3>1. m + 1 < end /\ Len(b) <= 1
      BY <2>10
    <3>2. Slot(t, m + 2, end, M - 1)
      BY <1>0, <1>4, <3>1, TwoOn
    <3>. QED
      BY <2>7, <2>10, <3>1, <3>2
  <2>11. CASE n = 2 /\ Len(b) = 1 /\ ~(m + 2 <= end)
    <3>1. m + 1 = end /\ m + n \in Nat /\ m + n >= end
      BY <1>4, <2>11
    <3>2. M >= 1
      BY <1>0, <1>4, <3>1, AtLast
    <3>3. Len(Out(m)) = Len(b) + Len(Out(m + n)) /\ Len(Out(m + n)) = 0
      BY <1>2, <2>6, <2>11, <3>1
    <3>. QED
      BY <2>11, <3>2, <3>3
  <2>12. CASE n = 6 /\ m + 6 <= end /\ Len(b) <= 3
    <3>1. Slot(t, m + 6, end, M - 3)
      BY <1>0, <1>4, <2>12, SixOn
    <3>2. 6 \in Nat /\ n = 6 /\ 6 # 0 /\ 3 \in Nat
      BY <2>12
    <3>. QED
      BY <2>7, <2>12, <3>1, <3>2
  <2>13. CASE n = 12 /\ m + 12 <= end /\ Len(b) <= 4
    <3>1. m + 6 <= end /\ m + 6 \in Nat /\ (m + 6) + 6 = m + 12 /\ (m + 6) + 6 <= end
          /\ M - 3 \in Int /\ (M - 3) - 3 = M - 6 /\ Len(b) <= 6
      BY <2>13
    <3>2. Slot(t, m + 6, end, M - 3)
      BY <1>0, <1>4, <3>1, SixOn
    <3>. DEFINE m6 == m + 6
                M3 == M - 3
    <3>. HIDE DEF m6, M3
    <3>3. Slot(t, m6 + 6, end, M3 - 3)
      <4>1. m6 \in Nat /\ m6 + 6 <= end /\ M3 \in Int /\ Slot(t, m6, end, M3)
        BY <3>1, <3>2 DEF m6, M3
      <4>. QED
        BY <1>0, <4>1, SixOn
    <3>4. Slot(t, m + 12, end, M - 6)
      BY <3>1, <3>3 DEF m6, M3
    <3>5. 12 \in Nat /\ n = 12 /\ 12 # 0 /\ 6 \in Nat
      BY <2>13
    <3>. QED
      BY <2>7, <2>13, <3>1, <3>4, <3>5
  <2>. QED
    BY <2>4, <2>8, <2>9, <2>10, <2>11, <2>12, <2>13
<1>5. T = Nat
  <2>1. ASSUME NEW m \in Nat, \A j \in Nat : m < j => j \in T PROVE m \in T
    <3>1. CASE m < end
      BY <1>4, <2>1, <3>1 DEF T
    <3>. QED
      BY <1>3, <3>1
  <2>2. T \in SUBSET Nat
    BY DEF T
  <2>. QED
    BY <1>3, <2>1, <2>2, DownwardInduction
<1>. QED
  BY <1>5 DEF Out, T

\* Reading goes on, up to the end.
LEMMA ReadsOn ==
  ASSUME NEW t \in Seq(Byte), NEW end \in Nat, end < Len(t), NEW k \in Nat, k <= end
  PROVE  Unescape(t, k, end).at \in k..end
<1>. DEFINE At(m) == Unescape(t, m, end).at
            T == {m \in Nat : At(m) \in Nat /\ At(m) <= end /\ (IF m <= end THEN m <= At(m) ELSE At(m) = end)}
<1>1. ASSUME NEW m \in Nat, m >= end PROVE m \in T
  <2>1. Unescape(t, m, end) = [at |-> end, out |-> << >>]
    BY <1>1, UnescapeStep
  <2>2. At(m) = end
    BY <2>1
  <2>. QED
    BY <1>1, <2>2
<1>2. ASSUME NEW m \in Nat, \A j \in Nat : m < j => j \in T PROVE m \in T
  <2>. DEFINE u == Understood(t, m, end)
  <2>1. CASE m >= end
    BY <1>1, <2>1
  <2>2. CASE m < end /\ u.length = 0
    <3>1. Unescape(t, m, end) = [at |-> m, out |-> << >>]
      BY <2>2, UnescapeStep
    <3>2. At(m) = m
      BY <3>1
    <3>. QED
      BY <2>2, <3>2
  <2>3. CASE m < end /\ u.length # 0
    <3>1. At(m) = At(m + u.length)
      BY <2>3, UnescapeStep
    <3>2. m + u.length \in Nat /\ m < m + u.length
      BY <2>3, Onwards
    <3>. DEFINE j == m + u.length
    <3>. HIDE DEF u, j, At
    <3>3. j \in T /\ j \in Nat /\ m < j /\ At(m) = At(j)
      BY <1>2, <3>1, <3>2 DEF j
    <3>. QED
      BY <2>3, <3>3
  <2>. QED
    BY <2>1, <2>2, <2>3
<1>3. T = Nat
  <2>1. T \in SUBSET Nat
    OBVIOUS
  <2>. HIDE DEF T
  <2>. QED
    BY <1>1, <1>2, <2>1, DownwardInduction
<1>. HIDE DEF At
<1>4. At(k) \in k..end
  BY <1>3
<1>. QED
  BY <1>4 DEF At

\* No byte of a string is zero.
NonZero(s) == \A i \in 1..Len(s) : s[i] # 0

LEMMA CStringEnds ==
  ASSUME NEW s \in Seq(Byte)
  PROVE  /\ CString(s) \in Seq(Byte) /\ NonZero(CString(s))
         /\ NonZero(s) => CString(s) = s
<1>. DEFINE I == {i \in 1..Len(s) : s[i] = 0}
            zero == IF I # {} THEN Min(I) ELSE 0
<1>1. CString(s) = IF zero = 0 THEN s ELSE SubSeq(s, 1, zero - 1)
  BY DEF CString, SelectInSeq
<1>2. CASE I = {}
  <2>1. CString(s) = s
    BY <1>1, <1>2
  <2>. QED
    BY <1>2, <2>1 DEF NonZero
<1>3. CASE I # {}
  <2>1. I \subseteq Nat
    OBVIOUS
  <2>2. Min(I) \in I /\ \A j \in I : Min(I) <= j
    <3>. HIDE DEF I
    <3>1. \E x \in I : \A y \in I : x <= y
      BY <1>3, <2>1, NatMin
    <3>. QED
      BY <3>1 DEF Min
  <2>. DEFINE m == Min(I)
  <2>. HIDE DEF m
  <2>3. m \in 1..Len(s) /\ s[m] = 0 /\ \A j \in 1..Len(s) : s[j] = 0 => m <= j
    BY <2>2 DEF m
  <2>4. CString(s) = SubSeq(s, 1, m - 1)
    <3>1. zero = m
      BY <1>3 DEF m
    <3>2. zero # 0
      BY <2>3, <3>1
    <3>. HIDE DEF zero
    <3>. QED
      BY <1>1, <3>1, <3>2
  <2>. HIDE DEF I
  <2>. DEFINE q == SubSeq(s, 1, m - 1)
  <2>5. q \in Seq(Byte) /\ Len(q) = m - 1 /\ \A i \in 1..(m - 1) : q[i] = s[i]
    BY <2>3
  <2>. HIDE DEF q
  <2>6. NonZero(q)
    BY <2>3, <2>5 DEF NonZero
  <2>7. ~NonZero(s)
    BY <2>3 DEF NonZero
  <2>. QED
    BY <2>4, <2>5, <2>6, <2>7 DEF q
<1>. QED
  BY <1>2, <1>3

WithString(h, n, s) == [h EXCEPT ![n] = [@ EXCEPT !.kind = "string", !.val = s]]

LEMMA CellWithString ==
  ASSUME NEW x \in Cell, NEW s \in Seq(Int)
  PROVE  LET y == [x EXCEPT !.kind = "string", !.val = s] IN y \in Cell /\ y.val = s
BY DEF Cell, Kinds

LEMMA HeapWithString ==
  ASSUME NEW h \in Heap, NEW n \in Node, NEW s \in Seq(Int)
  PROVE  LET g == WithString(h, n, s) IN g \in Heap /\ g[n].val = s
<1>. DEFINE y == [h[n] EXCEPT !.kind = "string", !.val = s]
<1>1. h[n] \in Cell
  BY DEF Heap
<1>2. y \in Cell /\ y.val = s
  BY <1>1, CellWithString
<1>3. WithString(h, n, s) = [h EXCEPT ![n] = y]
  BY DEF WithString
<1>. HIDE DEF y
<1>. QED
  BY <1>2, <1>3 DEF Heap

\* Reading stops, in the text.
StoppedAt(b, k) == [Fail(b) EXCEPT !.offset = k]

LEMMA StoppedFields ==
  ASSUME NEW b \in ParseBuffer, NEW k \in Nat
  PROVE  LET r == StoppedAt(b, k)
         IN /\ r \in ParseBuffer /\ r.ok = FALSE /\ r.offset = k /\ r.outside = b.outside /\ r.heap = b.heap
            /\ r.depth = b.depth /\ r.head = b.head
BY DEF StoppedAt, Fail, ParseBuffer

\* A string was read.
StringAt(b, k, n, s, o) ==
  [b EXCEPT !.offset = k, !.heap[n].kind = "string", !.heap[n].val = s, !.outside = o]

LEMMA StringFields ==
  ASSUME NEW b \in ParseBuffer, NEW k \in Nat, NEW n \in Node, NEW s \in Seq(Int), NEW o, o \in BOOLEAN,
         NEW r, r = StringAt(b, k, n, s, o)
  PROVE  /\ r \in ParseBuffer /\ r.ok = b.ok /\ r.offset = k /\ r.outside = o
         /\ r.heap = WithString(b.heap, n, s) /\ r.depth = b.depth /\ r.head = b.head
<1>. DEFINE g == WithString(b.heap, n, s)
<1>1. b.heap \in Heap
  BY DEF ParseBuffer
<1>2. g \in Heap
  BY <1>1, HeapWithString
<1>3. r = [b EXCEPT !.offset = k, !.heap = g, !.outside = o]
  <2>1. g = [[b.heap EXCEPT ![n].kind = "string"] EXCEPT ![n].val = s]
    BY <1>1 DEF WithString, Heap, Cell
  <2>. QED
    BY <2>1 DEF ParseBuffer, StringAt
<1>. HIDE DEF g
<1>4. /\ r \in ParseBuffer /\ r.ok = b.ok /\ r.offset = k /\ r.outside = o
      /\ r.heap = g /\ r.depth = b.depth /\ r.head = b.head
  BY <1>2, <1>3 DEF ParseBuffer
<1>. QED
  BY <1>4 DEF g

\* What parse_string makes of b: it goes on in the text and reads and writes
\* nothing outside; if all is well it stands behind a quote and the item n has
\* a string that ends where it is said to, if not nothing is built.
StringRead(t, b, n, r) ==
  /\ r \in ParseBuffer /\ ~r.outside /\ r.depth = b.depth /\ r.head = b.head
  /\ b.offset < r.offset /\ r.offset <= Len(t)
  /\ IF r.ok
     THEN /\ t[r.offset] = Quote /\ r.heap = WithString(b.heap, n, r.heap[n].val)
          /\ r.heap[n].val \in Seq(Byte) /\ NonZero(r.heap[n].val)
     ELSE r.heap = b.heap

LEMMA BytesAreInts ==
  ASSUME NEW s \in Seq(Byte)
  PROVE  s \in Seq(Int)
<1>1. Byte \subseteq Int
  BY DEF Byte
<1>. QED
  BY <1>1, SeqMonotonic

\* The string is taken if there was memory for it and all of it was understood.
Taken(b, n, end, read, r) ==
  /\ r \in ParseBuffer /\ ~r.outside /\ r.depth = b.depth /\ r.head = b.head
  /\ IF Allocation(b, end) > MaxString THEN ~r.ok /\ r.offset = b.offset + 1 /\ r.heap = b.heap
     ELSE IF read.at < end.at THEN ~r.ok /\ r.offset = read.at /\ r.heap = b.heap
     ELSE /\ r.offset = end.at + 1 /\ r.ok = b.ok
          /\ r.heap = WithString(b.heap, n, CString(read.out))
          /\ r.heap[n].val = CString(read.out)

LEMMA TakesString ==
  ASSUME NEW b \in ParseBuffer, ~b.outside, NEW n \in Node, NEW end \in Ending,
         NEW read \in Reading, read.at <= end.at,
         Len(read.out) + 1 <= end.at - b.offset - end.skipped + 1
  PROVE  Taken(b, n, end, read, TakeString(b, n, end, read))
<1>0. /\ end.at \in Nat /\ end.skipped \in Nat /\ read.at \in Nat /\ read.out \in Seq(Byte) /\ b.offset \in Nat
      /\ end.at + 1 \in Nat /\ b.outside \in BOOLEAN /\ b.heap \in Heap
  BY DEF Ending, Reading, ParseBuffer
<1>. DEFINE short == Allocation(b, end) > MaxString
<1>. HIDE DEF short
<1>1. CASE short \/ read.at < end.at
  <2>. DEFINE r == TakeString(b, n, end, read)
              k == IF short THEN b.offset + 1 ELSE read.at
  <2>1. r = StoppedAt(b, k)
    <3>1. CASE short
      <4>1. r = [Fail(b) EXCEPT !.offset = Fail(b).offset + 1]
        BY <3>1 DEF TakeString, short
      <4>2. Fail(b).offset = b.offset
        BY DEF Fail, ParseBuffer
      <4>. QED
        BY <3>1, <4>1, <4>2 DEF StoppedAt
    <3>2. CASE ~short
      BY <1>1, <3>2 DEF TakeString, StoppedAt, short
    <3>. QED
      BY <3>1, <3>2
  <2>2. r \in ParseBuffer /\ r.ok = FALSE /\ r.offset = k /\ r.outside = b.outside /\ r.heap = b.heap
        /\ r.depth = b.depth /\ r.head = b.head
    <3>1. k \in Nat
      BY <1>0
    <3>. HIDE DEF r, k
    <3>. QED
      BY <1>0, <2>1, <3>1, StoppedFields
  <2>. HIDE DEF r
  <2>. QED
    BY <1>1, <2>2 DEF r, Taken, short
<1>2. CASE ~short /\ ~(read.at < end.at)
  <2>. DEFINE s == CString(read.out)
              o == b.outside \/ Len(read.out) + 1 > end.at - b.offset - end.skipped + 1
              r == TakeString(b, n, end, read)
  <2>1. r = StringAt(b, end.at + 1, n, s, o)
    BY <1>2 DEF TakeString, StringAt, Allocation, short
  <2>2. s \in Seq(Int)
    <3>1. s \in Seq(Byte)
      BY <1>0, CStringEnds
    <3>. HIDE DEF s
    <3>. QED
      BY <3>1, BytesAreInts
  <2>3. ~o /\ o \in BOOLEAN
    BY <1>0
  <2>. HIDE DEF o, s
  <2>4. /\ r \in ParseBuffer /\ r.ok = b.ok /\ r.offset = end.at + 1 /\ r.outside = o
        /\ r.heap = WithString(b.heap, n, s) /\ r.depth = b.depth /\ r.head = b.head
    <3>. HIDE DEF r
    <3>1. end.at + 1 \in Nat /\ o \in BOOLEAN
      BY <1>0, <2>3
    <3>. QED
      BY <2>1, <2>2, <3>1, StringFields
  <2>5. WithString(b.heap, n, s)[n].val = s
    BY <1>0, <2>2, HeapWithString
  <2>. HIDE DEF r
  <2>. QED
    BY <1>2, <2>3, <2>4, <2>5 DEF s, r, Taken, short
<1>. QED
  BY <1>1, <1>2

\* The quote behind a string makes room for the zero byte.
LEMMA RoomForZero ==
  ASSUME NEW l \in Nat, NEW e \in Nat, NEW k \in Nat, NEW o \in Nat, l <= e - (o + 1) - k
  PROVE  l + 1 <= e - o - k + 1
  OBVIOUS

\* A string takes no more than what was allocated for it, whatever escapes it
\* is written with: what StringEnd counts is enough for what Unescape writes.
THEOREM StringFits ==
  ASSUME NEW t \in Seq(Byte), NEW b \in ParseBuffer, b.ok, ~b.outside, Can(t, b), NEW n \in Node
  PROVE  StringRead(t, b, n, parse_string(t, b, n))
<1>. DEFINE start == b.offset + 1
            end == StringEnd(t, start)
            read == Unescape(t, start, end.at)
            r == parse_string(t, b, n)
<1>1. start \in Nat /\ b.offset \in Nat /\ Len(t) \in Nat /\ start <= Len(t) /\ b.offset < start
  BY DEF ParseBuffer, Can
<1>2. end \in Ending /\ end.at \in start..Len(t) /\ (end.at < Len(t) => t[end.at + 1] = Quote)
      /\ end.at \in Nat /\ end.skipped \in Nat
  <2>. HIDE DEF start
  <2>1. end \in Ending
    BY <1>1, StringEndStep
  <2>2. end.at \in start..Len(t) /\ (end.at < Len(t) => t[end.at + 1] = Quote)
    BY <1>1, StringEndsAtQuote
  <2>. HIDE DEF end
  <2>. QED
    BY <2>1, <2>2 DEF Ending
<1>3. CASE Look(t, b) # Quote \/ end.at = Len(t)
  <2>1. r = [Fail(b) EXCEPT !.offset = start, !.outside = @ \/ ~Can(t, b)]
    BY <1>3 DEF parse_string
  <2>2. r = StoppedAt(b, start)
    <3>. DEFINE f == Fail(b)
    <3>1. f \in ParseBuffer /\ f.outside = FALSE
      BY DEF Fail, ParseBuffer
    <3>2. (f.outside \/ ~Can(t, b)) = f.outside
      BY <3>1
    <3>3. r = [f EXCEPT !.offset = start, !.outside = f.outside]
      BY <2>1, <3>2
    <3>. HIDE DEF r, start, f
    <3>4. [f EXCEPT !.offset = start, !.outside = f.outside] = [f EXCEPT !.offset = start]
      BY <3>1 DEF ParseBuffer
    <3>. QED
      BY <3>3, <3>4 DEF StoppedAt, f
  <2>3. /\ r \in ParseBuffer /\ r.ok = FALSE /\ r.offset = start /\ r.outside = b.outside /\ r.heap = b.heap
        /\ r.depth = b.depth /\ r.head = b.head
    <3>. HIDE DEF start, r
    <3>. QED
      BY <1>1, <2>2, StoppedFields
  <2>. HIDE DEF r, start
  <2>4. StringRead(t, b, n, r)
    BY <1>1, <2>2, <2>3 DEF StringRead
  <2>. QED
    BY <2>4 DEF r
<1>4. CASE ~(Look(t, b) # Quote \/ end.at = Len(t))
  <2>1. r = TakeString(b, n, end, read)
    BY <1>4 DEF parse_string
  <2>2. end.at < Len(t) /\ start <= end.at
    BY <1>2, <1>4
  <2>3. read \in Reading
    <3>. HIDE DEF start, end
    <3>. QED
      BY <1>1, <1>2, <2>2, UnescapeStep
  <2>4. read.at \in start..end.at
    <3>. HIDE DEF start, end
    <3>. QED
      BY <1>1, <1>2, <2>2, ReadsOn
  <2>. DEFINE L == Left(t, start, end.at)
  <2>5. L = end.at - start - end.skipped
    BY DEF Left
  <2>6. Slot(t, start, end.at, L)
    <3>1. L <= L /\ L \in Int
      <4>. HIDE DEF L, start, end
      <4>. QED
        BY <1>1, <1>2, <2>5
    <3>2. InStep(t, start, end.at, L)
      BY <3>1 DEF InStep
    <3>. QED
      BY <3>2 DEF Slot
  <2>. HIDE DEF L
  <2>7. Len(read.out) <= L
    <3>1. L \in Int
      <4>. HIDE DEF start, end
      <4>. QED
        BY <1>1, <1>2, <2>5
    <3>. HIDE DEF start, end
    <3>. QED
      BY <1>1, <1>2, <2>2, <2>6, <3>1, FitsSlot
  <2>8. Len(read.out) \in Nat /\ read.out \in Seq(Byte) /\ read.at <= end.at
    <3>. HIDE DEF read, start, end
    <3>. QED
      BY <2>3, <2>4 DEF Reading
  <2>9. Len(read.out) + 1 <= end.at - b.offset - end.skipped + 1
    <3>. DEFINE l == Len(read.out)
                e == end.at
                k == end.skipped
    <3>1. l \in Nat /\ e \in Nat /\ k \in Nat /\ l <= e - (b.offset + 1) - k
      <4>1. l \in Nat
        BY <2>8
      <4>2. e \in Nat /\ k \in Nat
        BY <1>2
      <4>3. L = e - (b.offset + 1) - k
        BY <2>5
      <4>. QED
        BY <2>7, <4>1, <4>2, <4>3
    <3>. HIDE DEF l, e, k
    <3>2. l + 1 <= e - b.offset - k + 1
      BY <1>1, <3>1, RoomForZero
    <3>. QED
      BY <3>2 DEF l, e, k
  <2>. HIDE DEF read, end
  <2>. DEFINE s == CString(read.out)
  <2>10. s \in Seq(Byte) /\ NonZero(s)
    BY <2>8, CStringEnds
  <2>. DEFINE short == Allocation(b, end) > MaxString
  <2>. HIDE DEF short
  <2>11. /\ r \in ParseBuffer /\ ~r.outside /\ r.depth = b.depth /\ r.head = b.head
         /\ IF short THEN ~r.ok /\ r.offset = start /\ r.heap = b.heap
            ELSE IF read.at < end.at THEN ~r.ok /\ r.offset = read.at /\ r.heap = b.heap
            ELSE /\ r.offset = end.at + 1 /\ r.ok = b.ok
                 /\ r.heap = WithString(b.heap, n, s) /\ r.heap[n].val = s
    <3>1. Taken(b, n, end, read, TakeString(b, n, end, read))
      BY <1>2, <2>3, <2>8, <2>9, TakesString
    <3>2. Taken(b, n, end, read, r)
      BY <2>1, <3>1
    <3>. HIDE DEF r
    <3>. QED
      BY <3>2 DEF Taken, short
  <2>. HIDE DEF r, s, start
  <2>12. StringRead(t, b, n, r)
    <3>0. CASE short
      BY <1>1, <2>11, <3>0 DEF StringRead
    <3>1. CASE ~short /\ read.at < end.at
      BY <1>1, <1>2, <2>2, <2>4, <2>11, <3>1 DEF StringRead
    <3>2. CASE ~short /\ ~(read.at < end.at)
      <4>1. r.offset = end.at + 1 /\ r.ok
        BY <2>11, <3>2
      <4>2. t[r.offset] = Quote /\ b.offset < r.offset /\ r.offset <= Len(t)
        BY <1>1, <1>2, <2>2, <4>1
      <4>. QED
        BY <2>10, <2>11, <3>2, <4>1, <4>2 DEF StringRead
    <3>. QED
      BY <3>0, <3>1, <3>2
  <2>. QED
    BY <2>12 DEF r
<1>. QED
  BY <1>3, <1>4

-----------------------------------------------------------------------------
(* Numbers *)

LEMMA MaxOf ==
  ASSUME NEW n \in Nat, NEW s \in SUBSET (1..n), s # {}
  PROVE  Max(s) \in s /\ \A j \in s : j <= Max(s)
<1>. DEFINE T == {n - j : j \in s}
<1>0. \A j \in s : j \in 1..n /\ n - j \in Nat
  OBVIOUS
<1>1. T \subseteq Nat /\ T # {}
  BY <1>0
<1>2. PICK x \in T : \A y \in T : x <= y
  <2>. HIDE DEF T
  <2>. QED
    BY <1>1, NatMin
<1>3. PICK i \in s : x = n - i
  BY <1>2
<1>4. ASSUME NEW j \in s PROVE j <= i
  <2>1. n - j \in T
    OBVIOUS
  <2>2. n - i <= n - j
    BY <1>2, <1>3, <2>1
  <2>. QED
    BY <1>0, <2>2
<1>. QED
  BY <1>3, <1>4 DEF Max

LEMMA MaxIs ==
  ASSUME NEW n \in Nat, NEW s \in SUBSET (1..n), NEW m \in s, \A j \in s : j <= m
  PROVE  Max(s) = m
<1>1. s # {}
  OBVIOUS
<1>2. Max(s) \in s /\ m <= Max(s)
  BY <1>1, MaxOf
<1>3. Max(s) <= m
  BY <1>2
<1>4. \A x \in s : x \in Int
  OBVIOUS
<1>5. Max(s) \in Int /\ m \in Int
  BY <1>2, <1>4, Zenon
<1>. QED
  BY <1>2, <1>3, <1>5

\* How the fold goes through the places of w: the last one of them, the rest.
FoldAt(w, s, f) == IF s = {} THEN 0 ELSE 10 * f[s \ {Max(s)}] + w[Max(s)] - 48

LEMMA FoldExists ==
  ASSUME NEW w \in Seq(Int)
  PROVE  \E f \in [SUBSET (1..Len(w)) -> Int] : \A s \in SUBSET (1..Len(w)) : f[s] = FoldAt(w, s, f)
<1>. DEFINE n == Len(w)
            Good(m) == \E f \in [SUBSET (1..n) -> Int] : \A s \in SUBSET (1..m) : f[s] = FoldAt(w, s, f)
<1>0. n \in Nat
  OBVIOUS
<1>1. Good(0)
  <2>. DEFINE f == [s \in SUBSET (1..n) |-> 0]
  <2>1. f \in [SUBSET (1..n) -> Int]
    OBVIOUS
  <2>2. ASSUME NEW s \in SUBSET (1..0) PROVE f[s] = FoldAt(w, s, f)
    <3>1. s = {}
      BY <2>2
    <3>. QED
      BY <3>1 DEF FoldAt
  <2>. QED
    BY <2>1, <2>2
<1>2. ASSUME NEW k \in Nat, k + 1 <= n, Good(k) PROVE Good(k + 1)
  <2>. DEFINE m == k + 1
  <2>0. m \in 1..n /\ m \in Nat /\ w[m] \in Int /\ 1..k \subseteq 1..m /\ 1..m \subseteq 1..n /\ m \notin 1..k
    BY <1>0, <1>2
  <2>1. PICK f \in [SUBSET (1..n) -> Int] : \A s \in SUBSET (1..k) : f[s] = FoldAt(w, s, f)
    BY <1>2
  <2>. DEFINE g == [s \in SUBSET (1..n) |-> IF m \in s THEN 10 * f[s \ {m}] + w[m] - 48 ELSE f[s]]
  <2>2. g \in [SUBSET (1..n) -> Int]
    <3>1. ASSUME NEW s \in SUBSET (1..n) PROVE f[s] \in Int /\ f[s \ {m}] \in Int
      <4>1. s \ {m} \in SUBSET (1..n)
        OBVIOUS
      <4>. QED
        BY <4>1
    <3>. HIDE DEF m, n
    <3>. QED
      BY <2>0, <3>1
  <2>3. ASSUME NEW s \in SUBSET (1..n)
        PROVE  g[s] = IF m \in s THEN 10 * f[s \ {m}] + w[m] - 48 ELSE f[s]
    OBVIOUS
  <2>. HIDE DEF g
  <2>4. ASSUME NEW s \in SUBSET (1..m) PROVE g[s] = FoldAt(w, s, g)
    <3>0. s \in SUBSET (1..n)
      BY <2>0
    <3>1. CASE m \in s
      <4>1. Max(s) = m
        <5>1. \A j \in s : j <= m
          BY <2>0
        <5>. HIDE DEF m
        <5>. QED
          BY <2>0, <3>1, <5>1, MaxIs
      <4>2. s \ {m} \in SUBSET (1..n) /\ m \notin s \ {m}
        BY <3>0
      <4>3. g[s \ {m}] = f[s \ {m}]
        BY <2>3, <4>2
      <4>. HIDE DEF m, n
      <4>. QED
        BY <2>3, <3>0, <3>1, <4>1, <4>3 DEF FoldAt
    <3>2. CASE m \notin s
      <4>1. s \in SUBSET (1..k)
        BY <3>2
      <4>2. g[s] = FoldAt(w, s, f)
        BY <2>1, <2>3, <3>0, <3>2, <4>1
      <4>3. s \ {Max(s)} \in SUBSET (1..n) /\ m \notin s \ {Max(s)}
        BY <3>0, <3>2
      <4>4. g[s \ {Max(s)}] = f[s \ {Max(s)}]
        BY <2>3, <4>3
      <4>. HIDE DEF m, n
      <4>. QED
        BY <4>2, <4>4 DEF FoldAt
    <3>. QED
      BY <3>1, <3>2
  <2>. QED
    BY <2>2, <2>4
<1>. HIDE DEF n, Good
<1>. DEFINE bad == {k \in Nat : k <= n /\ ~Good(k)}
<1>3. ASSUME bad # {} PROVE FALSE
  <2>1. PICK k \in bad : \A j \in bad : k <= j
    <3>1. bad \subseteq Nat
      OBVIOUS
    <3>. HIDE DEF bad
    <3>. QED
      BY <1>3, <3>1, NatMin
  <2>2. k \in Nat /\ k <= n /\ ~Good(k) /\ k # 0
    BY <1>1, <2>1
  <2>3. k - 1 \in Nat /\ (k - 1) + 1 = k /\ k - 1 <= n /\ ~(k <= k - 1)
    BY <1>0, <2>2
  <2>4. Good(k - 1)
    BY <2>1, <2>3
  <2>5. Good((k - 1) + 1)
    BY <1>2, <2>2, <2>3, <2>4
  <2>. QED
    BY <2>2, <2>3, <2>5
<1>4. Good(n)
  BY <1>0, <1>3
<1>. QED
  BY <1>4 DEF Good, n

\* One digit more makes an integer of an integer.
LEMMA OneDigitMore ==
  ASSUME NEW a \in Int, NEW d \in Int
  PROVE  10 * a + d - 48 \in Int
  OBVIOUS

\* The number grows by one digit after the other.
LEMMA NumberSteps ==
  ASSUME NEW w \in Seq(Int)
  PROVE  \E v \in [0..Len(w) -> Int] :
           /\ v[0] = 0 /\ NumberOf(w) = v[Len(w)]
           /\ \A i \in 1..Len(w) : v[i] = 10 * v[i - 1] + w[i] - 48
<1>. DEFINE n == Len(w)
            Eq(f) == [s \in SUBSET (1..n) |-> FoldAt(w, s, f)]
            iter == CHOOSE f : f = Eq(f)
<1>0. n \in Nat /\ DOMAIN w = 1..n
  OBVIOUS
<1>1. PICK f \in [SUBSET (1..n) -> Int] : \A s \in SUBSET (1..n) : f[s] = FoldAt(w, s, f)
  BY FoldExists
<1>2. f = Eq(f)
  BY <1>1
<1>3. iter = Eq(iter)
  <2>. HIDE DEF Eq
  <2>. QED
    BY <1>2
<1>4. NumberOf(w) = iter[1..n]
  BY <1>0 DEF NumberOf, FoldLeft, MapThenFoldSet, FoldAt
<1>. HIDE DEF iter
<1>5. \A s \in SUBSET (1..n) : iter[s] = FoldAt(w, s, iter)
  BY <1>3
<1>. DEFINE v == [i \in 0..n |-> iter[1..i]]
<1>6. v[0] = 0
  <2>1. 1..0 = {} /\ {} \in SUBSET (1..n)
    OBVIOUS
  <2>2. iter[{}] = 0
    BY <1>5, <2>1 DEF FoldAt
  <2>. QED
    BY <1>0, <2>1, <2>2
<1>7. ASSUME NEW i \in 1..n PROVE v[i] = 10 * v[i - 1] + w[i] - 48
  <2>1. /\ 1..i \in SUBSET (1..n) /\ i \in 1..i /\ i - 1 \in 0..n /\ i \in 0..n /\ (1..i) \ {i} = 1..(i - 1)
        /\ \A j \in 1..i : j <= i
    BY <1>0
  <2>2. Max(1..i) = i
    <3>. DEFINE s == 1..i
    <3>1. s \in SUBSET (1..n) /\ i \in s /\ \A j \in s : j <= i
      BY <2>1
    <3>. HIDE DEF s
    <3>2. Max(s) = i
      BY <1>0, <3>1, MaxIs
    <3>. QED
      BY <3>2 DEF s
  <2>3. iter[1..i] = 10 * iter[(1..i) \ {i}] + w[i] - 48
    <3>1. 1..i # {}
      BY <2>1
    <3>2. iter[1..i] = FoldAt(w, 1..i, iter)
      BY <1>5, <2>1
    <3>. QED
      BY <2>2, <3>1, <3>2 DEF FoldAt
  <2>. QED
    BY <2>1, <2>3
<1>8. ASSUME NEW i \in 0..n PROVE v[i] \in Int
  <2>. DEFINE bad == {j \in Nat : j <= n /\ v[j] \notin Int}
  <2>1. ASSUME bad # {} PROVE FALSE
    <3>1. PICK k \in bad : \A j \in bad : k <= j
      <4>1. bad \subseteq Nat
        OBVIOUS
      <4>. HIDE DEF bad
      <4>. QED
        BY <2>1, <4>1, NatMin
    <3>. HIDE DEF v
    <3>2. k \in Nat /\ k <= n /\ v[k] \notin Int
      BY <3>1
    <3>3. k # 0
      BY <1>6, <3>2
    <3>4. k \in 1..n /\ k - 1 \in Nat /\ k - 1 <= n /\ ~(k <= k - 1)
      BY <1>0, <3>2, <3>3
    <3>5. v[k - 1] \in Int
      BY <3>1, <3>4
    <3>6. w[k] \in Int
      BY <3>4
    <3>7. v[k] = 10 * v[k - 1] + w[k] - 48
      BY <1>7, <3>4
    <3>8. 10 * v[k - 1] + w[k] - 48 \in Int
      BY <3>5, <3>6, OneDigitMore
    <3>. QED
      BY <3>2, <3>7, <3>8
  <2>. HIDE DEF v
  <2>2. i \in Nat /\ i <= n
    BY <1>0, <1>8
  <2>3. ASSUME v[i] \notin Int PROVE FALSE
    <3>1. i \in bad
      BY <2>2, <2>3
    <3>. QED
      BY <2>1, <3>1
  <2>. QED
    BY <2>3
<1>9. v \in [0..n -> Int] /\ NumberOf(w) = v[n]
  BY <1>0, <1>4, <1>8
<1>. HIDE DEF v
<1>. QED
  BY <1>6, <1>7, <1>9

-----------------------------------------------------------------------------
(* Reading stays in the text *)

Terminated(t) == Len(t) > 0 /\ t[Len(t)] = 0

Inside(t, b) == b \in ParseBuffer /\ ~b.outside /\ b.offset < Len(t)

MovedTo(b, k) == [b EXCEPT !.offset = k]

LEMMA MovedFields ==
  ASSUME NEW b \in ParseBuffer, NEW k \in Nat
  PROVE  LET r == MovedTo(b, k)
         IN /\ r \in ParseBuffer /\ r.offset = k /\ r.outside = b.outside /\ r.heap = b.heap
            /\ r.depth = b.depth /\ r.head = b.head /\ r.ok = b.ok
BY DEF MovedTo, ParseBuffer

LEMMA MovesInside ==
  ASSUME NEW t, Len(t) \in Nat, NEW b, Inside(t, b), NEW k \in Nat, k < Len(t)
  PROVE  Inside(t, MovedTo(b, k))
BY MovedFields DEF Inside

LEMMA FailsInside ==
  ASSUME NEW t, NEW b, Inside(t, b)
  PROVE  Inside(t, Fail(b)) /\ ~Fail(b).ok /\ Fail(b).offset = b.offset /\ Fail(b).heap = b.heap
BY DEF Inside, Fail, ParseBuffer

\* The character at hand.
LEMMA LooksAt ==
  ASSUME NEW t \in Seq(Byte), NEW b, Inside(t, b)
  PROVE  /\ b.offset \in Nat /\ b.offset < Len(t) /\ Len(t) \in Nat
         /\ Can(t, b) /\ Look(t, b) = t[b.offset + 1]
         /\ Terminated(t) /\ Look(t, b) # 0 => b.offset + 1 < Len(t)
<1>1. b.offset \in Nat /\ b.offset < Len(t) /\ Len(t) \in Nat
  BY DEF Inside, ParseBuffer
<1>2. Can(t, b) /\ Look(t, b) = t[b.offset + 1]
  BY <1>1 DEF Can, Look
<1>3. ASSUME Terminated(t), Look(t, b) # 0 PROVE b.offset + 1 < Len(t)
  <2>1. b.offset + 1 = Len(t) => Look(t, b) = 0
    BY <1>2, <1>3 DEF Terminated
  <2>. QED
    BY <1>1, <1>3, <2>1
<1>. QED
  BY <1>1, <1>2, <1>3

\* White space goes on to a character that is none, or to the last one.
LEMMA WhitespaceInside ==
  ASSUME NEW t \in Seq(Byte), NEW b, Inside(t, b)
  PROVE  LET r == buffer_skip_whitespace(t, b)
         IN Inside(t, r) /\ r.heap = b.heap /\ r.ok = b.ok /\ b.offset <= r.offset
<1>. DEFINE rest == {i \in b.offset..(Len(t) - 1) : t[i + 1] > 32}
            k == IF rest = {} THEN Len(t) - 1 ELSE CHOOSE i \in rest : \A j \in rest : i <= j
            r == buffer_skip_whitespace(t, b)
<1>1. b.offset \in Nat /\ b.offset < Len(t) /\ Len(t) \in Nat /\ Can(t, b) /\ b \in ParseBuffer
  BY LooksAt DEF Inside
<1>2. r = MovedTo(b, k)
  <2>1. CASE rest = {}
    BY <1>1, <2>1 DEF buffer_skip_whitespace, MovedTo
  <2>2. CASE rest # {}
    <3>1. r = [b EXCEPT !.offset = CHOOSE i \in rest : \A j \in rest : i <= j]
      BY <1>1, <2>2 DEF buffer_skip_whitespace
    <3>2. k = CHOOSE i \in rest : \A j \in rest : i <= j
      BY <2>2
    <3>. HIDE DEF r, rest, k
    <3>. QED
      BY <3>1, <3>2 DEF MovedTo
  <2>. QED
    BY <2>1, <2>2
<1>3. k \in Nat /\ b.offset <= k /\ k < Len(t)
  <2>1. CASE rest = {}
    BY <1>1, <2>1
  <2>2. CASE rest # {}
    <3>1. rest \subseteq Nat /\ \A i \in rest : b.offset <= i /\ i < Len(t)
      BY <1>1
    <3>2. k = CHOOSE i \in rest : \A j \in rest : i <= j
      BY <2>2
    <3>3. k \in rest
      <4>. HIDE DEF rest, k
      <4>. QED
        BY <2>2, <3>1, <3>2, FirstOf
    <3>. HIDE DEF rest, k
    <3>. QED
      BY <3>1, <3>3
  <2>. QED
    BY <2>1, <2>2
<1>. HIDE DEF r, k, rest
<1>4. Inside(t, r)
  BY <1>1, <1>2, <1>3, MovesInside
<1>5. r.offset = k /\ r.heap = b.heap /\ r.ok = b.ok
  BY <1>1, <1>2, <1>3, MovedFields
<1>. QED
  BY <1>3, <1>4, <1>5 DEF r

LEMMA WordPlaces ==
  ASSUME NEW o \in Nat, NEW l \in Nat, NEW N \in Nat, 0 < l, o + l <= N
  PROVE  LET i == o + 1
             j == o + l
         IN i \in Nat /\ j \in Nat /\ i <= j /\ j <= N /\ 1 <= i /\ l \in 1..(j - i + 1) /\ i + l - 1 = j
  OBVIOUS

\* The characters of a word are not the zero at the end.
LEMMA WordInside ==
  ASSUME NEW t \in Seq(Byte), Terminated(t), NEW b, Inside(t, b),
         NEW s \in Seq(Int), s # << >>, s[Len(s)] # 0, StartsWith(t, b, s)
  PROVE  Inside(t, Skip(b, Len(s)))
<1>1. b.offset \in Nat /\ Len(t) \in Nat /\ b \in ParseBuffer /\ b.offset < Len(t)
  BY LooksAt DEF Inside
<1>2. Len(s) \in Nat /\ Len(s) > 0
  OBVIOUS
<1>3. b.offset + Len(s) <= Len(t) /\ SubSeq(t, b.offset + 1, b.offset + Len(s)) = s
  BY DEF StartsWith
<1>4. t[b.offset + Len(s)] = s[Len(s)]
  <2>1. SubSeq(t, b.offset + 1, b.offset + Len(s))[Len(s)] = t[b.offset + Len(s)]
    <3>. DEFINE i == b.offset + 1
                j == b.offset + Len(s)
                l == Len(s)
    <3>1. i \in Nat /\ j \in Nat /\ i <= j /\ j <= Len(t) /\ 1 <= i /\ l \in 1..(j - i + 1) /\ i + l - 1 = j
      BY <1>1, <1>2, <1>3, WordPlaces
    <3>. HIDE DEF i, j, l
    <3>2. ASSUME NEW x \in i..j PROVE t[x] \in Byte
      <4>. DEFINE N == Len(t)
      <4>1. x \in 1..N
        <5>1. N \in Nat /\ j <= N /\ i \in Nat /\ j \in Nat /\ 1 <= i
          BY <1>1, <3>1
        <5>. HIDE DEF N
        <5>. QED
          BY <5>1
      <4>. QED
        BY <4>1, ElementOfSeq
    <3>3. SubSeq(t, i, j)[l] = t[i + l - 1]
      BY <3>1, <3>2, SubSeqProperties
    <3>. QED
      BY <3>1, <3>3 DEF i, j, l
  <2>. QED
    BY <1>3, <2>1
<1>5. b.offset + Len(s) < Len(t) /\ b.offset + Len(s) \in Nat
  <2>1. b.offset + Len(s) # Len(t)
    BY <1>4 DEF Terminated
  <2>. QED
    BY <1>1, <1>2, <1>3, <2>1
<1>6. Skip(b, Len(s)) = MovedTo(b, b.offset + Len(s))
  BY DEF Skip, MovedTo
<1>. QED
  BY <1>1, <1>5, <1>6, MovesInside

LEMMA BomInside ==
  ASSUME NEW t \in Seq(Byte), Terminated(t), NEW b, Inside(t, b)
  PROVE  Inside(t, skip_utf8_bom(t, b))
<1>. DEFINE s == <<239, 187, 191>>
<1>1. s \in Seq(Int) /\ s # << >> /\ s[Len(s)] # 0 /\ Len(s) = 3
  OBVIOUS
<1>2. skip_utf8_bom(t, b) = IF Len(t) > 4 /\ StartsWith(t, b, s) THEN Skip(b, 3) ELSE b
  BY DEF skip_utf8_bom
<1>. HIDE DEF s
<1>3. StartsWith(t, b, s) => Inside(t, Skip(b, Len(s)))
  BY <1>1, WordInside
<1>. QED
  BY <1>1, <1>2, <1>3

Literals == {"null", "true", "false"}

LEMMA LiteralInside ==
  ASSUME NEW t \in Seq(Byte), Terminated(t), NEW b, Inside(t, b),
         NEW word \in Literals, StartsWith(t, b, Str(word))
  PROVE  Inside(t, Skip(b, Len(Str(word))))
<1>. DEFINE s == Str(word)
<1>1. s \in Seq(Int) /\ s # << >> /\ s[Len(s)] # 0
  <2>1. CASE word = "null"
    <3>1. s = <<110, 117, 108, 108>>
      BY <2>1 DEF Str
    <3>. QED
      BY <3>1
  <2>2. CASE word = "true"
    <3>1. s = <<116, 114, 117, 101>>
      BY <2>2 DEF Str
    <3>. QED
      BY <3>1
  <2>3. CASE word = "false"
    <3>1. s = <<102, 97, 108, 115, 101>>
      BY <2>3 DEF Str
    <3>. QED
      BY <3>1
  <2>. QED
    BY <2>1, <2>2, <2>3 DEF Literals
<1>. HIDE DEF s
<1>2. StartsWith(t, b, s)
  BY DEF s
<1>3. Inside(t, Skip(b, Len(s)))
  BY <1>1, <1>2, WordInside
<1>. QED
  BY <1>3 DEF s

LEMMA ColonInside ==
  ASSUME NEW t \in Seq(Byte), Terminated(t), NEW b, Inside(t, b)
  PROVE  Inside(t, SkipColon(t, b)) /\ SkipColon(t, b).heap = b.heap
<1>1. CASE ~b.ok
  BY <1>1 DEF SkipColon
<1>2. CASE b.ok /\ Look(t, b) # 58
  BY <1>2, FailsInside DEF SkipColon
<1>3. CASE b.ok /\ Look(t, b) = 58
  <2>. DEFINE q == Skip(b, 1)
  <2>1. SkipColon(t, b) = buffer_skip_whitespace(t, q)
    BY <1>3 DEF SkipColon
  <2>2. b.offset + 1 < Len(t) /\ b.offset + 1 \in Nat /\ Len(t) \in Nat /\ b \in ParseBuffer
    <3>1. b.offset \in Nat /\ Len(t) \in Nat
      BY LooksAt
    <3>2. b.offset + 1 < Len(t)
      BY <1>3, LooksAt
    <3>. QED
      BY <3>1, <3>2 DEF Inside
  <2>3. q = MovedTo(b, b.offset + 1)
    BY DEF Skip, MovedTo
  <2>. HIDE DEF q
  <2>4. Inside(t, q) /\ q.heap = b.heap
    BY <2>2, <2>3, MovesInside, MovedFields
  <2>. QED
    BY <2>1, <2>4, WhitespaceInside
<1>. QED
  BY <1>1, <1>2, <1>3

\* A number was read.
NumberAt(b, m, n, x) == [Skip(b, m) EXCEPT !.heap[n].kind = "number", !.heap[n].val = <<x>>]

WithNumber(h, n, x) == [h EXCEPT ![n] = [@ EXCEPT !.kind = "number", !.val = <<x>>]]

LEMMA CellWithNumber ==
  ASSUME NEW c \in Cell, NEW s \in Seq(Int)
  PROVE  [c EXCEPT !.kind = "number", !.val = s] \in Cell
BY DEF Cell, Kinds

LEMMA NumberFields ==
  ASSUME NEW b \in ParseBuffer, NEW m \in Nat, NEW n \in Node, NEW x \in Int
  PROVE  LET r == NumberAt(b, m, n, x)
         IN /\ r \in ParseBuffer /\ r.ok = b.ok /\ r.offset = b.offset + m /\ r.outside = b.outside
            /\ r.heap = WithNumber(b.heap, n, x) /\ r.depth = b.depth /\ r.head = b.head
<1>. DEFINE g == WithNumber(b.heap, n, x)
            r == NumberAt(b, m, n, x)
            y == [b.heap[n] EXCEPT !.kind = "number", !.val = <<x>>]
<1>1. b.heap \in Heap /\ b.heap[n] \in Cell /\ b.offset + m \in Nat /\ <<x>> \in Seq(Int)
  BY DEF ParseBuffer, Heap
<1>2. y \in Cell
  BY <1>1, CellWithNumber
<1>3. g = [b.heap EXCEPT ![n] = y]
  BY DEF WithNumber
<1>4. r = [b EXCEPT !.offset = b.offset + m, !.heap = g]
  <2>1. g = [[b.heap EXCEPT ![n].kind = "number"] EXCEPT ![n].val = <<x>>]
    BY <1>1 DEF WithNumber, Heap, Cell
  <2>. QED
    BY <2>1 DEF ParseBuffer, NumberAt, Skip
<1>. HIDE DEF y
<1>5. g \in Heap
  BY <1>1, <1>2, <1>3 DEF Heap
<1>. HIDE DEF g, r
<1>6. /\ r \in ParseBuffer /\ r.ok = b.ok /\ r.offset = b.offset + m /\ r.outside = b.outside
      /\ r.heap = g /\ r.depth = b.depth /\ r.head = b.head
  BY <1>1, <1>4, <1>5 DEF ParseBuffer
<1>. QED
  BY <1>6 DEF g, r

\* The digits at i, up to where they stop.
LEMMA DigitsEnd ==
  ASSUME NEW t \in Seq(Byte), NEW i \in Nat, i <= Len(t)
  PROVE  \E k \in Nat :
           /\ i <= k /\ k <= Len(t) /\ (k < Len(t) => t[k + 1] \notin 48..57)
           /\ \A j \in (i + 1)..k : t[j] \in 48..57
           /\ Digits(t, i) = SubSeq(t, i + 1, k) /\ Digits(t, i) \in Seq(Int) /\ Len(Digits(t, i)) = k - i
<1>. DEFINE stops == {k \in i..Len(t) : k = Len(t) \/ t[k + 1] \notin 48..57}
            k == CHOOSE k \in stops : \A j \in stops : k <= j
<1>0. Len(t) \in Nat
  OBVIOUS
<1>1. stops \subseteq Nat /\ stops # {}
  <2>1. Len(t) \in stops
    BY <1>0
  <2>. QED
    BY <2>1
<1>2. k \in stops /\ \A j \in stops : k <= j
  <2>. HIDE DEF stops
  <2>. QED
    BY <1>1, FirstOf
<1>3. Digits(t, i) = SubSeq(t, i + 1, k)
  BY DEF Digits
<1>. HIDE DEF k
<1>4. k \in Nat /\ i <= k /\ k <= Len(t) /\ (k < Len(t) => t[k + 1] \notin 48..57)
  BY <1>2
<1>5. ASSUME NEW j \in (i + 1)..k PROVE t[j] \in 48..57
  <2>1. j - 1 \in i..Len(t) /\ ~(k <= j - 1) /\ (j - 1) + 1 = j
    BY <1>0, <1>4
  <2>2. j - 1 \notin stops
    <3>. HIDE DEF stops
    <3>. QED
      BY <1>2, <2>1
  <2>. QED
    BY <2>1, <2>2
<1>6. SubSeq(t, i + 1, k) \in Seq(Int) /\ Len(SubSeq(t, i + 1, k)) = k - i
  <2>1. i + 1 \in Int /\ k \in Int /\ (IF i + 1 <= k THEN k - (i + 1) + 1 ELSE 0) = k - i
    BY <1>4
  <2>2. ASSUME NEW j \in (i + 1)..k PROVE t[j] \in Int
    <3>1. t[j] \in 48..57
      BY <1>5
    <3>. QED
      BY <3>1
  <2>3. /\ SubSeq(t, i + 1, k) \in Seq(Int)
        /\ Len(SubSeq(t, i + 1, k)) = IF i + 1 <= k THEN k - (i + 1) + 1 ELSE 0
    BY <2>1, <2>2, SubSeqProperties
  <2>. QED
    BY <2>1, <2>3
<1>. QED
  BY <1>3, <1>4, <1>5, <1>6

LEMMA NumberIsNumber ==
  ASSUME NEW w \in Seq(Int)
  PROVE  NumberOf(w) \in Int
<1>1. PICK v \in [0..Len(w) -> Int] : NumberOf(w) = v[Len(w)]
  BY NumberSteps
<1>2. Len(w) \in 0..Len(w)
  OBVIOUS
<1>. QED
  BY <1>1, <1>2

LEMMA NumberPlaces ==
  ASSUME NEW o \in Nat, NEW minus \in Nat, NEW i, i = o + minus, NEW k \in Nat, i <= k, NEW l, l = k - i
  PROVE  minus + l \in Nat /\ o + (minus + l) = k
  OBVIOUS

\* A number ends in front of a character that is no digit.
NumberRead(t, b, n, r) ==
  /\ Inside(t, r) /\ r.depth = b.depth /\ r.head = b.head
  /\ IF r.ok THEN b.offset < r.offset /\ t[r.offset + 1] \notin 48..57 /\ \E x \in Int : r.heap = WithNumber(b.heap, n, x)
     ELSE r.offset = b.offset /\ r.heap = b.heap

LEMMA NumberInside ==
  ASSUME NEW t \in Seq(Byte), Terminated(t), NEW b, Inside(t, b), b.ok, NEW n \in Node
  PROVE  NumberRead(t, b, n, parse_number(t, b, n))
<1>. DEFINE minus == IF Look(t, b) = 45 THEN 1 ELSE 0
            i == b.offset + minus
            digits == Digits(t, i)
            number == NumberOf(digits)
            x == IF minus = 1 THEN -number ELSE number
            m == minus + Len(digits)
            r == parse_number(t, b, n)
<1>1. b \in ParseBuffer /\ b.offset \in Nat /\ Len(t) \in Nat /\ ~b.outside /\ b.offset < Len(t)
  BY LooksAt DEF Inside
<1>2. minus \in Nat /\ i \in Nat /\ i < Len(t) /\ b.offset <= i
  <2>1. CASE Look(t, b) = 45
    <3>1. b.offset + 1 < Len(t)
      BY <2>1, LooksAt
    <3>2. minus = 1
      BY <2>1
    <3>. QED
      BY <1>1, <3>1, <3>2
  <2>2. CASE Look(t, b) # 45
    BY <1>1, <2>2
  <2>. QED
    BY <2>1, <2>2
<1>3. r = IF digits = << >> THEN Fail(b) ELSE NumberAt(b, m, n, x)
  BY DEF parse_number, NumberAt
<1>. HIDE DEF minus, r
<1>4. PICK k \in Nat : /\ i <= k /\ k <= Len(t) /\ (k < Len(t) => t[k + 1] \notin 48..57)
                       /\ \A j \in (i + 1)..k : t[j] \in 48..57
                       /\ digits \in Seq(Int) /\ Len(digits) = k - i
  <2>. HIDE DEF i
  <2>1. i <= Len(t)
    BY <1>1, <1>2
  <2>. QED
    BY <1>2, <2>1, DigitsEnd
<1>. HIDE DEF digits
<1>5. k < Len(t)
  <2>1. ASSUME k = Len(t) PROVE FALSE
    <3>1. Len(t) \in (i + 1)..k
      <4>. HIDE DEF i
      <4>. QED
        BY <1>1, <1>2, <2>1
    <3>2. t[Len(t)] \in 48..57
      BY <1>4, <3>1
    <3>. QED
      BY <3>2 DEF Terminated
  <2>. QED
    BY <1>1, <1>4, <2>1
<1>6. x \in Int
  <2>1. number \in Int
    BY <1>4, NumberIsNumber
  <2>. HIDE DEF number
  <2>. QED
    BY <2>1
<1>7. m \in Nat /\ b.offset + m = k
  <2>. DEFINE l == Len(digits)
  <2>1. l = k - i /\ i = b.offset + minus
    BY <1>4
  <2>. HIDE DEF l, i
  <2>2. i <= k /\ b.offset \in Nat /\ minus \in Nat
    BY <1>1, <1>2, <1>4
  <2>3. minus + l \in Nat /\ b.offset + (minus + l) = k
    BY <2>1, <2>2, NumberPlaces
  <2>. QED
    BY <2>3 DEF l
<1>. HIDE DEF x, m
<1>8. CASE digits = << >>
  <2>1. r = Fail(b)
    BY <1>3, <1>8
  <2>2. Inside(t, r) /\ ~r.ok /\ r.offset = b.offset /\ r.heap = b.heap /\ r.depth = b.depth /\ r.head = b.head
    BY <2>1, <1>1 DEF Inside, Fail, ParseBuffer
  <2>3. NumberRead(t, b, n, r)
    BY <2>2 DEF NumberRead
  <2>. QED
    BY <2>3 DEF r
<1>9. CASE digits # << >>
  <2>1. r = NumberAt(b, m, n, x)
    BY <1>3, <1>9
  <2>2. /\ r \in ParseBuffer /\ r.ok = b.ok /\ r.offset = k /\ r.outside = b.outside
        /\ r.heap = WithNumber(b.heap, n, x) /\ r.depth = b.depth /\ r.head = b.head
    <3>. DEFINE q == NumberAt(b, m, n, x)
    <3>1. /\ q \in ParseBuffer /\ q.ok = b.ok /\ q.offset = b.offset + m /\ q.outside = b.outside
          /\ q.heap = WithNumber(b.heap, n, x) /\ q.depth = b.depth /\ q.head = b.head
      <4>1. b \in ParseBuffer /\ m \in Nat
        BY <1>1, <1>7 DEF Inside
      <4>. QED
        BY <1>6, <4>1, NumberFields
    <3>2. r = q
      BY <2>1
    <3>. HIDE DEF q
    <3>. QED
      BY <1>7, <3>1, <3>2
  <2>3. b.offset < k
    <3>1. Len(digits) # 0
      BY <1>4, <1>9
    <3>2. k - i # 0
      BY <1>4, <3>1
    <3>. HIDE DEF i
    <3>. QED
      BY <1>1, <1>2, <1>4, <3>2
  <2>4. Inside(t, r)
    BY <1>1, <1>5, <2>2 DEF Inside
  <2>5. t[r.offset + 1] \notin 48..57 /\ b.offset < r.offset
    BY <1>4, <1>5, <2>2, <2>3
  <2>6. r.ok
    BY <2>2
  <2>7. NumberRead(t, b, n, r)
    BY <1>6, <2>2, <2>4, <2>5, <2>6 DEF NumberRead
  <2>. QED
    BY <2>7 DEF r
<1>. QED
  BY <1>8, <1>9

\* A name was read: the item has it as its name, and no value yet.
Named(h, n, key) == [h EXCEPT ![n] = [@ EXCEPT !.key = key, !.val = NoString]]

NamedAt(b, n, key) == [b EXCEPT !.heap[n].key = key, !.heap[n].val = NoString]

LEMMA CellNamed ==
  ASSUME NEW c \in Cell, NEW s \in Seq(Int), NEW v \in Seq(Int)
  PROVE  [c EXCEPT !.key = s, !.val = v] \in Cell
BY DEF Cell

LEMMA NamedFields ==
  ASSUME NEW b \in ParseBuffer, NEW n \in Node, NEW key \in Seq(Int)
  PROVE  LET r == NamedAt(b, n, key)
         IN /\ r \in ParseBuffer /\ r.ok = b.ok /\ r.offset = b.offset /\ r.outside = b.outside
            /\ r.heap = Named(b.heap, n, key) /\ r.depth = b.depth /\ r.head = b.head
<1>. DEFINE g == Named(b.heap, n, key)
            r == NamedAt(b, n, key)
            y == [b.heap[n] EXCEPT !.key = key, !.val = NoString]
<1>1. b.heap \in Heap /\ b.heap[n] \in Cell /\ NoString \in Seq(Int)
  BY DEF ParseBuffer, Heap, NoString
<1>2. y \in Cell
  BY <1>1, CellNamed
<1>3. g = [b.heap EXCEPT ![n] = y]
  BY DEF Named
<1>4. r = [b EXCEPT !.heap = g]
  <2>1. g = [[b.heap EXCEPT ![n].key = key] EXCEPT ![n].val = NoString]
    BY <1>1 DEF Named, Heap, Cell
  <2>. QED
    BY <2>1 DEF ParseBuffer, NamedAt
<1>. HIDE DEF y
<1>5. g \in Heap
  BY <1>1, <1>2, <1>3 DEF Heap
<1>. HIDE DEF g, r
<1>6. /\ r \in ParseBuffer /\ r.ok = b.ok /\ r.offset = b.offset /\ r.outside = b.outside
      /\ r.heap = g /\ r.depth = b.depth /\ r.head = b.head
  BY <1>1, <1>4, <1>5 DEF ParseBuffer
<1>. QED
  BY <1>6 DEF g, r

\* The name of a member is read as a string first.
NameRead(t, b, n, r) ==
  /\ r \in ParseBuffer /\ ~r.outside /\ r.offset <= Len(t) /\ (r.ok => r.offset < Len(t))
  /\ r.ok => \E s \in Seq(Byte) : NonZero(s) /\ r.heap = Named(WithString(b.heap, n, s), n, s)

LEMMA NameInside ==
  ASSUME NEW t \in Seq(Byte), Terminated(t), NEW b, Inside(t, b), b.ok, NEW n \in Node
  PROVE  NameRead(t, b, n, parse_name(t, b, n, "object"))
<1>. DEFINE p == parse_string(t, b, n)
            q == TakeName(t, p, n)
            r == SkipColon(t, q)
<1>1. parse_name(t, b, n, "object") = r
  BY DEF parse_name
<1>2. StringRead(t, b, n, p)
  <2>1. b \in ParseBuffer /\ ~b.outside /\ Can(t, b)
    BY LooksAt DEF Inside
  <2>. QED
    BY <2>1, StringFits
<1>. HIDE DEF p
<1>3. p \in ParseBuffer /\ ~p.outside /\ p.offset <= Len(t) /\ p.offset \in Nat /\ Len(t) \in Nat
  BY <1>2 DEF StringRead, ParseBuffer
<1>4. CASE ~p.ok
  <2>1. q = p
    BY <1>4 DEF TakeName
  <2>. HIDE DEF q
  <2>2. r = p
    BY <1>4, <2>1 DEF SkipColon
  <2>3. NameRead(t, b, n, p)
    BY <1>3, <1>4 DEF NameRead
  <2>. QED
    BY <1>1, <2>2, <2>3
<1>5. CASE p.ok
  <2>. DEFINE w == buffer_skip_whitespace(t, p)
              s == p.heap[n].val
  <2>1. /\ t[p.offset] = Quote /\ p.heap = WithString(b.heap, n, s)
        /\ s \in Seq(Byte) /\ NonZero(s)
    BY <1>2, <1>5 DEF StringRead
  <2>2. Inside(t, p)
    <3>1. p.offset # Len(t)
      BY <2>1 DEF Terminated, Quote
    <3>. QED
      BY <1>3, <3>1 DEF Inside
  <2>3. Inside(t, w) /\ w.heap = p.heap /\ w.ok = p.ok
    BY <2>2, WhitespaceInside
  <2>4. q = NamedAt(w, n, s)
    BY <1>5 DEF TakeName, NamedAt
  <2>. HIDE DEF q, w, s
  <2>5. /\ q \in ParseBuffer /\ q.offset = w.offset /\ q.outside = w.outside
        /\ q.heap = Named(w.heap, n, s)
    <3>1. w \in ParseBuffer /\ s \in Seq(Int)
      BY <2>1, <2>3, BytesAreInts DEF Inside
    <3>. QED
      BY <2>4, <3>1, NamedFields
  <2>6. Inside(t, q)
    BY <2>3, <2>5 DEF Inside
  <2>7. Inside(t, r) /\ r.heap = q.heap
    BY <2>6, ColonInside
  <2>. HIDE DEF r
  <2>8. r.heap = Named(WithString(b.heap, n, s), n, s)
    BY <2>1, <2>3, <2>5, <2>7
  <2>9. NameRead(t, b, n, r)
    <3>1. r \in ParseBuffer /\ ~r.outside /\ r.offset < Len(t) /\ r.offset \in Nat
      BY <2>7 DEF Inside, ParseBuffer
    <3>2. r.offset <= Len(t)
      BY <1>3, <3>1
    <3>. QED
      BY <2>1, <2>8, <3>1, <3>2 DEF NameRead
  <2>. QED
    BY <1>1, <2>9
<1>. QED
  BY <1>4, <1>5

\* Whatever the text, if a zero ends it: what is read of it at one place, white
\* space, a word, a number, a string, a name, leaves the reader in front of a
\* character of the text, unless reading fails, and nothing outside is touched.
THEOREM PiecesStayInside ==
  ASSUME NEW t \in Seq(Byte), Terminated(t), NEW b, Inside(t, b), b.ok, NEW n \in Node
  PROVE  /\ Inside(t, skip_utf8_bom(t, b)) /\ Inside(t, buffer_skip_whitespace(t, b))
         /\ \A word \in Literals : StartsWith(t, b, Str(word)) => Inside(t, Skip(b, Len(Str(word))))
         /\ NumberRead(t, b, n, parse_number(t, b, n))
         /\ LET r == parse_string(t, b, n) IN StringRead(t, b, n, r) /\ (r.ok => Inside(t, r))
         /\ NameRead(t, b, n, parse_name(t, b, n, "object"))
<1>1. Inside(t, skip_utf8_bom(t, b)) /\ Inside(t, buffer_skip_whitespace(t, b))
  BY BomInside, WhitespaceInside
<1>2. NumberRead(t, b, n, parse_number(t, b, n)) /\ NameRead(t, b, n, parse_name(t, b, n, "object"))
  BY NumberInside, NameInside
<1>3. ASSUME NEW word \in Literals, StartsWith(t, b, Str(word)) PROVE Inside(t, Skip(b, Len(Str(word))))
  BY <1>3, LiteralInside
<1>4. LET r == parse_string(t, b, n) IN StringRead(t, b, n, r) /\ (r.ok => Inside(t, r))
  <2>. DEFINE r == parse_string(t, b, n)
  <2>1. StringRead(t, b, n, r)
    <3>1. b \in ParseBuffer /\ ~b.outside /\ Can(t, b)
      BY LooksAt DEF Inside
    <3>. QED
      BY <3>1, StringFits
  <2>. HIDE DEF r
  <2>2. ASSUME r.ok PROVE Inside(t, r)
    <3>1. r \in ParseBuffer /\ ~r.outside /\ r.offset <= Len(t) /\ t[r.offset] = Quote /\ r.offset \in Nat /\ Len(t) \in Nat
      BY <2>1, <2>2 DEF StringRead, ParseBuffer
    <3>2. r.offset # Len(t)
      BY <3>1 DEF Terminated, Quote
    <3>. QED
      BY <3>1, <3>2 DEF Inside
  <2>. QED
    BY <2>1, <2>2 DEF r
<1>. QED
  BY <1>1, <1>2, <1>3, <1>4

-----------------------------------------------------------------------------
(* What is written is what is read *)

\* Sequences are put end to end one after the other, from nothing on.
LEMMA FlattenSteps ==
  ASSUME NEW S, NEW s \in Seq(Seq(S))
  PROVE  \E flat \in [0..Len(s) -> Seq(S)] :
           /\ flat[0] = << >> /\ FlattenSeq(s) = flat[Len(s)]
           /\ \A i \in 1..Len(s) : flat[i] = flat[i - 1] \o s[i]
<1>. DEFINE n == Len(s)
<1>1. n \in Nat /\ << >> \in Seq(S) /\ \A i \in 1..n : s[i] \in Seq(S)
  OBVIOUS
<1>2. CASE s = << >>
  <2>. DEFINE flat == [i \in 0..n |-> << >>]
  <2>1. n = 0 /\ FlattenSeq(s) = << >>
    BY <1>2 DEF FlattenSeq
  <2>2. flat \in [0..n -> Seq(S)] /\ flat[0] = << >> /\ flat[n] = << >>
    BY <1>1
  <2>. HIDE DEF flat
  <2>3. \A i \in 1..n : flat[i] = flat[i - 1] \o s[i]
    BY <2>1
  <2>. QED
    BY <2>1, <2>2, <2>3
<1>3. CASE s # << >>
  <2>1. PICK f \in [1..n -> Seq(S)] :
          /\ FlattenSeq(s) = f[n]
          /\ \A i \in 1..n : f[i] = IF i = 1 THEN s[i] ELSE f[i - 1] \o s[i]
    BY <1>3, FlattenExists
  <2>2. n # 0
    BY <1>3
  <2>. HIDE DEF n
  <2>. DEFINE flat == [i \in 0..n |-> IF i = 0 THEN << >> ELSE f[i]]
  <2>3. ASSUME NEW i \in 0..n PROVE flat[i] \in Seq(S)
    BY <1>1
  <2>4. flat \in [0..n -> Seq(S)] /\ flat[0] = << >> /\ flat[n] = f[n] /\ \A i \in 1..n : flat[i] = f[i]
    BY <1>1, <2>2, <2>3
  <2>. HIDE DEF flat
  <2>5. ASSUME NEW i \in 1..n PROVE flat[i] = flat[i - 1] \o s[i]
    <3>1. s[i] \in Seq(S)
      BY <1>1
    <3>2. CASE i = 1
      <4>1. << >> \o s[i] = s[i]
        BY <3>1, ConcatEmptySeq
      <4>2. f[i] = s[i] /\ flat[i] = f[i]
        BY <2>1, <2>4, <3>2
      <4>3. i - 1 = 0
        BY <3>2
      <4>4. flat[i - 1] = << >>
        BY <2>4, <4>3
      <4>. QED
        BY <4>1, <4>2, <4>4
    <3>3. CASE i # 1
      <4>1. i - 1 \in 1..n
        BY <1>1, <3>3
      <4>. QED
        BY <2>1, <2>4, <3>3, <4>1
    <3>. QED
      BY <3>2, <3>3
  <2>. QED
    BY <2>1, <2>4, <2>5 DEF n
<1>. QED
  BY <1>2, <1>3

\* w is what t has behind the first k characters.
Holds(t, k, w) == k + Len(w) <= Len(t) /\ \A j \in 1..Len(w) : t[k + j] = w[j]

\* What two sequences put end to end hold.
LEMMA HoldsBoth ==
  ASSUME NEW S, NEW t \in Seq(S), NEW k \in Nat, NEW v \in Seq(S), NEW w \in Seq(S), Holds(t, k, v \o w)
  PROVE  Holds(t, k, v) /\ Holds(t, k + Len(v), w)
<1>. DEFINE m == Len(v)
            n == Len(w)
            x == v \o w
<1>1. m \in Nat /\ n \in Nat /\ Len(x) = m + n
      /\ \A i \in 1..(m + n) : x[i] = IF i <= m THEN v[i] ELSE w[i - m]
  BY ConcatProperties
<1>2. k + Len(x) <= Len(t) /\ \A j \in 1..Len(x) : t[k + j] = x[j]
  BY DEF Holds
<1>. HIDE DEF x, m, n
<1>3. Len(t) \in Nat
  OBVIOUS
<1>4. k + m <= Len(t) /\ (k + m) + n <= Len(t)
  BY <1>1, <1>2, <1>3
<1>5. ASSUME NEW j \in 1..m PROVE t[k + j] = v[j]
  <2>1. j \in 1..(m + n) /\ j <= m
    BY <1>1
  <2>. QED
    BY <1>1, <1>2, <2>1
<1>6. ASSUME NEW j \in 1..n PROVE t[(k + m) + j] = w[j]
  <2>1. m + j \in 1..(m + n) /\ ~(m + j <= m) /\ (m + j) - m = j /\ k + (m + j) = (k + m) + j
    BY <1>1
  <2>2. x[m + j] = w[j] /\ t[k + (m + j)] = x[m + j]
    BY <1>1, <1>2, <2>1
  <2>. QED
    BY <2>1, <2>2
<1>. QED
  BY <1>4, <1>5, <1>6 DEF Holds, m, n

\* w stands for the bytes v wherever it is in a string: it is one character or
\* one escape, and the end of the string is not looked for inside it.
ReadsAs(w, v) ==
  /\ w \in Seq(Byte) /\ w # << >> /\ v \in Seq(Byte)
  /\ \A t \in Seq(Byte), k, end \in Nat :
       Holds(t, k, w) /\ k + Len(w) <= end /\ end < Len(t) =>
         /\ Understood(t, k, end).bytes = v /\ Understood(t, k, end).length = Len(w)
         /\ StringEnd(t, k).at = StringEnd(t, k + Len(w)).at

\* One part more is understood.
LEMMA PartRead ==
  ASSUME NEW t \in Seq(Byte), NEW k \in Nat, NEW end \in Nat, end < Len(t),
         NEW w, NEW v, ReadsAs(w, v), Holds(t, k, w), k + Len(w) <= end
  PROVE  /\ Unescape(t, k, end).at = Unescape(t, k + Len(w), end).at
         /\ Unescape(t, k, end).out = v \o Unescape(t, k + Len(w), end).out
         /\ StringEnd(t, k).at = StringEnd(t, k + Len(w)).at
         /\ Unescape(t, k + Len(w), end).out \in Seq(Byte) /\ v \in Seq(Byte)
<1>. DEFINE u == Understood(t, k, end)
            l == Len(w)
<1>1. u.bytes = v /\ u.length = l /\ StringEnd(t, k).at = StringEnd(t, k + l).at /\ v \in Seq(Byte)
  BY DEF ReadsAs
<1>2. l \in Nat /\ l # 0
  BY DEF ReadsAs
<1>3. k < end
  <2>. HIDE DEF l
  <2>1. k + l <= end
    BY DEF l
  <2>. QED
    BY <1>2, <2>1
<1>4. /\ Unescape(t, k + u.length, end) \in Reading
      /\ Unescape(t, k, end).at = Unescape(t, k + u.length, end).at
      /\ Unescape(t, k, end).out = u.bytes \o Unescape(t, k + u.length, end).out
  BY <1>1, <1>2, <1>3, UnescapeStep
<1>. HIDE DEF u, l
<1>5. Unescape(t, k + l, end).out \in Seq(Byte)
  BY <1>1, <1>4 DEF Reading
<1>. QED
  BY <1>1, <1>4, <1>5 DEF l

LEMMA ConcatShift ==
  ASSUME NEW a \in Seq(Byte), NEW b \in Seq(Byte), NEW c \in Seq(Byte)
  PROVE  (a \o b) \o c = a \o (b \o c)
BY ConcatAssociative

\* The string that begins at k has been read up to where a ends, which stands
\* for e; the whole of it stands for `whole` and ends at `end`.
ReadUpTo(t, k, end, a, e, whole) ==
  LET at == k + Len(a)
  IN /\ Holds(t, k, a) /\ at <= end
     /\ StringEnd(t, at).at = end /\ Unescape(t, at, end).at = end
     /\ Unescape(t, at, end).out \in Seq(Byte) /\ e \o Unescape(t, at, end).out = whole

\* Nothing stands at the end.
LEMMA UnescapeAtEnd ==
  ASSUME NEW t \in Seq(Byte), NEW end \in Nat, end < Len(t)
  PROVE  Unescape(t, end, end) = [at |-> end, out |-> << >>]
<1>1. end >= end
  OBVIOUS
<1>. QED
  BY <1>1, UnescapeStep

\* Nothing is left to read at the end.
LEMMA AllRead ==
  ASSUME NEW t \in Seq(Byte), NEW k \in Nat, NEW a \in Seq(Byte), NEW e \in Seq(Byte),
         Holds(t, k, a), k + Len(a) < Len(t), t[k + Len(a) + 1] = Quote
  PROVE  ReadUpTo(t, k, k + Len(a), a, e, e)
<1>. DEFINE end == k + Len(a)
<1>1. end \in Nat /\ Len(t) \in Nat /\ end < Len(t) /\ t[end + 1] = Quote
  OBVIOUS
<1>. HIDE DEF end
<1>2. end >= end
  BY <1>1
<1>3. Unescape(t, end, end) = [at |-> end, out |-> << >>]
  BY <1>1, UnescapeAtEnd
<1>4. StringEnd(t, end) = [at |-> end, skipped |-> 0]
  BY <1>1, StringEndStep
<1>5. Unescape(t, end, end).at = end /\ Unescape(t, end, end).out = << >> /\ StringEnd(t, end).at = end
  BY <1>3, <1>4
<1>6. << >> \in Seq(Byte) /\ e \o << >> = e
  BY ConcatEmptySeq
<1>. QED
  BY <1>2, <1>5, <1>6 DEF ReadUpTo, end

\* What was read behind one part more was read in front of it.
LEMMA OneBack ==
  ASSUME NEW t \in Seq(Byte), NEW k \in Nat, NEW end \in Nat, end < Len(t),
         NEW a \in Seq(Byte), NEW e \in Seq(Byte), NEW w, NEW x, ReadsAs(w, x), NEW whole,
         ReadUpTo(t, k, end, a \o w, e \o x, whole)
  PROVE  ReadUpTo(t, k, end, a, e, whole)
<1>. DEFINE m == k + Len(a)
            j == m + Len(w)
            rest == Unescape(t, j, end).out
<1>1. w \in Seq(Byte) /\ x \in Seq(Byte)
  BY DEF ReadsAs
<1>2. Len(a \o w) = Len(a) + Len(w) /\ Len(a) \in Nat /\ Len(w) \in Nat
  BY <1>1, ConcatProperties
<1>3. k + Len(a \o w) = j /\ m \in Nat /\ j \in Nat /\ m <= j
  BY <1>2
<1>4. /\ Holds(t, k, a \o w) /\ j <= end /\ StringEnd(t, j).at = end /\ Unescape(t, j, end).at = end
      /\ rest \in Seq(Byte) /\ (e \o x) \o rest = whole
  <2>. HIDE DEF j
  <2>. QED
    BY <1>3 DEF ReadUpTo
<1>5. Holds(t, k, a) /\ Holds(t, m, w)
  BY <1>1, <1>4, HoldsBoth
<1>6. m <= end
  BY <1>3, <1>4
<1>7. /\ Unescape(t, m, end).at = Unescape(t, j, end).at
      /\ Unescape(t, m, end).out = x \o rest
      /\ StringEnd(t, m).at = StringEnd(t, j).at
  BY <1>3, <1>4, <1>5, PartRead
<1>. HIDE DEF m, j, rest
<1>8. e \o (x \o rest) = whole
  <2>1. x \in Seq(Byte) /\ rest \in Seq(Byte)
    BY <1>1, <1>4
  <2>2. (e \o x) \o rest = e \o (x \o rest)
    BY <2>1, ConcatShift, Zenon
  <2>. QED
    BY <1>4, <2>2
<1>9. x \o rest \in Seq(Byte)
  BY <1>1, <1>4, ConcatProperties
<1>10. /\ StringEnd(t, m).at = end /\ Unescape(t, m, end).at = end
       /\ Unescape(t, m, end).out \in Seq(Byte) /\ e \o Unescape(t, m, end).out = whole
  <2>1. Unescape(t, m, end).out = x \o rest
    BY <1>7
  <2>2. Unescape(t, m, end).at = end /\ StringEnd(t, m).at = end
    BY <1>4, <1>7
  <2>. QED
    BY <1>8, <1>9, <2>1, <2>2
<1>. QED
  BY <1>5, <1>6, <1>10 DEF ReadUpTo, m

\* What holds of n, and of i - 1 when it holds of i, holds of 0.
LEMMA Downstairs ==
  ASSUME NEW n \in Nat, NEW I \in SUBSET (0..n), n \in I,
         \A i \in 1..n : i \in I => i - 1 \in I
  PROVE  0 \in I
<1>1. PICK i \in I : \A j \in I : i <= j
  <2>1. I \subseteq Nat /\ I # {}
    OBVIOUS
  <2>. QED
    BY <2>1, NatMin
<1>2. i \in 0..n
  OBVIOUS
<1>3. CASE i # 0
  <2>1. i \in 1..n /\ ~(i <= i - 1)
    BY <1>2, <1>3
  <2>. QED
    BY <1>1, <2>1
<1>. QED
  BY <1>3

\* The string that begins at k ends at `end` and is read as `whole`.
ReadWhole(t, k, end, whole) ==
  StringEnd(t, k).at = end /\ Unescape(t, k, end).at = end /\ Unescape(t, k, end).out = whole

\* A string whose parts stand for some bytes each stands for these bytes put
\* end to end, and ends at the quote behind the last part.
LEMMA PartsRead ==
  ASSUME NEW t \in Seq(Byte), NEW k \in Nat, NEW parts \in Seq(Seq(Byte)), NEW vals \in Seq(Seq(Byte)),
         Len(vals) = Len(parts), \A i \in 1..Len(parts) : ReadsAs(parts[i], vals[i]),
         Holds(t, k, FlattenSeq(parts)),
         k + Len(FlattenSeq(parts)) < Len(t), t[k + Len(FlattenSeq(parts)) + 1] = Quote
  PROVE  ReadWhole(t, k, k + Len(FlattenSeq(parts)), FlattenSeq(vals))
<1>. DEFINE n == Len(parts)
            all == FlattenSeq(parts)
            whole == FlattenSeq(vals)
            end == k + Len(all)
<1>1. PICK p \in [0..n -> Seq(Byte)] :
        /\ p[0] = << >> /\ all = p[n] /\ \A i \in 1..n : p[i] = p[i - 1] \o parts[i]
  BY FlattenSteps
<1>2. PICK v \in [0..n -> Seq(Byte)] :
        /\ v[0] = << >> /\ whole = v[n] /\ \A i \in 1..n : v[i] = v[i - 1] \o vals[i]
  <2>1. PICK f \in [0..Len(vals) -> Seq(Byte)] :
          /\ f[0] = << >> /\ FlattenSeq(vals) = f[Len(vals)]
          /\ \A i \in 1..Len(vals) : f[i] = f[i - 1] \o vals[i]
    BY FlattenSteps
  <2>2. Len(vals) = n
    OBVIOUS
  <2>. HIDE DEF n
  <2>. QED
    BY <2>1, <2>2
<1>3. n \in Nat /\ \A i \in 1..n : ReadsAs(parts[i], vals[i])
  OBVIOUS
<1>4. Holds(t, k, all) /\ end < Len(t) /\ t[end + 1] = Quote
  OBVIOUS
<1>. HIDE DEF n, all, whole
<1>5. all \in Seq(Byte) /\ whole \in Seq(Byte)
  BY <1>1, <1>2, <1>3
<1>6. end \in Nat
  BY <1>5
<1>7. ReadUpTo(t, k, end, all, whole, whole)
  BY <1>4, <1>5, AllRead
<1>. HIDE DEF end
<1>. DEFINE I == {i \in 0..n : ReadUpTo(t, k, end, p[i], v[i], whole)}
<1>8. n \in I
  BY <1>1, <1>2, <1>3, <1>7
<1>9. ASSUME NEW i \in 1..n, i \in I PROVE i - 1 \in I
  <2>1. i - 1 \in 0..n /\ i \in 0..n
    BY <1>3
  <2>2. p[i - 1] \in Seq(Byte) /\ v[i - 1] \in Seq(Byte)
    BY <1>1, <1>2, <2>1
  <2>3. p[i] = p[i - 1] \o parts[i] /\ v[i] = v[i - 1] \o vals[i] /\ ReadsAs(parts[i], vals[i])
    BY <1>1, <1>2, <1>3
  <2>4. ReadUpTo(t, k, end, p[i], v[i], whole)
    BY <1>9
  <2>5. ReadUpTo(t, k, end, p[i - 1] \o parts[i], v[i - 1] \o vals[i], whole)
    BY <2>3, <2>4
  <2>6. ReadUpTo(t, k, end, p[i - 1], v[i - 1], whole)
    BY <1>4, <1>6, <2>2, <2>3, <2>5, OneBack
  <2>. QED
    BY <2>1, <2>6
<1>10. 0 \in I
  <2>1. I \in SUBSET (0..n)
    OBVIOUS
  <2>. HIDE DEF I
  <2>. QED
    BY <1>3, <1>8, <1>9, <2>1, Downstairs
<1>11. ReadUpTo(t, k, end, << >>, << >>, whole)
  BY <1>1, <1>2, <1>10
<1>12. k + Len(<< >>) = k
  OBVIOUS
<1>13. /\ StringEnd(t, k).at = end /\ Unescape(t, k, end).at = end
       /\ Unescape(t, k, end).out \in Seq(Byte) /\ << >> \o Unescape(t, k, end).out = whole
  BY <1>11, <1>12 DEF ReadUpTo
<1>14. Unescape(t, k, end).out = whole
  BY <1>13, ConcatEmptySeq
<1>. QED
  BY <1>13, <1>14 DEF end, all, whole, ReadWhole

Plain(c) == c \in Byte /\ c \notin {Quote, Backslash}

\* The search for the end goes over one character, or over two after a backslash.
LEMMA SearchPasses ==
  ASSUME NEW t \in Seq(Byte), NEW k \in Nat, k < Len(t)
  PROVE  /\ Plain(t[k + 1]) => StringEnd(t, k).at = StringEnd(t, k + 1).at
         /\ t[k + 1] = Backslash => StringEnd(t, k).at = StringEnd(t, k + 2).at
<1>1. Len(t) \in Nat
  OBVIOUS
<1>2. /\ t[k + 1] = Backslash => StringEnd(t, k).at = StringEnd(t, k + 2).at
      /\ t[k + 1] \notin {Quote, Backslash} => StringEnd(t, k) = StringEnd(t, k + 1)
  BY <1>1, StringEndStep, Zenon
<1>. QED
  BY <1>2 DEF Plain

\* A character that is neither a quote nor a backslash stands for itself.
LEMMA PlainReads ==
  ASSUME NEW c, Plain(c)
  PROVE  ReadsAs(<<c>>, <<c>>)
<1>1. <<c>> \in Seq(Byte) /\ <<c>> # << >> /\ Len(<<c>>) = 1
  BY DEF Plain
<1>2. ASSUME NEW t \in Seq(Byte), NEW k \in Nat, NEW end \in Nat,
             Holds(t, k, <<c>>), k + Len(<<c>>) <= end, end < Len(t)
      PROVE  /\ Understood(t, k, end).bytes = <<c>> /\ Understood(t, k, end).length = Len(<<c>>)
             /\ StringEnd(t, k).at = StringEnd(t, k + Len(<<c>>)).at
  <2>1. t[k + 1] = c /\ k < Len(t)
    BY <1>2 DEF Holds
  <2>2. StringEnd(t, k).at = StringEnd(t, k + 1).at
    BY <2>1, SearchPasses
  <2>3. Understood(t, k, end) = [bytes |-> <<c>>, length |-> 1]
    BY <2>1 DEF Understood, Plain
  <2>. QED
    BY <1>1, <2>2, <2>3
<1>. QED
  BY <1>1, <1>2 DEF ReadsAs

\* A backslash and a letter stand for one character.
LEMMA LetterReads ==
  ASSUME NEW c \in Byte, EscapeOf(c) # 0
  PROVE  ReadsAs(<<Backslash, c>>, <<EscapeOf(c)>>)
<1>. DEFINE w == <<Backslash, c>>
            v == <<EscapeOf(c)>>
<1>1. w \in Seq(Byte) /\ w # << >> /\ Len(w) = 2 /\ w[1] = Backslash /\ w[2] = c
  BY DEF Backslash, Byte
<1>2. v \in Seq(Byte) /\ c # 117
  BY DEF EscapeOf, Byte, Quote, Backslash
<1>. HIDE DEF w, v
<1>3. ASSUME NEW t \in Seq(Byte), NEW k \in Nat, NEW end \in Nat,
             Holds(t, k, w), k + Len(w) <= end, end < Len(t)
      PROVE  /\ Understood(t, k, end).bytes = v /\ Understood(t, k, end).length = Len(w)
             /\ StringEnd(t, k).at = StringEnd(t, k + Len(w)).at
  <2>1. t[k + 1] = Backslash /\ t[k + 2] = c /\ k < Len(t)
    BY <1>1, <1>3 DEF Holds
  <2>2. StringEnd(t, k).at = StringEnd(t, k + 2).at
    BY <2>1, SearchPasses
  <2>3. Understood(t, k, end) = [bytes |-> v, length |-> 2]
    BY <1>2, <2>1 DEF Understood, v
  <2>. QED
    BY <1>1, <2>2, <2>3
<1>. QED
  BY <1>1, <1>2, <1>3 DEF ReadsAs, w, v

-----------------------------------------------------------------------------
(* Hexadecimal digits *)

LEMMA DigitRead ==
  ASSUME NEW d \in 0..15
  PROVE  Plain(HexDigit(d)) /\ HexValue(HexDigit(d)) = d
BY DEF Plain, HexDigit, HexValue, Byte, Quote, Backslash

LEMMA DigitsOf ==
  ASSUME NEW n \in Plane
  PROVE  /\ n \div 4096 \in 0..15 /\ (n \div 256) % 16 \in 0..15 /\ (n \div 16) % 16 \in 0..15 /\ n % 16 \in 0..15
         /\ (((n \div 4096) * 16 + ((n \div 256) % 16)) * 16 + ((n \div 16) % 16)) * 16 + (n % 16) = n
<1>1. n \in Nat /\ n < 65536
  BY SMT DEF Plane
<1>2. n \div 4096 \in 0..15 /\ (n \div 256) % 16 \in 0..15 /\ (n \div 16) % 16 \in 0..15 /\ n % 16 \in 0..15
  BY <1>1, SMT
<1>3. (((n \div 4096) * 16 + ((n \div 256) % 16)) * 16 + ((n \div 16) % 16)) * 16 + (n % 16) = n
  BY <1>1, SMT
<1>. QED
  BY <1>2, <1>3

\* The digits of a number behind i are read as the number.
LEMMA HexRead ==
  ASSUME NEW t \in Seq(Byte), NEW i \in Nat, NEW n \in Plane, Holds(t, i, Hex4(n))
  PROVE  /\ parse_hex4(t, i) = n
         /\ Hex4(n) \in Seq(Byte) /\ Len(Hex4(n)) = 4
         /\ \A j \in 1..4 : Plain(t[i + j])
<1>. DEFINE a == n \div 4096
            b == (n \div 256) % 16
            c == (n \div 16) % 16
            e == n % 16
            d == [k \in 1..4 |-> HexValue(t[i + k])]
<1>1. /\ a \in 0..15 /\ b \in 0..15 /\ c \in 0..15 /\ e \in 0..15
      /\ ((a * 16 + b) * 16 + c) * 16 + e = n
  BY DigitsOf
<1>2. Hex4(n) = <<HexDigit(a), HexDigit(b), HexDigit(c), HexDigit(e)>>
  BY DEF Hex4
<1>. HIDE DEF a, b, c, e
<1>3. /\ Plain(HexDigit(a)) /\ Plain(HexDigit(b)) /\ Plain(HexDigit(c)) /\ Plain(HexDigit(e))
      /\ HexValue(HexDigit(a)) = a /\ HexValue(HexDigit(b)) = b
      /\ HexValue(HexDigit(c)) = c /\ HexValue(HexDigit(e)) = e
  BY <1>1, DigitRead
<1>4. Hex4(n) \in Seq(Byte) /\ Len(Hex4(n)) = 4
  BY <1>2, <1>3 DEF Plain
<1>5. /\ t[i + 1] = HexDigit(a) /\ t[i + 2] = HexDigit(b)
      /\ t[i + 3] = HexDigit(c) /\ t[i + 4] = HexDigit(e)
  BY <1>2, <1>4 DEF Holds
<1>6. \A j \in 1..4 : Plain(t[i + j])
  <2>1. \A j \in 1..4 : j = 1 \/ j = 2 \/ j = 3 \/ j = 4
    OBVIOUS
  <2>. QED
    BY <1>3, <1>5, <2>1
<1>7. d[1] = a /\ d[2] = b /\ d[3] = c /\ d[4] = e
  BY <1>3, <1>5
<1>8. -1 \notin ToSet(d)
  <2>1. DOMAIN d = 1..4
    OBVIOUS
  <2>2. \A j \in 1..4 : d[j] # -1
    <3>1. \A j \in 1..4 : j = 1 \/ j = 2 \/ j = 3 \/ j = 4
      OBVIOUS
    <3>2. a # -1 /\ b # -1 /\ c # -1 /\ e # -1
      BY <1>1
    <3>. HIDE DEF d
    <3>. QED
      BY <1>7, <3>1, <3>2, Zenon
  <2>. HIDE DEF d
  <2>. QED
    BY <2>1, <2>2 DEF ToSet
<1>9. parse_hex4(t, i) = IF -1 \in ToSet(d) THEN 0 ELSE ((d[1] * 16 + d[2]) * 16 + d[3]) * 16 + d[4]
  BY DEF parse_hex4
<1>. HIDE DEF d
<1>10. parse_hex4(t, i) = n
  BY <1>1, <1>7, <1>8, <1>9
<1>. QED
  BY <1>4, <1>6, <1>10

EscapeU == <<92, 117>>

Surrogate(n) == n \in 55296..57343

LEMMA HexBytes ==
  ASSUME NEW n \in Plane
  PROVE  Hex4(n) \in Seq(Byte) /\ Len(Hex4(n)) = 4
<1>1. /\ n \div 4096 \in 0..15 /\ (n \div 256) % 16 \in 0..15
      /\ (n \div 16) % 16 \in 0..15 /\ n % 16 \in 0..15
  BY DigitsOf
<1>. DEFINE a == n \div 4096
            b == (n \div 256) % 16
            c == (n \div 16) % 16
            e == n % 16
<1>2. Hex4(n) = <<HexDigit(a), HexDigit(b), HexDigit(c), HexDigit(e)>>
  BY DEF Hex4
<1>3. Plain(HexDigit(a)) /\ Plain(HexDigit(b)) /\ Plain(HexDigit(c)) /\ Plain(HexDigit(e))
  BY <1>1, DigitRead
<1>. HIDE DEF a, b, c, e
<1>. QED
  BY <1>2, <1>3 DEF Plain

LEMMA UBytes == EscapeU \in Seq(Byte) /\ Len(EscapeU) = 2 /\ EscapeU[1] = Backslash /\ EscapeU[2] = 117
BY DEF EscapeU, Byte, Backslash

LEMMA SixBytes ==
  ASSUME NEW n \in Plane
  PROVE  EscapeU \o Hex4(n) \in Seq(Byte) /\ Len(EscapeU \o Hex4(n)) = 6 /\ EscapeU \o Hex4(n) # << >>
<1>. DEFINE h == Hex4(n)
<1>1. h \in Seq(Byte) /\ Len(h) = 4 /\ EscapeU \in Seq(Byte) /\ Len(EscapeU) = 2
  BY HexBytes, UBytes
<1>. HIDE DEF h
<1>2. EscapeU \o h \in Seq(Byte) /\ Len(EscapeU \o h) = 6
  <2>1. EscapeU \o h \in Seq(Byte) /\ Len(EscapeU \o h) = Len(EscapeU) + Len(h)
    BY <1>1, ConcatProperties
  <2>. QED
    BY <1>1, <2>1
<1>3. EscapeU \o h # << >>
  BY <1>2
<1>. QED
  BY <1>2, <1>3 DEF h

\* One \u sequence: its six characters and what their digits say.
LEMMA SequenceRead ==
  ASSUME NEW t \in Seq(Byte), NEW k \in Nat, NEW n \in Plane, Holds(t, k, EscapeU \o Hex4(n))
  PROVE  /\ EscapeU \o Hex4(n) \in Seq(Byte) /\ Len(EscapeU \o Hex4(n)) = 6 /\ k + 6 <= Len(t)
         /\ t[k + 1] = Backslash /\ t[k + 2] = 117 /\ parse_hex4(t, k + 2) = n
         /\ StringEnd(t, k).at = StringEnd(t, k + 6).at
<1>. DEFINE h == Hex4(n)
<1>1. h \in Seq(Byte) /\ Len(h) = 4
  BY HexBytes
<1>. HIDE DEF h
<1>2. Holds(t, k, EscapeU) /\ Holds(t, k + 2, h)
  <2>1. Holds(t, k, EscapeU \o h) /\ EscapeU \in Seq(Byte) /\ h \in Seq(Byte)
    BY <1>1, UBytes DEF h
  <2>2. Holds(t, k, EscapeU) /\ Holds(t, k + Len(EscapeU), h)
    BY <2>1, HoldsBoth
  <2>. QED
    BY <2>2, UBytes
<1>3. t[k + 1] = Backslash /\ t[k + 2] = 117
  BY <1>2, UBytes DEF Holds
<1>4. parse_hex4(t, k + 2) = n /\ \A j \in 1..4 : Plain(t[(k + 2) + j])
  BY <1>2, HexRead DEF h
<1>5. EscapeU \o h \in Seq(Byte) /\ Len(EscapeU \o h) = 6
  BY SixBytes DEF h
<1>6. k + 6 <= Len(t) /\ Len(t) \in Nat
  BY <1>5 DEF Holds, h
<1>7. Plain(t[k + 3]) /\ Plain(t[k + 4]) /\ Plain(t[k + 5]) /\ Plain(t[k + 6])
  <2>1. Plain(t[(k + 2) + 1]) /\ Plain(t[(k + 2) + 2]) /\ Plain(t[(k + 2) + 3]) /\ Plain(t[(k + 2) + 4])
    BY <1>4
  <2>2. (k + 2) + 1 = k + 3 /\ (k + 2) + 2 = k + 4 /\ (k + 2) + 3 = k + 5 /\ (k + 2) + 4 = k + 6
    OBVIOUS
  <2>. QED
    BY <2>1, <2>2
<1>8. StringEnd(t, k).at = StringEnd(t, k + 6).at
  <2>1. /\ k < Len(t) /\ k + 2 < Len(t) /\ k + 3 < Len(t) /\ k + 4 < Len(t) /\ k + 5 < Len(t)
        /\ k + 2 \in Nat /\ k + 3 \in Nat /\ k + 4 \in Nat /\ k + 5 \in Nat
        /\ (k + 2) + 1 = k + 3 /\ (k + 3) + 1 = k + 4 /\ (k + 4) + 1 = k + 5 /\ (k + 5) + 1 = k + 6
    BY <1>6
  <2>2. StringEnd(t, k).at = StringEnd(t, k + 2).at
    BY <1>3, <2>1, SearchPasses
  <2>3. StringEnd(t, k + 2).at = StringEnd(t, k + 3).at
    <3>1. Plain(t[(k + 2) + 1])
      BY <1>7, <2>1
    <3>2. StringEnd(t, k + 2).at = StringEnd(t, (k + 2) + 1).at
      BY <2>1, <3>1, SearchPasses
    <3>. QED
      BY <2>1, <3>2
  <2>4. StringEnd(t, k + 3).at = StringEnd(t, k + 4).at
    <3>1. Plain(t[(k + 3) + 1])
      BY <1>7, <2>1
    <3>2. StringEnd(t, k + 3).at = StringEnd(t, (k + 3) + 1).at
      BY <2>1, <3>1, SearchPasses
    <3>. QED
      BY <2>1, <3>2
  <2>5. StringEnd(t, k + 4).at = StringEnd(t, k + 5).at
    <3>1. Plain(t[(k + 4) + 1])
      BY <1>7, <2>1
    <3>2. StringEnd(t, k + 4).at = StringEnd(t, (k + 4) + 1).at
      BY <2>1, <3>1, SearchPasses
    <3>. QED
      BY <2>1, <3>2
  <2>6. StringEnd(t, k + 5).at = StringEnd(t, k + 6).at
    <3>1. Plain(t[(k + 5) + 1])
      BY <1>7, <2>1
    <3>2. StringEnd(t, k + 5).at = StringEnd(t, (k + 5) + 1).at
      BY <2>1, <3>1, SearchPasses
    <3>. QED
      BY <2>1, <3>2
  <2>. QED
    BY <2>2, <2>3, <2>4, <2>5, <2>6
<1>. QED
  BY <1>3, <1>4, <1>5, <1>6, <1>8 DEF h

LEMMA CodeBytes ==
  ASSUME NEW c \in Code
  PROVE  EncodeUtf8(c) \in Seq(Byte)
BY EncodedBytes

\* A \u sequence that is no surrogate stands for its code point.
LEMMA SixReads ==
  ASSUME NEW n \in Plane, ~Surrogate(n)
  PROVE  ReadsAs(EscapeU \o Hex4(n), EncodeUtf8(n))
<1>. DEFINE w == EscapeU \o Hex4(n)
            v == EncodeUtf8(n)
<1>1. n \in Code /\ n \in Int
  BY SMT DEF Plane, Code
<1>2. v \in Seq(Byte)
  BY <1>1, CodeBytes
<1>3. w \in Seq(Byte) /\ Len(w) = 6 /\ w # << >>
  BY SixBytes
<1>4. ASSUME NEW t \in Seq(Byte), NEW k \in Nat, NEW end \in Nat,
             Holds(t, k, w), k + Len(w) <= end, end < Len(t)
      PROVE  /\ Understood(t, k, end).bytes = v /\ Understood(t, k, end).length = Len(w)
             /\ StringEnd(t, k).at = StringEnd(t, k + Len(w)).at
  <2>1. /\ t[k + 1] = Backslash /\ t[k + 2] = 117 /\ parse_hex4(t, k + 2) = n
        /\ StringEnd(t, k).at = StringEnd(t, k + 6).at
    BY <1>4, SequenceRead
  <2>2. ~(end - k < 6)
    <3>. HIDE DEF w
    <3>. QED
      BY <1>3, <1>4
  <2>3. n \notin 56320..57343 /\ n \notin 55296..56319
    BY <1>1, SMT DEF Surrogate
  <2>4. utf16_literal_to_utf8(t, k, end) = [bytes |-> v, length |-> 6]
    <3>. DEFINE first == parse_hex4(t, k + 2)
                second == parse_hex4(t, k + 8)
                paired == /\ end - (k + 6) >= 6 /\ t[k + 7] = Backslash /\ t[k + 8] = 117
                          /\ second \in 56320..57343
                two == [bytes |-> EncodeUtf8(PairValue(first, second)), length |-> 12]
    <3>1. utf16_literal_to_utf8(t, k, end) =
            IF end - k < 6 \/ first \in 56320..57343 THEN [bytes |-> << >>, length |-> 0]
            ELSE IF first \notin 55296..56319 THEN [bytes |-> EncodeUtf8(first), length |-> 6]
            ELSE IF paired THEN two
            ELSE [bytes |-> << >>, length |-> 0]
      BY DEF utf16_literal_to_utf8
    <3>2. first = n
      BY <2>1
    <3>. HIDE DEF first, paired, two
    <3>3. first \notin 56320..57343 /\ first \notin 55296..56319
      BY <2>3, <3>2, SMT
    <3>. DEFINE none == [bytes |-> << >>, length |-> 0]
                six == [bytes |-> EncodeUtf8(first), length |-> 6]
                rest == IF paired THEN two ELSE none
    <3>4. utf16_literal_to_utf8(t, k, end) =
            IF end - k < 6 \/ first \in 56320..57343 THEN none
            ELSE IF first \notin 55296..56319 THEN six ELSE rest
      BY <3>1
    <3>. HIDE DEF none, six, rest
    <3>5. utf16_literal_to_utf8(t, k, end) = six
      BY <2>2, <3>3, <3>4
    <3>. QED
      BY <3>2, <3>5 DEF six
  <2>5. Understood(t, k, end) = utf16_literal_to_utf8(t, k, end)
    BY <2>1 DEF Understood
  <2>. HIDE DEF w, v
  <2>. QED
    BY <1>3, <2>1, <2>4, <2>5
<1>. HIDE DEF w, v
<1>5. ReadsAs(w, v)
  BY <1>2, <1>3, <1>4 DEF ReadsAs
<1>. QED
  BY <1>5 DEF w, v

High(n) == n \in 55296..56319
Low(n) == n \in 56320..57343

LEMMA Surrogates ==
  ASSUME NEW n \in Int
  PROVE  /\ High(n) => n \in Plane /\ ~Low(n)
         /\ Low(n) => n \in Plane
         /\ Surrogate(n) <=> High(n) \/ Low(n)
<1>1. High(n) => n \in Plane /\ ~Low(n)
  BY SMT DEF High, Low, Plane
<1>2. Low(n) => n \in Plane
  BY SMT DEF Low, Plane
<1>3. Surrogate(n) <=> High(n) \/ Low(n)
  BY SMT DEF Surrogate, High, Low
<1>. QED
  BY <1>1, <1>2, <1>3, Zenon

LEMMA PairOf ==
  ASSUME NEW t, NEW k \in Nat, NEW end \in Nat,
         High(parse_hex4(t, k + 2)), Low(parse_hex4(t, k + 8)), ~Low(parse_hex4(t, k + 2)),
         ~(end - k < 6), end - (k + 6) >= 6, t[k + 7] = Backslash, t[k + 8] = 117
  PROVE  utf16_literal_to_utf8(t, k, end)
           = [bytes |-> EncodeUtf8(PairValue(parse_hex4(t, k + 2), parse_hex4(t, k + 8))), length |-> 12]
<1>. DEFINE p == parse_hex4(t, k + 2)
            q == parse_hex4(t, k + 8)
            paired == /\ end - (k + 6) >= 6 /\ t[k + 7] = Backslash /\ t[k + 8] = 117
                      /\ q \in 56320..57343
            two == [bytes |-> EncodeUtf8(PairValue(p, q)), length |-> 12]
            none == [bytes |-> << >>, length |-> 0]
            six == [bytes |-> EncodeUtf8(p), length |-> 6]
<1>1. utf16_literal_to_utf8(t, k, end) =
        IF end - k < 6 \/ p \in 56320..57343 THEN none
        ELSE IF p \notin 55296..56319 THEN six ELSE IF paired THEN two ELSE none
  BY DEF utf16_literal_to_utf8
<1>2. High(p) /\ Low(q) /\ ~Low(p)
  OBVIOUS
<1>. HIDE DEF p, q
<1>3. paired
  BY <1>2, SMT DEF Low
<1>4. ~(p \in 56320..57343) /\ p \in 55296..56319
  BY <1>2, SMT DEF High, Low
<1>. HIDE DEF paired, two, none, six
<1>5. utf16_literal_to_utf8(t, k, end) = two
  BY <1>1, <1>3, <1>4, SMT
<1>. QED
  BY <1>5 DEF two, p, q

\* Two \u sequences that are a pair of surrogates stand for what the pair says.
LEMMA TwelveReads ==
  ASSUME NEW f \in Int, NEW s \in Int, High(f), Low(s)
  PROVE  ReadsAs((EscapeU \o Hex4(f)) \o (EscapeU \o Hex4(s)), EncodeUtf8(PairValue(f, s)))
<1>. DEFINE a == EscapeU \o Hex4(f)
            b == EscapeU \o Hex4(s)
            w == a \o b
            v == EncodeUtf8(PairValue(f, s))
<1>1. f \in Plane /\ s \in Plane /\ ~Low(f)
  BY Surrogates, Zenon
<1>2. PairValue(f, s) \in Code
  <2>1. f \in Nat /\ s \in Nat
    BY <1>1, SMT DEF Plane
  <2>. QED
    BY <2>1, PairRange
<1>3. v \in Seq(Byte)
  BY <1>2, CodeBytes
<1>4. a \in Seq(Byte) /\ b \in Seq(Byte) /\ Len(a) = 6 /\ Len(b) = 6
  BY <1>1, SixBytes
<1>5. w \in Seq(Byte) /\ Len(w) = 12 /\ w # << >>
  <2>. HIDE DEF a, b
  <2>1. w \in Seq(Byte) /\ Len(w) = Len(a) + Len(b)
    BY <1>4, ConcatProperties
  <2>2. Len(w) = 12
    BY <1>4, <2>1
  <2>. HIDE DEF w
  <2>3. w # << >>
    BY <2>2
  <2>. QED
    BY <2>1, <2>2, <2>3
<1>6. ASSUME NEW t \in Seq(Byte), NEW k \in Nat, NEW end \in Nat,
             Holds(t, k, w), k + Len(w) <= end, end < Len(t)
      PROVE  /\ Understood(t, k, end).bytes = v /\ Understood(t, k, end).length = Len(w)
             /\ StringEnd(t, k).at = StringEnd(t, k + Len(w)).at
  <2>1. Holds(t, k, a) /\ Holds(t, k + 6, b)
    <3>. HIDE DEF a, b
    <3>1. Holds(t, k, a) /\ Holds(t, k + Len(a), b)
      BY <1>4, <1>6, HoldsBoth
    <3>. QED
      BY <1>4, <3>1
  <2>2. /\ t[k + 1] = Backslash /\ t[k + 2] = 117 /\ parse_hex4(t, k + 2) = f
        /\ StringEnd(t, k).at = StringEnd(t, k + 6).at
    BY <1>1, <2>1, SequenceRead
  <2>3. k + 6 \in Nat
    OBVIOUS
  <2>4. /\ t[(k + 6) + 1] = Backslash /\ t[(k + 6) + 2] = 117 /\ parse_hex4(t, (k + 6) + 2) = s
        /\ StringEnd(t, k + 6).at = StringEnd(t, (k + 6) + 6).at
    BY <1>1, <2>1, <2>3, SequenceRead
  <2>5. (k + 6) + 1 = k + 7 /\ (k + 6) + 2 = k + 8 /\ (k + 6) + 6 = k + 12
    OBVIOUS
  <2>6. t[k + 7] = Backslash /\ t[k + 8] = 117 /\ parse_hex4(t, k + 8) = s
        /\ StringEnd(t, k + 6).at = StringEnd(t, k + 12).at
    BY <2>4, <2>5
  <2>7. ~(end - k < 6) /\ end - (k + 6) >= 6
    <3>. HIDE DEF w
    <3>. QED
      BY <1>5, <1>6
  <2>8. utf16_literal_to_utf8(t, k, end) = [bytes |-> v, length |-> 12]
    <3>1. High(parse_hex4(t, k + 2)) /\ Low(parse_hex4(t, k + 8)) /\ ~Low(parse_hex4(t, k + 2))
      BY <1>1, <2>2, <2>6, Zenon
    <3>2. utf16_literal_to_utf8(t, k, end)
            = [bytes |-> EncodeUtf8(PairValue(parse_hex4(t, k + 2), parse_hex4(t, k + 8))), length |-> 12]
      <4>1. ~(end - k < 6)
        BY <2>7
      <4>2. end - (k + 6) >= 6
        BY <2>7
      <4>3. t[k + 7] = Backslash /\ t[k + 8] = 117
        BY <2>6
      <4>. QED
        BY <3>1, <4>1, <4>2, <4>3, PairOf
    <3>. QED
      BY <2>2, <2>6, <3>2
  <2>9. Understood(t, k, end) = utf16_literal_to_utf8(t, k, end)
    BY <2>2 DEF Understood
  <2>. HIDE DEF w, v
  <2>. QED
    BY <1>5, <2>2, <2>6, <2>8, <2>9
<1>. HIDE DEF w, v
<1>7. ReadsAs(w, v)
  BY <1>3, <1>5, <1>6 DEF ReadsAs
<1>. QED
  BY <1>7 DEF w, v

LEMMA PairParts ==
  ASSUME NEW c \in Code, c >= 65536
  PROVE  LET f == 55296 + ((c - 65536) \div 1024)
             s == 56320 + ((c - 65536) % 1024)
         IN /\ f \in Int /\ s \in Int /\ High(f) /\ Low(s) /\ PairValue(f, s) = c
<1>. DEFINE x == c - 65536
            q == x \div 1024
            r == x % 1024
<1>1. x \in Nat /\ x < 1048576 /\ c = 65536 + x
  BY SMT DEF Code
<1>2. q \in 0..1023 /\ r \in 0..1023 /\ q * 1024 + r = x
  <2>. HIDE DEF x
  <2>. QED
    BY <1>1, SMT
<1>. HIDE DEF x, q, r
<1>3. High(55296 + q) /\ Low(56320 + r)
  BY <1>2, SMT DEF High, Low
<1>4. (55296 + q) % 1024 = q /\ (56320 + r) % 1024 = r
  BY <1>2, SMT
<1>5. PairValue(55296 + q, 56320 + r) = c
  BY <1>1, <1>2, <1>4, SMT DEF PairValue
<1>6. 55296 + q \in Int /\ 56320 + r \in Int
  BY <1>2, SMT
<1>. QED
  BY <1>3, <1>5, <1>6 DEF x, q, r

\* Whatever code point it is, a character written as an escape, or as a pair of
\* them, is read as its UTF-8.
LEMMA EscapeReads ==
  ASSUME NEW c \in Code, ~Surrogate(c)
  PROVE  ReadsAs(Escape(c), Utf8(c))
<1>0. c \in Int /\ EncodeUtf8(c) = Utf8(c)
  <2>1. c \in Int
    BY SMT DEF Code
  <2>. QED
    BY <2>1, EncodesUtf8
<1>1. CASE c < 65536
  <2>1. c \in Plane
    BY <1>1, SMT DEF Code, Plane
  <2>2. Escape(c) = EscapeU \o Hex4(c)
    BY <1>1, SMT DEF Escape, EscapeU
  <2>3. ReadsAs(EscapeU \o Hex4(c), EncodeUtf8(c))
    BY <2>1, SixReads
  <2>. QED
    BY <1>0, <2>2, <2>3
<1>2. CASE ~(c < 65536)
  <2>. DEFINE f == 55296 + ((c - 65536) \div 1024)
              s == 56320 + ((c - 65536) % 1024)
  <2>1. f \in Int /\ s \in Int /\ High(f) /\ Low(s) /\ PairValue(f, s) = c
    <3>1. c >= 65536
      BY <1>0, <1>2, SMT
    <3>. QED
      BY <3>1, PairParts
  <2>2. Escape(c) = ((EscapeU \o Hex4(f)) \o EscapeU) \o Hex4(s)
    BY <1>2, SMT DEF Escape, EscapeU
  <2>. HIDE DEF f, s
  <2>3. EscapeU \o Hex4(f) \in Seq(Byte) /\ EscapeU \in Seq(Byte) /\ Hex4(s) \in Seq(Byte)
    <3>1. f \in Plane /\ s \in Plane
      BY <2>1, Surrogates, Zenon
    <3>. QED
      BY <3>1, SixBytes, UBytes, HexBytes
  <2>4. ((EscapeU \o Hex4(f)) \o EscapeU) \o Hex4(s) = (EscapeU \o Hex4(f)) \o (EscapeU \o Hex4(s))
    BY <2>3, ConcatShift
  <2>5. ReadsAs((EscapeU \o Hex4(f)) \o (EscapeU \o Hex4(s)), EncodeUtf8(PairValue(f, s)))
    BY <2>1, TwelveReads
  <2>. QED
    BY <1>0, <2>1, <2>2, <2>4, <2>5
<1>. QED
  BY <1>1, <1>2

\* The byte with the zeros in front is a \u sequence.
LEMMA ControlEscaped ==
  ASSUME NEW c \in 1..31, c \notin {8, 9, 10, 12, 13}
  PROVE  ReadsAs(Escaped(c), <<c>>)
<1>1. Escaped(c) = <<92, 117, 48, 48, HexDigit(c \div 16), HexDigit(c % 16)>>
  BY DEF Escaped
<1>2. c \in Plane /\ c \in Code /\ ~Surrogate(c) /\ c < 128
  BY SMT DEF Plane, Code, Surrogate
<1>3. Hex4(c) = <<48, 48, HexDigit(c \div 16), HexDigit(c % 16)>>
  <2>1. c \div 4096 = 0 /\ (c \div 256) % 16 = 0 /\ (c \div 16) % 16 = c \div 16
    BY SMT
  <2>2. HexDigit(0) = 48
    BY DEF HexDigit
  <2>. QED
    BY <2>1, <2>2 DEF Hex4
<1>4. Escaped(c) = EscapeU \o Hex4(c)
  <2>. DEFINE a == HexDigit(c \div 16)
              e == HexDigit(c % 16)
  <2>1. Escaped(c) = <<92, 117, 48, 48, a, e>> /\ Hex4(c) = <<48, 48, a, e>>
    BY <1>1, <1>3
  <2>. HIDE DEF a, e
  <2>. QED
    BY <2>1 DEF EscapeU
<1>5. EncodeUtf8(c) = <<c>>
  <2>1. Utf8(c) = <<c>>
    BY <1>2, SMT DEF Utf8
  <2>. QED
    BY <1>2, <2>1, EncodesUtf8
<1>6. ReadsAs(EscapeU \o Hex4(c), EncodeUtf8(c))
  BY <1>2, SixReads
<1>. QED
  BY <1>4, <1>5, <1>6

LEMMA Letters ==
  /\ Escaped(8) = <<92, 98>> /\ EscapeOf(98) = 8
  /\ Escaped(9) = <<92, 116>> /\ EscapeOf(116) = 9
  /\ Escaped(10) = <<92, 110>> /\ EscapeOf(110) = 10
  /\ Escaped(12) = <<92, 102>> /\ EscapeOf(102) = 12
  /\ Escaped(13) = <<92, 114>> /\ EscapeOf(114) = 13
<1>1. Escaped(8) = <<92, 98>> /\ Escaped(9) = <<92, 116>> /\ Escaped(10) = <<92, 110>>
  BY DEF Escaped
<1>2. Escaped(12) = <<92, 102>> /\ Escaped(13) = <<92, 114>>
  BY DEF Escaped
<1>3. EscapeOf(98) = 8 /\ EscapeOf(116) = 9 /\ EscapeOf(110) = 10 /\ EscapeOf(102) = 12 /\ EscapeOf(114) = 13
  BY DEF EscapeOf, Quote, Backslash
<1>. QED
  BY <1>1, <1>2, <1>3

\* A byte is read as it was printed.
LEMMA EscapedReads ==
  ASSUME NEW c \in Byte
  PROVE  ReadsAs(Escaped(c), <<c>>)
<1>0. c \in 0..255
  BY DEF Byte
<1>1. CASE c \in {34, 92}
  <2>1. Escaped(c) = <<Backslash, c>> /\ EscapeOf(c) = c /\ c # 0
    BY <1>1 DEF Escaped, Backslash, EscapeOf, Quote
  <2>2. ReadsAs(<<Backslash, c>>, <<EscapeOf(c)>>)
    BY <2>1, LetterReads
  <2>. QED
    BY <2>1, <2>2
<1>2. CASE c \in {8, 9, 10, 12, 13}
  <2>1. PICK e \in Byte : Escaped(c) = <<Backslash, e>> /\ EscapeOf(e) = c /\ EscapeOf(e) # 0
    <3>1. CASE c = 8
      <4>1. 98 \in Byte /\ Escaped(c) = <<Backslash, 98>> /\ EscapeOf(98) = 8
        BY <3>1, Letters DEF Byte, Backslash
      <4>. QED
        BY <3>1, <4>1
    <3>2. CASE c = 9
      <4>1. 116 \in Byte /\ Escaped(c) = <<Backslash, 116>> /\ EscapeOf(116) = 9
        BY <3>2, Letters DEF Byte, Backslash
      <4>. QED
        BY <3>2, <4>1
    <3>3. CASE c = 10
      <4>1. 110 \in Byte /\ Escaped(c) = <<Backslash, 110>> /\ EscapeOf(110) = 10
        BY <3>3, Letters DEF Byte, Backslash
      <4>. QED
        BY <3>3, <4>1
    <3>4. CASE c = 12
      <4>1. 102 \in Byte /\ Escaped(c) = <<Backslash, 102>> /\ EscapeOf(102) = 12
        BY <3>4, Letters DEF Byte, Backslash
      <4>. QED
        BY <3>4, <4>1
    <3>5. CASE c = 13
      <4>1. 114 \in Byte /\ Escaped(c) = <<Backslash, 114>> /\ EscapeOf(114) = 13
        BY <3>5, Letters DEF Byte, Backslash
      <4>. QED
        BY <3>5, <4>1
    <3>. QED
      BY <1>2, <3>1, <3>2, <3>3, <3>4, <3>5
  <2>2. ReadsAs(<<Backslash, e>>, <<EscapeOf(e)>>)
    BY <2>1, LetterReads
  <2>. QED
    BY <2>1, <2>2
<1>3. CASE c \in 1..31 /\ c \notin {8, 9, 10, 12, 13}
  BY <1>3, ControlEscaped
<1>4. CASE c \notin {34, 92} /\ c \notin 1..31
  <2>1. Escaped(c) = <<c>> /\ Plain(c)
    BY <1>0, <1>4 DEF Escaped, Plain, Byte, Quote, Backslash
  <2>. QED
    BY <2>1, PlainReads
<1>. QED
  BY <1>1, <1>2, <1>3, <1>4

\* What is printed for a character is characters, none of them the zero.
Char == 1..255

LEMMA EscapedChars ==
  ASSUME NEW c \in Char
  PROVE  Escaped(c) \in Seq(Char)
<1>0. c \in 1..255
  BY DEF Char
<1>1. CASE c \in {34, 92}
  <2>1. Escaped(c) = <<92, c>>
    BY <1>1 DEF Escaped
  <2>2. 92 \in Char
    BY DEF Char
  <2>. QED
    BY <2>1, <2>2
<1>2. CASE c \in {8, 9, 10, 12, 13}
  <2>1. 92 \in Char /\ 98 \in Char /\ 116 \in Char /\ 110 \in Char /\ 102 \in Char /\ 114 \in Char
    BY DEF Char
  <2>2. \E e \in {98, 116, 110, 102, 114} : Escaped(c) = <<92, e>>
    BY <1>2, Letters
  <2>. QED
    BY <2>1, <2>2
<1>3. CASE c \in 1..31 /\ c \notin {8, 9, 10, 12, 13}
  <2>. DEFINE a == HexDigit(c \div 16)
              e == HexDigit(c % 16)
  <2>1. Escaped(c) = <<92, 117, 48, 48, a, e>>
    BY <1>3 DEF Escaped
  <2>2. a \in Char /\ e \in Char
    <3>1. c \div 16 \in 0..15 /\ c % 16 \in 0..15
      BY <1>3, SMT
    <3>2. \A d \in 0..15 : HexDigit(d) \in Char
      BY DEF HexDigit, Char
    <3>. QED
      BY <3>1, <3>2
  <2>3. 92 \in Char /\ 117 \in Char /\ 48 \in Char
    BY DEF Char
  <2>. HIDE DEF a, e
  <2>. QED
    BY <2>1, <2>2, <2>3
<1>4. CASE c \notin {34, 92} /\ c \notin 1..31
  <2>1. Escaped(c) = <<c>>
    BY <1>0, <1>4 DEF Escaped
  <2>. QED
    BY <2>1
<1>. QED
  BY <1>0, <1>1, <1>2, <1>3, <1>4

\* One byte after the other is the string.
LEMMA FlattenSingles ==
  ASSUME NEW S, NEW s \in Seq(S)
  PROVE  FlattenSeq([i \in 1..Len(s) |-> <<s[i]>>]) = s
<1>. DEFINE n == Len(s)
            parts == [i \in 1..n |-> <<s[i]>>]
<1>1. n \in Nat /\ \A i \in 1..n : s[i] \in S
  OBVIOUS
<1>2. parts \in Seq(Seq(S)) /\ Len(parts) = n /\ \A i \in 1..n : parts[i] = <<s[i]>>
  BY <1>1
<1>. HIDE DEF parts
<1>3. PICK f \in [0..n -> Seq(S)] :
        f[0] = << >> /\ FlattenSeq(parts) = f[n] /\ \A i \in 1..n : f[i] = f[i - 1] \o parts[i]
  <2>1. PICK g \in [0..Len(parts) -> Seq(S)] :
          /\ g[0] = << >> /\ FlattenSeq(parts) = g[Len(parts)]
          /\ \A i \in 1..Len(parts) : g[i] = g[i - 1] \o parts[i]
    BY <1>2, FlattenSteps
  <2>. HIDE DEF n
  <2>. QED
    BY <1>2, <2>1
<1>. HIDE DEF n
<1>. DEFINE Good(i) == Len(f[i]) = i /\ \A j \in 1..i : f[i][j] = s[j]
            I == {i \in 0..n : ~Good(i)}
<1>4. ASSUME NEW i \in 1..n, Good(i - 1) PROVE Good(i)
  <2>1. i - 1 \in 0..n /\ f[i - 1] \in Seq(S) /\ s[i] \in S
    BY <1>1, <1>3
  <2>2. f[i] = f[i - 1] \o <<s[i]>>
    BY <1>2, <1>3
  <2>3. f[i] = Append(f[i - 1], s[i])
    BY <2>1, <2>2
  <2>4. Len(f[i - 1]) = i - 1 /\ \A j \in 1..(i - 1) : f[i - 1][j] = s[j]
    BY <1>4
  <2>. DEFINE g == f[i - 1]
              x == s[i]
  <2>. HIDE DEF g
  <2>5. Len(Append(g, x)) = i /\ \A j \in 1..i : Append(g, x)[j] = s[j]
    BY <2>1, <2>4 DEF g
  <2>. QED
    BY <2>3, <2>5 DEF g
<1>5. I = {}
  <2>1. ASSUME I # {} PROVE FALSE
    <3>1. PICK i \in I : \A j \in I : i <= j
      <4>1. I \subseteq Nat
        BY <1>1
      <4>. HIDE DEF I
      <4>. QED
        BY <2>1, <4>1, NatMin
    <3>2. Good(0)
      BY <1>3
    <3>3. i # 0
      BY <3>1, <3>2
    <3>. HIDE DEF Good
    <3>4. i \in 1..n /\ i - 1 \in 0..n /\ ~(i <= i - 1) /\ ~Good(i)
      BY <1>1, <3>1, <3>3
    <3>5. Good(i - 1)
      BY <3>1, <3>4
    <3>. QED
      BY <1>4, <3>4, <3>5
  <2>. QED
    BY <2>1
<1>6. n \in 0..n /\ f[n] \in Seq(S)
  BY <1>1, <1>3
<1>7. Good(n)
  BY <1>5, <1>6
<1>8. f[n] = s
  BY <1>6, <1>7 DEF n
<1>. QED
  BY <1>3, <1>8 DEF parts, n

\* r has read the string s into the item n, up to k, and did nothing else.
HasRead(b, n, s, k, r) ==
  /\ r \in ParseBuffer /\ r.ok /\ ~r.outside /\ r.offset = k /\ r.depth = b.depth /\ r.head = b.head
  /\ r.heap = WithString(b.heap, n, s) /\ r.heap[n].val = s

\* The item n of r has the string s, and r is else what b was.
Made(b, n, s, k, r) ==
  /\ r \in ParseBuffer /\ r.ok = b.ok /\ r.offset = k /\ r.depth = b.depth /\ r.head = b.head
  /\ r.heap = WithString(b.heap, n, s) /\ r.heap[n].val = s

LEMMA StringMade ==
  ASSUME NEW b \in ParseBuffer, NEW k \in Nat, NEW n \in Node, NEW s \in Seq(Int), NEW o, o \in BOOLEAN,
         NEW r, r = StringAt(b, k, n, s, o)
  PROVE  Made(b, n, s, k, r)
<1>1. /\ r \in ParseBuffer /\ r.ok = b.ok /\ r.offset = k
      /\ r.heap = WithString(b.heap, n, s) /\ r.depth = b.depth /\ r.head = b.head
  BY StringFields
<1>2. WithString(b.heap, n, s)[n].val = s
  <2>1. b.heap \in Heap
    BY DEF ParseBuffer
  <2>. QED
    BY <2>1, HeapWithString
<1>. QED
  BY <1>1, <1>2 DEF Made

LEMMA MadeIsRead ==
  ASSUME NEW b, b.ok, NEW k, NEW n, NEW s, NEW r, ~r.outside, Made(b, n, s, k, r)
  PROVE  HasRead(b, n, s, k, r)
BY Zenon DEF Made, HasRead

Quoted(w) == (<<Quote>> \o w) \o <<Quote>>

LEMMA QuotedIs ==
  ASSUME NEW S, Quote \in S, NEW w \in Seq(S)
  PROVE  /\ Quoted(w) \in Seq(S) /\ Len(Quoted(w)) = Len(w) + 2
         /\ Quoted(w)[1] = Quote /\ Quoted(w)[Len(w) + 2] = Quote
         /\ \A j \in 1..Len(w) : Quoted(w)[j + 1] = w[j]
<1>. DEFINE n == Len(w)
            a == <<Quote>>
            x == a \o w
<1>1. a \in Seq(S) /\ Len(a) = 1 /\ a[1] = Quote /\ n \in Nat
  OBVIOUS
<1>. HIDE DEF a, n
<1>2. /\ x \in Seq(S) /\ Len(x) = 1 + n /\ x[1] = Quote
      /\ \A j \in 1..n : x[j + 1] = w[j]
  <2>1. x \in Seq(S) /\ Len(x) = 1 + n /\ \A i \in 1..(1 + n) : x[i] = IF i <= 1 THEN a[i] ELSE w[i - 1]
    <3>1. x \in Seq(S) /\ Len(x) = Len(a) + Len(w) /\ \A i \in 1..(Len(a) + Len(w)) : x[i] = IF i <= Len(a) THEN a[i] ELSE w[i - Len(a)]
      BY <1>1, ConcatProperties
    <3>. HIDE DEF x
    <3>. QED
      BY <1>1, <3>1 DEF n
  <2>2. 1 \in 1..(1 + n) /\ \A j \in 1..n : j + 1 \in 1..(1 + n) /\ ~(j + 1 <= 1) /\ (j + 1) - 1 = j
    BY <1>1
  <2>. HIDE DEF x
  <2>. QED
    BY <1>1, <2>1, <2>2
<1>3. Quoted(w) = Append(x, Quote)
  BY <1>2 DEF Quoted, a
<1>. HIDE DEF x
<1>4. /\ Append(x, Quote) \in Seq(S) /\ Len(Append(x, Quote)) = n + 2
      /\ Append(x, Quote)[1] = Quote /\ Append(x, Quote)[n + 2] = Quote
      /\ \A j \in 1..n : Append(x, Quote)[j + 1] = w[j]
  BY <1>1, <1>2
<1>. QED
  BY <1>3, <1>4 DEF n

\* A string in quotes whose parts stand for some bytes each is read as these
\* bytes put end to end, up to the first zero, and reading goes on behind it.
LEMMA StringIsRead ==
  ASSUME NEW t \in Seq(Byte), NEW b \in ParseBuffer, b.ok, ~b.outside, NEW n \in Node,
         NEW parts \in Seq(Seq(Byte)), NEW vals \in Seq(Seq(Byte)),
         Len(FlattenSeq(parts)) + 2 <= MaxString,
         Len(vals) = Len(parts), \A i \in 1..Len(parts) : ReadsAs(parts[i], vals[i]),
         Holds(t, b.offset, Quoted(FlattenSeq(parts)))
  PROVE  HasRead(b, n, CString(FlattenSeq(vals)), b.offset + Len(FlattenSeq(parts)) + 2, parse_string(t, b, n))
<1>. DEFINE all == FlattenSeq(parts)
            whole == FlattenSeq(vals)
            o == b.offset
            start == o + 1
            end == start + Len(all)
            search == StringEnd(t, start)
            read == Unescape(t, start, search.at)
            r == parse_string(t, b, n)
            s == CString(whole)
<1>1. all \in Seq(Byte) /\ whole \in Seq(Byte)
  BY FlattenTyped
<1>2. o \in Nat /\ Len(t) \in Nat
  BY DEF ParseBuffer
<1>3. Holds(t, o, Quoted(all))
  OBVIOUS
<1>. DEFINE m == Len(all)
<1>. HIDE DEF all, whole, o
<1>4. /\ o + m + 2 <= Len(t) /\ t[o + 1] = Quote /\ t[o + m + 2] = Quote /\ m \in Nat
      /\ \A j \in 1..m : t[o + 1 + j] = all[j]
  <2>1. Quote \in Byte
    BY DEF Quote, Byte
  <2>2. /\ Len(Quoted(all)) = m + 2 /\ Quoted(all)[1] = Quote /\ Quoted(all)[m + 2] = Quote
        /\ \A j \in 1..m : Quoted(all)[j + 1] = all[j]
    BY <1>1, <2>1, QuotedIs
  <2>3. m \in Nat
    BY <1>1
  <2>4. o + Len(Quoted(all)) <= Len(t) /\ \A j \in 1..Len(Quoted(all)) : t[o + j] = Quoted(all)[j]
    BY <1>3 DEF Holds
  <2>. HIDE DEF m
  <2>5. o + (m + 2) <= Len(t) /\ \A j \in 1..(m + 2) : t[o + j] = Quoted(all)[j]
    BY <2>2, <2>4
  <2>6. 1 \in 1..(m + 2) /\ m + 2 \in 1..(m + 2) /\ o + (m + 2) = o + m + 2
        /\ \A j \in 1..m : j + 1 \in 1..(m + 2) /\ o + (j + 1) = o + 1 + j
    BY <1>2, <2>3
  <2>7. t[o + 1] = Quoted(all)[1] /\ t[o + (m + 2)] = Quoted(all)[m + 2]
    BY <2>5, <2>6
  <2>8. ASSUME NEW j \in 1..m PROVE t[o + 1 + j] = all[j]
    <3>1. t[o + (j + 1)] = Quoted(all)[j + 1]
      BY <2>5, <2>6
    <3>. QED
      BY <2>2, <2>6, <3>1
  <2>. QED
    BY <2>2, <2>3, <2>5, <2>6, <2>7, <2>8
<1>5. /\ start \in Nat /\ end \in Nat /\ end = o + 1 + m /\ end + 1 = o + m + 2
      /\ start + Len(all) < Len(t) /\ start < Len(t) /\ start <= end /\ o < Len(t) /\ t[start + Len(all) + 1] = Quote
  <2>1. end + 1 = o + m + 2 /\ end = o + 1 + m /\ start \in Nat /\ end \in Nat /\ start <= end
    BY <1>2, <1>4
  <2>2. start + Len(all) + 1 = o + m + 2 /\ start + Len(all) = end
    BY <1>2, <1>4
  <2>. HIDE DEF end, start
  <2>3. o < Len(t) /\ end < Len(t)
    BY <1>2, <1>4, <2>1
  <2>4. start < Len(t)
    BY <1>2, <2>1, <2>3
  <2>. QED
    BY <1>4, <2>1, <2>2, <2>3, <2>4
<1>. HIDE DEF end
<1>6. Holds(t, start, all)
  <2>1. start + Len(all) <= Len(t)
    <3>1. Len(all) \in Nat
      BY <1>4
    <3>. HIDE DEF start
    <3>. QED
      BY <1>2, <1>5, <3>1
  <2>2. \A j \in 1..Len(all) : t[start + j] = all[j]
    BY <1>4
  <2>. QED
    BY <2>1, <2>2 DEF Holds
<1>7. search.at = end /\ Unescape(t, start, end).at = end /\ Unescape(t, start, end).out = whole
  <2>. HIDE DEF start
  <2>0. /\ start \in Nat /\ Holds(t, start, FlattenSeq(parts)) /\ start + Len(FlattenSeq(parts)) < Len(t)
        /\ t[start + Len(FlattenSeq(parts)) + 1] = Quote
    BY <1>5, <1>6 DEF all
  <2>1. ReadWhole(t, start, start + Len(FlattenSeq(parts)), FlattenSeq(vals))
    BY <2>0, PartsRead
  <2>. QED
    BY <2>1 DEF end, all, whole, ReadWhole
<1>8. r = TakeString(b, n, search, read)
  <2>1. Can(t, b) /\ Look(t, b) = Quote
    BY <1>2, <1>4, <1>5 DEF Can, Look, o
  <2>2. search.at # Len(t)
    <3>1. end # Len(t)
      <4>. HIDE DEF start
      <4>. QED
        BY <1>2, <1>4, <1>5
    <3>. QED
      BY <1>7, <3>1
  <2>. QED
    BY <2>1, <2>2 DEF parse_string, o
<1>9. read.at = end /\ read.out = whole
  BY <1>7
<1>10. StringRead(t, b, n, r)
  <2>1. Can(t, b)
    BY <1>2, <1>5 DEF Can, o
  <2>. HIDE DEF r
  <2>. QED
    BY <2>1, StringFits DEF r
<1>11. s \in Seq(Byte) /\ s \in Seq(Int)
  <2>1. s \in Seq(Byte)
    BY <1>1, CStringEnds
  <2>. HIDE DEF s
  <2>. QED
    BY <2>1, BytesAreInts
<1>18. ~(Allocation(b, search) > MaxString)
  <2>1. search.skipped \in Nat
    <3>1. start \in Nat /\ Len(t) \in Nat
      BY <1>2, <1>5
    <3>. HIDE DEF start
    <3>2. search \in Ending
      BY <3>1, StringEndStep
    <3>. HIDE DEF search
    <3>. QED
      BY <3>2 DEF Ending
  <2>2. Allocation(b, search) = end - o - search.skipped + 1 /\ end = o + 1 + m /\ m + 2 <= MaxString
    BY <1>5, <1>7 DEF Allocation, o, all, m
  <2>. HIDE DEF search, m
  <2>. QED
    BY <1>2, <1>4, <1>5, <2>1, <2>2, StringAssumption
<1>. HIDE DEF search, read, r
<1>. DEFINE over == b.outside \/ Len(read.out) + 1 > search.at - b.offset - search.skipped + 1
<1>12. r = StringAt(b, end + 1, n, s, over) /\ over \in BOOLEAN
  <2>1. ~(read.at < search.at)
    BY <1>5, <1>7, <1>9
  <2>2. r = [b EXCEPT !.offset = search.at + 1, !.heap[n].kind = "string", !.heap[n].val = CString(read.out),
                      !.outside = @ \/ Len(read.out) + 1 > search.at - b.offset - search.skipped + 1]
    BY <1>8, <1>18, <2>1 DEF TakeString, Allocation
  <2>3. b.outside \in BOOLEAN
    BY DEF ParseBuffer
  <2>. QED
    BY <1>7, <1>9, <2>2, <2>3 DEF StringAt
<1>. HIDE DEF over, s
<1>15. ~r.outside
  BY <1>10 DEF StringRead
<1>16. Made(b, n, s, end + 1, r)
  <2>1. end + 1 \in Nat
    BY <1>5
  <2>. QED
    BY <1>11, <1>12, <2>1, StringMade, Zenon
<1>17. HasRead(b, n, s, end + 1, r)
  BY <1>15, <1>16, MadeIsRead, Zenon
<1>. QED
  BY <1>5, <1>17 DEF s, whole, all, o, r

\* How a character may be written: as a \u escape, or as print_string_ptr
\* writes a byte that is a character of its own.
Forms(c) == IF c < 128 THEN {Escape(c), Escaped(c)} ELSE {Escape(c)}

LEMMA FormReads ==
  ASSUME NEW c \in Code, ~Surrogate(c), NEW w \in Forms(c)
  PROVE  ReadsAs(w, Utf8(c)) /\ w \in Seq(Byte) /\ Utf8(c) \in Seq(Byte)
<1>1. ReadsAs(Escape(c), Utf8(c))
  BY EscapeReads
<1>2. CASE w = Escape(c)
  BY <1>1, <1>2 DEF ReadsAs
<1>3. CASE w # Escape(c)
  <2>1. c < 128 /\ w = Escaped(c)
    BY <1>3 DEF Forms
  <2>2. c \in Nat
    BY SMT DEF Code
  <2>3. c \in Byte
    BY <2>1, <2>2, SMT DEF Byte
  <2>4. Utf8(c) = <<c>>
    BY <2>1, SMT DEF Utf8
  <2>5. ReadsAs(w, Utf8(c))
    BY <2>1, <2>3, <2>4, EscapedReads
  <2>. QED
    BY <2>5 DEF ReadsAs
<1>. QED
  BY <1>2, <1>3

\* A string of any characters, each written in any of its forms, for which
\* there is memory, is read as their UTF-8, and reading goes on behind its quote: parse_string with
\* utf16_literal_to_utf8, against what Unicode says (Utf8).  A zero ends what
\* is read, as CString says.
THEOREM EscapedStringIsRead ==
  ASSUME NEW t \in Seq(Byte), NEW b \in ParseBuffer, b.ok, ~b.outside, NEW n \in Node,
         NEW s \in Seq(Code), \A i \in 1..Len(s) : ~Surrogate(s[i]),
         NEW parts, parts \in [1..Len(s) -> UNION {Forms(c) : c \in Code}],
         \A i \in 1..Len(s) : parts[i] \in Forms(s[i]),
         Len(FlattenSeq(parts)) + 2 <= MaxString,
         Holds(t, b.offset, Quoted(FlattenSeq(parts)))
  PROVE  HasRead(b, n, CString(FlattenSeq([i \in 1..Len(s) |-> Utf8(s[i])])),
                 b.offset + Len(FlattenSeq(parts)) + 2, parse_string(t, b, n))
<1>. DEFINE m == Len(s)
            vals == [i \in 1..m |-> Utf8(s[i])]
<1>1. m \in Nat /\ \A i \in 1..m : s[i] \in Code
  OBVIOUS
<1>2. \A i \in 1..m : ReadsAs(parts[i], Utf8(s[i])) /\ parts[i] \in Seq(Byte) /\ Utf8(s[i]) \in Seq(Byte)
  BY <1>1, FormReads
<1>3. vals \in Seq(Seq(Byte)) /\ Len(vals) = m /\ \A i \in 1..m : vals[i] = Utf8(s[i])
  BY <1>1, <1>2
<1>4. parts \in Seq(Seq(Byte)) /\ Len(parts) = m
  <2>1. DOMAIN parts = 1..m /\ parts = [i \in 1..m |-> parts[i]]
    OBVIOUS
  <2>2. [i \in 1..m |-> parts[i]] \in Seq(Seq(Byte)) /\ Len([i \in 1..m |-> parts[i]]) = m
    BY <1>1, <1>2
  <2>. QED
    BY <2>1, <2>2
<1>. HIDE DEF m
<1>5. \A i \in 1..Len(parts) : ReadsAs(parts[i], vals[i])
  BY <1>2, <1>3, <1>4
<1>. HIDE DEF vals
<1>6. HasRead(b, n, CString(FlattenSeq(vals)), b.offset + Len(FlattenSeq(parts)) + 2, parse_string(t, b, n))
  <2>1. Len(vals) = Len(parts)
    BY <1>3, <1>4
  <2>. QED
    BY <1>3, <1>4, <1>5, <2>1, StringIsRead
<1>. QED
  BY <1>6 DEF vals, m

-----------------------------------------------------------------------------
(* What was printed in one piece *)

LEMMA LeastIs ==
  ASSUME NEW S, NEW x \in S, \A j \in S : x <= j, x \in Int, \A j \in S : j \in Int
  PROVE  (CHOOSE i \in S : \A j \in S : i <= j) = x
<1>. DEFINE c == CHOOSE i \in S : \A j \in S : i <= j
<1>1. c \in S /\ \A j \in S : c <= j
  OBVIOUS
<1>. HIDE DEF c
<1>2. c = x
  BY <1>1
<1>. QED
  BY <1>2 DEF c

\* A place of what was written and the same place in the buffer.
LEMMA BetweenPlaces ==
  ASSUME NEW o \in Nat, NEW m \in Nat, NEW j \in Int, o + 1 <= j, ~(o + m + 1 <= j)
  PROVE  j - o \in 1..m /\ j - o \in 1..(m + 1) /\ o + (j - o) = j
OBVIOUS

\* What is printed in one piece with a zero behind is what update_offset goes
\* over.
LEMMA PieceEnds ==
  ASSUME NEW p, Fits(p), NEW v \in Seq(Char), NEW needed \in Nat, Len(v) <= needed,
         update_offset(Write(ensure(p, needed), Append(v, 0), 0)).ok
  PROVE  LET q == update_offset(Write(ensure(p, needed), Append(v, 0), 0))
         IN /\ q.offset = p.offset + Len(v) /\ q.offset < Len(q.mem)
            /\ \A j \in 1..Len(v) : q.mem[p.offset + j] = v[j]
<1>. DEFINE w == Append(v, 0)
            m == Len(v)
            e == ensure(p, needed)
            r == Write(e, w, 0)
            q == update_offset(r)
            o == p.offset
<1>1. o \in Nat /\ m \in Nat
  BY DEF Fits, PrintBuffer
<1>2. w \in Seq(Int) /\ Len(w) = m + 1 /\ w[m + 1] = 0 /\ \A j \in 1..m : w[j] = v[j] /\ v[j] \in Char
  <2>1. v \in Seq(Int)
    <3>1. Char \subseteq Int
      BY DEF Char
    <3>. QED
      BY <3>1, SeqMonotonic
  <2>2. \A j \in 1..m : v[j] \in Char
    OBVIOUS
  <2>. QED
    BY <2>1, <2>2
<1>3. Fits(e) /\ e.offset = o /\ (e.ok => e.offset + needed + 1 <= Len(e.mem))
  BY EnsureMakesRoom
<1>. HIDE DEF w, m
<1>4. Fits(r) /\ (r.ok => \A i \in 1..Len(w) : r.mem[o + i] = w[i])
  <2>1. Len(w) <= needed + 1
    BY <1>1, <1>2 DEF m
  <2>. QED
    BY <1>2, <2>1, WritesFit
<1>5. r.ok
  <2>. HIDE DEF r
  <2>1. q.ok
    BY DEF r, e, w
  <2>2. ~r.ok => q = r
    BY DEF update_offset
  <2>. QED
    BY <2>1, <2>2
<1>6. e.ok /\ r.offset = o /\ Len(r.mem) = Len(e.mem) /\ o + m + 1 <= Len(r.mem) /\ Len(r.mem) \in Nat
  <2>. HIDE DEF e
  <2>1. e.mem \in Seq(Int) /\ e \in PrintBuffer
    BY <1>3 DEF Fits, PrintBuffer
  <2>2. e.ok
    <3>1. ~e.ok => r = e
      BY DEF Write
    <3>. QED
      BY <1>5, <3>1
  <2>. DEFINE mem == [i \in DOMAIN e.mem |-> IF i - e.offset \in DOMAIN w THEN w[i - e.offset] ELSE e.mem[i]]
  <2>3. r = [e EXCEPT !.mem = mem, !.offset = e.offset + 0, !.outside = e.outside \/ e.offset + Len(w) > Len(e.mem)]
    BY <2>2 DEF Write
  <2>4. DOMAIN mem = 1..Len(e.mem) /\ Len(e.mem) \in Nat
    BY <2>1
  <2>. HIDE DEF mem
  <2>5. r.mem = mem /\ r.offset = e.offset + 0
    BY <2>1, <2>3 DEF PrintBuffer
  <2>6. Len(r.mem) = Len(e.mem)
    <3>1. r.mem \in Seq(Int)
      BY <1>4 DEF Fits, PrintBuffer
    <3>. QED
      BY <2>4, <2>5, <3>1
  <2>7. m <= needed
    BY DEF m
  <2>. QED
    BY <1>1, <1>3, <2>2, <2>4, <2>5, <2>6, <2>7
<1>. HIDE DEF e, r
<1>. DEFINE ends == {i \in (r.offset + 1)..Len(r.mem) : r.mem[i] = 0}
            x == o + m + 1
<1>7. x \in ends /\ \A j \in ends : x <= j
  <2>1. x \in ends
    <3>1. r.mem[o + (m + 1)] = w[m + 1]
      BY <1>1, <1>2, <1>4, <1>5
    <3>2. x = o + (m + 1) /\ x \in (r.offset + 1)..Len(r.mem)
      BY <1>1, <1>6
    <3>3. r.mem[x] = 0
      BY <1>2, <3>1, <3>2
    <3>. QED
      BY <3>2, <3>3
  <2>2. ASSUME NEW j \in ends, ~(x <= j) PROVE FALSE
    <3>1. j \in Int /\ r.mem[j] = 0 /\ j >= o + 1
      BY <1>1, <1>6
    <3>2. j - o \in 1..m /\ j - o \in 1..(m + 1) /\ o + (j - o) = j
      <4>1. o \in Nat /\ m \in Nat /\ j \in Int /\ o + 1 <= j /\ ~(o + m + 1 <= j)
        BY <1>1, <2>2, <3>1
      <4>. QED
        BY <4>1, BetweenPlaces
    <3>3. r.mem[o + (j - o)] = w[j - o] /\ w[j - o] \in Char
      BY <1>2, <1>4, <1>5, <3>2
    <3>4. w[j - o] = 0
      BY <3>1, <3>2, <3>3
    <3>5. 0 \notin Char
      BY DEF Char
    <3>. QED
      BY <3>3, <3>4, <3>5
  <2>. QED
    BY <2>1, <2>2
<1>8. (CHOOSE i \in ends : \A j \in ends : i <= j) = x
  <2>1. \A i \in ends : i \in Int
    BY <1>6
  <2>2. x \in Int
    BY <1>1
  <2>. HIDE DEF ends, x
  <2>. QED
    BY <1>7, <2>1, <2>2, LeastIs
<1>9. q = [r EXCEPT !.offset = x - 1]
  <2>1. ends # {}
    BY <1>7
  <2>. DEFINE first == CHOOSE i \in ends : \A j \in ends : i <= j
  <2>2. q = IF ~r.ok THEN r ELSE IF ends = {} THEN [r EXCEPT !.outside = TRUE] ELSE [r EXCEPT !.offset = first - 1]
    BY DEF update_offset
  <2>3. first = x
    BY <1>8
  <2>. HIDE DEF first, ends, q, x
  <2>. QED
    BY <1>5, <2>1, <2>2, <2>3
<1>10. q.offset = o + m /\ q.mem = r.mem
  <2>1. r \in PrintBuffer
    BY <1>4 DEF Fits
  <2>2. x - 1 = o + m
    BY <1>1
  <2>. HIDE DEF q, x
  <2>. QED
    BY <1>9, <2>1, <2>2 DEF PrintBuffer
<1>. HIDE DEF q
<1>11. \A j \in 1..m : q.mem[o + j] = v[j]
  <2>1. \A j \in 1..m : j \in 1..Len(w)
    BY <1>1, <1>2
  <2>. QED
    BY <1>2, <1>4, <1>5, <1>10, <2>1
<1>12. q.offset = o + m /\ q.offset < Len(q.mem)
  BY <1>1, <1>6, <1>10
<1>. QED
  BY <1>11, <1>12 DEF q, r, e, w, m

LEMMA ZeroBehindQuote ==
  ASSUME NEW S, Quote \in S, NEW w \in Seq(S)
  PROVE  <<34>> \o w \o <<34, 0>> = Append(Quoted(w), 0)
<1>. DEFINE x == <<34>> \o w
            T == S \cup {0}
<1>1. Quote = 34
  BY DEF Quote
<1>2. x \in Seq(T)
  <2>1. w \in Seq(T)
    BY SeqMonotonic
  <2>2. <<34>> \in Seq(T)
    BY <1>1
  <2>. HIDE DEF T
  <2>. QED
    BY <2>1, <2>2
<1>. HIDE DEF x
<1>3. 34 \in T /\ 0 \in T
  BY <1>1
<1>. HIDE DEF T
<1>4. x \o <<34, 0>> = Append(Append(x, 34), 0)
  BY <1>2, <1>3
<1>5. Append(x, 34) = x \o <<34>>
  BY <1>2, <1>3
<1>. QED
  BY <1>1, <1>4, <1>5 DEF Quoted, x

LEMMA CharString ==
  ASSUME NEW s \in Seq(Char)
  PROVE  s # NoString
<1>1. NoString[1] \notin Char /\ Len(NoString) = 1
  BY DEF NoString, Char
<1>2. Len(s) = 1 => s[1] \in Char
  OBVIOUS
<1>. QED
  BY <1>1, <1>2

\* t is a text that has what q got behind the first `from` bytes.
Delivers(q, from, t) == q.offset <= Len(t) /\ \A i \in (from + 1)..q.offset : t[i] = q.mem[i]

\* The parts of a string of characters, as print_string_ptr writes them.
LEMMA EscapedParts ==
  ASSUME NEW s \in Seq(Char)
  PROVE  LET parts == [i \in DOMAIN s |-> Escaped(s[i])]
             vals == [i \in 1..Len(s) |-> <<s[i]>>]
         IN /\ parts \in Seq(Seq(Char)) /\ parts \in Seq(Seq(Byte)) /\ Len(parts) = Len(s)
            /\ vals \in Seq(Seq(Byte)) /\ Len(vals) = Len(s)
            /\ \A i \in 1..Len(parts) : ReadsAs(parts[i], vals[i])
            /\ CString(FlattenSeq(vals)) = s
<1>. DEFINE m == Len(s)
            parts == [i \in 1..m |-> Escaped(s[i])]
            vals == [i \in 1..m |-> <<s[i]>>]
<1>1. m \in Nat /\ DOMAIN s = 1..m /\ \A i \in 1..m : s[i] \in Char
  OBVIOUS
<1>2. Char \subseteq Byte /\ 0 \notin Char
  BY DEF Char, Byte
<1>3. \A i \in 1..m : Escaped(s[i]) \in Seq(Char) /\ Escaped(s[i]) \in Seq(Byte) /\ ReadsAs(Escaped(s[i]), <<s[i]>>)
  <2>1. \A i \in 1..m : s[i] \in Byte
    BY <1>1, <1>2
  <2>2. \A i \in 1..m : ReadsAs(Escaped(s[i]), <<s[i]>>)
    BY <2>1, EscapedReads
  <2>3. \A i \in 1..m : Escaped(s[i]) \in Seq(Byte)
    BY <2>2 DEF ReadsAs
  <2>4. \A i \in 1..m : Escaped(s[i]) \in Seq(Char)
    BY <1>1, EscapedChars
  <2>. QED
    BY <2>2, <2>3, <2>4
<1>4. parts \in Seq(Seq(Char)) /\ parts \in Seq(Seq(Byte)) /\ Len(parts) = m
  <2>1. DOMAIN parts = 1..m /\ \A i \in 1..m : parts[i] = Escaped(s[i])
    OBVIOUS
  <2>2. parts \in [1..m -> Seq(Char)] /\ parts \in [1..m -> Seq(Byte)]
    <3>1. parts = [i \in 1..m |-> parts[i]]
      BY <2>1
    <3>2. \A i \in 1..m : parts[i] \in Seq(Char) /\ parts[i] \in Seq(Byte)
      BY <1>3, <2>1
    <3>. HIDE DEF parts, m
    <3>. QED
      BY <3>1, <3>2, Zenon
  <2>. HIDE DEF parts, m
  <2>. QED
    BY <1>1, <2>2
<1>5. vals \in Seq(Seq(Byte)) /\ Len(vals) = m
  <2>1. \A i \in 1..m : <<s[i]>> \in Seq(Byte)
    BY <1>1, <1>2
  <2>. QED
    BY <1>1, <2>1
<1>6. \A i \in 1..m : parts[i] = Escaped(s[i]) /\ vals[i] = <<s[i]>>
  OBVIOUS
<1>7. CString(FlattenSeq(vals)) = s
  <2>1. FlattenSeq(vals) = s
    BY FlattenSingles
  <2>2. s \in Seq(Byte)
    BY <1>2, SeqMonotonic
  <2>3. NonZero(s)
    BY <1>1, <1>2 DEF NonZero
  <2>4. CString(s) = s
    BY <2>2, <2>3, CStringEnds
  <2>. QED
    BY <2>1, <2>4
<1>8. [i \in DOMAIN s |-> Escaped(s[i])] = parts
  BY <1>1
<1>. HIDE DEF parts, vals
<1>9. \A i \in 1..Len(parts) : ReadsAs(parts[i], vals[i])
  BY <1>3, <1>4, <1>6
<1>. QED
  BY <1>4, <1>5, <1>7, <1>8, <1>9 DEF vals

\* A string that was printed, into the caller's buffer or one that grew, is
\* read back as it was if there is memory for what was printed of it, and reading stops where update_offset says that
\* printing stopped: parse_string of what print_string_ptr wrote, for every
\* string without a zero and every place of a text.
THEOREM PrintedStringIsRead ==
  ASSUME NEW p, Fits(p), NEW s \in Seq(Char), update_offset(print_string_ptr(p, s)).ok,
         NEW t \in Seq(Byte), Delivers(update_offset(print_string_ptr(p, s)), p.offset, t),
         update_offset(print_string_ptr(p, s)).offset - p.offset <= MaxString,
         NEW b \in ParseBuffer, b.ok, ~b.outside, b.offset = p.offset, NEW n \in Node
  PROVE  HasRead(b, n, s, update_offset(print_string_ptr(p, s)).offset, parse_string(t, b, n))
<1>. DEFINE parts == [i \in DOMAIN s |-> Escaped(s[i])]
            vals == [i \in 1..Len(s) |-> <<s[i]>>]
            out == FlattenSeq(parts)
            v == Quoted(out)
            q == update_offset(print_string_ptr(p, s))
            o == p.offset
<1>1. /\ parts \in Seq(Seq(Char)) /\ parts \in Seq(Seq(Byte)) /\ Len(parts) = Len(s)
      /\ vals \in Seq(Seq(Byte)) /\ Len(vals) = Len(s)
      /\ \A i \in 1..Len(parts) : ReadsAs(parts[i], vals[i])
      /\ CString(FlattenSeq(vals)) = s
  BY EscapedParts
<1>. HIDE DEF parts, vals
<1>2. out \in Seq(Char) /\ Len(out) \in Nat
  <2>1. out \in Seq(Char)
    BY <1>1, FlattenTyped
  <2>. HIDE DEF out
  <2>. QED
    BY <2>1
<1>. DEFINE m == Len(out)
<1>3. v \in Seq(Char) /\ Len(v) = m + 2
  <2>1. Quote \in Char
    BY DEF Quote, Char
  <2>. HIDE DEF out
  <2>. QED
    BY <1>2, <2>1, QuotedIs
<1>4. print_string_ptr(p, s) = Write(ensure(p, m + 3), Append(v, 0), 0)
  <2>1. s # NoString
    BY CharString
  <2>2. print_string_ptr(p, s) = Write(ensure(p, m + 3), <<34>> \o out \o <<34, 0>>, 0)
    BY <2>1 DEF print_string_ptr, parts
  <2>3. Quote \in Char
    BY DEF Quote, Char
  <2>. HIDE DEF out
  <2>4. <<34>> \o out \o <<34, 0>> = Append(v, 0)
    BY <1>2, <2>3, ZeroBehindQuote
  <2>. QED
    BY <2>2, <2>4
<1>5. q = update_offset(Write(ensure(p, m + 3), Append(v, 0), 0)) /\ q.ok
  BY <1>4
<1>6. q.offset = o + Len(v) /\ \A j \in 1..Len(v) : q.mem[o + j] = v[j]
  <2>. DEFINE k == m + 3
              y == update_offset(Write(ensure(p, k), Append(v, 0), 0))
  <2>1. k \in Nat /\ Len(v) <= k
    <3>. HIDE DEF out, v
    <3>. QED
      BY <1>2, <1>3
  <2>2. y.ok
    BY <1>5
  <2>. HIDE DEF v, k
  <2>3. y.offset = o + Len(v) /\ \A j \in 1..Len(v) : y.mem[o + j] = v[j]
    BY <1>3, <2>1, <2>2, PieceEnds
  <2>. HIDE DEF y
  <2>4. q = y
    BY <1>5 DEF y, k
  <2>. HIDE DEF q
  <2>. QED
    BY <2>3, <2>4
<1>7. Holds(t, o, v)
  <2>1. q.offset <= Len(t) /\ \A i \in (o + 1)..q.offset : t[i] = q.mem[i]
    BY DEF Delivers
  <2>2. o \in Nat /\ Len(v) \in Nat
    BY <1>2, <1>3 DEF Fits, PrintBuffer
  <2>. HIDE DEF v, q, o
  <2>3. ASSUME NEW j \in 1..Len(v) PROVE t[o + j] = v[j]
    <3>1. o + j \in (o + 1)..q.offset
      BY <1>6, <2>2
    <3>2. t[o + j] = q.mem[o + j]
      BY <2>1, <3>1
    <3>. QED
      BY <1>6, <3>2
  <2>. QED
    BY <1>6, <2>1, <2>3 DEF Holds
<1>8. b.offset + m + 2 = q.offset
  <2>1. o \in Nat
    BY DEF Fits, PrintBuffer
  <2>2. b.offset = o
    OBVIOUS
  <2>3. q.offset = o + Len(v)
    BY <1>6
  <2>. HIDE DEF v, q, m, o
  <2>. QED
    BY <1>2, <1>3, <2>1, <2>2, <2>3 DEF m
<1>10. m + 2 <= MaxString
  <2>1. q.offset - o <= MaxString /\ o \in Nat /\ b.offset = o
    BY DEF Fits, PrintBuffer
  <2>. HIDE DEF q, m, o
  <2>. QED
    BY <1>2, <1>8, <2>1, StringAssumption DEF m
<1>. HIDE DEF q
<1>9. HasRead(b, n, CString(FlattenSeq(vals)), b.offset + m + 2, parse_string(t, b, n))
  <2>1. Holds(t, b.offset, Quoted(FlattenSeq(parts)))
    BY <1>7
  <2>2. Len(vals) = Len(parts)
    BY <1>1
  <2>3. Len(FlattenSeq(parts)) + 2 <= MaxString
    BY <1>10
  <2>. QED
    BY <1>1, <2>1, <2>2, <2>3, StringIsRead
<1>. QED
  BY <1>1, <1>8, <1>9 DEF q
=============================================================================
