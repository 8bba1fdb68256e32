-------------------------- MODULE JsonWhole_proofs --------------------------
(***************************************************************************)
(* What cJSON does when it reads a whole text or prints a whole tree, out  *)
(* of what Json_proofs says of the pieces.                                 *)
(*                                                                         *)
(* The loops over the items of a list are functions that are defined by    *)
(* the text still to be read, or by a rank of the items still to be        *)
(* printed (DefinedByRank): what holds of the lists further on (ReadsFrom, *)
(* OwnsBehind) holds of this one.  So a reader stays in front of the zero  *)
(* that ends the text (ReadingStaysInside) and a printer in its buffer     *)
(* (PrintingStaysInside).                                                  *)
(*                                                                         *)
(* Last, what a reader owns: the nodes that hang from the item being read  *)
(* (Hangs) are the ones that were taken from the free ones (Fresh), while  *)
(* it is built (Building) and when it is given up (Owned), so a refused    *)
(* text leaves nothing behind (ReadingLeavesNothing).                      *)
(***************************************************************************)
EXTENDS Json_proofs, JsonPrint, FiniteSetTheorems

USE NullAssumption

-----------------------------------------------------------------------------
(* Defined by rank *)

\* A function may be defined from the values it takes where the rank is lower:
\* one is put together up to every rank, they agree, and together they are one.
LooksBelow(S, R, rank, B) ==
  \A x \in S, f, g \in [S -> R] :
     (\A y \in S : rank[y] < rank[x] => f[y] = g[y]) => B[<<x, f>>] = B[<<x, g>>]

\* f is the function as far as the rank m.
UpTo(S, rank, B, m, f) == \A x \in S : rank[x] < m => f[x] = B[<<x, f>>]

LEMMA OneUpTo ==
  ASSUME NEW S, NEW R, NEW rank \in [S -> Nat], NEW B, LooksBelow(S, R, rank, B),
         NEW m \in Nat, NEW n \in Nat, NEW f \in [S -> R], NEW g \in [S -> R],
         UpTo(S, rank, B, m, f), UpTo(S, rank, B, n, g)
  PROVE  \A x \in S : rank[x] < m /\ rank[x] < n => f[x] = g[x]
<1>. DEFINE bad == {k \in Nat : \E x \in S : rank[x] = k /\ k < m /\ k < n /\ f[x] # g[x]}
<1>1. ASSUME bad # {} PROVE FALSE
  <2>1. PICK k \in bad : \A j \in bad : k <= j
    <3>1. bad \subseteq Nat
      OBVIOUS
    <3>. HIDE DEF bad
    <3>. QED
      BY <1>1, <3>1, NatMin
  <2>2. PICK x \in S : rank[x] = k /\ k < m /\ k < n /\ f[x] # g[x]
    OBVIOUS
  <2>3. ASSUME NEW y \in S, rank[y] < rank[x] PROVE f[y] = g[y]
    <3>1. rank[y] \in Nat /\ rank[y] < k /\ k \in Nat /\ rank[y] < m /\ rank[y] < n
      BY <2>2, <2>3
    <3>2. rank[y] \notin bad
      <4>. HIDE DEF bad
      <4>. QED
        BY <2>1, <3>1
    <3>. QED
      BY <3>1, <3>2
  <2>4. B[<<x, f>>] = B[<<x, g>>]
    BY <2>3 DEF LooksBelow
  <2>5. f[x] = B[<<x, f>>] /\ g[x] = B[<<x, g>>]
    BY <2>2 DEF UpTo
  <2>. QED
    BY <2>2, <2>4, <2>5
<1>2. ASSUME NEW x \in S, rank[x] < m, rank[x] < n, f[x] # g[x] PROVE FALSE
  <2>1. rank[x] \in bad
    BY <1>2
  <2>. QED
    BY <1>1, <2>1
<1>. QED
  BY <1>2

LEMMA OneLess ==
  ASSUME NEW k \in Nat, k # 0
  PROVE  k - 1 \in Nat /\ (k - 1) + 1 = k /\ ~(k <= k - 1)
  OBVIOUS

LEMMA SomeUpTo ==
  ASSUME NEW S, NEW R, R # {}, NEW rank \in [S -> Nat], NEW B \in [S \X [S -> R] -> R],
         LooksBelow(S, R, rank, B), NEW n \in Nat
  PROVE  \E f \in [S -> R] : UpTo(S, rank, B, n, f)
<1>. DEFINE bad == {m \in Nat : ~(\E f \in [S -> R] : UpTo(S, rank, B, m, f))}
<1>0. ASSUME NEW x \in S, NEW f \in [S -> R] PROVE B[<<x, f>>] \in R
  <2>1. <<x, f>> \in S \X [S -> R]
    BY <1>0
  <2>. QED
    BY <2>1
<1>1. 0 \notin bad
  <2>. PICK r \in R : TRUE
    OBVIOUS
  <2>. DEFINE f == [x \in S |-> r]
  <2>1. f \in [S -> R]
    OBVIOUS
  <2>2. \A x \in S : ~(rank[x] < 0)
    OBVIOUS
  <2>3. UpTo(S, rank, B, 0, f)
    BY <2>2 DEF UpTo
  <2>. QED
    BY <2>1, <2>3
<1>2. ASSUME NEW m \in Nat, m \notin bad PROVE m + 1 \notin bad
  <2>1. PICK f \in [S -> R] : UpTo(S, rank, B, m, f)
    BY <1>2
  <2>. DEFINE g == [x \in S |-> B[<<x, f>>]]
  <2>2. g \in [S -> R] /\ \A x \in S : g[x] = B[<<x, f>>]
    BY <1>0
  <2>. HIDE DEF g, bad
  <2>3. ASSUME NEW x \in S, rank[x] < m + 1 PROVE g[x] = B[<<x, g>>]
    <3>1. ASSUME NEW y \in S, rank[y] < rank[x] PROVE f[y] = g[y]
      <4>1. rank[y] < m
        BY <2>3, <3>1
      <4>2. f[y] = B[<<y, f>>]
        BY <2>1, <4>1 DEF UpTo
      <4>. QED
        BY <2>2, <4>2
    <3>2. B[<<x, f>>] = B[<<x, g>>]
      BY <2>2, <3>1 DEF LooksBelow
    <3>. QED
      BY <2>2, <3>2
  <2>4. UpTo(S, rank, B, m + 1, g)
    BY <2>3 DEF UpTo
  <2>5. \E h \in [S -> R] : UpTo(S, rank, B, m + 1, h)
    BY <2>2, <2>4
  <2>. QED
    BY <2>5, Zenon DEF bad
<1>3. ASSUME bad # {} PROVE FALSE
  <2>1. PICK k \in bad : \A j \in bad : k <= j
    <3>1. bad \subseteq Nat
      OBVIOUS
    <3>. HIDE DEF bad
    <3>. QED
      BY <1>3, <3>1, NatMin
  <2>2. k \in Nat
    OBVIOUS
  <2>. HIDE DEF bad
  <2>3. k # 0
    BY <1>1
  <2>4. k - 1 \in Nat /\ (k - 1) + 1 = k /\ ~(k <= k - 1)
    BY <2>2, <2>3, OneLess
  <2>5. k - 1 \notin bad
    BY <2>1, <2>4
  <2>. QED
    BY <1>2, <2>4, <2>5
<1>. QED
  BY <1>3

HasFunction(S, R, B) == \E f \in [S -> R] : \A x \in S : f[x] = B[<<x, f>>]

LEMMA DefinedByRank ==
  ASSUME NEW S, NEW R, R # {}, NEW rank \in [S -> Nat], NEW B \in [S \X [S -> R] -> R],
         LooksBelow(S, R, rank, B)
  PROVE  HasFunction(S, R, B)
<1>. DEFINE part(m) == CHOOSE f \in [S -> R] : UpTo(S, rank, B, m, f)
            whole == [x \in S |-> part(rank[x] + 1)[x]]
<1>1. ASSUME NEW m \in Nat PROVE part(m) \in [S -> R] /\ UpTo(S, rank, B, m, part(m))
  <2>1. \E f \in [S -> R] : UpTo(S, rank, B, m, f)
    BY SomeUpTo
  <2>. QED
    BY <2>1
<1>. HIDE DEF part
<1>2. \A x \in S : rank[x] + 1 \in Nat
  OBVIOUS
<1>3. whole \in [S -> R] /\ \A x \in S : whole[x] = part(rank[x] + 1)[x]
  BY <1>1, <1>2
<1>. HIDE DEF whole
<1>4. ASSUME NEW x \in S PROVE whole[x] = B[<<x, whole>>]
  <2>. DEFINE n == rank[x] + 1
              f == part(n)
  <2>1. n \in Nat /\ rank[x] < n /\ rank[x] \in Nat
    OBVIOUS
  <2>2. f \in [S -> R] /\ UpTo(S, rank, B, n, f)
    BY <1>1, <2>1
  <2>3. ASSUME NEW y \in S, rank[y] < rank[x] PROVE f[y] = whole[y]
    <3>. DEFINE k == rank[y] + 1
                g == part(k)
    <3>1. k \in Nat /\ rank[y] < k /\ rank[y] < n
      BY <2>3
    <3>2. g \in [S -> R] /\ UpTo(S, rank, B, k, g)
      BY <1>1, <3>1
    <3>. HIDE DEF f, n
    <3>3. whole[y] = g[y]
      BY <1>3
    <3>. HIDE DEF g, k
    <3>4. \A z \in S : rank[z] < n /\ rank[z] < k => f[z] = g[z]
      BY <2>1, <2>2, <3>1, <3>2, OneUpTo
    <3>. QED
      BY <3>1, <3>3, <3>4
  <2>4. whole[x] = f[x]
    BY <1>3
  <2>. HIDE DEF f
  <2>5. f[x] = B[<<x, f>>]
    BY <2>1, <2>2 DEF UpTo
  <2>6. B[<<x, f>>] = B[<<x, whole>>]
    BY <1>3, <2>2, <2>3 DEF LooksBelow
  <2>. QED
    BY <2>4, <2>5, <2>6
<1>5. \E f \in [S -> R] : \A x \in S : f[x] = B[<<x, f>>]
  BY <1>3, <1>4
<1>. QED
  BY <1>5 DEF HasFunction

-----------------------------------------------------------------------------
(* Reading a whole text *)

LEMMA FreeIsCell == Free \in Cell
BY DEF Free, Cell, Kinds, Pointer, NoString

LEMMA NewItemFields ==
  ASSUME NEW h \in Heap
  PROVE  LET new == New_Item(h, "invalid")
         IN /\ new.heap \in Heap /\ new.node \in Pointer
            /\ new.node = NULL => new.heap = h
            /\ new.node # NULL =>
                 /\ h[new.node].kind = "free"
                 /\ new.heap = [h EXCEPT ![new.node] = [Free EXCEPT !.kind = "invalid"]]
<1>. DEFINE free == Node \ Live(h)
            n == CHOOSE x \in free : TRUE
            c == [Free EXCEPT !.kind = "invalid"]
            new == New_Item(h, "invalid")
<1>1. c \in Cell
  BY FreeIsCell DEF Cell, Kinds
<1>2. CASE free = {}
  <2>1. new = [heap |-> h, node |-> NULL]
    BY <1>2 DEF New_Item
  <2>. HIDE DEF new
  <2>2. new.heap = h /\ new.node = NULL
    BY <2>1
  <2>. QED
    BY <2>2 DEF new, Pointer
<1>3. CASE free # {}
  <2>1. n \in Node /\ h[n].kind = "free"
    <3>1. n \in free
      BY <1>3
    <3>. QED
      BY <3>1 DEF Live
  <2>2. new = [heap |-> [h EXCEPT ![n] = c], node |-> n]
    BY <1>3 DEF New_Item
  <2>. HIDE DEF new, n, c
  <2>3. new.heap = [h EXCEPT ![n] = c] /\ new.node = n
    BY <2>2
  <2>4. [h EXCEPT ![n] = c] \in Heap
    BY <1>1, <2>1 DEF Heap
  <2>5. n # NULL /\ n \in Pointer
    BY <2>1 DEF Pointer
  <2>. QED
    BY <2>1, <2>3, <2>4, <2>5 DEF new, c
<1>. QED
  BY <1>2, <1>3

LEMMA CellLinked ==
  ASSUME NEW c \in Cell, NEW p \in Pointer
  PROVE  /\ [c EXCEPT !.next = p] \in Cell /\ [c EXCEPT !.prev = p] \in Cell /\ [c EXCEPT !.child = p] \in Cell
         /\ \A kind \in Kinds : [c EXCEPT !.kind = kind] \in Cell
BY DEF Cell

LEMMA SuffixTyped ==
  ASSUME NEW h \in Heap, NEW p \in Pointer, NEW n \in Node
  PROVE  suffix_object(h, p, n) \in Heap
<1>. DEFINE g == [h EXCEPT ![p].next = n]
<1>1. p \in Pointer /\ n \in Pointer
  BY DEF Pointer
<1>2. g \in Heap
  <2>1. CASE p = NULL
    <3>1. g = h
      BY <2>1 DEF Heap
    <3>. QED
      BY <3>1
  <2>2. CASE p # NULL
    <3>1. p \in Node
      BY <2>2 DEF Pointer
    <3>2. h[p] \in Cell
      BY <3>1 DEF Heap
    <3>. DEFINE c == [h[p] EXCEPT !.next = n]
    <3>3. c \in Cell
      BY <1>1, <3>2, CellLinked
    <3>4. g = [h EXCEPT ![p] = c]
      OBVIOUS
    <3>. HIDE DEF c, g
    <3>. QED
      BY <3>1, <3>3, <3>4 DEF Heap
  <2>. QED
    BY <2>1, <2>2
<1>. DEFINE d == [g[n] EXCEPT !.prev = p]
<1>3. d \in Cell
  <2>1. g[n] \in Cell
    <3>. HIDE DEF g
    <3>. QED
      BY <1>2 DEF Heap
  <2>. HIDE DEF g
  <2>. QED
    BY <2>1, <1>1, CellLinked
<1>4. suffix_object(h, p, n) = [g EXCEPT ![n] = d]
  BY DEF suffix_object
<1>. HIDE DEF d, g
<1>. QED
  BY <1>2, <1>3, <1>4 DEF Heap

LEMMA DeleteTyped ==
  ASSUME NEW h \in Heap, NEW item
  PROVE  Delete(h, item) \in Heap
<1>1. ASSUME NEW gone PROVE [n \in Node |-> IF n \in gone THEN Free ELSE h[n]] \in Heap
  BY FreeIsCell DEF Heap
<1>. QED
  BY <1>1 DEF Delete

-----------------------------------------------------------------------------
(* Reading goes on *)

\* What is read of a text never moves the reader back; and unless it fails, it
\* leaves the reader at the depth it found it at.
Further(b, r) == r \in ParseBuffer /\ b.offset <= r.offset /\ (r.ok => b.ok /\ r.depth = b.depth)

LEMMA FurtherOn ==
  ASSUME NEW a \in ParseBuffer, NEW b, Further(a, b), NEW c, Further(b, c)
  PROVE  Further(a, c)
BY DEF Further, ParseBuffer

LEMMA SkipFields ==
  ASSUME NEW b \in ParseBuffer, NEW k \in Int, b.offset + k \in Nat
  PROVE  LET r == Skip(b, k)
         IN /\ r \in ParseBuffer /\ r.offset = b.offset + k /\ r.outside = b.outside /\ r.heap = b.heap
            /\ r.depth = b.depth /\ r.head = b.head /\ r.ok = b.ok
BY DEF Skip, ParseBuffer

LEMMA FailFields ==
  ASSUME NEW b \in ParseBuffer
  PROVE  LET r == Fail(b)
         IN /\ r \in ParseBuffer /\ r.offset = b.offset /\ r.outside = b.outside /\ r.heap = b.heap
            /\ r.depth = b.depth /\ r.head = b.head /\ ~r.ok
BY DEF Fail, ParseBuffer

LEMMA FailFurther ==
  ASSUME NEW b \in ParseBuffer
  PROVE  Further(b, Fail(b))
<1>1. Fail(b) \in ParseBuffer /\ Fail(b).offset = b.offset /\ ~Fail(b).ok
  BY FailFields
<1>2. b.offset <= b.offset
  BY DEF ParseBuffer
<1>. QED
  BY <1>1, <1>2 DEF Further

\* White space goes on to a character that is none, or to the last one.
LEMMA WhitespaceMoves ==
  ASSUME NEW t \in Seq(Byte), NEW b \in ParseBuffer, Can(t, b)
  PROVE  \E k \in Nat : b.offset <= k /\ k < Len(t) /\ buffer_skip_whitespace(t, b) = MovedTo(b, k)
<1>. DEFINE rest == {i \in b.offset..(Len(t) - 1) : t[i + 1] > 32}
            k == IF rest = {} THEN Len(t) - 1 ELSE CHOOSE i \in rest : \A j \in rest : i <= j
            r == buffer_skip_whitespace(t, b)
<1>1. b.offset \in Nat /\ b.offset < Len(t) /\ Len(t) \in Nat
  BY DEF Can, ParseBuffer
<1>2. r = MovedTo(b, k)
  <2>1. CASE rest = {}
    BY <2>1 DEF buffer_skip_whitespace, MovedTo
  <2>2. CASE rest # {}
    <3>1. r = [b EXCEPT !.offset = CHOOSE i \in rest : \A j \in rest : i <= j]
      BY <2>2 DEF buffer_skip_whitespace
    <3>2. k = CHOOSE i \in rest : \A j \in rest : i <= j
      BY <2>2
    <3>. HIDE DEF r, rest, k
    <3>. QED
      BY <3>1, <3>2 DEF MovedTo
  <2>. QED
    BY <2>1, <2>2
<1>3. k \in Nat /\ b.offset <= k /\ k < Len(t)
  <2>1. CASE rest = {}
    BY <1>1, <2>1
  <2>2. CASE rest # {}
    <3>1. rest \subseteq Nat /\ \A i \in rest : b.offset <= i /\ i < Len(t)
      BY <1>1
    <3>2. k = CHOOSE i \in rest : \A j \in rest : i <= j
      BY <2>2
    <3>3. k \in rest
      <4>. HIDE DEF rest, k
      <4>. QED
        BY <2>2, <3>1, <3>2, FirstOf
    <3>. HIDE DEF rest, k
    <3>. QED
      BY <3>1, <3>3
  <2>. QED
    BY <2>1, <2>2
<1>. HIDE DEF k, r
<1>4. \E j \in Nat : b.offset <= j /\ j < Len(t) /\ r = MovedTo(b, j)
  BY <1>2, <1>3
<1>. QED
  BY <1>4 DEF r

LEMMA WhitespaceFurther ==
  ASSUME NEW t \in Seq(Byte), NEW b \in ParseBuffer
  PROVE  LET r == buffer_skip_whitespace(t, b)
         IN /\ Further(b, r) /\ r.ok = b.ok /\ r.heap = b.heap /\ r.depth = b.depth
            /\ Can(t, r) => Can(t, b)
<1>. DEFINE r == buffer_skip_whitespace(t, b)
<1>1. CASE ~Can(t, b)
  <2>1. r = b
    BY <1>1 DEF buffer_skip_whitespace
  <2>2. b.offset <= b.offset
    BY DEF ParseBuffer
  <2>. HIDE DEF r
  <2>. QED
    BY <2>1, <2>2 DEF Further, r
<1>2. CASE Can(t, b)
  <2>1. PICK k \in Nat : b.offset <= k /\ k < Len(t) /\ r = MovedTo(b, k)
    BY <1>2, WhitespaceMoves
  <2>. HIDE DEF r
  <2>2. r \in ParseBuffer /\ r.offset = k /\ r.ok = b.ok /\ r.heap = b.heap /\ r.depth = b.depth
    BY <2>1, MovedFields
  <2>. QED
    BY <1>2, <2>1, <2>2 DEF Further, r
<1>. QED
  BY <1>1, <1>2

LEMMA EndingTyped ==
  ASSUME NEW t \in Seq(Byte), NEW k \in Nat
  PROVE  StringEnd(t, k) \in Ending
<1>1. Len(t) \in Nat
  OBVIOUS
<1>. QED
  BY <1>1, StringEndStep

LEMMA EndingBounds ==
  ASSUME NEW t \in Seq(Byte), NEW k \in Nat, k <= Len(t)
  PROVE  StringEnd(t, k).at \in k..Len(t)
<1>1. Len(t) \in Nat
  OBVIOUS
<1>. QED
  BY <1>1, StringEndsAtQuote

LEMMA StringFurther ==
  ASSUME NEW t \in Seq(Byte), NEW b \in ParseBuffer, NEW n \in Node
  PROVE  Further(b, parse_string(t, b, n))
<1>. DEFINE start == b.offset + 1
            end == StringEnd(t, start)
            read == Unescape(t, start, end.at)
            r == parse_string(t, b, n)
<1>1. b.offset \in Nat /\ start \in Nat /\ b.offset <= start /\ Len(t) \in Nat /\ b.outside \in BOOLEAN
  BY DEF ParseBuffer
<1>2. end \in Ending
  <2>. HIDE DEF start
  <2>. QED
    BY <1>1, EndingTyped
<1>3. CASE Look(t, b) # Quote \/ end.at = Len(t)
  <2>. DEFINE o == b.outside \/ ~Can(t, b)
  <2>1. r = [Fail(b) EXCEPT !.offset = start, !.outside = o]
    BY <1>3 DEF parse_string, Fail, ParseBuffer
  <2>2. o \in BOOLEAN
    OBVIOUS
  <2>. HIDE DEF r, o, start
  <2>3. r \in ParseBuffer /\ r.offset = start /\ ~r.ok
    BY <1>1, <2>1, <2>2 DEF Fail, ParseBuffer
  <2>. QED
    BY <1>1, <2>3 DEF Further, r
<1>4. CASE ~(Look(t, b) # Quote \/ end.at = Len(t))
  <2>1. r = TakeString(b, n, end, read)
    BY <1>4 DEF parse_string
  <2>2. b.offset < Len(t)
    BY <1>4 DEF Look, Can, Quote
  <2>3. end.at \in start..Len(t) /\ end.at # Len(t)
    <3>1. start <= Len(t)
      BY <1>1, <2>2
    <3>. HIDE DEF start
    <3>. QED
      BY <1>1, <1>4, <3>1, EndingBounds
  <2>4. end.at \in Nat /\ end.at < Len(t) /\ start <= end.at
    BY <1>1, <2>3
  <2>5. read \in Reading /\ read.at \in start..end.at
    <3>. HIDE DEF start, end
    <3>. QED
      BY <1>1, <2>4, UnescapeStep, ReadsOn
  <2>6. read.at \in Nat /\ read.out \in Seq(Byte) /\ b.offset <= read.at
    <3>. HIDE DEF end, read
    <3>. QED
      BY <1>1, <2>5 DEF Reading
  <2>. HIDE DEF read, end
  <2>. DEFINE short == Allocation(b, end) > MaxString
  <2>. HIDE DEF short
  <2>9. CASE short
    <3>1. r = StoppedAt(b, start)
      <4>1. r = [Fail(b) EXCEPT !.offset = Fail(b).offset + 1] /\ Fail(b).offset = b.offset
        BY <2>1, <2>9 DEF TakeString, Fail, ParseBuffer, short
      <4>. QED
        BY <4>1 DEF StoppedAt
    <3>. HIDE DEF r, start
    <3>2. r \in ParseBuffer /\ r.ok = FALSE /\ r.offset = start
      BY <1>1, <3>1, StoppedFields
    <3>. QED
      BY <1>1, <3>2 DEF Further, r
  <2>7. CASE ~short /\ read.at < end.at
    <3>1. r = StoppedAt(b, read.at)
      BY <2>1, <2>7 DEF TakeString, StoppedAt, short
    <3>. HIDE DEF r
    <3>2. r \in ParseBuffer /\ r.ok = FALSE /\ r.offset = read.at
      BY <2>6, <3>1, StoppedFields
    <3>. QED
      BY <2>6, <3>2 DEF Further, r
  <2>8. CASE ~short /\ ~(read.at < end.at)
    <3>. DEFINE s == CString(read.out)
                o == b.outside \/ Len(read.out) + 1 > end.at - b.offset - end.skipped + 1
    <3>1. r = StringAt(b, end.at + 1, n, s, o)
      BY <2>1, <2>8 DEF TakeString, StringAt, Allocation, short
    <3>2. s \in Seq(Int) /\ o \in BOOLEAN
      <4>1. s \in Seq(Byte)
        BY <2>6, CStringEnds
      <4>. HIDE DEF s
      <4>. QED
        BY <4>1, BytesAreInts
    <3>3. end.at + 1 \in Nat /\ b.offset <= end.at + 1
      BY <1>1, <2>4
    <3>. HIDE DEF r, s, o
    <3>4. r \in ParseBuffer /\ r.ok = b.ok /\ r.offset = end.at + 1 /\ r.depth = b.depth
      BY <3>1, <3>2, <3>3, StringFields
    <3>. QED
      BY <3>3, <3>4 DEF Further, r
  <2>. QED
    BY <2>7, <2>8, <2>9
<1>. QED
  BY <1>3, <1>4

LEMMA NumberFurther ==
  ASSUME NEW t \in Seq(Byte), NEW b \in ParseBuffer, Can(t, b), NEW n \in Node
  PROVE  Further(b, parse_number(t, b, n))
<1>. DEFINE minus == IF Look(t, b) = 45 THEN 1 ELSE 0
            i == b.offset + minus
            digits == Digits(t, i)
            number == NumberOf(digits)
            x == IF minus = 1 THEN -number ELSE number
            m == minus + Len(digits)
            r == parse_number(t, b, n)
<1>1. b.offset \in Nat /\ i \in Nat /\ i <= Len(t) /\ Len(t) \in Nat /\ minus \in Nat
  BY DEF Can, ParseBuffer
<1>2. digits \in Seq(Int) /\ Len(digits) \in Nat
  <2>. HIDE DEF i
  <2>1. digits \in Seq(Int)
    BY <1>1, DigitsEnd
  <2>. HIDE DEF digits
  <2>. QED
    BY <2>1
<1>3. r = IF digits = << >> THEN Fail(b) ELSE NumberAt(b, m, n, x)
  BY DEF parse_number, NumberAt
<1>. HIDE DEF digits
<1>4. x \in Int
  <2>1. number \in Int
    BY <1>2, NumberIsNumber
  <2>. HIDE DEF number
  <2>. QED
    BY <2>1
<1>5. m \in Nat /\ b.offset <= b.offset + m
  BY <1>1, <1>2
<1>. HIDE DEF r, x, m
<1>6. CASE digits = << >>
  BY <1>3, <1>6, FailFurther DEF r
<1>7. CASE digits # << >>
  <2>1. r = NumberAt(b, m, n, x)
    BY <1>3, <1>7
  <2>2. LET q == NumberAt(b, m, n, x)
        IN q \in ParseBuffer /\ q.ok = b.ok /\ q.offset = b.offset + m /\ q.depth = b.depth
    BY <1>4, <1>5, NumberFields
  <2>3. r \in ParseBuffer /\ r.ok = b.ok /\ r.offset = b.offset + m /\ r.depth = b.depth
    BY <2>1, <2>2
  <2>. QED
    BY <1>5, <2>3 DEF Further, r
<1>. QED
  BY <1>6, <1>7

LEMMA ColonFurther ==
  ASSUME NEW t \in Seq(Byte), NEW b \in ParseBuffer
  PROVE  Further(b, SkipColon(t, b))
<1>1. CASE ~b.ok
  <2>1. b.offset <= b.offset
    BY DEF ParseBuffer
  <2>. QED
    BY <1>1, <2>1 DEF SkipColon, Further
<1>2. CASE b.ok /\ Look(t, b) # 58
  BY <1>2, FailFurther DEF SkipColon
<1>3. CASE b.ok /\ Look(t, b) = 58
  <2>. DEFINE q == Skip(b, 1)
  <2>1. SkipColon(t, b) = buffer_skip_whitespace(t, q)
    BY <1>3 DEF SkipColon
  <2>2. b.offset + 1 \in Nat /\ b.offset <= b.offset + 1
    BY DEF ParseBuffer
  <2>3. q \in ParseBuffer /\ q.offset = b.offset + 1 /\ q.ok = b.ok /\ q.depth = b.depth
    BY <2>2, SkipFields
  <2>. HIDE DEF q
  <2>4. Further(b, q)
    BY <2>2, <2>3 DEF Further
  <2>5. Further(q, buffer_skip_whitespace(t, q))
    BY <2>3, WhitespaceFurther
  <2>. QED
    BY <2>1, <2>4, <2>5, FurtherOn
<1>. QED
  BY <1>1, <1>2, <1>3

LEMMA NameFurther ==
  ASSUME NEW t \in Seq(Byte), NEW b \in ParseBuffer, NEW n \in Node, NEW kind
  PROVE  Further(b, parse_name(t, b, n, kind))
<1>1. CASE kind = "array"
  <2>1. b.offset <= b.offset
    BY DEF ParseBuffer
  <2>. QED
    BY <1>1, <2>1 DEF parse_name, Further
<1>2. CASE kind # "array"
  <2>. DEFINE p == parse_string(t, b, n)
              q == TakeName(t, p, n)
              r == SkipColon(t, q)
  <2>1. parse_name(t, b, n, kind) = r
    BY <1>2 DEF parse_name
  <2>2. Further(b, p)
    BY StringFurther
  <2>. HIDE DEF p
  <2>3. p \in ParseBuffer
    BY <2>2 DEF Further
  <2>4. Further(p, q)
    <3>1. CASE ~p.ok
      <4>1. p.offset <= p.offset
        BY <2>3 DEF ParseBuffer
      <4>. QED
        BY <2>3, <3>1, <4>1 DEF TakeName, Further
    <3>2. CASE p.ok
      <4>. DEFINE w == buffer_skip_whitespace(t, p)
                  s == p.heap[n].val
      <4>1. q = NamedAt(w, n, s)
        BY <3>2 DEF TakeName, NamedAt
      <4>2. s \in Seq(Int)
        BY <2>3 DEF ParseBuffer, Heap, Cell
      <4>3. Further(p, w)
        BY <2>3, WhitespaceFurther
      <4>. HIDE DEF q, w, s
      <4>4. w \in ParseBuffer
        BY <4>3 DEF Further
      <4>5. q \in ParseBuffer /\ q.ok = w.ok /\ q.offset = w.offset /\ q.depth = w.depth
        <5>1. LET z == NamedAt(w, n, s)
              IN z \in ParseBuffer /\ z.ok = w.ok /\ z.offset = w.offset /\ z.depth = w.depth
          BY <4>2, <4>4, NamedFields
        <5>. QED
          BY <4>1, <5>1
      <4>6. Further(p, q)
        BY <4>3, <4>5 DEF Further
      <4>. QED
        BY <4>6 DEF q
    <3>. QED
      BY <3>1, <3>2
  <2>5. q \in ParseBuffer
    BY <2>4 DEF Further
  <2>. HIDE DEF q
  <2>6. Further(q, r)
    BY <2>5, ColonFurther
  <2>7. Further(p, r)
    BY <2>3, <2>4, <2>6, FurtherOn
  <2>8. Further(b, r)
    BY <2>2, <2>7, FurtherOn
  <2>. QED
    BY <2>1, <2>8
<1>. QED
  BY <1>1, <1>2

LEMMA LiteralFurther ==
  ASSUME NEW b \in ParseBuffer, NEW n \in Node, NEW word \in Literals
  PROVE  LET r == parse_literal(b, n, word)
         IN /\ Further(b, r) /\ r.ok = b.ok /\ r.outside = b.outside
            /\ r.offset = Skip(b, Len(Str(word))).offset /\ r.heap \in Heap
<1>. DEFINE k == Len(Str(word))
            h == [b.heap EXCEPT ![n].kind = word]
            q == Skip(b, k)
            r == parse_literal(b, n, word)
<1>1. k \in Nat
  BY DEF Str, Literals
<1>2. h \in Heap /\ b.offset \in Nat
  <2>1. word \in Kinds
    BY DEF Literals, Kinds
  <2>2. b.heap \in Heap /\ b.heap[n] \in Cell
    BY DEF ParseBuffer, Heap
  <2>. DEFINE c == [b.heap[n] EXCEPT !.kind = word]
  <2>3. c \in Cell
    BY <2>1, <2>2 DEF Cell
  <2>4. h = [b.heap EXCEPT ![n] = c]
    OBVIOUS
  <2>. HIDE DEF c, h
  <2>. QED
    BY <2>2, <2>3, <2>4 DEF Heap, ParseBuffer
<1>. HIDE DEF k
<1>3. q \in ParseBuffer /\ q.offset = b.offset + k /\ q.outside = b.outside /\ q.heap = b.heap /\ q.depth = b.depth /\ q.ok = b.ok
  BY <1>1, <1>2, SkipFields
<1>4. r = [q EXCEPT !.heap = h]
  <2>1. r = [q EXCEPT !.heap[n].kind = word]
    BY DEF parse_literal, k
  <2>. HIDE DEF r, q
  <2>. QED
    BY <1>3, <2>1 DEF ParseBuffer
<1>. HIDE DEF h, q, r
<1>5. r \in ParseBuffer /\ r.offset = q.offset /\ r.outside = q.outside /\ r.depth = q.depth /\ r.ok = q.ok /\ r.heap = h
  BY <1>2, <1>3, <1>4 DEF ParseBuffer
<1>6. b.offset <= r.offset
  BY <1>1, <1>2, <1>3, <1>5
<1>7. Further(b, r)
  BY <1>3, <1>5, <1>6 DEF Further
<1>. QED
  BY <1>2, <1>3, <1>5, <1>7 DEF r, q, k

\* What reads the items of a list goes on in the text, wherever it begins.
Proper(f) == \A y \in Unfinished : Further(y.at, f[y])

LEMMA FurtherAfter ==
  ASSUME NEW a \in ParseBuffer, NEW k \in Nat, NEW c, Further(Skip(a, k), c)
  PROVE  Further(a, c)
<1>1. a.offset + k \in Nat /\ a.offset <= a.offset + k /\ a.offset \in Nat
  BY DEF ParseBuffer
<1>2. Skip(a, k) \in ParseBuffer /\ Skip(a, k).offset = a.offset + k /\ Skip(a, k).ok = a.ok /\ Skip(a, k).depth = a.depth
  BY <1>1, SkipFields
<1>3. c.offset \in Nat
  BY DEF Further, ParseBuffer
<1>4. a.offset <= c.offset
  BY <1>1, <1>2, <1>3 DEF Further
<1>. QED
  BY <1>2, <1>4 DEF Further

\* One level deeper, behind the bracket, and what follows it.
DeeperAt(b) == [b EXCEPT !.depth = @ + 1]
InsideOf(t, b) == buffer_skip_whitespace(t, Skip(DeeperAt(b), 1))

LEMMA InsideFields ==
  ASSUME NEW t \in Seq(Byte), NEW b \in ParseBuffer
  PROVE  LET i == InsideOf(t, b)
         IN /\ i \in ParseBuffer /\ b.offset + 1 <= i.offset /\ i.ok = b.ok /\ i.depth = b.depth + 1
            /\ i.heap = b.heap /\ (Can(t, i) => b.offset + 1 < Len(t))
<1>. DEFINE d == DeeperAt(b)
            s == Skip(d, 1)
            i == InsideOf(t, b)
<1>1. d \in ParseBuffer /\ d.offset = b.offset /\ d.ok = b.ok /\ d.depth = b.depth + 1 /\ d.heap = b.heap /\ d.head = b.head /\ d.outside = b.outside
  BY DEF DeeperAt, ParseBuffer
<1>2. b.offset \in Nat /\ b.offset + 1 \in Nat
  BY DEF ParseBuffer
<1>. HIDE DEF d
<1>3. s \in ParseBuffer /\ s.offset = b.offset + 1 /\ s.ok = b.ok /\ s.depth = b.depth + 1 /\ s.heap = b.heap
  <2>1. s \in ParseBuffer /\ s.offset = d.offset + 1 /\ s.ok = d.ok /\ s.depth = d.depth /\ s.heap = d.heap
    BY <1>1, <1>2, SkipFields
  <2>. QED
    BY <1>1, <2>1
<1>4. i = buffer_skip_whitespace(t, s)
  BY DEF InsideOf, d
<1>. HIDE DEF s, i
<1>5. Further(s, i) /\ i.ok = s.ok /\ i.heap = s.heap /\ i.depth = s.depth /\ (Can(t, i) => Can(t, s))
  BY <1>3, <1>4, WhitespaceFurther
<1>6. Can(t, s) => b.offset + 1 < Len(t)
  BY <1>3 DEF Can
<1>. QED
  BY <1>3, <1>5, <1>6 DEF Further, i

\* Where the items of a list are read from.
BeginsAt(b, kind) == [at |-> Skip(b, -1), kind |-> kind, head |-> NULL, last |-> NULL]

LEMMA BeginFields ==
  ASSUME NEW t \in Seq(Byte), NEW b \in ParseBuffer, NEW kind \in {"array", "object"}
  PROVE  LET i == InsideOf(t, b)
             y == BeginsAt(i, kind)
         IN /\ y \in Unfinished /\ y.at.offset = i.offset - 1 /\ y.at.ok = b.ok /\ y.at.depth = b.depth + 1
            /\ y.at.outside = i.outside /\ b.offset <= y.at.offset /\ y.at.offset + 1 = i.offset
            /\ y.kind = kind /\ y.head = NULL /\ y.at.heap = b.heap
<1>. DEFINE i == InsideOf(t, b)
            y == BeginsAt(i, kind)
            s == Skip(i, -1)
<1>1. i \in ParseBuffer /\ b.offset + 1 <= i.offset /\ i.ok = b.ok /\ i.depth = b.depth + 1 /\ i.heap = b.heap
  BY InsideFields
<1>. HIDE DEF i
<1>2. b.offset \in Nat /\ i.offset \in Nat
  BY <1>1 DEF ParseBuffer
<1>3. i.offset + (-1) \in Nat /\ b.offset <= i.offset + (-1) /\ i.offset + (-1) = i.offset - 1 /\ (i.offset - 1) + 1 = i.offset
  BY <1>1, <1>2
<1>4. s \in ParseBuffer /\ s.offset = i.offset + (-1) /\ s.ok = i.ok /\ s.depth = i.depth /\ s.outside = i.outside /\ s.heap = i.heap
  BY <1>1, <1>3, SkipFields
<1>. HIDE DEF s
<1>5. y = [at |-> s, kind |-> kind, head |-> NULL, last |-> NULL]
  BY DEF BeginsAt, s
<1>. HIDE DEF y
<1>6. NULL \in Pointer
  BY DEF Pointer
<1>7. y \in Unfinished /\ y.at = s /\ y.kind = kind /\ y.head = NULL
  BY <1>4, <1>5, <1>6 DEF Unfinished
<1>8. s.offset = i.offset - 1 /\ s.offset + 1 = i.offset /\ b.offset <= s.offset
  BY <1>3, <1>4
<1>. QED
  BY <1>1, <1>4, <1>7, <1>8 DEF y, i

\* The list is read; its kind and first item are put into its node.
WithList(h, n, kind, first) == [h EXCEPT ![n] = [@ EXCEPT !.kind = kind, !.child = first]]

LEMMA ListInHeap ==
  ASSUME NEW h \in Heap, NEW n \in Node, NEW kind \in {"array", "object"}, NEW p \in Pointer
  PROVE  WithList(h, n, kind, p) \in Heap
<1>. DEFINE c == [h[n] EXCEPT !.kind = kind, !.child = p]
<1>1. h[n] \in Cell
  BY DEF Heap
<1>2. c \in Cell
  BY <1>1 DEF Cell, Kinds
<1>3. WithList(h, n, kind, p) = [h EXCEPT ![n] = c]
  BY DEF WithList
<1>. HIDE DEF c
<1>. QED
  BY <1>2, <1>3 DEF Heap

ClosedAt(b, n, kind) == [Skip(b, 1) EXCEPT !.depth = @ - 1, !.heap[n].kind = kind, !.heap[n].child = b.head]

LEMMA ClosedFields ==
  ASSUME NEW b \in ParseBuffer, NEW n \in Node, NEW kind \in {"array", "object"}, b.depth - 1 \in Nat
  PROVE  LET r == ClosedAt(b, n, kind)
         IN /\ r \in ParseBuffer /\ r.ok = b.ok /\ r.offset = b.offset + 1 /\ r.depth = b.depth - 1
            /\ r.outside = b.outside /\ r.heap = WithList(b.heap, n, kind, b.head)
<1>. DEFINE q == Skip(b, 1)
            r == ClosedAt(b, n, kind)
            h == WithList(b.heap, n, kind, b.head)
<1>1. b.offset + 1 \in Nat /\ b.heap \in Heap /\ b.head \in Pointer
  BY DEF ParseBuffer
<1>2. /\ q \in ParseBuffer /\ q.offset = b.offset + 1 /\ q.outside = b.outside /\ q.heap = b.heap /\ q.depth = b.depth
      /\ q.ok = b.ok /\ q.head = b.head
  BY <1>1, SkipFields
<1>3. h \in Heap
  BY <1>1, ListInHeap
<1>4. r = [q EXCEPT !.depth = @ - 1, !.heap[n].kind = kind, !.heap[n].child = b.head]
  BY DEF ClosedAt
<1>5. h = [[b.heap EXCEPT ![n].kind = kind] EXCEPT ![n].child = b.head]
  <2>1. b.heap[n] \in Cell
    BY <1>1 DEF Heap
  <2>. QED
    BY <1>1, <2>1 DEF WithList, Heap, Cell
<1>. HIDE DEF q, r, h
<1>6. r = [q EXCEPT !.depth = b.depth - 1, !.heap = h]
  <2>1. r = [q EXCEPT !.depth = q.depth - 1,
                       !.heap = [[q.heap EXCEPT ![n].kind = kind] EXCEPT ![n].child = b.head]]
    <3>1. q \in ParseBuffer
      BY <1>2
    <3>2. [q EXCEPT !.depth = @ - 1, !.heap[n].kind = kind, !.heap[n].child = b.head]
          = [q EXCEPT !.depth = q.depth - 1,
                     !.heap = [[q.heap EXCEPT ![n].kind = kind] EXCEPT ![n].child = b.head]]
      BY <3>1 DEF ParseBuffer
    <3>. QED
      BY <1>4, <3>2
  <2>. QED
    BY <1>2, <1>5, <2>1
<1>7. r \in ParseBuffer /\ r.ok = q.ok /\ r.offset = q.offset /\ r.depth = b.depth - 1 /\ r.outside = q.outside /\ r.heap = h
  BY <1>2, <1>3, <1>6 DEF ParseBuffer
<1>. QED
  BY <1>2, <1>7 DEF r, h

\* One level deeper and back, the reader stands where it was.
LEMMA DeepFurther ==
  ASSUME NEW b \in ParseBuffer, NEW n \in Node, NEW kind \in {"array", "object"},
         NEW z \in ParseBuffer, b.offset <= z.offset, z.ok => b.ok /\ z.depth = b.depth + 1
  PROVE  Further(b, ListClosed(z, n, kind))
<1>1. CASE ~z.ok
  BY <1>1 DEF ListClosed, Further
<1>2. CASE z.ok
  <2>1. ListClosed(z, n, kind) = ClosedAt(z, n, kind)
    BY <1>2 DEF ListClosed, ClosedAt
  <2>. DEFINE r == ClosedAt(z, n, kind)
  <2>2. z.depth - 1 \in Nat /\ z.depth - 1 = b.depth /\ b.offset \in Nat /\ z.offset \in Nat
    BY <1>2 DEF ParseBuffer
  <2>3. r \in ParseBuffer /\ r.ok = z.ok /\ r.offset = z.offset + 1 /\ r.depth = z.depth - 1
    BY <2>2, ClosedFields
  <2>. HIDE DEF r
  <2>4. b.offset <= r.offset /\ r.depth = b.depth /\ (r.ok => b.ok)
    BY <2>2, <2>3
  <2>5. Further(b, r)
    BY <2>3, <2>4 DEF Further
  <2>. QED
    BY <2>1, <2>5 DEF r
<1>. QED
  BY <1>1, <1>2

LEMMA HeadedFields ==
  ASSUME NEW b \in ParseBuffer, NEW p \in Pointer
  PROVE  LET r == [b EXCEPT !.head = p]
         IN /\ r \in ParseBuffer /\ r.ok = b.ok /\ r.offset = b.offset /\ r.depth = b.depth
            /\ r.outside = b.outside /\ r.heap = b.heap /\ r.head = p
BY DEF ParseBuffer

LEMMA ListFurther ==
  ASSUME NEW t \in Seq(Byte), NEW f, Proper(f), NEW b \in ParseBuffer, NEW n \in Node,
         NEW kind \in {"array", "object"}
  PROVE  Further(b, parse_list(t, f, b, n, kind))
<1>. DEFINE i == InsideOf(t, b)
            z == ListInside(t, f, i, kind)
            y == BeginsAt(i, kind)
            r == parse_list(t, f, b, n, kind)
<1>1. r = IF b.depth >= Nesting THEN Fail(b)
          ELSE IF ~Can(t, i) THEN Fail(Skip(i, -1))
          ELSE ListClosed(z, n, kind)
  BY DEF parse_list, InsideOf, DeeperAt
<1>2. i \in ParseBuffer /\ b.offset + 1 <= i.offset /\ i.ok = b.ok /\ i.depth = b.depth + 1
  BY InsideFields
<1>3. y \in Unfinished /\ y.at.ok = b.ok /\ y.at.depth = b.depth + 1 /\ b.offset <= y.at.offset /\ y.at = Skip(i, -1)
  <2>1. y \in Unfinished /\ y.at.ok = b.ok /\ y.at.depth = b.depth + 1 /\ b.offset <= y.at.offset
    BY BeginFields
  <2>2. y.at = Skip(i, -1)
    BY DEF BeginsAt
  <2>. QED
    BY <2>1, <2>2
<1>4. b.offset \in Nat /\ i.offset \in Nat /\ y.at.offset \in Nat /\ y.at \in ParseBuffer
  BY <1>2, <1>3 DEF ParseBuffer, Unfinished
<1>5. z \in ParseBuffer /\ b.offset <= z.offset /\ (z.ok => b.ok /\ z.depth = b.depth + 1)
  <2>1. CASE Look(t, i) = Closing(kind)
    <3>1. z = [i EXCEPT !.head = NULL]
      BY <2>1 DEF ListInside
    <3>2. NULL \in Pointer
      BY DEF Pointer
    <3>. HIDE DEF z, i
    <3>3. z \in ParseBuffer /\ z.ok = i.ok /\ z.offset = i.offset /\ z.depth = i.depth
      BY <1>2, <3>1, <3>2, HeadedFields
    <3>. QED
      BY <1>2, <1>4, <3>3
  <2>2. CASE Look(t, i) # Closing(kind)
    <3>1. z = f[y]
      BY <2>2 DEF ListInside, BeginsAt
    <3>. HIDE DEF z, y
    <3>2. Further(y.at, z)
      BY <1>3, <3>1 DEF Proper
    <3>3. z \in ParseBuffer /\ y.at.offset <= z.offset /\ (z.ok => y.at.ok /\ z.depth = y.at.depth)
      BY <3>2 DEF Further
    <3>4. z.offset \in Nat
      BY <3>3 DEF ParseBuffer
    <3>5. b.offset <= z.offset
      BY <1>3, <1>4, <3>3, <3>4
    <3>. QED
      BY <1>3, <3>3, <3>5
  <2>. QED
    BY <2>1, <2>2
<1>6. Further(b, Fail(b))
  BY FailFurther
<1>7. Further(b, Fail(Skip(i, -1)))
  <2>. DEFINE s == y.at
  <2>1. s \in ParseBuffer /\ b.offset <= s.offset
    BY <1>3, <1>4
  <2>2. Skip(i, -1) = s
    BY <1>3
  <2>. HIDE DEF s, y, i
  <2>3. Fail(s) \in ParseBuffer /\ Fail(s).offset = s.offset /\ ~Fail(s).ok
    BY <2>1, FailFields
  <2>4. Further(b, Fail(s))
    BY <2>1, <2>3 DEF Further
  <2>. QED
    BY <2>2, <2>4
<1>8. Further(b, ListClosed(z, n, kind))
  <2>. HIDE DEF z
  <2>. QED
    BY <1>5, DeepFurther
<1>. HIDE DEF r, z, i
<1>9. Further(b, r)
  BY <1>1, <1>6, <1>7, <1>8
<1>. QED
  BY <1>9 DEF r

LEMMA ValueFurther ==
  ASSUME NEW t \in Seq(Byte), NEW f, Proper(f), NEW b \in ParseBuffer, NEW n \in Node
  PROVE  Further(b, parse_value(t, f, b, n))
<1>. DEFINE r == parse_value(t, f, b, n)
<1>1. ASSUME NEW word \in Literals PROVE Further(b, parse_literal(b, n, word))
  BY LiteralFurther
<1>2. CASE StartsWith(t, b, Str("null")) \/ StartsWith(t, b, Str("false")) \/ StartsWith(t, b, Str("true"))
  <2>1. r \in {parse_literal(b, n, word) : word \in Literals}
    BY <1>2 DEF parse_value, Literals
  <2>. HIDE DEF r
  <2>. QED
    BY <1>1, <2>1 DEF r
<1>3. CASE ~(StartsWith(t, b, Str("null")) \/ StartsWith(t, b, Str("false")) \/ StartsWith(t, b, Str("true")))
  <2>. DEFINE c == Look(t, b)
  <2>0. r = CASE c = Quote -> parse_string(t, b, n)
         [] c \in {45} \cup 48..57 -> parse_number(t, b, n)
         [] c = Opening("array") -> parse_array(t, f, b, n)
         [] c = Opening("object") -> parse_object(t, f, b, n)
         [] OTHER -> Fail(b)
    BY <1>3 DEF parse_value
  <2>. HIDE DEF r
  <2>1. Quote = 34 /\ Opening("array") = 91 /\ Opening("object") = 123
    BY DEF Quote, Opening
  <2>2. CASE c = Quote
    <3>1. r = parse_string(t, b, n)
      BY <2>0, <2>1, <2>2
    <3>. QED
      BY <3>1, StringFurther DEF r
  <2>3. CASE c \in {45} \cup 48..57
    <3>1. r = parse_number(t, b, n)
      BY <2>0, <2>1, <2>3
    <3>2. Can(t, b)
      <4>1. c # 0
        BY <2>3
      <4>. QED
        BY <4>1 DEF Look
    <3>. QED
      BY <3>1, <3>2, NumberFurther DEF r
  <2>4. CASE c = Opening("array")
    <3>1. r = parse_list(t, f, b, n, "array")
      BY <2>0, <2>1, <2>4 DEF parse_array
    <3>. QED
      BY <3>1, ListFurther DEF r
  <2>5. CASE c = Opening("object")
    <3>1. r = parse_list(t, f, b, n, "object")
      BY <2>0, <2>1, <2>5 DEF parse_object
    <3>. QED
      BY <3>1, ListFurther DEF r
  <2>6. CASE ~(c = Quote \/ c \in {45} \cup 48..57 \/ c = Opening("array") \/ c = Opening("object"))
    <3>1. r = Fail(b)
      BY <2>0, <2>6
    <3>. QED
      BY <3>1, FailFurther DEF r
  <2>. QED
    BY <2>2, <2>3, <2>4, <2>5, <2>6
<1>. QED
  BY <1>2, <1>3

\* The steps of reading one item: its node, where it is linked, its name.
NodeOf(x) == New_Item(x.at.heap, "invalid").node
LinkedTo(x) ==
  LET new == New_Item(x.at.heap, "invalid")
  IN IF x.head = NULL THEN new.heap ELSE suffix_object(new.heap, x.last, new.node)
NameAt(t, x) ==
  parse_name(t, buffer_skip_whitespace(t, Skip([x.at EXCEPT !.heap = LinkedTo(x)], 1)), NodeOf(x), x.kind)
HeadOf(x) == IF x.head = NULL THEN NodeOf(x) ELSE x.head
ValueAt(t, f, x) == ItemValue(t, f, NameAt(t, x), NodeOf(x))

LEMMA ReadItemsIs ==
  ASSUME NEW t, NEW f, NEW x
  PROVE  ReadItems(t, f, x) =
           IF NodeOf(x) = NULL THEN GiveUp(x.at, x.head)
           ELSE ItemsBehind(t, f, ValueAt(t, f, x), x.kind, HeadOf(x), NodeOf(x))
BY DEF ReadItems, NodeOf, LinkedTo, NameAt, HeadOf, ValueAt

LEMMA GiveUpFields ==
  ASSUME NEW b \in ParseBuffer, NEW first
  PROVE  LET r == GiveUp(b, first)
         IN /\ r \in ParseBuffer /\ r.offset = b.offset /\ r.outside = b.outside /\ r.ok = FALSE
            /\ r.heap = Delete(b.heap, first)
<1>. DEFINE h == Delete(b.heap, first)
            r == GiveUp(b, first)
<1>1. h \in Heap
  <2>1. b.heap \in Heap
    BY DEF ParseBuffer
  <2>. QED
    BY <2>1, DeleteTyped
<1>2. r = [b EXCEPT !.ok = FALSE, !.heap = h]
  BY DEF GiveUp, Fail, ParseBuffer
<1>. HIDE DEF h, r
<1>3. r \in ParseBuffer /\ r.offset = b.offset /\ r.outside = b.outside /\ r.ok = FALSE /\ r.heap = h
  BY <1>1, <1>2 DEF ParseBuffer
<1>. QED
  BY <1>3 DEF h, r

LEMMA GiveUpFurther ==
  ASSUME NEW b \in ParseBuffer, NEW first
  PROVE  Further(b, GiveUp(b, first))
<1>1. GiveUp(b, first) \in ParseBuffer /\ GiveUp(b, first).offset = b.offset /\ GiveUp(b, first).ok = FALSE
  BY GiveUpFields
<1>2. b.offset <= b.offset
  BY DEF ParseBuffer
<1>. QED
  BY <1>1, <1>2 DEF Further

LEMMA HeapFields ==
  ASSUME NEW b \in ParseBuffer, NEW h \in Heap
  PROVE  LET r == [b EXCEPT !.heap = h]
         IN /\ r \in ParseBuffer /\ r.ok = b.ok /\ r.offset = b.offset /\ r.depth = b.depth
            /\ r.outside = b.outside /\ r.heap = h /\ r.head = b.head
BY DEF ParseBuffer

LEMMA NodeFields ==
  ASSUME NEW x \in Unfinished
  PROVE  /\ x.at \in ParseBuffer /\ NodeOf(x) \in Pointer /\ x.head \in Pointer
         /\ x.kind \in {"array", "object"}
         /\ NodeOf(x) # NULL => NodeOf(x) \in Node /\ LinkedTo(x) \in Heap /\ HeadOf(x) \in Node
<1>1. x.at \in ParseBuffer /\ x.head \in Pointer /\ x.last \in Pointer /\ x.kind \in {"array", "object"}
  BY DEF Unfinished
<1>2. x.at.heap \in Heap
  BY <1>1 DEF ParseBuffer
<1>. DEFINE new == New_Item(x.at.heap, "invalid")
<1>3. new.heap \in Heap /\ new.node \in Pointer
  BY <1>2, NewItemFields
<1>4. NodeOf(x) = new.node
  BY DEF NodeOf
<1>5. LinkedTo(x) = IF x.head = NULL THEN new.heap ELSE suffix_object(new.heap, x.last, new.node)
  BY DEF LinkedTo
<1>. HIDE DEF new
<1>6. ASSUME NodeOf(x) # NULL PROVE NodeOf(x) \in Node /\ LinkedTo(x) \in Heap /\ HeadOf(x) \in Node
  <2>1. new.node \in Node
    BY <1>3, <1>4, <1>6 DEF Pointer
  <2>2. suffix_object(new.heap, x.last, new.node) \in Heap
    BY <1>1, <1>3, <2>1, SuffixTyped
  <2>3. HeadOf(x) \in Node
    BY <1>1, <1>4, <2>1 DEF HeadOf, Pointer
  <2>. QED
    BY <1>3, <1>4, <1>5, <2>1, <2>2, <2>3
<1>. QED
  BY <1>1, <1>3, <1>4, <1>6

\* A name begins behind the character at hand.
LEMMA NameAtFurther ==
  ASSUME NEW t \in Seq(Byte), NEW x \in Unfinished, NodeOf(x) # NULL
  PROVE  LET r == NameAt(t, x)
         IN Further(x.at, r) /\ x.at.offset < r.offset
<1>. DEFINE a == [x.at EXCEPT !.heap = LinkedTo(x)]
            s == Skip(a, 1)
            w == buffer_skip_whitespace(t, s)
            r == NameAt(t, x)
<1>1. x.at \in ParseBuffer /\ NodeOf(x) \in Node /\ LinkedTo(x) \in Heap
  BY NodeFields
<1>2. x.at.offset \in Nat
  BY <1>1 DEF ParseBuffer
<1>3. a \in ParseBuffer /\ a.ok = x.at.ok /\ a.offset = x.at.offset /\ a.depth = x.at.depth
  BY <1>1, HeapFields
<1>4. r = parse_name(t, w, NodeOf(x), x.kind)
  BY DEF NameAt
<1>. HIDE DEF a, r
<1>5. a.offset + 1 \in Nat /\ x.at.offset < a.offset + 1 /\ x.at.offset <= a.offset + 1
  BY <1>2, <1>3
<1>6. s \in ParseBuffer /\ s.offset = a.offset + 1 /\ s.ok = a.ok /\ s.depth = a.depth
  BY <1>3, <1>5, SkipFields
<1>. HIDE DEF s
<1>7. Further(s, w)
  BY <1>6, WhitespaceFurther
<1>. HIDE DEF w
<1>8. w \in ParseBuffer
  BY <1>7 DEF Further
<1>9. Further(w, r)
  BY <1>1, <1>4, <1>8, NameFurther
<1>10. Further(s, r)
  BY <1>6, <1>7, <1>9, FurtherOn
<1>11. r \in ParseBuffer /\ s.offset <= r.offset /\ (r.ok => s.ok /\ r.depth = s.depth)
  BY <1>10 DEF Further
<1>12. r.offset \in Nat
  BY <1>11 DEF ParseBuffer
<1>13. x.at.offset < r.offset /\ x.at.offset <= r.offset
  BY <1>2, <1>5, <1>6, <1>11, <1>12
<1>. QED
  BY <1>3, <1>6, <1>11, <1>13 DEF Further, r

LEMMA ItemFurther ==
  ASSUME NEW t \in Seq(Byte), NEW f, Proper(f), NEW name \in ParseBuffer, NEW n \in Node
  PROVE  Further(name, ItemValue(t, f, name, n))
<1>. DEFINE v == parse_value(t, f, name, n)
            w == buffer_skip_whitespace(t, v)
            r == ItemValue(t, f, name, n)
<1>1. r = IF ~name.ok THEN name ELSE IF ~v.ok THEN v ELSE w
  BY DEF ItemValue, SkipBehind
<1>2. Further(name, v)
  BY ValueFurther
<1>. HIDE DEF v
<1>3. v \in ParseBuffer
  BY <1>2 DEF Further
<1>4. Further(v, w)
  BY <1>3, WhitespaceFurther
<1>. HIDE DEF w
<1>5. Further(name, w)
  BY <1>2, <1>3, <1>4, FurtherOn
<1>6. ~name.ok => Further(name, name)
  <2>1. name.offset <= name.offset
    BY DEF ParseBuffer
  <2>. QED
    BY <2>1 DEF Further
<1>. HIDE DEF r
<1>7. Further(name, r)
  BY <1>1, <1>2, <1>5, <1>6
<1>. QED
  BY <1>7 DEF r

\* The first item is told which one is the last.
Ringed(b, first, n) == [b EXCEPT !.heap[first].prev = n, !.head = first]

LEMMA RingedFields ==
  ASSUME NEW b \in ParseBuffer, NEW first \in Node, NEW n \in Node
  PROVE  LET r == Ringed(b, first, n)
         IN /\ r \in ParseBuffer /\ r.ok = b.ok /\ r.offset = b.offset /\ r.depth = b.depth
            /\ r.outside = b.outside /\ r.head = first
<1>. DEFINE c == [b.heap[first] EXCEPT !.prev = n]
            h == [b.heap EXCEPT ![first] = c]
            r == Ringed(b, first, n)
<1>1. b.heap \in Heap /\ b.heap[first] \in Cell
  BY DEF ParseBuffer, Heap
<1>2. c \in Cell
  <2>1. n \in Pointer
    BY DEF Pointer
  <2>. QED
    BY <1>1, <2>1, CellLinked
<1>3. r = [b EXCEPT !.heap = h, !.head = first]
  BY DEF Ringed, ParseBuffer
<1>. HIDE DEF c
<1>4. h \in Heap
  BY <1>1, <1>2 DEF Heap
<1>5. first \in Pointer
  BY DEF Pointer
<1>. HIDE DEF h, r
<1>6. /\ r \in ParseBuffer /\ r.ok = b.ok /\ r.offset = b.offset /\ r.depth = b.depth
      /\ r.outside = b.outside /\ r.head = first
  BY <1>3, <1>4, <1>5 DEF ParseBuffer
<1>. QED
  BY <1>6 DEF r

\* What follows an item.
GoesOnAt(b, kind, first, n) == [at |-> b, kind |-> kind, head |-> first, last |-> n]

LEMMA BehindIs ==
  ASSUME NEW t, NEW f, NEW b, NEW kind, NEW first, NEW n
  PROVE  ItemsBehind(t, f, b, kind, first, n) =
           IF ~b.ok THEN GiveUp(b, first)
           ELSE IF Look(t, b) = 44 THEN f[GoesOnAt(b, kind, first, n)]
           ELSE IF Look(t, b) = Closing(kind) THEN Ringed(b, first, n)
           ELSE GiveUp(b, first)
BY DEF ItemsBehind, GoesOnAt, Ringed

LEMMA GoesOnFields ==
  ASSUME NEW b \in ParseBuffer, NEW kind \in {"array", "object"}, NEW first \in Node, NEW n \in Node
  PROVE  LET y == GoesOnAt(b, kind, first, n)
         IN y \in Unfinished /\ y.at = b /\ y.kind = kind /\ y.head = first /\ y.last = n
BY DEF GoesOnAt, Unfinished, Pointer

LEMMA BehindFurther ==
  ASSUME NEW t, NEW f, Proper(f), NEW b \in ParseBuffer, NEW kind \in {"array", "object"},
         NEW first \in Node, NEW n \in Node
  PROVE  Further(b, ItemsBehind(t, f, b, kind, first, n))
<1>. DEFINE y == GoesOnAt(b, kind, first, n)
            q == Ringed(b, first, n)
            g == GiveUp(b, first)
<1>1. Further(b, g)
  BY GiveUpFurther
<1>2. Further(b, f[y])
  <2>1. y \in Unfinished /\ y.at = b
    BY GoesOnFields
  <2>. HIDE DEF y
  <2>. QED
    BY <2>1 DEF Proper
<1>3. b.ok => Further(b, q)
  <2>1. q \in ParseBuffer /\ q.ok = b.ok /\ q.offset = b.offset /\ q.depth = b.depth
    BY RingedFields
  <2>2. b.offset <= b.offset
    BY DEF ParseBuffer
  <2>. HIDE DEF q
  <2>. QED
    BY <2>1, <2>2 DEF Further
<1>4. ItemsBehind(t, f, b, kind, first, n) \in {g} \cup {f[y]} \cup (IF b.ok THEN {q} ELSE {})
  <2>. HIDE DEF q, g, y
  <2>1. ItemsBehind(t, f, b, kind, first, n) =
           IF ~b.ok THEN g ELSE IF Look(t, b) = 44 THEN f[y]
           ELSE IF Look(t, b) = Closing(kind) THEN q ELSE g
    BY BehindIs DEF q, g, y
  <2>. QED
    BY <2>1
<1>. HIDE DEF q, g, y
<1>. QED
  BY <1>1, <1>2, <1>3, <1>4

LEMMA ReadItemsFurther ==
  ASSUME NEW t \in Seq(Byte), NEW f, Proper(f), NEW x \in Unfinished
  PROVE  Further(x.at, ReadItems(t, f, x))
<1>1. /\ x.at \in ParseBuffer /\ NodeOf(x) \in Pointer /\ x.head \in Pointer /\ x.kind \in {"array", "object"}
      /\ NodeOf(x) # NULL => NodeOf(x) \in Node /\ LinkedTo(x) \in Heap /\ HeadOf(x) \in Node
  BY NodeFields
<1>2. CASE NodeOf(x) = NULL
  <2>1. ReadItems(t, f, x) = GiveUp(x.at, x.head)
    BY <1>2, ReadItemsIs
  <2>. QED
    BY <1>1, <2>1, GiveUpFurther
<1>3. CASE NodeOf(x) # NULL
  <2>. DEFINE a == NameAt(t, x)
              v == ValueAt(t, f, x)
              r == ItemsBehind(t, f, v, x.kind, HeadOf(x), NodeOf(x))
  <2>1. ReadItems(t, f, x) = r
    BY <1>3, ReadItemsIs
  <2>2. Further(x.at, a)
    BY <1>3, NameAtFurther
  <2>3. v = ItemValue(t, f, a, NodeOf(x))
    BY DEF ValueAt
  <2>. HIDE DEF a, v
  <2>4. a \in ParseBuffer
    BY <2>2 DEF Further
  <2>5. Further(a, v)
    BY <1>1, <1>3, <2>3, <2>4, ItemFurther
  <2>6. v \in ParseBuffer
    BY <2>5 DEF Further
  <2>7. Further(v, r)
    BY <1>1, <1>3, <2>6, BehindFurther
  <2>. HIDE DEF r
  <2>8. Further(a, r)
    BY <2>4, <2>5, <2>7, FurtherOn
  <2>9. Further(x.at, r)
    BY <1>1, <2>2, <2>8, FurtherOn
  <2>. QED
    BY <2>1, <2>9
<1>. QED
  BY <1>2, <1>3

\* Items are only read further on, and in the text.
SameBehind(t, o, f, g) ==
  \A y \in Unfinished : o < y.at.offset /\ y.at.offset < Len(t) => f[y] = g[y]

LEMMA ListAgrees ==
  ASSUME NEW t \in Seq(Byte), NEW f, NEW g, NEW o \in Nat, SameBehind(t, o, f, g),
         NEW b \in ParseBuffer, o < b.offset, NEW n, NEW kind \in {"array", "object"}
  PROVE  parse_list(t, f, b, n, kind) = parse_list(t, g, b, n, kind)
<1>. DEFINE i == InsideOf(t, b)
            y == BeginsAt(i, kind)
<1>1. ASSUME NEW e
      PROVE parse_list(t, e, b, n, kind) =
              IF b.depth >= Nesting THEN Fail(b) ELSE IF ~Can(t, i) THEN Fail(Skip(i, -1))
              ELSE ListClosed(IF Look(t, i) = Closing(kind) THEN [i EXCEPT !.head = NULL] ELSE e[y], n, kind)
  BY DEF parse_list, ListInside, InsideOf, DeeperAt, BeginsAt
<1>2. Can(t, i) => f[y] = g[y]
  <2>1. y \in Unfinished /\ b.offset <= y.at.offset /\ y.at.offset + 1 = i.offset
    BY BeginFields
  <2>2. i \in ParseBuffer
    BY InsideFields
  <2>3. b.offset \in Nat /\ y.at.offset \in Nat /\ i.offset \in Nat /\ Len(t) \in Nat
    BY <2>1, <2>2 DEF ParseBuffer, Unfinished
  <2>4. Can(t, i) => i.offset < Len(t)
    BY DEF Can
  <2>. HIDE DEF y, i
  <2>5. Can(t, i) => o < y.at.offset /\ y.at.offset < Len(t)
    BY <2>1, <2>3, <2>4
  <2>. QED
    BY <2>1, <2>5 DEF SameBehind
<1>. HIDE DEF y, i
<1>. QED
  BY <1>1, <1>2

LEMMA ValueAgrees ==
  ASSUME NEW t \in Seq(Byte), NEW f, NEW g, NEW o \in Nat, SameBehind(t, o, f, g),
         NEW b \in ParseBuffer, o < b.offset, NEW n
  PROVE  parse_value(t, f, b, n) = parse_value(t, g, b, n)
<1>1. parse_array(t, f, b, n) = parse_array(t, g, b, n) /\ parse_object(t, f, b, n) = parse_object(t, g, b, n)
  BY ListAgrees DEF parse_array, parse_object
<1>. QED
  BY <1>1 DEF parse_value

LEMMA ReadItemsAgrees ==
  ASSUME NEW t \in Seq(Byte), NEW f, Proper(f), NEW g, NEW x \in Unfinished, SameBehind(t, x.at.offset, f, g)
  PROVE  ReadItems(t, f, x) = ReadItems(t, g, x)
<1>1. /\ x.at \in ParseBuffer /\ NodeOf(x) \in Pointer /\ x.kind \in {"array", "object"}
      /\ NodeOf(x) # NULL => NodeOf(x) \in Node /\ HeadOf(x) \in Node
  BY NodeFields
<1>2. CASE NodeOf(x) = NULL
  BY <1>2, ReadItemsIs
<1>3. CASE NodeOf(x) # NULL
  <2>. DEFINE a == NameAt(t, x)
              n == NodeOf(x)
              v == ValueAt(t, f, x)
              z == GoesOnAt(v, x.kind, HeadOf(x), n)
  <2>1. Further(x.at, a) /\ x.at.offset < a.offset
    BY <1>3, NameAtFurther
  <2>2. a \in ParseBuffer /\ x.at.offset \in Nat
    BY <1>1, <2>1 DEF Further, ParseBuffer
  <2>3. v = ItemValue(t, f, a, n) /\ ValueAt(t, g, x) = ItemValue(t, g, a, n)
    BY DEF ValueAt
  <2>. HIDE DEF a
  <2>4. ItemValue(t, f, a, n) = ItemValue(t, g, a, n)
    <3>1. parse_value(t, f, a, n) = parse_value(t, g, a, n)
      BY <2>1, <2>2, ValueAgrees
    <3>. QED
      BY <3>1 DEF ItemValue
  <2>5. Further(a, ItemValue(t, f, a, n))
    BY <1>1, <1>3, <2>2, ItemFurther
  <2>. HIDE DEF v
  <2>6. v \in ParseBuffer /\ a.offset <= v.offset
    BY <2>3, <2>5 DEF Further
  <2>7. Look(t, v) = 44 => f[z] = g[z]
    <3>1. z \in Unfinished /\ z.at = v
      BY <1>1, <1>3, <2>6, GoesOnFields
    <3>2. Look(t, v) = 44 => v.offset < Len(t)
      BY DEF Look, Can
    <3>3. a.offset \in Nat /\ v.offset \in Nat
      BY <2>2, <2>6 DEF ParseBuffer
    <3>4. x.at.offset < v.offset
      BY <2>1, <2>2, <2>6, <3>3
    <3>. HIDE DEF z
    <3>. QED
      BY <3>1, <3>2, <3>4 DEF SameBehind
  <2>8. ItemsBehind(t, f, v, x.kind, HeadOf(x), n) = ItemsBehind(t, g, v, x.kind, HeadOf(x), n)
    BY <2>7, BehindIs
  <2>9. ValueAt(t, g, x) = v
    BY <2>3, <2>4
  <2>10. ReadItems(t, f, x) = ItemsBehind(t, f, v, x.kind, HeadOf(x), n)
    BY <1>3, ReadItemsIs DEF v
  <2>11. ReadItems(t, g, x) = ItemsBehind(t, g, v, x.kind, HeadOf(x), n)
    BY <1>3, <2>9, ReadItemsIs
  <2>. QED
    BY <2>8, <2>10, <2>11
<1>. QED
  BY <1>2, <1>3

\* What does not go on in the text is taken to fail.
Tame(f) == [y \in Unfinished |-> IF Further(y.at, f[y]) THEN f[y] ELSE Fail(y.at)]

LEMMA TameIsProper ==
  ASSUME NEW f
  PROVE  Proper(Tame(f)) /\ (Proper(f) => \A y \in Unfinished : Tame(f)[y] = f[y])
<1>1. ASSUME NEW y \in Unfinished PROVE Further(y.at, Tame(f)[y])
  <2>1. y.at \in ParseBuffer
    BY DEF Unfinished
  <2>2. Further(y.at, Fail(y.at))
    BY <2>1, FailFurther
  <2>. QED
    BY <2>2 DEF Tame
<1>2. ASSUME Proper(f), NEW y \in Unfinished PROVE Tame(f)[y] = f[y]
  BY <1>2 DEF Tame, Proper
<1>. QED
  BY <1>1, <1>2 DEF Proper

\* How far it is to the end of the text.
Ahead(t) == [x \in Unfinished |-> IF x.at.offset < Len(t) THEN Len(t) - x.at.offset ELSE 0]

LEMMA AheadLess ==
  ASSUME NEW t \in Seq(Byte)
  PROVE  /\ Ahead(t) \in [Unfinished -> Nat]
         /\ \A x, y \in Unfinished :
              x.at.offset < y.at.offset /\ y.at.offset < Len(t) => Ahead(t)[y] < Ahead(t)[x]
<1>1. \A x \in Unfinished : x.at.offset \in Nat
  BY DEF Unfinished, ParseBuffer
<1>2. Len(t) \in Nat
  OBVIOUS
<1>. QED
  BY <1>1, <1>2 DEF Ahead

LEMMA ItemsExist ==
  ASSUME NEW t \in Seq(Byte), Unfinished # {}
  PROVE  \E f \in [Unfinished -> ParseBuffer] :
           Proper(f) /\ \A x \in Unfinished : f[x] = ReadItems(t, f, x)
<1>. DEFINE B == [w \in Unfinished \X [Unfinished -> ParseBuffer] |-> ReadItems(t, Tame(w[2]), w[1])]
<1>1. ASSUME NEW x \in Unfinished, NEW f PROVE Further(x.at, ReadItems(t, Tame(f), x))
  BY TameIsProper, ReadItemsFurther
<1>2. ASSUME NEW x \in Unfinished, NEW f \in [Unfinished -> ParseBuffer]
      PROVE  <<x, f>> \in Unfinished \X [Unfinished -> ParseBuffer] /\ B[<<x, f>>] = ReadItems(t, Tame(f), x)
  OBVIOUS
<1>3. B \in [Unfinished \X [Unfinished -> ParseBuffer] -> ParseBuffer]
  <2>1. ASSUME NEW w \in Unfinished \X [Unfinished -> ParseBuffer] PROVE ReadItems(t, Tame(w[2]), w[1]) \in ParseBuffer
    <3>1. w[1] \in Unfinished
      OBVIOUS
    <3>. QED
      BY <1>1, <3>1 DEF Further
  <2>. QED
    BY <2>1
<1>. HIDE DEF B
<1>4. LooksBelow(Unfinished, ParseBuffer, Ahead(t), B)
  <2>1. ASSUME NEW x \in Unfinished, NEW f \in [Unfinished -> ParseBuffer], NEW g \in [Unfinished -> ParseBuffer],
               \A y \in Unfinished : Ahead(t)[y] < Ahead(t)[x] => f[y] = g[y]
        PROVE  B[<<x, f>>] = B[<<x, g>>]
    <3>1. SameBehind(t, x.at.offset, Tame(f), Tame(g))
      <4>1. ASSUME NEW y \in Unfinished, x.at.offset < y.at.offset, y.at.offset < Len(t)
            PROVE  Tame(f)[y] = Tame(g)[y]
        <5>1. Ahead(t)[y] < Ahead(t)[x]
          BY <4>1, AheadLess
        <5>2. f[y] = g[y]
          BY <2>1, <5>1
        <5>. QED
          BY <5>2 DEF Tame
      <4>. QED
        BY <4>1 DEF SameBehind
    <3>2. ReadItems(t, Tame(f), x) = ReadItems(t, Tame(g), x)
      BY <3>1, TameIsProper, ReadItemsAgrees
    <3>. QED
      BY <1>2, <3>2
  <2>. QED
    BY <2>1 DEF LooksBelow
<1>5. ParseBuffer # {}
  <2>1. PICK x \in Unfinished : TRUE
    OBVIOUS
  <2>2. x.at \in ParseBuffer
    BY DEF Unfinished
  <2>. QED
    BY <2>2
<1>6. PICK f \in [Unfinished -> ParseBuffer] : \A x \in Unfinished : f[x] = B[<<x, f>>]
  <2>. DEFINE S == Unfinished
              R == ParseBuffer
              rank == Ahead(t)
  <2>1. rank \in [S -> Nat]
    BY AheadLess
  <2>2. R # {} /\ B \in [S \X [S -> R] -> R] /\ LooksBelow(S, R, rank, B)
    BY <1>3, <1>4, <1>5
  <2>. HIDE DEF S, R, rank
  <2>3. HasFunction(S, R, B)
    BY <2>1, <2>2, DefinedByRank
  <2>. QED
    BY <2>3 DEF S, R, HasFunction
<1>7. \A x \in Unfinished : f[x] = ReadItems(t, Tame(f), x)
  BY <1>2, <1>6
<1>8. Proper(f)
  BY <1>1, <1>7 DEF Proper
<1>9. Tame(f) = f
  <2>1. \A y \in Unfinished : Tame(f)[y] = f[y]
    BY <1>8, TameIsProper
  <2>. QED
    BY <2>1 DEF Tame
<1>. QED
  BY <1>7, <1>8, <1>9

\* The items of a list, and all that is below them, are what one item, and what
\* is read behind it, makes of them.
LEMMA ItemsOfStep ==
  ASSUME NEW t \in Seq(Byte), Unfinished # {}
  PROVE  Proper(ItemsOf(t)) /\ \A x \in Unfinished : ItemsOf(t)[x] = ReadItems(t, ItemsOf(t), x)
<1>. DEFINE Eq(e) == [x \in Unfinished |-> ReadItems(t, e, x)]
            g == CHOOSE e : e = Eq(e)
<1>1. PICK f \in [Unfinished -> ParseBuffer] : Proper(f) /\ \A x \in Unfinished : f[x] = ReadItems(t, f, x)
  BY ItemsExist
<1>2. f = Eq(f)
  BY <1>1
<1>3. g = Eq(g)
  <2>. HIDE DEF Eq
  <2>. QED
    BY <1>2
<1>4. ItemsOf(t) = g
  BY DEF ItemsOf
<1>. HIDE DEF g
<1>5. \A x \in Unfinished : g[x] = ReadItems(t, g, x)
  BY <1>3
<1>. HIDE DEF Eq
<1>6. ASSUME NEW x \in Unfinished PROVE f[x] = g[x]
  <2>. DEFINE bad == {k \in Nat : \E y \in Unfinished : Ahead(t)[y] = k /\ f[y] # g[y]}
  <2>1. ASSUME bad # {} PROVE FALSE
    <3>1. PICK k \in bad : \A j \in bad : k <= j
      <4>1. bad \subseteq Nat
        OBVIOUS
      <4>. HIDE DEF bad
      <4>. QED
        BY <2>1, <4>1, NatMin
    <3>2. PICK y \in Unfinished : Ahead(t)[y] = k /\ f[y] # g[y]
      OBVIOUS
    <3>3. SameBehind(t, y.at.offset, f, g)
      <4>1. ASSUME NEW z \in Unfinished, y.at.offset < z.at.offset, z.at.offset < Len(t), f[z] # g[z] PROVE FALSE
        <5>1. Ahead(t)[z] < Ahead(t)[y] /\ Ahead(t)[z] \in Nat
          BY <4>1, AheadLess
        <5>2. Ahead(t)[z] \in bad
          BY <4>1, <5>1
        <5>3. k \in Nat
          OBVIOUS
        <5>. HIDE DEF bad
        <5>. QED
          BY <3>1, <3>2, <5>1, <5>2, <5>3
      <4>. QED
        BY <4>1 DEF SameBehind
    <3>4. ReadItems(t, f, y) = ReadItems(t, g, y)
      BY <1>1, <3>3, ReadItemsAgrees
    <3>. QED
      BY <1>1, <1>5, <3>2, <3>4
  <2>2. Ahead(t)[x] \in Nat
    BY AheadLess
  <2>. QED
    BY <2>1, <2>2
<1>7. Proper(g)
  BY <1>1, <1>6 DEF Proper
<1>. QED
  BY <1>4, <1>5, <1>7

\* Reading ends in the text, or right behind it if it failed; a list ends at
\* its bracket.
Settled(t, r) == r \in ParseBuffer /\ ~r.outside /\ r.offset <= Len(t) /\ (r.ok => r.offset < Len(t))

ListRead(t, kind, r) == Settled(t, r) /\ (r.ok => Look(t, r) = Closing(kind))

\* There is a character behind the one at hand.
ReadyAt(t, y) == Inside(t, y.at) /\ y.at.ok /\ y.at.offset + 1 < Len(t)

ReadsFrom(t, f, o) ==
  Proper(f) /\ \A y \in Unfinished : o <= y.at.offset /\ ReadyAt(t, y) => ListRead(t, y.kind, f[y])

LEMMA FailSettled ==
  ASSUME NEW t \in Seq(Byte), NEW b, Inside(t, b)
  PROVE  Settled(t, Fail(b))
<1>1. b \in ParseBuffer /\ ~b.outside /\ b.offset < Len(t) /\ b.offset \in Nat /\ Len(t) \in Nat
  BY LooksAt DEF Inside
<1>2. Fail(b) \in ParseBuffer /\ Fail(b).offset = b.offset /\ Fail(b).outside = b.outside /\ ~Fail(b).ok
  BY <1>1, FailFields
<1>. QED
  BY <1>1, <1>2 DEF Settled

LEMMA InsideSettled ==
  ASSUME NEW t \in Seq(Byte), NEW b, Inside(t, b)
  PROVE  Settled(t, b)
<1>1. b \in ParseBuffer /\ ~b.outside /\ b.offset < Len(t) /\ b.offset \in Nat /\ Len(t) \in Nat
  BY LooksAt DEF Inside
<1>. QED
  BY <1>1 DEF Settled

LEMMA SettledInside ==
  ASSUME NEW t, NEW b, Settled(t, b), b.ok
  PROVE  Inside(t, b)
BY DEF Settled, Inside

LEMMA SkipInside ==
  ASSUME NEW t \in Seq(Byte), NEW b, Inside(t, b), b.offset + 1 < Len(t)
  PROVE  LET s == Skip(b, 1) IN Inside(t, s) /\ s.ok = b.ok
<1>1. b \in ParseBuffer /\ ~b.outside
  BY DEF Inside
<1>2. b.offset + 1 \in Nat
  BY <1>1 DEF ParseBuffer
<1>3. LET s == Skip(b, 1)
      IN s \in ParseBuffer /\ s.offset = b.offset + 1 /\ s.outside = b.outside /\ s.ok = b.ok
  BY <1>1, <1>2, SkipFields
<1>. QED
  BY <1>1, <1>3 DEF Inside

LEMMA InsideIsInside ==
  ASSUME NEW t \in Seq(Byte), NEW b, Inside(t, b), b.offset + 1 < Len(t)
  PROVE  Inside(t, InsideOf(t, b))
<1>. DEFINE d == DeeperAt(b)
            s == Skip(d, 1)
<1>1. b \in ParseBuffer
  BY DEF Inside
<1>2. d \in ParseBuffer /\ d.offset = b.offset /\ d.outside = b.outside
  BY <1>1 DEF DeeperAt, ParseBuffer
<1>. HIDE DEF d
<1>3. Inside(t, d)
  BY <1>2 DEF Inside
<1>4. d.offset + 1 < Len(t)
  BY <1>2
<1>5. Inside(t, s)
  BY <1>3, <1>4, SkipInside
<1>. HIDE DEF s
<1>6. Inside(t, buffer_skip_whitespace(t, s))
  BY <1>5, WhitespaceInside
<1>. QED
  BY <1>6 DEF InsideOf, s, d

LEMMA ListSettled ==
  ASSUME NEW t \in Seq(Byte), Terminated(t), NEW b, Inside(t, b), b.ok, Look(t, b) # 0,
         NEW f, ReadsFrom(t, f, b.offset), NEW n \in Node, NEW kind \in {"array", "object"}
  PROVE  Settled(t, parse_list(t, f, b, n, kind))
<1>. DEFINE i == InsideOf(t, b)
            z == ListInside(t, f, i, kind)
            y == BeginsAt(i, kind)
            r == parse_list(t, f, b, n, kind)
<1>1. b \in ParseBuffer /\ b.offset \in Nat /\ Len(t) \in Nat /\ b.offset + 1 < Len(t)
  BY LooksAt DEF Inside
<1>2. Inside(t, i) /\ Can(t, i)
  BY <1>1, InsideIsInside, LooksAt
<1>3. r = IF b.depth >= Nesting THEN Fail(b) ELSE ListClosed(z, n, kind)
  <2>1. r = IF b.depth >= Nesting THEN Fail(b)
            ELSE IF ~Can(t, i) THEN Fail(Skip(i, -1))
            ELSE ListClosed(z, n, kind)
    BY DEF parse_list, InsideOf, DeeperAt
  <2>. HIDE DEF r, i, z
  <2>. QED
    BY <1>2, <2>1
<1>4. y \in Unfinished /\ y.at.ok = b.ok /\ y.at.depth = b.depth + 1 /\ b.offset <= y.at.offset
      /\ y.at.outside = i.outside /\ y.at.offset + 1 = i.offset /\ y.kind = kind
  <2>1. b \in ParseBuffer
    BY <1>1
  <2>. QED
    BY ONLY <2>1, t \in Seq(Byte), kind \in {"array", "object"}, BeginFields
<1>5. i \in ParseBuffer /\ i.depth = b.depth + 1 /\ ~i.outside /\ i.offset < Len(t) /\ i.offset \in Nat
  <2>1. i \in ParseBuffer /\ i.depth = b.depth + 1
    BY <1>1, InsideFields
  <2>. HIDE DEF i
  <2>. QED
    BY <1>2, <2>1 DEF Inside, ParseBuffer
<1>6. ReadyAt(t, y)
  <2>. HIDE DEF y, i
  <2>1. y.at \in ParseBuffer
    BY <1>4 DEF Unfinished
  <2>2. y.at.offset \in Nat
    BY <2>1 DEF ParseBuffer
  <2>3. y.at.offset < Len(t)
    BY <1>1, <1>4, <1>5, <2>2
  <2>. QED
    BY <1>4, <1>5, <2>1, <2>3 DEF ReadyAt, Inside
<1>7. ListRead(t, kind, z) /\ (z.ok => z.depth = b.depth + 1)
  <2>1. CASE Look(t, i) = Closing(kind)
    <3>1. z = [i EXCEPT !.head = NULL]
      BY <2>1 DEF ListInside
    <3>2. NULL \in Pointer
      BY DEF Pointer
    <3>. HIDE DEF z, i
    <3>3. z \in ParseBuffer /\ z.ok = i.ok /\ z.offset = i.offset /\ z.depth = i.depth /\ z.outside = i.outside
      BY <1>5, <3>1, <3>2, HeadedFields
    <3>4. Look(t, z) = Look(t, i)
      BY <3>3 DEF Look, Can
    <3>5. i.offset <= Len(t)
      BY <1>1, <1>5
    <3>. QED
      BY <1>5, <2>1, <3>3, <3>4, <3>5 DEF ListRead, Settled
  <2>2. CASE Look(t, i) # Closing(kind)
    <3>1. z = f[y]
      BY <2>2 DEF ListInside, BeginsAt
    <3>. HIDE DEF z, y
    <3>2. ListRead(t, y.kind, f[y]) /\ Further(y.at, f[y])
      BY <1>4, <1>6 DEF ReadsFrom, Proper
    <3>. QED
      BY <1>4, <3>1, <3>2 DEF Further
  <2>. QED
    BY <2>1, <2>2
<1>. HIDE DEF z, y, i
<1>8. Settled(t, Fail(b))
  BY FailSettled
<1>9. Settled(t, ListClosed(z, n, kind))
  <2>1. CASE ~z.ok
    BY <1>7, <2>1 DEF ListClosed, ListRead
  <2>2. CASE z.ok
    <3>. DEFINE c == ClosedAt(z, n, kind)
    <3>1. ListClosed(z, n, kind) = c
      BY <2>2 DEF ListClosed, ClosedAt
    <3>2. z \in ParseBuffer /\ ~z.outside /\ z.offset < Len(t) /\ Look(t, z) # 0
      BY <1>7, <2>2 DEF ListRead, Settled, Closing
    <3>3. Inside(t, z)
      BY <3>2 DEF Inside
    <3>4. z.offset + 1 < Len(t) /\ z.offset \in Nat
      BY <3>2, <3>3, LooksAt
    <3>5. z.depth - 1 \in Nat
      BY <1>1, <1>7, <2>2 DEF ParseBuffer
    <3>6. c \in ParseBuffer /\ c.offset = z.offset + 1 /\ c.outside = z.outside
      BY <3>2, <3>5, ClosedFields
    <3>. HIDE DEF c
    <3>7. c.offset < Len(t) /\ c.offset <= Len(t)
      BY <1>1, <3>4, <3>6
    <3>. QED
      BY <3>1, <3>2, <3>6, <3>7 DEF Settled
  <2>. QED
    BY <2>1, <2>2
<1>. HIDE DEF r
<1>10. Settled(t, r)
  BY <1>3, <1>8, <1>9
<1>. QED
  BY <1>10 DEF r

LEMMA ValueSettled ==
  ASSUME NEW t \in Seq(Byte), Terminated(t), NEW b, Inside(t, b), b.ok,
         NEW f, ReadsFrom(t, f, b.offset), NEW n \in Node
  PROVE  Settled(t, parse_value(t, f, b, n))
<1>. DEFINE r == parse_value(t, f, b, n)
<1>0. b \in ParseBuffer
  BY DEF Inside
<1>1. ASSUME NEW word \in Literals, StartsWith(t, b, Str(word)) PROVE Settled(t, parse_literal(b, n, word))
  <2>. DEFINE q == parse_literal(b, n, word)
              s == Skip(b, Len(Str(word)))
  <2>1. Inside(t, s)
    BY <1>1, PiecesStayInside
  <2>2. Further(b, q) /\ q.outside = b.outside /\ q.offset = s.offset
    BY <1>0, LiteralFurther
  <2>. HIDE DEF q, s
  <2>3. q \in ParseBuffer /\ ~q.outside /\ q.offset < Len(t)
    BY <2>1, <2>2 DEF Further, Inside
  <2>4. Inside(t, q)
    BY <2>3 DEF Inside
  <2>. QED
    BY <2>4, InsideSettled DEF q
<1>2. CASE StartsWith(t, b, Str("null")) \/ StartsWith(t, b, Str("false")) \/ StartsWith(t, b, Str("true"))
  <2>1. \E word \in Literals : StartsWith(t, b, Str(word)) /\ r = parse_literal(b, n, word)
    BY <1>2 DEF parse_value, Literals
  <2>. HIDE DEF r
  <2>. QED
    BY <1>1, <2>1 DEF r
<1>3. CASE ~(StartsWith(t, b, Str("null")) \/ StartsWith(t, b, Str("false")) \/ StartsWith(t, b, Str("true")))
  <2>. DEFINE c == Look(t, b)
  <2>0. r = CASE c = Quote -> parse_string(t, b, n)
         [] c \in {45} \cup 48..57 -> parse_number(t, b, n)
         [] c = Opening("array") -> parse_array(t, f, b, n)
         [] c = Opening("object") -> parse_object(t, f, b, n)
         [] OTHER -> Fail(b)
    BY <1>3 DEF parse_value
  <2>. HIDE DEF r
  <2>1. Quote = 34 /\ Opening("array") = 91 /\ Opening("object") = 123
    BY DEF Quote, Opening
  <2>2. CASE c = Quote
    <3>1. r = parse_string(t, b, n)
      BY <2>0, <2>1, <2>2
    <3>2. StringRead(t, b, n, r) /\ (r.ok => Inside(t, r))
      BY <3>1, PiecesStayInside
    <3>3. Settled(t, r)
      BY <3>2 DEF StringRead, Settled, Inside
    <3>. QED
      BY <3>3 DEF r
  <2>3. CASE c \in {45} \cup 48..57
    <3>1. r = parse_number(t, b, n)
      BY <2>0, <2>1, <2>3
    <3>2. Inside(t, r)
      BY <3>1, PiecesStayInside DEF NumberRead
    <3>. QED
      BY <3>2, InsideSettled DEF r
  <2>4. CASE c = Opening("array")
    <3>1. r = parse_list(t, f, b, n, "array")
      BY <2>0, <2>1, <2>4 DEF parse_array
    <3>2. c # 0
      BY <2>1, <2>4
    <3>. QED
      BY <3>1, <3>2, ListSettled DEF r
  <2>5. CASE c = Opening("object")
    <3>1. r = parse_list(t, f, b, n, "object")
      BY <2>0, <2>1, <2>5 DEF parse_object
    <3>2. c # 0
      BY <2>1, <2>5
    <3>. QED
      BY <3>1, <3>2, ListSettled DEF r
  <2>6. CASE ~(c = Quote \/ c \in {45} \cup 48..57 \/ c = Opening("array") \/ c = Opening("object"))
    <3>1. r = Fail(b)
      BY <2>0, <2>6
    <3>. QED
      BY <3>1, FailSettled DEF r
  <2>. QED
    BY <2>2, <2>3, <2>4, <2>5, <2>6
<1>. QED
  BY <1>2, <1>3

LEMMA NameSettled ==
  ASSUME NEW t \in Seq(Byte), Terminated(t), NEW x \in Unfinished, ReadyAt(t, x), NodeOf(x) # NULL
  PROVE  Settled(t, NameAt(t, x))
<1>. DEFINE a == [x.at EXCEPT !.heap = LinkedTo(x)]
            s == Skip(a, 1)
            w == buffer_skip_whitespace(t, s)
            r == NameAt(t, x)
<1>1. x.at \in ParseBuffer /\ NodeOf(x) \in Node /\ LinkedTo(x) \in Heap /\ x.kind \in {"array", "object"}
  BY NodeFields
<1>2. Inside(t, x.at) /\ x.at.ok /\ x.at.offset + 1 < Len(t)
  BY DEF ReadyAt
<1>3. a \in ParseBuffer /\ a.ok = x.at.ok /\ a.offset = x.at.offset /\ a.outside = x.at.outside
  BY <1>1, HeapFields
<1>4. r = parse_name(t, w, NodeOf(x), x.kind)
  BY DEF NameAt
<1>. HIDE DEF a, r
<1>5. Inside(t, a) /\ a.offset + 1 < Len(t)
  BY <1>2, <1>3 DEF Inside
<1>6. Inside(t, s) /\ s.ok = a.ok
  BY <1>5, SkipInside
<1>. HIDE DEF s
<1>7. Inside(t, w) /\ w.ok = s.ok
  BY <1>6, WhitespaceInside
<1>. HIDE DEF w
<1>8. w.ok
  BY <1>2, <1>3, <1>6, <1>7
<1>9. CASE x.kind = "array"
  <2>1. r = w
    BY <1>4, <1>9 DEF parse_name
  <2>. QED
    BY <1>7, <2>1, InsideSettled DEF r
<1>10. CASE x.kind # "array"
  <2>1. x.kind = "object"
    BY <1>1, <1>10
  <2>2. NameRead(t, w, NodeOf(x), r)
    BY <1>1, <1>4, <1>7, <1>8, <2>1, PiecesStayInside
  <2>3. Settled(t, r)
    BY <2>2 DEF NameRead, Settled
  <2>. QED
    BY <2>3 DEF r
<1>. QED
  BY <1>9, <1>10

LEMMA ItemSettled ==
  ASSUME NEW t \in Seq(Byte), Terminated(t), NEW name, Settled(t, name),
         NEW f, ReadsFrom(t, f, name.offset), NEW n \in Node
  PROVE  Settled(t, ItemValue(t, f, name, n))
<1>. DEFINE v == parse_value(t, f, name, n)
            w == buffer_skip_whitespace(t, v)
            r == ItemValue(t, f, name, n)
<1>1. r = IF ~name.ok THEN name ELSE IF ~v.ok THEN v ELSE w
  BY DEF ItemValue, SkipBehind
<1>2. name.ok => Settled(t, v)
  <2>1. ASSUME name.ok PROVE Settled(t, v)
    <3>1. Inside(t, name)
      BY <2>1, SettledInside
    <3>. QED
      BY <2>1, <3>1, ValueSettled
  <2>. QED
    BY <2>1
<1>. HIDE DEF v
<1>3. Settled(t, v) /\ v.ok => Settled(t, w)
  <2>1. ASSUME Settled(t, v), v.ok PROVE Settled(t, w)
    <3>1. Inside(t, v)
      BY <2>1, SettledInside
    <3>2. Inside(t, w)
      BY <3>1, WhitespaceInside
    <3>. HIDE DEF w
    <3>. QED
      BY <3>2, InsideSettled
  <2>. QED
    BY <2>1
<1>. HIDE DEF w, r
<1>4. Settled(t, r)
  BY <1>1, <1>2, <1>3
<1>. QED
  BY <1>4 DEF r

LEMMA GiveUpRead ==
  ASSUME NEW t, NEW b, Settled(t, b), NEW first, NEW kind
  PROVE  ListRead(t, kind, GiveUp(b, first))
<1>1. b \in ParseBuffer
  BY DEF Settled
<1>2. LET r == GiveUp(b, first)
      IN r \in ParseBuffer /\ r.offset = b.offset /\ r.outside = b.outside /\ r.ok = FALSE
  BY <1>1, GiveUpFields
<1>. QED
  BY <1>2 DEF ListRead, Settled

LEMMA BehindRead ==
  ASSUME NEW t \in Seq(Byte), Terminated(t), NEW b, Settled(t, b), NEW f, ReadsFrom(t, f, b.offset),
         NEW kind \in {"array", "object"}, NEW first \in Node, NEW n \in Node
  PROVE  ListRead(t, kind, ItemsBehind(t, f, b, kind, first, n))
<1>. DEFINE y == GoesOnAt(b, kind, first, n)
            q == Ringed(b, first, n)
            g == GiveUp(b, first)
            r == ItemsBehind(t, f, b, kind, first, n)
<1>1. r = IF ~b.ok THEN g ELSE IF Look(t, b) = 44 THEN f[y]
          ELSE IF Look(t, b) = Closing(kind) THEN q ELSE g
  BY BehindIs
<1>2. ListRead(t, kind, g)
  BY GiveUpRead
<1>3. b \in ParseBuffer
  BY DEF Settled
<1>4. b.ok /\ Look(t, b) = 44 => ListRead(t, kind, f[y])
  <2>1. ASSUME b.ok, Look(t, b) = 44 PROVE ListRead(t, kind, f[y])
    <3>1. Inside(t, b)
      BY <2>1, SettledInside
    <3>2. Look(t, b) # 0
      BY <2>1
    <3>3. b.offset + 1 < Len(t) /\ b.offset \in Nat
      BY <3>1, <3>2, LooksAt
    <3>4. y \in Unfinished /\ y.at = b /\ y.kind = kind
      BY <1>3, GoesOnFields
    <3>. HIDE DEF y
    <3>5. ReadyAt(t, y) /\ b.offset <= y.at.offset
      BY <2>1, <3>1, <3>3, <3>4 DEF ReadyAt
    <3>. QED
      BY <3>4, <3>5 DEF ReadsFrom
  <2>. QED
    BY <2>1
<1>5. Look(t, b) = Closing(kind) => ListRead(t, kind, q)
  <2>1. q \in ParseBuffer /\ q.ok = b.ok /\ q.offset = b.offset /\ q.outside = b.outside
    BY <1>3, RingedFields
  <2>. HIDE DEF q
  <2>2. Look(t, q) = Look(t, b)
    BY <2>1 DEF Look, Can
  <2>. QED
    BY <2>1, <2>2 DEF ListRead, Settled
<1>. HIDE DEF y, q, g, r
<1>6. ListRead(t, kind, r)
  BY <1>1, <1>2, <1>4, <1>5
<1>. QED
  BY <1>6 DEF r

LEMMA ItemsRead ==
  ASSUME NEW t \in Seq(Byte), Terminated(t), NEW x \in Unfinished, ReadyAt(t, x),
         NEW f, ReadsFrom(t, f, x.at.offset + 1)
  PROVE  ListRead(t, x.kind, ReadItems(t, f, x))
<1>1. /\ x.at \in ParseBuffer /\ NodeOf(x) \in Pointer /\ x.head \in Pointer /\ x.kind \in {"array", "object"}
      /\ NodeOf(x) # NULL => NodeOf(x) \in Node /\ LinkedTo(x) \in Heap /\ HeadOf(x) \in Node
  BY NodeFields
<1>2. CASE NodeOf(x) = NULL
  <2>1. ReadItems(t, f, x) = GiveUp(x.at, x.head)
    BY <1>2, ReadItemsIs
  <2>2. Settled(t, x.at)
    BY InsideSettled DEF ReadyAt
  <2>. QED
    BY <2>1, <2>2, GiveUpRead
<1>3. CASE NodeOf(x) # NULL
  <2>. DEFINE a == NameAt(t, x)
              v == ValueAt(t, f, x)
  <2>1. ReadItems(t, f, x) = ItemsBehind(t, f, v, x.kind, HeadOf(x), NodeOf(x))
    BY <1>3, ReadItemsIs
  <2>2. Further(x.at, a) /\ x.at.offset < a.offset /\ Settled(t, a)
    BY <1>3, NameAtFurther, NameSettled
  <2>3. v = ItemValue(t, f, a, NodeOf(x))
    BY DEF ValueAt
  <2>. HIDE DEF a, v
  <2>4. a \in ParseBuffer /\ Proper(f)
    BY <2>2 DEF Further, ReadsFrom
  <2>5. Further(a, v)
    BY <1>1, <1>3, <2>3, <2>4, ItemFurther
  <2>6. v \in ParseBuffer /\ a.offset <= v.offset
    BY <2>5 DEF Further
  <2>7. x.at.offset \in Nat /\ a.offset \in Nat /\ v.offset \in Nat
    BY <1>1, <2>4, <2>6 DEF ParseBuffer
  <2>8. \A y \in Unfinished : y.at.offset \in Nat
    BY DEF Unfinished, ParseBuffer
  <2>9. ReadsFrom(t, f, a.offset) /\ ReadsFrom(t, f, v.offset)
    <3>1. x.at.offset + 1 <= a.offset /\ x.at.offset + 1 <= v.offset
      BY <2>2, <2>6, <2>7
    <3>2. ASSUME NEW o \in Nat, x.at.offset + 1 <= o PROVE ReadsFrom(t, f, o)
      <4>1. \A y \in Unfinished : o <= y.at.offset => x.at.offset + 1 <= y.at.offset
        BY <2>7, <2>8, <3>2
      <4>. QED
        BY <4>1 DEF ReadsFrom
    <3>. QED
      BY <2>7, <3>1, <3>2
  <2>10. Settled(t, v)
    BY <1>1, <1>3, <2>2, <2>3, <2>9, ItemSettled
  <2>11. ListRead(t, x.kind, ItemsBehind(t, f, v, x.kind, HeadOf(x), NodeOf(x)))
    BY <1>1, <1>3, <2>9, <2>10, BehindRead
  <2>. QED
    BY <2>1, <2>11
<1>. QED
  BY <1>2, <1>3

LEMMA AllItemsRead ==
  ASSUME NEW t \in Seq(Byte), Terminated(t), Unfinished # {}
  PROVE  ReadsFrom(t, ItemsOf(t), 0)
<1>. DEFINE f == ItemsOf(t)
            T == {k \in Nat : \A y \in Unfinished : y.at.offset = k /\ ReadyAt(t, y) => ListRead(t, y.kind, f[y])}
<1>1. Proper(f) /\ \A x \in Unfinished : f[x] = ReadItems(t, f, x)
  BY ItemsOfStep
<1>2. Len(t) \in Nat
  OBVIOUS
<1>3. \A y \in Unfinished : y.at.offset \in Nat
  BY DEF Unfinished, ParseBuffer
<1>. HIDE DEF f
<1>4. ASSUME NEW k \in Nat, k >= Len(t) PROVE k \in T
  BY <1>2, <1>4 DEF ReadyAt, Inside
<1>5. ASSUME NEW k \in Nat, \A j \in Nat : k < j => j \in T PROVE k \in T
  <2>1. ASSUME NEW x \in Unfinished, x.at.offset = k, ReadyAt(t, x) PROVE ListRead(t, x.kind, f[x])
    <3>1. ASSUME NEW y \in Unfinished, k + 1 <= y.at.offset, ReadyAt(t, y) PROVE ListRead(t, y.kind, f[y])
      <4>1. y.at.offset \in T
        BY <1>3, <1>5, <3>1
      <4>. QED
        BY <3>1, <4>1
    <3>2. ReadsFrom(t, f, x.at.offset + 1)
      BY <1>1, <2>1, <3>1 DEF ReadsFrom
    <3>3. ListRead(t, x.kind, ReadItems(t, f, x))
      BY <2>1, <3>2, ItemsRead
    <3>. QED
      BY <1>1, <3>3
  <2>. QED
    BY <2>1
<1>. HIDE DEF T
<1>6. T = Nat
  <2>1. T \in SUBSET Nat
    BY DEF T
  <2>. QED
    BY <1>2, <1>4, <1>5, <2>1, DownwardInduction
<1>7. ASSUME NEW y \in Unfinished, ReadyAt(t, y) PROVE ListRead(t, y.kind, f[y])
  <2>1. y.at.offset \in T
    BY <1>3, <1>6
  <2>. QED
    BY <1>7, <2>1 DEF T
<1>8. ReadsFrom(t, f, 0)
  BY <1>1, <1>7 DEF ReadsFrom
<1>. QED
  BY <1>8 DEF f

\* How reading begins.
StartOf(h) == [heap |-> h, offset |-> 0, depth |-> 0, ok |-> TRUE, outside |-> FALSE, head |-> NULL]

LEMMA StartInside ==
  ASSUME NEW t \in Seq(Byte), Len(t) > 0, NEW h \in Heap
  PROVE  Inside(t, StartOf(h)) /\ StartOf(h).ok
BY DEF StartOf, Inside, ParseBuffer, Pointer

LEMMA BomOk ==
  ASSUME NEW t, NEW b
  PROVE  skip_utf8_bom(t, b).ok = b.ok
BY DEF skip_utf8_bom, Skip

\* Whatever the text, if a zero ends it: reading it looks at nothing behind the
\* zero and writes nothing behind what was allocated for a string, it builds
\* nodes of the heap only, and where it says that it ended is a place of the text.
THEOREM ReadingStaysInside ==
  ASSUME NEW t \in Seq(Byte), Terminated(t), NEW h \in Heap, NEW required \in BOOLEAN
  PROVE  LET r == ParseWithLengthOpts(h, t, required)
         IN ~r.outside /\ r.end \in 0..(Len(t) - 1) /\ r.heap \in Heap /\ r.node \in Pointer
<1>. DEFINE new == New_Item(h, "invalid")
            start == StartOf(new.heap)
            bom == skip_utf8_bom(t, start)
            begin == buffer_skip_whitespace(t, bom)
            f == ItemsOf(t)
            value == parse_value(t, f, begin, new.node)
            behind == buffer_skip_whitespace(t, value)
            end == IF value.ok /\ required THEN behind ELSE value
            done == end.ok /\ (required => Can(t, end) /\ Look(t, end) = 0)
            r == ParseWithLengthOpts(h, t, required)
<1>1. t # << >> /\ Len(t) > 0 /\ Len(t) \in Nat
  BY DEF Terminated
<1>2. r = IF t = << >> \/ new.node = NULL
          THEN [heap |-> h, node |-> NULL, end |-> 0, outside |-> FALSE]
          ELSE IF done
          THEN [heap |-> end.heap, node |-> new.node, end |-> end.offset, outside |-> end.outside]
          ELSE [heap |-> Delete(end.heap, new.node), node |-> NULL,
                end |-> IF end.offset < Len(t) THEN end.offset ELSE Len(t) - 1,
                outside |-> end.outside]
  BY DEF ParseWithLengthOpts, Parsed, SkipBehind, StartOf
<1>3. new.heap \in Heap /\ new.node \in Pointer /\ NULL \in Pointer
  BY NewItemFields DEF Pointer
<1>. HIDE DEF new
<1>4. CASE new.node = NULL
  <2>1. r = [heap |-> h, node |-> NULL, end |-> 0, outside |-> FALSE]
    BY <1>2, <1>4
  <2>. HIDE DEF r
  <2>2. r.heap = h /\ r.node = NULL /\ r.end = 0 /\ r.outside = FALSE
    BY <2>1
  <2>3. 0 \in 0..(Len(t) - 1)
    BY <1>1
  <2>4. ~r.outside /\ r.end \in 0..(Len(t) - 1) /\ r.heap \in Heap /\ r.node \in Pointer
    BY <1>3, <2>2, <2>3
  <2>. QED
    BY <2>4 DEF r
<1>5. CASE new.node # NULL
  <2>1. new.node \in Node
    BY <1>3, <1>5 DEF Pointer
  <2>2. Inside(t, start) /\ start.ok
    BY <1>1, <1>3, StartInside
  <2>3. Inside(t, bom) /\ bom.ok
    <3>. HIDE DEF start
    <3>1. bom.ok = start.ok
      BY BomOk
    <3>. QED
      BY <2>2, <3>1, BomInside
  <2>. HIDE DEF bom
  <2>4. Inside(t, begin) /\ begin.ok
    <3>1. Inside(t, begin) /\ begin.ok = bom.ok
      BY <2>3, WhitespaceInside
    <3>. QED
      BY <2>3, <3>1
  <2>. HIDE DEF begin
  <2>5. begin \in ParseBuffer /\ begin.offset \in Nat
    BY <2>4, LooksAt DEF Inside
  <2>6. Unfinished # {}
    <3>. DEFINE y == [at |-> begin, kind |-> "array", head |-> NULL, last |-> NULL]
    <3>1. y \in Unfinished
      BY <1>3, <2>5 DEF Unfinished
    <3>. QED
      BY <3>1
  <2>7. ReadsFrom(t, f, begin.offset)
    <3>1. ReadsFrom(t, f, 0)
      BY <2>6, AllItemsRead
    <3>2. \A y \in Unfinished : y.at.offset \in Nat /\ 0 <= y.at.offset
      BY DEF Unfinished, ParseBuffer
    <3>. HIDE DEF f
    <3>. QED
      BY <3>1, <3>2 DEF ReadsFrom
  <2>. HIDE DEF f
  <2>8. Settled(t, value)
    BY <2>1, <2>4, <2>7, ValueSettled
  <2>. HIDE DEF value
  <2>9. Settled(t, end)
    <3>1. ASSUME value.ok PROVE Settled(t, behind)
      <4>1. Inside(t, value)
        BY <2>8, <3>1, SettledInside
      <4>2. Inside(t, behind)
        BY <4>1, WhitespaceInside
      <4>. HIDE DEF behind
      <4>. QED
        BY <4>2, InsideSettled
    <3>. HIDE DEF behind
    <3>. QED
      BY <2>8, <3>1
  <2>. HIDE DEF end
  <2>10. end \in ParseBuffer /\ ~end.outside /\ end.offset \in Nat /\ end.heap \in Heap /\ (end.ok => end.offset < Len(t))
    BY <2>9 DEF Settled, ParseBuffer
  <2>11. CASE done
    <3>1. r = [heap |-> end.heap, node |-> new.node, end |-> end.offset, outside |-> end.outside]
      BY <1>1, <1>2, <1>5, <2>11
    <3>2. end.offset \in 0..(Len(t) - 1)
      BY <1>1, <2>10, <2>11
    <3>. HIDE DEF r, done
    <3>3. r.heap = end.heap /\ r.node = new.node /\ r.end = end.offset /\ r.outside = end.outside
      BY <3>1
    <3>4. ~r.outside /\ r.end \in 0..(Len(t) - 1) /\ r.heap \in Heap /\ r.node \in Pointer
      BY <1>3, <2>10, <3>2, <3>3
    <3>. QED
      BY <3>4 DEF r
  <2>12. CASE ~done
    <3>. DEFINE e == IF end.offset < Len(t) THEN end.offset ELSE Len(t) - 1
                g == Delete(end.heap, new.node)
    <3>1. r = [heap |-> g, node |-> NULL, end |-> e, outside |-> end.outside]
      BY <1>1, <1>2, <1>5, <2>12
    <3>2. e \in 0..(Len(t) - 1)
      BY <1>1, <2>10
    <3>3. g \in Heap
      BY <2>10, DeleteTyped
    <3>. HIDE DEF r, done, e, g
    <3>4. r.heap = g /\ r.node = NULL /\ r.end = e /\ r.outside = end.outside
      BY <3>1
    <3>5. ~r.outside /\ r.end \in 0..(Len(t) - 1) /\ r.heap \in Heap /\ r.node \in Pointer
      BY <1>3, <2>10, <3>2, <3>3, <3>4
    <3>. QED
      BY <3>5 DEF r
  <2>. QED
    BY <2>11, <2>12
<1>. QED
  BY <1>4, <1>5

-----------------------------------------------------------------------------
(* Printing a whole value *)

\* Whatever is printed, and wherever: it is a buffer as deep as before.
Keeps(p, q) == q \in PrintBuffer /\ q.depth = p.depth

LEMMA KeepsOn ==
  ASSUME NEW p, NEW q, NEW r, Keeps(p, q), Keeps(q, r)
  PROVE  Keeps(p, r)
BY DEF Keeps

LEMMA FailsFields ==
  ASSUME NEW p \in PrintBuffer
  PROVE  Keeps(p, Fails(p)) /\ ~Fails(p).ok
BY DEF Fails, PrintBuffer, Keeps

LEMMA MemFields ==
  ASSUME NEW p \in PrintBuffer, NEW mem \in Seq(Int)
  PROVE  Keeps(p, [p EXCEPT !.mem = mem])
BY DEF PrintBuffer, Keeps

LEMMA EnsureKeeps ==
  ASSUME NEW p \in PrintBuffer, NEW needed \in Nat
  PROVE  Keeps(p, ensure(p, needed))
<1>. DEFINE all == p.offset + needed + 1
            length == Len(p.mem)
            g == Garbage(2 * all - length)
            mem == p.mem \o g
            q == ensure(p, needed)
<1>1. p.mem \in Seq(Int) /\ p.offset \in Nat /\ length \in Nat /\ all \in Nat
  BY DEF PrintBuffer
<1>2. q = Fails(p) \/ q = p \/ (q = [p EXCEPT !.mem = mem] /\ ~(all <= length))
  BY DEF ensure
<1>3. ~(all <= length) => Keeps(p, [p EXCEPT !.mem = mem])
  <2>1. ASSUME ~(all <= length) PROVE Keeps(p, [p EXCEPT !.mem = mem])
    <3>1. 2 * all - length \in Nat
      BY <1>1, <2>1, Doubled
    <3>2. mem \in Seq(Int)
      BY <1>1, <3>1, Grown
    <3>. HIDE DEF mem
    <3>. QED
      BY <3>2, MemFields
  <2>. QED
    BY <2>1
<1>. HIDE DEF q, mem, all
<1>4. Keeps(p, p)
  BY DEF Keeps
<1>5. Keeps(p, q)
  BY <1>2, <1>3, <1>4, FailsFields
<1>. QED
  BY <1>5 DEF q

LEMMA WriteKeeps ==
  ASSUME NEW p \in PrintBuffer, NEW s \in Seq(Int), NEW n \in Nat
  PROVE  Keeps(p, Write(p, s, n))
<1>. DEFINE mem == [i \in DOMAIN p.mem |-> IF i - p.offset \in DOMAIN s THEN s[i - p.offset] ELSE p.mem[i]]
            o == p.offset + n
            b == p.outside \/ p.offset + Len(s) > Len(p.mem)
            q == Write(p, s, n)
<1>1. p.mem \in Seq(Int) /\ p.offset \in Nat
  BY DEF PrintBuffer
<1>2. mem \in Seq(Int) /\ o \in Nat /\ b \in BOOLEAN
  <2>1. \A i \in DOMAIN s : s[i] \in Int
    OBVIOUS
  <2>2. \A i \in DOMAIN p.mem : (IF i - p.offset \in DOMAIN s THEN s[i - p.offset] ELSE p.mem[i]) \in Int
    BY <1>1, <2>1
  <2>3. DOMAIN p.mem = 1..Len(p.mem) /\ Len(p.mem) \in Nat
    BY <1>1
  <2>4. mem \in Seq(Int)
    BY <2>2, <2>3
  <2>5. b \in BOOLEAN
    BY DEF PrintBuffer
  <2>. QED
    BY <1>1, <2>4, <2>5
<1>3. q = IF ~p.ok THEN p ELSE [p EXCEPT !.mem = mem, !.offset = o, !.outside = b]
  BY DEF Write
<1>. HIDE DEF mem, o, b, q
<1>4. Keeps(p, p) /\ Keeps(p, [p EXCEPT !.mem = mem, !.offset = o, !.outside = b])
  BY <1>2 DEF Keeps, PrintBuffer
<1>5. Keeps(p, q)
  BY <1>3, <1>4
<1>. QED
  BY <1>5 DEF q

LEMMA PutKeeps ==
  ASSUME NEW p \in PrintBuffer, NEW needed \in Nat, NEW s \in Seq(Int), NEW n \in Nat
  PROVE  Keeps(p, Write(ensure(p, needed), s, n))
<1>. DEFINE e == ensure(p, needed)
<1>1. Keeps(p, e)
  BY EnsureKeeps
<1>. HIDE DEF e
<1>2. Keeps(e, Write(e, s, n))
  BY <1>1, WriteKeeps DEF Keeps
<1>3. Keeps(p, Write(e, s, n))
  BY <1>1, <1>2, KeepsOn
<1>. QED
  BY <1>3 DEF e

LEMMA UpdateKeeps ==
  ASSUME NEW p \in PrintBuffer
  PROVE  Keeps(p, update_offset(p))
<1>. DEFINE ends == {i \in (p.offset + 1)..Len(p.mem) : p.mem[i] = 0}
            x == CHOOSE i \in ends : \A j \in ends : i <= j
            o == x - 1
            q == update_offset(p)
<1>1. q = IF ~p.ok THEN p ELSE IF ends = {} THEN [p EXCEPT !.outside = TRUE] ELSE [p EXCEPT !.offset = o]
  BY DEF update_offset
<1>2. ends # {} => o \in Nat
  <2>1. ASSUME ends # {} PROVE o \in Nat
    <3>1. p.offset \in Nat /\ Len(p.mem) \in Nat
      BY DEF PrintBuffer
    <3>2. ends \subseteq Nat
      BY <3>1
    <3>3. x \in ends
      <4>. HIDE DEF ends
      <4>. QED
        BY <2>1, <3>2, FirstOf
    <3>. HIDE DEF x
    <3>. QED
      BY <3>1, <3>3
  <2>. QED
    BY <2>1
<1>. HIDE DEF ends, o, q
<1>3. Keeps(p, p) /\ Keeps(p, [p EXCEPT !.outside = TRUE]) /\ (o \in Nat => Keeps(p, [p EXCEPT !.offset = o]))
  BY DEF Keeps, PrintBuffer
<1>4. Keeps(p, q)
  BY <1>1, <1>2, <1>3
<1>. QED
  BY <1>4 DEF q

\* What print_string_ptr writes.
OutOf(s) == IF s = NoString THEN <<>> ELSE FlattenSeq([i \in DOMAIN s |-> Escaped(s[i])])

LEMMA OutTyped ==
  ASSUME NEW s \in Seq(Int)
  PROVE  OutOf(s) \in Seq(Int) /\ Len(OutOf(s)) \in Nat /\ <<34>> \o OutOf(s) \o <<34, 0>> \in Seq(Int)
<1>. DEFINE parts == [i \in DOMAIN s |-> Escaped(s[i])]
            out == OutOf(s)
<1>1. parts \in Seq(Seq(Int))
  <2>1. DOMAIN s = 1..Len(s) /\ Len(s) \in Nat /\ \A i \in DOMAIN s : s[i] \in Int
    OBVIOUS
  <2>2. \A i \in DOMAIN s : Escaped(s[i]) \in Seq(Int)
    BY <2>1, EscapedTyped
  <2>. QED
    BY <2>1, <2>2
<1>2. out = IF s = NoString THEN <<>> ELSE FlattenSeq(parts)
  BY DEF OutOf
<1>. HIDE DEF parts, out
<1>3. FlattenSeq(parts) \in Seq(Int) /\ <<>> \in Seq(Int)
  BY <1>1, FlattenTyped
<1>4. out \in Seq(Int)
  BY <1>2, <1>3
<1>5. Len(out) \in Nat
  BY <1>4
<1>6. <<34>> \in Seq(Int)
  OBVIOUS
<1>7. <<34>> \o out \in Seq(Int)
  BY <1>4, <1>6, ConcatProperties
<1>8. (<<34>> \o out) \o <<34, 0>> \in Seq(Int)
  BY <1>7, ZeroedTwo
<1>. QED
  BY <1>4, <1>5, <1>8 DEF out

LEMMA PiecesKeep ==
  ASSUME NEW p \in PrintBuffer, NEW s \in Seq(Int)
  PROVE  /\ Keeps(p, print_string_ptr(p, s)) /\ Keeps(p, print_raw(p, s))
         /\ Keeps(p, print_literal(p, s)) /\ Keeps(p, print_digits(p, s))
<1>1. Append(s, 0) \in Seq(Int) /\ Len(s) + 1 \in Nat /\ Len(s) \in Nat /\ 0 \in Nat
  OBVIOUS
<1>. DEFINE z == Append(s, 0)
            k == Len(s) + 1
            l == Len(s)
            out == OutOf(s)
            q == <<34>> \o out \o <<34, 0>>
<1>2. /\ print_literal(p, s) = Write(ensure(p, k), z, 0)
      /\ print_digits(p, s) = Write(ensure(p, k), z, l)
      /\ print_raw(p, s) = IF s = NoString THEN Fails(p) ELSE Write(ensure(p, k), z, 0)
      /\ print_string_ptr(p, s) = Write(ensure(p, Len(out) + 3), q, 0)
  BY DEF print_literal, print_digits, print_raw, print_string_ptr, OutOf
<1>3. out \in Seq(Int) /\ Len(out) \in Nat /\ q \in Seq(Int)
  BY OutTyped
<1>4. z \in Seq(Int) /\ k \in Nat /\ l \in Nat /\ Len(out) + 3 \in Nat
  BY <1>1, <1>3
<1>. HIDE DEF z, k, l, out, q
<1>5. Keeps(p, Write(ensure(p, k), z, 0)) /\ Keeps(p, Write(ensure(p, k), z, l))
  BY <1>1, <1>4, PutKeeps
<1>6. Keeps(p, Write(ensure(p, Len(out) + 3), q, 0))
  BY <1>1, <1>3, <1>4, PutKeeps
<1>7. Keeps(p, Fails(p))
  BY FailsFields
<1>. QED
  BY <1>2, <1>5, <1>6, <1>7

LEMMA DepthFields ==
  ASSUME NEW p \in PrintBuffer, NEW d \in Nat
  PROVE  LET q == [p EXCEPT !.depth = d] IN q \in PrintBuffer /\ q.depth = d
BY DEF PrintBuffer

LEMMA CommaKeeps ==
  ASSUME NEW p \in PrintBuffer
  PROVE  Keeps(p, print_comma(p))
<1>. DEFINE comma == IF p.format THEN <<44, 32>> ELSE <<44>>
<1>1. comma \in Seq(Int)
  OBVIOUS
<1>2. print_comma(p) = print_digits(p, comma)
  BY DEF print_comma, print_digits
<1>. HIDE DEF comma
<1>. QED
  BY <1>1, <1>2, PiecesKeep

LEMMA IndentKeeps ==
  ASSUME NEW p \in PrintBuffer
  PROVE  Keeps(p, print_indent(p))
<1>1. p.depth \in Nat /\ Keeps(p, p)
  BY DEF PrintBuffer, Keeps
<1>2. Tabs(p.depth) \in Seq(Int)
  BY <1>1, TabsTyped
<1>3. Keeps(p, Write(ensure(p, p.depth), Tabs(p.depth), p.depth))
  BY <1>1, <1>2, PutKeeps
<1>. QED
  BY <1>1, <1>3 DEF print_indent

LEMMA ColonKeeps ==
  ASSUME NEW p \in PrintBuffer
  PROVE  Keeps(p, print_colon(p))
<1>. DEFINE colon == IF p.format THEN <<58, 9>> ELSE <<58>>
<1>1. print_colon(p) = Write(ensure(p, Len(colon)), colon, Len(colon))
  BY DEF print_colon
<1>2. colon \in Seq(Int)
  OBVIOUS
<1>. HIDE DEF colon
<1>3. Len(colon) \in Nat
  BY <1>2
<1>. QED
  BY <1>1, <1>2, <1>3, PutKeeps

LEMMA EndKeeps ==
  ASSUME NEW p \in PrintBuffer, NEW last \in BOOLEAN
  PROVE  Keeps(p, end_member(p, last))
<1>. DEFINE a == IF last THEN <<>> ELSE <<44>>
            b == IF p.format THEN <<10>> ELSE <<>>
            end == a \o b
<1>1. a \in Seq(Int)
  OBVIOUS
<1>2. b \in Seq(Int)
  OBVIOUS
<1>3. end_member(p, last) = print_digits(p, end)
  BY DEF end_member, print_digits
<1>. HIDE DEF a, b
<1>4. end \in Seq(Int)
  BY <1>1, <1>2, ConcatProperties
<1>. HIDE DEF end
<1>. QED
  BY <1>3, <1>4, PiecesKeep

LEMMA OpenKeeps ==
  ASSUME NEW p \in PrintBuffer
  PROVE  /\ open_array(p) \in PrintBuffer /\ open_array(p).depth = p.depth + 1
         /\ open_object(p) \in PrintBuffer /\ open_object(p).depth = p.depth + 1
<1>. DEFINE one == <<91>>
            brace == IF p.format THEN <<123, 10>> ELSE <<123>>
            w == Write(ensure(p, 1), one, 1)
            v == Write(ensure(p, Len(brace) + 1), brace, Len(brace))
<1>1. one \in Seq(Int)
  OBVIOUS
<1>2. brace \in Seq(Int)
  OBVIOUS
<1>3. open_array(p) = [w EXCEPT !.depth = w.depth + 1] /\ open_object(p) = [v EXCEPT !.depth = v.depth + 1]
  BY DEF open_array, open_object
<1>. HIDE DEF one, brace
<1>4. Len(brace) \in Nat /\ Len(brace) + 1 \in Nat
  BY <1>2
<1>5. Keeps(p, w) /\ Keeps(p, v)
  BY <1>1, <1>2, <1>4, PutKeeps
<1>. HIDE DEF w, v
<1>6. p.depth + 1 \in Nat
  BY DEF PrintBuffer
<1>7. w \in PrintBuffer /\ v \in PrintBuffer /\ w.depth = p.depth /\ v.depth = p.depth
  BY <1>5 DEF Keeps
<1>. QED
  BY <1>3, <1>6, <1>7, DepthFields

LEMMA CloseKeeps ==
  ASSUME NEW p \in PrintBuffer, NEW d \in Nat, p.depth = d + 1
  PROVE  /\ close_array(p) \in PrintBuffer /\ close_array(p).depth = d
         /\ close_object(p) \in PrintBuffer /\ close_object(p).depth = d
<1>. DEFINE two == <<93, 0>>
            close == IF p.format THEN Tabs(p.depth - 1) ELSE <<>>
            needed == IF p.format THEN p.depth + 1 ELSE 2
            t == close \o <<125, 0>>
            w == Write(ensure(p, 2), two, 0)
            v == Write(ensure(p, needed), t, 0)
<1>1. two \in Seq(Int)
  OBVIOUS
<1>2. close \in Seq(Int)
  <2>1. p.depth - 1 \in Nat /\ <<>> \in Seq(Int)
    OBVIOUS
  <2>2. Tabs(p.depth - 1) \in Seq(Int)
    BY <2>1, TabsTyped
  <2>. QED
    BY <2>1, <2>2
<1>3. close_array(p) = [w EXCEPT !.depth = w.depth - 1] /\ close_object(p) = [v EXCEPT !.depth = v.depth - 1]
  BY DEF close_array, close_object
<1>. HIDE DEF two, close
<1>4. t \in Seq(Int)
  BY <1>2, ZeroedTwo
<1>5. needed \in Nat
  OBVIOUS
<1>. HIDE DEF needed, t
<1>6. Keeps(p, w) /\ Keeps(p, v)
  BY <1>1, <1>4, <1>5, PutKeeps
<1>. HIDE DEF w, v
<1>7. w \in PrintBuffer /\ v \in PrintBuffer /\ w.depth - 1 = d /\ v.depth - 1 = d
  BY <1>6 DEF Keeps
<1>. QED
  BY <1>3, <1>7, DepthFields

\* The digits of a number are characters.
DigitsFrom(m, d) == IF m < 10 THEN <<48 + m>> ELSE Append(d[m \div 10], 48 + (m % 10))

LEMMA TenthLess ==
  ASSUME NEW m \in Nat, ~(m < 10)
  PROVE  m \div 10 \in Nat /\ m \div 10 < m /\ 48 + (m % 10) \in Int
OBVIOUS

LEMMA DigitsFromTyped ==
  ASSUME NEW m \in Nat, NEW d, m >= 10 => d[m \div 10] \in Seq(Int)
  PROVE  DigitsFrom(m, d) \in Seq(Int)
<1>1. CASE m < 10
  BY <1>1 DEF DigitsFrom
<1>2. CASE ~(m < 10)
  <2>. DEFINE s == d[m \div 10]
              c == 48 + (m % 10)
  <2>1. c \in Int /\ s \in Seq(Int)
    BY <1>2, TenthLess
  <2>2. DigitsFrom(m, d) = Append(s, c)
    BY <1>2 DEF DigitsFrom
  <2>. HIDE DEF s, c
  <2>. QED
    BY <2>1, <2>2
<1>. QED
  BY <1>1, <1>2

LEMMA DecimalTyped ==
  ASSUME NEW n \in Int
  PROVE  Decimal(n) \in Seq(Int)
<1>. DEFINE R == Seq(Int)
            rank == [m \in Nat |-> m]
            B == [w \in Nat \X [Nat -> R] |-> DigitsFrom(w[1], w[2])]
            Eq(e) == [m \in Nat |-> DigitsFrom(m, e)]
            g == CHOOSE e : e = Eq(e)
<1>1. ASSUME NEW m \in Nat, NEW f \in [Nat -> R] PROVE DigitsFrom(m, f) \in R
  <2>1. m >= 10 => f[m \div 10] \in R
    <3>1. m >= 10 => m \div 10 \in Nat
      OBVIOUS
    <3>. HIDE DEF R
    <3>. QED
      BY <3>1
  <2>. QED
    BY <2>1, DigitsFromTyped
<1>2. ASSUME NEW m \in Nat, NEW f, NEW e, \A k \in Nat : k < m => f[k] = e[k] PROVE DigitsFrom(m, f) = DigitsFrom(m, e)
  <2>1. ~(m < 10) => f[m \div 10] = e[m \div 10]
    BY <1>2, TenthLess
  <2>. QED
    BY <2>1 DEF DigitsFrom
<1>3. HasFunction(Nat, R, B)
  <2>1. R # {}
    <3>1. <<>> \in R
      OBVIOUS
    <3>. QED
      BY <3>1
  <2>. HIDE DEF R
  <2>2. ASSUME NEW m \in Nat, NEW f \in [Nat -> R] PROVE B[<<m, f>>] = DigitsFrom(m, f)
    OBVIOUS
  <2>3. B \in [Nat \X [Nat -> R] -> R]
    <3>1. ASSUME NEW w \in Nat \X [Nat -> R] PROVE DigitsFrom(w[1], w[2]) \in R
      BY <1>1
    <3>. QED
      BY <3>1
  <2>4. rank \in [Nat -> Nat] /\ \A m \in Nat : rank[m] = m
    OBVIOUS
  <2>. HIDE DEF B, rank
  <2>5. LooksBelow(Nat, R, rank, B)
    <3>1. ASSUME NEW m \in Nat, NEW f \in [Nat -> R], NEW e \in [Nat -> R], \A k \in Nat : rank[k] < rank[m] => f[k] = e[k]
          PROVE  B[<<m, f>>] = B[<<m, e>>]
      <4>1. \A k \in Nat : k < m => f[k] = e[k]
        BY <2>4, <3>1
      <4>. QED
        BY <1>2, <2>2, <4>1
    <3>. QED
      BY <3>1 DEF LooksBelow
  <2>. QED
    BY <2>1, <2>3, <2>4, <2>5, DefinedByRank
<1>4. PICK f \in [Nat -> R] : \A m \in Nat : f[m] = B[<<m, f>>]
  <2>. HIDE DEF R, B
  <2>. QED
    BY <1>3 DEF HasFunction
<1>5. f = Eq(f)
  <2>1. \A m \in Nat : f[m] = DigitsFrom(m, f)
    BY <1>4
  <2>. HIDE DEF R
  <2>. QED
    BY <2>1
<1>6. g = Eq(g)
  <2>. HIDE DEF Eq
  <2>. QED
    BY <1>5
<1>7. Decimal(n) = IF n < 0 THEN <<45>> \o g[-n] ELSE g[n]
  BY DEF Decimal, DigitsFrom
<1>. HIDE DEF g
<1>8. \A m \in Nat : g[m] = DigitsFrom(m, g)
  BY <1>6
<1>. HIDE DEF Eq, B
<1>9. ASSUME NEW m \in Nat PROVE g[m] \in Seq(Int)
  <2>. DEFINE bad == {k \in Nat : g[k] \notin Seq(Int)}
  <2>1. ASSUME bad # {} PROVE FALSE
    <3>1. PICK k \in bad : \A j \in bad : k <= j
      <4>1. bad \subseteq Nat
        OBVIOUS
      <4>. HIDE DEF bad
      <4>. QED
        BY <2>1, <4>1, NatMin
    <3>2. k \in Nat /\ g[k] \notin Seq(Int)
      OBVIOUS
    <3>3. k >= 10 => g[k \div 10] \in Seq(Int)
      <4>1. k >= 10 => k \div 10 \in Nat /\ k \div 10 < k
        BY <3>2, TenthLess
      <4>2. k >= 10 => k \div 10 \notin bad
        <5>. DEFINE j == k \div 10
        <5>. HIDE DEF bad, j
        <5>. QED
          BY <3>1, <3>2, <4>1 DEF j
      <4>. QED
        BY <4>1, <4>2
    <3>4. DigitsFrom(k, g) \in Seq(Int)
      BY <3>2, <3>3, DigitsFromTyped
    <3>. QED
      BY <1>8, <3>2, <3>4
  <2>. QED
    BY <2>1
<1>10. CASE n < 0
  <2>1. -n \in Nat
    BY <1>10
  <2>2. g[-n] \in Seq(Int) /\ <<45>> \in Seq(Int)
    BY <1>9, <2>1
  <2>3. <<45>> \o g[-n] \in Seq(Int)
    BY <2>2, ConcatProperties
  <2>. QED
    BY <1>7, <1>10, <2>3
<1>11. CASE ~(n < 0)
  <2>1. n \in Nat
    BY <1>11
  <2>. QED
    BY <1>7, <1>9, <1>11, <2>1
<1>. QED
  BY <1>10, <1>11

\* Every number has a value; and what is below an item and behind it is of lower
\* rank, so that no item is below or behind itself.
Numbered(h) == \A n \in Node : h[n].kind = "number" => h[n].val # << >>

Descends(h, rank) ==
  /\ rank \in [Node -> Nat]
  /\ \A n \in Node : /\ h[n].child \in Node => rank[h[n].child] < rank[n]
                     /\ h[n].next \in Node => rank[h[n].next] < rank[n]

\* What prints the items of a list leaves the depth it finds.
Printing(f) == \A y \in Unprinted : Keeps(y.to, f[y])

ListAt(h, p, n, kind) == [to |-> p, kind |-> kind, from |-> h[n].child]

LEMMA ListAtFields ==
  ASSUME NEW h \in Heap, NEW p \in PrintBuffer, NEW n \in Node, h[n].child # NULL, NEW kind \in {"array", "object"}
  PROVE  LET y == ListAt(h, p, n, kind)
         IN y \in Unprinted /\ y.to = p /\ y.kind = kind /\ y.from = h[n].child /\ h[n].child \in Node
<1>1. h[n].child \in Node
  BY DEF Heap, Cell, Pointer
<1>. QED
  BY <1>1 DEF ListAt, Unprinted

LEMMA PrintListIs ==
  ASSUME NEW h, NEW f, NEW p, NEW n, NEW kind
  PROVE  print_list(h, f, p, n, kind) = IF h[n].child = NULL THEN p ELSE f[ListAt(h, p, n, kind)]
BY DEF print_list, ListAt

LEMMA ListKeeps ==
  ASSUME NEW h \in Heap, NEW f, Printing(f), NEW p \in PrintBuffer, NEW n \in Node, NEW kind \in {"array", "object"}
  PROVE  Keeps(p, print_list(h, f, p, n, kind))
<1>1. CASE h[n].child = NULL
  BY <1>1, PrintListIs DEF Keeps
<1>2. CASE h[n].child # NULL
  <2>. DEFINE y == ListAt(h, p, n, kind)
  <2>1. y \in Unprinted /\ y.to = p
    BY <1>2, ListAtFields
  <2>2. print_list(h, f, p, n, kind) = f[y]
    BY <1>2, PrintListIs
  <2>. HIDE DEF y
  <2>. QED
    BY <2>1, <2>2 DEF Printing
<1>. QED
  BY <1>1, <1>2

LEMMA BracketsKeep ==
  ASSUME NEW h \in Heap, NEW f, Printing(f), NEW p \in PrintBuffer, NEW n \in Node
  PROVE  Keeps(p, print_array(h, f, p, n)) /\ Keeps(p, print_object(h, f, p, n))
<1>. DEFINE a == open_array(p)
            o == open_object(p)
            b == print_list(h, f, a, n, "array")
            q == print_list(h, f, o, n, "object")
<1>1. a \in PrintBuffer /\ a.depth = p.depth + 1 /\ o \in PrintBuffer /\ o.depth = p.depth + 1
  BY OpenKeeps
<1>. HIDE DEF a, o
<1>2. Keeps(a, b) /\ Keeps(o, q)
  BY <1>1, ListKeeps
<1>3. print_array(h, f, p, n) = close_array(b) /\ print_object(h, f, p, n) = close_object(q)
  BY DEF print_array, print_object, a, o
<1>. HIDE DEF b, q
<1>4. b \in PrintBuffer /\ b.depth = p.depth + 1 /\ q \in PrintBuffer /\ q.depth = p.depth + 1 /\ p.depth \in Nat
  BY <1>1, <1>2 DEF Keeps, PrintBuffer
<1>5. /\ close_array(b) \in PrintBuffer /\ close_array(b).depth = p.depth
      /\ close_object(q) \in PrintBuffer /\ close_object(q).depth = p.depth
  BY <1>4, CloseKeeps
<1>. QED
  BY <1>3, <1>5 DEF Keeps

\* What a value is printed as.
ValueCases(h, f, p, n) ==
  {p, Fails(p), print_literal(p, <<110, 117, 108, 108>>), print_literal(p, <<102, 97, 108, 115, 101>>),
   print_literal(p, <<116, 114, 117, 101>>), print_raw(p, h[n].val), print_string_ptr(p, h[n].val),
   print_array(h, f, p, n), print_object(h, f, p, n)}
  \cup (IF h[n].kind = "number" THEN {print_number(p, h[n].val[1])} ELSE {})

LEMMA ValueIsCase ==
  ASSUME NEW h, NEW f, NEW p, NEW n
  PROVE  print_value(h, f, p, n) \in ValueCases(h, f, p, n)
<1>1. CASE ~p.ok
  BY <1>1 DEF print_value, ValueCases
<1>2. CASE p.ok
  BY <1>2 DEF print_value, ValueCases
<1>. QED
  BY <1>1, <1>2

LEMMA NumberTyped ==
  ASSUME NEW h \in Heap, Numbered(h), NEW n \in Node, h[n].kind = "number"
  PROVE  h[n].val[1] \in Int /\ Decimal(h[n].val[1]) \in Seq(Int)
<1>1. h[n].val \in Seq(Int) /\ h[n].val # << >>
  BY DEF Heap, Cell, Numbered
<1>2. h[n].val[1] \in Int
  BY <1>1
<1>. QED
  BY <1>2, DecimalTyped

LEMMA ValueKeeps ==
  ASSUME NEW h \in Heap, Numbered(h), NEW f, Printing(f), NEW p \in PrintBuffer, NEW n \in Node
  PROVE  Keeps(p, print_value(h, f, p, n))
<1>. DEFINE r == print_value(h, f, p, n)
            null == <<110, 117, 108, 108>>
            false == <<102, 97, 108, 115, 101>>
            true == <<116, 114, 117, 101>>
            s == h[n].val
<1>1. null \in Seq(Int) /\ false \in Seq(Int) /\ true \in Seq(Int)
  OBVIOUS
<1>2. s \in Seq(Int)
  BY DEF Heap, Cell
<1>3. r \in {p, Fails(p), print_literal(p, null), print_literal(p, false), print_literal(p, true), print_raw(p, s),
             print_string_ptr(p, s), print_array(h, f, p, n), print_object(h, f, p, n)}
            \cup (IF h[n].kind = "number" THEN {print_number(p, s[1])} ELSE {})
  BY ValueIsCase DEF ValueCases
<1>4. h[n].kind = "number" => Keeps(p, print_number(p, s[1]))
  <2>1. ASSUME h[n].kind = "number" PROVE Keeps(p, print_number(p, s[1]))
    <3>1. Decimal(s[1]) \in Seq(Int)
      BY <2>1, NumberTyped
    <3>. QED
      BY <3>1, PiecesKeep DEF print_number
  <2>. QED
    BY <2>1
<1>. HIDE DEF r, null, false, true, s
<1>5. Keeps(p, p) /\ Keeps(p, Fails(p))
  BY FailsFields DEF Keeps
<1>6. Keeps(p, print_literal(p, null)) /\ Keeps(p, print_literal(p, false)) /\ Keeps(p, print_literal(p, true))
  BY <1>1, PiecesKeep
<1>7. Keeps(p, print_raw(p, s)) /\ Keeps(p, print_string_ptr(p, s))
  BY <1>2, PiecesKeep
<1>8. Keeps(p, print_array(h, f, p, n)) /\ Keeps(p, print_object(h, f, p, n))
  BY BracketsKeep
<1>9. Keeps(p, r)
  BY <1>3, <1>4, <1>5, <1>6, <1>7, <1>8
<1>. QED
  BY <1>9 DEF r

\* An item and what is printed around it.
ItemPrinted(h, f, x) == IF x.kind = "array" THEN print_element(h, f, x.to, x.from) ELSE print_member(h, f, x.to, x.from)
ThenAt(h, p, x) == [x EXCEPT !.to = p, !.from = h[x.from].next]

LEMMA PrintItemsIs ==
  ASSUME NEW h, NEW f, NEW x
  PROVE  PrintItems(h, f, x) =
           IF h[x.from].next = NULL THEN ItemPrinted(h, f, x) ELSE f[ThenAt(h, ItemPrinted(h, f, x), x)]
BY DEF PrintItems, ItemPrinted, ThenAt

LEMMA ThenFields ==
  ASSUME NEW h \in Heap, NEW p \in PrintBuffer, NEW x \in Unprinted, h[x.from].next # NULL
  PROVE  LET y == ThenAt(h, p, x)
         IN y \in Unprinted /\ y.to = p /\ y.kind = x.kind /\ y.from = h[x.from].next /\ h[x.from].next \in Node
<1>1. x.from \in Node
  BY DEF Unprinted
<1>2. h[x.from].next \in Node
  BY <1>1 DEF Heap, Cell, Pointer
<1>. QED
  BY <1>2 DEF ThenAt, Unprinted

LEMMA ItemKeeps ==
  ASSUME NEW h \in Heap, Numbered(h), NEW f, Printing(f), NEW x \in Unprinted
  PROVE  Keeps(x.to, ItemPrinted(h, f, x))
<1>1. x.to \in PrintBuffer /\ x.from \in Node
  BY DEF Unprinted
<1>. DEFINE p == x.to
            n == x.from
<1>2. Keeps(p, print_element(h, f, p, n))
  <2>. DEFINE v == print_value(h, f, p, n)
              u == update_offset(v)
  <2>1. Keeps(p, v)
    BY <1>1, ValueKeeps
  <2>2. print_element(h, f, p, n) = IF h[n].next = NULL THEN u ELSE print_comma(u)
    BY DEF print_element
  <2>. HIDE DEF v
  <2>3. Keeps(v, u)
    BY <2>1, UpdateKeeps DEF Keeps
  <2>. HIDE DEF u
  <2>4. Keeps(u, print_comma(u))
    BY <2>3, CommaKeeps DEF Keeps
  <2>. QED
    BY <2>1, <2>2, <2>3, <2>4 DEF Keeps
<1>3. Keeps(p, print_member(h, f, p, n))
  <2>. DEFINE i == print_indent(p)
              s == print_string_ptr(i, h[n].key)
              name == update_offset(s)
              c == print_colon(name)
              v == print_value(h, f, c, n)
              u == update_offset(v)
              last == h[n].next = NULL
              e == end_member(u, last)
  <2>1. print_member(h, f, p, n) = e
    BY DEF print_member
  <2>2. h[n].key \in Seq(Int) /\ last \in BOOLEAN
    BY <1>1 DEF Heap, Cell
  <2>3. Keeps(p, i)
    BY <1>1, IndentKeeps
  <2>. HIDE DEF i
  <2>4. Keeps(i, s)
    BY <2>2, <2>3, PiecesKeep DEF Keeps
  <2>. HIDE DEF s
  <2>5. Keeps(s, name)
    BY <2>4, UpdateKeeps DEF Keeps
  <2>. HIDE DEF name
  <2>6. Keeps(name, c)
    BY <2>5, ColonKeeps DEF Keeps
  <2>. HIDE DEF c
  <2>7. Keeps(c, v)
    <3>1. c \in PrintBuffer
      BY <2>6 DEF Keeps
    <3>. QED
      BY <1>1, <3>1, ValueKeeps
  <2>. HIDE DEF v
  <2>8. Keeps(v, u)
    BY <2>7, UpdateKeeps DEF Keeps
  <2>. HIDE DEF u, last
  <2>9. Keeps(u, e)
    BY <2>2, <2>8, EndKeeps DEF Keeps
  <2>. HIDE DEF e
  <2>. QED
    BY <2>1, <2>3, <2>4, <2>5, <2>6, <2>7, <2>8, <2>9 DEF Keeps
<1>. QED
  BY <1>2, <1>3 DEF ItemPrinted

LEMMA ItemsKeep ==
  ASSUME NEW h \in Heap, Numbered(h), NEW f, Printing(f), NEW x \in Unprinted
  PROVE  Keeps(x.to, PrintItems(h, f, x))
<1>. DEFINE p == ItemPrinted(h, f, x)
            y == ThenAt(h, p, x)
<1>1. Keeps(x.to, p)
  BY ItemKeeps
<1>2. PrintItems(h, f, x) = IF h[x.from].next = NULL THEN p ELSE f[y]
  BY PrintItemsIs
<1>. HIDE DEF p
<1>3. h[x.from].next # NULL => Keeps(p, f[y])
  <2>1. ASSUME h[x.from].next # NULL PROVE Keeps(p, f[y])
    <3>1. p \in PrintBuffer
      BY <1>1 DEF Keeps
    <3>2. y \in Unprinted /\ y.to = p
      BY <2>1, <3>1, ThenFields
    <3>. HIDE DEF y
    <3>. QED
      BY <3>2 DEF Printing
  <2>. QED
    BY <2>1
<1>. HIDE DEF y
<1>. QED
  BY <1>1, <1>2, <1>3 DEF Keeps

\* Only items below and behind are printed with one.
SameUnder(rank, n, f, g) == \A y \in Unprinted : rank[y.from] < rank[n] => f[y] = g[y]

LEMMA ListSame ==
  ASSUME NEW h \in Heap, NEW rank, Descends(h, rank), NEW n \in Node, NEW f, NEW g, SameUnder(rank, n, f, g),
         NEW p \in PrintBuffer, NEW kind \in {"array", "object"}
  PROVE  print_list(h, f, p, n, kind) = print_list(h, g, p, n, kind)
<1>. DEFINE y == ListAt(h, p, n, kind)
<1>1. h[n].child # NULL => f[y] = g[y]
  <2>1. ASSUME h[n].child # NULL PROVE f[y] = g[y]
    <3>1. y \in Unprinted /\ y.from = h[n].child /\ h[n].child \in Node
      BY <2>1, ListAtFields
    <3>. HIDE DEF y
    <3>. QED
      BY <3>1 DEF SameUnder, Descends
  <2>. QED
    BY <2>1
<1>. QED
  BY <1>1, PrintListIs

LEMMA ValueSame ==
  ASSUME NEW h \in Heap, NEW rank, Descends(h, rank), NEW n \in Node, NEW f, NEW g, SameUnder(rank, n, f, g),
         NEW p \in PrintBuffer
  PROVE  print_value(h, f, p, n) = print_value(h, g, p, n)
<1>1. open_array(p) \in PrintBuffer /\ open_object(p) \in PrintBuffer
  BY OpenKeeps
<1>2. /\ print_list(h, f, open_array(p), n, "array") = print_list(h, g, open_array(p), n, "array")
      /\ print_list(h, f, open_object(p), n, "object") = print_list(h, g, open_object(p), n, "object")
  BY <1>1, ListSame
<1>3. print_array(h, f, p, n) = print_array(h, g, p, n) /\ print_object(h, f, p, n) = print_object(h, g, p, n)
  BY <1>2 DEF print_array, print_object
<1>. QED
  BY <1>3 DEF print_value

LEMMA ItemSame ==
  ASSUME NEW h \in Heap, NEW rank, Descends(h, rank), NEW x \in Unprinted, NEW f, NEW g, SameUnder(rank, x.from, f, g)
  PROVE  ItemPrinted(h, f, x) = ItemPrinted(h, g, x)
<1>1. x.to \in PrintBuffer /\ x.from \in Node
  BY DEF Unprinted
<1>. DEFINE p == x.to
            n == x.from
            c == print_colon(update_offset(print_string_ptr(print_indent(p), h[n].key)))
<1>2. print_value(h, f, p, n) = print_value(h, g, p, n)
  BY <1>1, ValueSame
<1>3. c \in PrintBuffer
  <2>. DEFINE i == print_indent(p)
              s == print_string_ptr(i, h[n].key)
              name == update_offset(s)
  <2>1. h[n].key \in Seq(Int)
    BY <1>1 DEF Heap, Cell
  <2>2. i \in PrintBuffer
    BY <1>1, IndentKeeps DEF Keeps
  <2>. HIDE DEF i
  <2>3. s \in PrintBuffer
    BY <2>1, <2>2, PiecesKeep DEF Keeps
  <2>. HIDE DEF s
  <2>4. name \in PrintBuffer
    BY <2>3, UpdateKeeps DEF Keeps
  <2>. HIDE DEF name
  <2>5. print_colon(name) \in PrintBuffer
    BY <2>4, ColonKeeps DEF Keeps
  <2>. QED
    BY <2>5 DEF name, s, i
<1>4. print_value(h, f, c, n) = print_value(h, g, c, n)
  <2>. HIDE DEF c
  <2>. QED
    BY <1>1, <1>3, ValueSame
<1>5. print_element(h, f, p, n) = print_element(h, g, p, n)
  BY <1>2 DEF print_element
<1>6. print_member(h, f, p, n) = print_member(h, g, p, n)
  BY <1>4 DEF print_member
<1>. QED
  BY <1>5, <1>6 DEF ItemPrinted

LEMMA ItemsSame ==
  ASSUME NEW h \in Heap, Numbered(h), NEW rank, Descends(h, rank), NEW x \in Unprinted,
         NEW f, Printing(f), NEW g, SameUnder(rank, x.from, f, g)
  PROVE  PrintItems(h, f, x) = PrintItems(h, g, x)
<1>. DEFINE p == ItemPrinted(h, f, x)
            y == ThenAt(h, p, x)
<1>1. ItemPrinted(h, g, x) = p
  BY ItemSame
<1>2. Keeps(x.to, p)
  BY ItemKeeps
<1>3. /\ PrintItems(h, f, x) = IF h[x.from].next = NULL THEN p ELSE f[y]
      /\ PrintItems(h, g, x) = IF h[x.from].next = NULL THEN p ELSE g[y]
  BY <1>1, PrintItemsIs
<1>. HIDE DEF p
<1>4. h[x.from].next # NULL => f[y] = g[y]
  <2>1. ASSUME h[x.from].next # NULL PROVE f[y] = g[y]
    <3>1. p \in PrintBuffer /\ x.from \in Node
      BY <1>2 DEF Keeps, Unprinted
    <3>2. y \in Unprinted /\ y.from = h[x.from].next /\ h[x.from].next \in Node
      BY <2>1, <3>1, ThenFields
    <3>. HIDE DEF y
    <3>. QED
      BY <3>1, <3>2 DEF SameUnder, Descends
  <2>. QED
    BY <2>1
<1>. HIDE DEF y
<1>. QED
  BY <1>3, <1>4

\* What leaves another depth than it found is taken to fail.
Tamed(f) == [y \in Unprinted |-> IF Keeps(y.to, f[y]) THEN f[y] ELSE Fails(y.to)]

LEMMA TamedPrinting ==
  ASSUME NEW f
  PROVE  Printing(Tamed(f)) /\ (Printing(f) => \A y \in Unprinted : Tamed(f)[y] = f[y])
<1>1. ASSUME NEW y \in Unprinted PROVE Keeps(y.to, Tamed(f)[y])
  <2>1. y.to \in PrintBuffer
    BY DEF Unprinted
  <2>2. Keeps(y.to, Fails(y.to))
    BY <2>1, FailsFields
  <2>. QED
    BY <2>2 DEF Tamed
<1>2. ASSUME Printing(f), NEW y \in Unprinted PROVE Tamed(f)[y] = f[y]
  BY <1>2 DEF Tamed, Printing
<1>. QED
  BY <1>1, <1>2 DEF Printing

LEMMA PrintingExists ==
  ASSUME NEW h \in Heap, Numbered(h), NEW rank, Descends(h, rank), Unprinted # {}
  PROVE  \E f \in [Unprinted -> PrintBuffer] :
           Printing(f) /\ \A x \in Unprinted : f[x] = PrintItems(h, f, x)
<1>. DEFINE B == [w \in Unprinted \X [Unprinted -> PrintBuffer] |-> PrintItems(h, Tamed(w[2]), w[1])]
            S == Unprinted
            R == PrintBuffer
            low == [x \in Unprinted |-> rank[x.from]]
<1>1. ASSUME NEW x \in Unprinted, NEW f PROVE Keeps(x.to, PrintItems(h, Tamed(f), x))
  BY TamedPrinting, ItemsKeep
<1>2. ASSUME NEW x \in Unprinted, NEW f \in [Unprinted -> PrintBuffer]
      PROVE  <<x, f>> \in Unprinted \X [Unprinted -> PrintBuffer] /\ B[<<x, f>>] = PrintItems(h, Tamed(f), x)
  OBVIOUS
<1>3. B \in [S \X [S -> R] -> R]
  <2>1. ASSUME NEW w \in Unprinted \X [Unprinted -> PrintBuffer] PROVE PrintItems(h, Tamed(w[2]), w[1]) \in PrintBuffer
    <3>1. w[1] \in Unprinted
      OBVIOUS
    <3>. QED
      BY <1>1, <3>1 DEF Keeps
  <2>. QED
    BY <2>1
<1>4. low \in [S -> Nat] /\ \A x \in Unprinted : low[x] = rank[x.from]
  <2>1. \A x \in Unprinted : x.from \in Node
    BY DEF Unprinted
  <2>. QED
    BY <2>1 DEF Descends
<1>. HIDE DEF B, low
<1>5. LooksBelow(S, R, low, B)
  <2>1. ASSUME NEW x \in Unprinted, NEW f \in [Unprinted -> PrintBuffer], NEW g \in [Unprinted -> PrintBuffer],
               \A y \in Unprinted : low[y] < low[x] => f[y] = g[y]
        PROVE  B[<<x, f>>] = B[<<x, g>>]
    <3>1. SameUnder(rank, x.from, Tamed(f), Tamed(g))
      <4>1. ASSUME NEW y \in Unprinted, rank[y.from] < rank[x.from] PROVE Tamed(f)[y] = Tamed(g)[y]
        <5>1. f[y] = g[y]
          BY <1>4, <2>1, <4>1
        <5>. QED
          BY <5>1 DEF Tamed
      <4>. QED
        BY <4>1 DEF SameUnder
    <3>2. PrintItems(h, Tamed(f), x) = PrintItems(h, Tamed(g), x)
      BY <3>1, TamedPrinting, ItemsSame
    <3>. QED
      BY <1>2, <3>2
  <2>. QED
    BY <2>1 DEF LooksBelow
<1>6. R # {}
  <2>1. PICK x \in Unprinted : TRUE
    OBVIOUS
  <2>2. x.to \in PrintBuffer
    BY DEF Unprinted
  <2>. QED
    BY <2>2
<1>7. HasFunction(S, R, B)
  <2>. HIDE DEF S, R
  <2>. QED
    BY <1>3, <1>4, <1>5, <1>6, DefinedByRank
<1>8. PICK f \in [Unprinted -> PrintBuffer] : \A x \in Unprinted : f[x] = B[<<x, f>>]
  BY <1>7 DEF HasFunction
<1>9. \A x \in Unprinted : f[x] = PrintItems(h, Tamed(f), x)
  BY <1>2, <1>8
<1>10. Printing(f)
  BY <1>1, <1>9 DEF Printing
<1>11. Tamed(f) = f
  <2>1. \A y \in Unprinted : Tamed(f)[y] = f[y]
    BY <1>10, TamedPrinting
  <2>. QED
    BY <2>1 DEF Tamed
<1>. QED
  BY <1>9, <1>10, <1>11

\* The items of a list, and all that is below them, are what one item, and what
\* is printed behind it, makes of them.
LEMMA ItemsInStep ==
  ASSUME NEW h \in Heap, Numbered(h), NEW rank, Descends(h, rank), Unprinted # {}
  PROVE  Printing(ItemsIn(h)) /\ \A x \in Unprinted : ItemsIn(h)[x] = PrintItems(h, ItemsIn(h), x)
<1>. DEFINE Eq(e) == [x \in Unprinted |-> PrintItems(h, e, x)]
            g == CHOOSE e : e = Eq(e)
<1>1. PICK f \in [Unprinted -> PrintBuffer] : Printing(f) /\ \A x \in Unprinted : f[x] = PrintItems(h, f, x)
  BY PrintingExists
<1>2. f = Eq(f)
  BY <1>1
<1>3. g = Eq(g)
  <2>. HIDE DEF Eq
  <2>. QED
    BY <1>2
<1>4. ItemsIn(h) = g
  BY DEF ItemsIn
<1>. HIDE DEF g
<1>5. \A x \in Unprinted : g[x] = PrintItems(h, g, x)
  BY <1>3
<1>. HIDE DEF Eq
<1>6. \A x \in Unprinted : x.from \in Node /\ rank[x.from] \in Nat
  BY DEF Unprinted, Descends
<1>7. ASSUME NEW x \in Unprinted PROVE f[x] = g[x]
  <2>. DEFINE bad == {k \in Nat : \E y \in Unprinted : rank[y.from] = k /\ f[y] # g[y]}
  <2>1. ASSUME bad # {} PROVE FALSE
    <3>1. PICK k \in bad : \A j \in bad : k <= j
      <4>1. bad \subseteq Nat
        OBVIOUS
      <4>. HIDE DEF bad
      <4>. QED
        BY <2>1, <4>1, NatMin
    <3>2. PICK y \in Unprinted : rank[y.from] = k /\ f[y] # g[y]
      OBVIOUS
    <3>3. SameUnder(rank, y.from, f, g)
      <4>1. ASSUME NEW z \in Unprinted, rank[z.from] < rank[y.from], f[z] # g[z] PROVE FALSE
        <5>1. rank[z.from] \in Nat /\ k \in Nat
          BY <1>6
        <5>2. rank[z.from] \in bad
          BY <4>1, <5>1
        <5>. HIDE DEF bad
        <5>. QED
          BY <3>1, <3>2, <4>1, <5>1, <5>2
      <4>. QED
        BY <4>1 DEF SameUnder
    <3>4. PrintItems(h, f, y) = PrintItems(h, g, y)
      BY <1>1, <3>3, ItemsSame
    <3>. QED
      BY <1>1, <1>5, <3>2, <3>4
  <2>. QED
    BY <1>6, <2>1
<1>8. Printing(g)
  BY <1>1, <1>7 DEF Printing
<1>. QED
  BY <1>4, <1>5, <1>8

\* A buffer of the caller's stays the caller's and as long as it was.
SameRoom(p, q) == q.noalloc = p.noalloc /\ (p.noalloc => Len(q.mem) = Len(p.mem))

\* What is printed after p fits, and is as deep.
Within(p, q) == Fits(q) /\ q.depth = p.depth /\ SameRoom(p, q)

\* So does what is printed of the items of a list, from items of lower rank on.
FitsBelow(rank, k, f) == \A y \in Unprinted : rank[y.from] < k /\ Fits(y.to) => Within(y.to, f[y])

LEMMA WithinOn ==
  ASSUME NEW p, NEW q, NEW r, Within(p, q), Within(q, r)
  PROVE  Within(p, r)
BY DEF Within, SameRoom

LEMMA WithinItself ==
  ASSUME NEW p, Fits(p)
  PROVE  Within(p, p)
BY DEF Within, SameRoom

LEMMA FollowsWithin ==
  ASSUME NEW p, NEW q, Follows(p, q)
  PROVE  Within(p, q)
BY DEF Follows, Goes, Within, SameRoom

LEMMA UpdateWithin ==
  ASSUME NEW p, Fits(p), Ended(p)
  PROVE  Within(p, update_offset(p))
<1>. DEFINE q == update_offset(p)
<1>1. Fits(q) /\ Goes(p, q)
  BY UpdateOffsetStops
<1>. HIDE DEF q
<1>2. Within(p, q)
  BY <1>1, FollowsWithin DEF Follows
<1>. QED
  BY <1>2 DEF q

\* A bracket changes the depth and nothing else of what was written.
LEMMA BracketRoom ==
  ASSUME NEW p, Fits(p), NEW needed \in Nat, NEW s \in Seq(Int), Len(s) <= needed + 1, NEW n \in Nat, NEW d \in Nat
  PROVE  SameRoom(p, [Write(ensure(p, needed), s, n) EXCEPT !.depth = d])
<1>. DEFINE w == Write(ensure(p, needed), s, n)
            q == [w EXCEPT !.depth = d]
<1>1. Fits(w) /\ Goes(p, w)
  BY WritesFit
<1>. HIDE DEF w
<1>2. q.mem = w.mem /\ q.noalloc = w.noalloc
  BY <1>1, Deeper
<1>. HIDE DEF q
<1>3. SameRoom(p, q)
  BY <1>1, <1>2 DEF Goes, SameRoom
<1>. QED
  BY <1>3 DEF q, w

LEMMA BracketDepth ==
  ASSUME NEW p, Fits(p), NEW needed \in Nat, NEW s \in Seq(Int), Len(s) <= needed + 1, NEW n \in Nat
  PROVE  Write(ensure(p, needed), s, n).depth = p.depth
BY WritesFit DEF Goes

LEMMA OpensRoom ==
  ASSUME NEW p, Fits(p)
  PROVE  SameRoom(p, open_array(p)) /\ SameRoom(p, open_object(p))
<1>. DEFINE one == <<91>>
            brace == IF p.format THEN <<123, 10>> ELSE <<123>>
            k == Len(brace) + 1
            l == Len(brace)
            a == Write(ensure(p, 1), one, 1)
            o == Write(ensure(p, k), brace, l)
<1>1. open_array(p) = [a EXCEPT !.depth = a.depth + 1] /\ open_object(p) = [o EXCEPT !.depth = o.depth + 1]
  BY DEF open_array, open_object
<1>2. one \in Seq(Int) /\ Len(one) <= 1 + 1
  OBVIOUS
<1>3. brace \in Seq(Int)
  OBVIOUS
<1>. HIDE DEF one, brace
<1>4. k \in Nat /\ l \in Nat /\ Len(brace) <= k + 1
  BY <1>3
<1>. HIDE DEF k, l
<1>5. a.depth = p.depth /\ o.depth = p.depth /\ p.depth + 1 \in Nat
  BY <1>2, <1>3, <1>4, BracketDepth, BufferFields
<1>6. SameRoom(p, [a EXCEPT !.depth = p.depth + 1]) /\ SameRoom(p, [o EXCEPT !.depth = p.depth + 1])
  BY <1>2, <1>3, <1>4, <1>5, BracketRoom
<1>. HIDE DEF a, o
<1>. QED
  BY <1>1, <1>5, <1>6

LEMMA ClosesRoom ==
  ASSUME NEW p, Fits(p), p.depth > 0
  PROVE  SameRoom(p, close_array(p)) /\ SameRoom(p, close_object(p))
<1>. DEFINE two == <<93, 0>>
            close == IF p.format THEN Tabs(p.depth - 1) ELSE <<>>
            t == close \o <<125, 0>>
            k == IF p.format THEN p.depth + 1 ELSE 2
            a == Write(ensure(p, 2), two, 0)
            o == Write(ensure(p, k), t, 0)
<1>1. close_array(p) = [a EXCEPT !.depth = a.depth - 1] /\ close_object(p) = [o EXCEPT !.depth = o.depth - 1]
  BY DEF close_array, close_object
<1>2. two \in Seq(Int) /\ Len(two) <= 2 + 1
  OBVIOUS
<1>. HIDE DEF two
<1>3. p.depth \in Nat /\ p.depth - 1 \in Nat
  BY BufferFields
<1>4. close \in Seq(Int) /\ Len(close) = (IF p.format THEN p.depth - 1 ELSE 0)
  <2>1. <<>> \in Seq(Int) /\ Len(<<>>) = 0
    OBVIOUS
  <2>2. Tabs(p.depth - 1) \in Seq(Int) /\ Len(Tabs(p.depth - 1)) = p.depth - 1
    BY <1>3, TabsTyped
  <2>. QED
    BY <2>1, <2>2
<1>. HIDE DEF close
<1>5. t \in Seq(Int) /\ Len(t) = Len(close) + 2
  BY <1>4, ZeroedTwo
<1>. HIDE DEF t
<1>6. k \in Nat /\ Len(t) <= k + 1
  BY <1>3, <1>4, <1>5
<1>. HIDE DEF k
<1>7. a.depth = p.depth /\ o.depth = p.depth
  BY <1>2, <1>5, <1>6, BracketDepth
<1>8. SameRoom(p, [a EXCEPT !.depth = p.depth - 1]) /\ SameRoom(p, [o EXCEPT !.depth = p.depth - 1])
  BY <1>2, <1>3, <1>5, <1>6, BracketRoom
<1>. HIDE DEF a, o
<1>. QED
  BY <1>1, <1>7, <1>8

LEMMA ListFits ==
  ASSUME NEW h \in Heap, NEW rank, Descends(h, rank), NEW n \in Node, NEW f, FitsBelow(rank, rank[n], f),
         NEW p, Fits(p), NEW kind \in {"array", "object"}
  PROVE  Within(p, print_list(h, f, p, n, kind))
<1>1. CASE h[n].child = NULL
  BY <1>1, PrintListIs, WithinItself
<1>2. CASE h[n].child # NULL
  <2>. DEFINE y == ListAt(h, p, n, kind)
  <2>1. y \in Unprinted /\ y.to = p /\ y.from = h[n].child /\ h[n].child \in Node
    BY <1>2, ListAtFields DEF Fits
  <2>2. print_list(h, f, p, n, kind) = f[y]
    BY <1>2, PrintListIs
  <2>. HIDE DEF y
  <2>. QED
    BY <2>1, <2>2 DEF FitsBelow, Descends
<1>. QED
  BY <1>1, <1>2

\* Arrays and objects fit if what is below them does.
LEMMA BracketsFit ==
  ASSUME NEW h \in Heap, NEW rank, Descends(h, rank), NEW n \in Node, NEW f, FitsBelow(rank, rank[n], f),
         NEW p, Fits(p)
  PROVE  /\ Within(p, print_array(h, f, p, n)) /\ Ended(print_array(h, f, p, n))
         /\ Within(p, print_object(h, f, p, n)) /\ Ended(print_object(h, f, p, n))
<1>. DEFINE a == open_array(p)
            o == open_object(p)
            b == print_list(h, f, a, n, "array")
            q == print_list(h, f, o, n, "object")
            d == close_array(b)
            e == close_object(q)
<1>1. /\ Fits(a) /\ a.depth = p.depth + 1 /\ SameRoom(p, a)
      /\ Fits(o) /\ o.depth = p.depth + 1 /\ SameRoom(p, o)
  BY ArraysFit, ObjectsFit, OpensRoom
<1>2. print_array(h, f, p, n) = d /\ print_object(h, f, p, n) = e
  BY DEF print_array, print_object
<1>. HIDE DEF a, o
<1>3. Within(a, b) /\ Within(o, q)
  BY <1>1, ListFits
<1>. HIDE DEF b, q
<1>4. /\ Fits(b) /\ b.depth = p.depth + 1 /\ SameRoom(p, b)
      /\ Fits(q) /\ q.depth = p.depth + 1 /\ SameRoom(p, q)
  BY <1>1, <1>3 DEF Within, SameRoom
<1>5. p.depth \in Nat
  BY BufferFields
<1>6. b.depth > 0 /\ b.depth - 1 = p.depth /\ q.depth > 0 /\ q.depth - 1 = p.depth
  BY <1>4, <1>5
<1>7. /\ Fits(d) /\ Ended(d) /\ d.depth = p.depth /\ SameRoom(b, d)
  BY <1>4, <1>6, ArraysFit, ClosesRoom
<1>8. Fits(e) /\ Ended(e) /\ e.depth = p.depth /\ SameRoom(q, e)
  BY <1>4, <1>6, ObjectsFit, ClosesRoom
<1>. HIDE DEF d, e
<1>. QED
  BY <1>2, <1>4, <1>7, <1>8 DEF Within, SameRoom

LEMMA NothingPrinted ==
  ASSUME NEW h, NEW f, NEW p, NEW n, ~p.ok
  PROVE  print_value(h, f, p, n) = p
BY DEF print_value

\* A value fits if what is below it does, and a zero ends it.
LEMMA ValueFits ==
  ASSUME NEW h \in Heap, Numbered(h), NEW rank, Descends(h, rank), NEW n \in Node, NEW f, FitsBelow(rank, rank[n], f),
         NEW p, Fits(p)
  PROVE  LET r == print_value(h, f, p, n) IN Within(p, r) /\ (p.ok => Ended(r)) /\ (~p.ok => r = p)
<1>. DEFINE r == print_value(h, f, p, n)
            null == <<110, 117, 108, 108>>
            false == <<102, 97, 108, 115, 101>>
            true == <<116, 114, 117, 101>>
            s == h[n].val
            Good(q) == Within(p, q) /\ Ended(q)
<1>1. null \in Seq(Int) /\ false \in Seq(Int) /\ true \in Seq(Int)
  OBVIOUS
<1>2. s \in Seq(Int)
  BY DEF Heap, Cell
<1>3. ASSUME ~p.ok PROVE r = p
  BY <1>3, NothingPrinted
<1>4. p.ok => r \in {Fails(p), print_literal(p, null), print_literal(p, false), print_literal(p, true), print_raw(p, s),
             print_string_ptr(p, s), print_array(h, f, p, n), print_object(h, f, p, n)}
            \cup (IF h[n].kind = "number" THEN {print_number(p, s[1])} ELSE {})
  <2>1. ASSUME p.ok
        PROVE  r \in {Fails(p), print_literal(p, null), print_literal(p, false), print_literal(p, true), print_raw(p, s),
             print_string_ptr(p, s), print_array(h, f, p, n), print_object(h, f, p, n)}
            \cup (IF h[n].kind = "number" THEN {print_number(p, s[1])} ELSE {})
    BY <2>1 DEF print_value
  <2>. QED
    BY <2>1
<1>5. h[n].kind = "number" => Good(print_number(p, s[1]))
  <2>1. ASSUME h[n].kind = "number" PROVE Good(print_number(p, s[1]))
    <3>1. Decimal(s[1]) \in Seq(Int)
      BY <2>1, NumberTyped
    <3>. QED
      BY <3>1, PiecesFit, FollowsWithin DEF print_number
  <2>. QED
    BY <2>1
<1>. HIDE DEF r, null, false, true, s
<1>6. Good(Fails(p))
  <2>1. print_raw(p, NoString) = Fails(p)
    BY DEF print_raw
  <2>2. NoString \in Seq(Int)
    BY DEF NoString
  <2>3. Follows(p, print_raw(p, NoString)) /\ Ended(print_raw(p, NoString))
    BY <2>2, PiecesFit
  <2>. QED
    BY <2>1, <2>3, FollowsWithin
<1>7. Good(print_literal(p, null)) /\ Good(print_literal(p, false)) /\ Good(print_literal(p, true))
  BY <1>1, PiecesFit, FollowsWithin
<1>8. Good(print_raw(p, s)) /\ Good(print_string_ptr(p, s))
  BY <1>2, PiecesFit, FollowsWithin
<1>9. Good(print_array(h, f, p, n)) /\ Good(print_object(h, f, p, n))
  BY BracketsFit
<1>. HIDE DEF Good
<1>10. p.ok => Good(r)
  BY <1>4, <1>5, <1>6, <1>7, <1>8, <1>9
<1>11. Within(p, p)
  BY WithinItself
<1>12. Within(p, r) /\ (p.ok => Ended(r)) /\ (~p.ok => r = p)
  <2>. USE DEF Good
  <2>1. CASE p.ok
    BY <1>10, <2>1
  <2>2. CASE ~p.ok
    BY <1>3, <1>11, <2>2
  <2>. QED
    BY <2>1, <2>2
<1>. QED
  BY <1>12 DEF r

LEMMA ElementFits ==
  ASSUME NEW h \in Heap, Numbered(h), NEW rank, Descends(h, rank), NEW n \in Node, NEW f, FitsBelow(rank, rank[n], f),
         NEW p, Fits(p)
  PROVE  Within(p, print_element(h, f, p, n))
<1>. DEFINE v == print_value(h, f, p, n)
            u == update_offset(v)
<1>1. Within(p, v) /\ (p.ok => Ended(v)) /\ (~p.ok => v = p)
  BY ValueFits
<1>2. print_element(h, f, p, n) = IF h[n].next = NULL THEN u ELSE print_comma(u)
  BY DEF print_element
<1>. HIDE DEF v
<1>3. Ended(v)
  BY <1>1 DEF Ended
<1>4. Fits(v)
  BY <1>1 DEF Within
<1>5. Within(v, u)
  BY <1>3, <1>4, UpdateWithin
<1>. HIDE DEF u
<1>6. Fits(u)
  BY <1>5 DEF Within
<1>7. Within(u, print_comma(u))
  BY <1>6, ArraysFit, FollowsWithin
<1>8. Within(p, u)
  BY <1>1, <1>5, WithinOn
<1>9. Within(p, print_comma(u))
  BY <1>7, <1>8, WithinOn
<1>. QED
  BY <1>2, <1>8, <1>9

LEMMA MemberFits ==
  ASSUME NEW h \in Heap, Numbered(h), NEW rank, Descends(h, rank), NEW n \in Node, NEW f, FitsBelow(rank, rank[n], f),
         NEW p, Fits(p)
  PROVE  Within(p, print_member(h, f, p, n))
<1>. DEFINE i == print_indent(p)
            s == print_string_ptr(i, h[n].key)
            name == update_offset(s)
            c == print_colon(name)
            v == print_value(h, f, c, n)
            u == update_offset(v)
            last == h[n].next = NULL
            e == end_member(u, last)
<1>1. print_member(h, f, p, n) = e
  BY DEF print_member
<1>2. h[n].key \in Seq(Int) /\ last \in BOOLEAN
  BY DEF Heap, Cell
<1>3. Within(p, i)
  BY ObjectsFit, FollowsWithin
<1>. HIDE DEF i
<1>4. Fits(i)
  BY <1>3 DEF Within
<1>5. Within(i, s) /\ Ended(s)
  BY <1>2, <1>4, PiecesFit, FollowsWithin
<1>. HIDE DEF s
<1>6. Fits(s)
  BY <1>5 DEF Within
<1>7. Within(s, name)
  BY <1>5, <1>6, UpdateWithin
<1>. HIDE DEF name
<1>8. Fits(name)
  BY <1>7 DEF Within
<1>9. Within(name, c)
  BY <1>8, ObjectsFit, FollowsWithin
<1>. HIDE DEF c
<1>10. Fits(c)
  BY <1>9 DEF Within
<1>11. Within(c, v) /\ (c.ok => Ended(v)) /\ (~c.ok => v = c)
  BY <1>10, ValueFits
<1>. HIDE DEF v
<1>12. Ended(v)
  BY <1>11 DEF Ended
<1>13. Fits(v)
  BY <1>11 DEF Within
<1>14. Within(v, u)
  BY <1>12, <1>13, UpdateWithin
<1>. HIDE DEF u, last
<1>15. Fits(u)
  BY <1>14 DEF Within
<1>16. Within(u, e)
  BY <1>2, <1>15, ObjectsFit, FollowsWithin
<1>. HIDE DEF e
<1>17. Within(p, s) /\ Within(s, c) /\ Within(c, u)
  BY <1>3, <1>5, <1>7, <1>9, <1>11, <1>14, WithinOn
<1>18. Within(p, c)
  BY <1>17, WithinOn
<1>19. Within(p, u)
  BY <1>17, <1>18, WithinOn
<1>20. Within(p, e)
  BY <1>16, <1>19, WithinOn
<1>. QED
  BY <1>1, <1>20

LEMMA ItemsFit ==
  ASSUME NEW h \in Heap, Numbered(h), NEW rank, Descends(h, rank), NEW x \in Unprinted, Fits(x.to),
         NEW f, FitsBelow(rank, rank[x.from], f)
  PROVE  Within(x.to, PrintItems(h, f, x))
<1>. DEFINE p == ItemPrinted(h, f, x)
            y == ThenAt(h, p, x)
<1>1. x.from \in Node
  BY DEF Unprinted
<1>2. Within(x.to, p)
  <2>1. Within(x.to, print_element(h, f, x.to, x.from)) /\ Within(x.to, print_member(h, f, x.to, x.from))
    BY <1>1, ElementFits, MemberFits
  <2>. QED
    BY <2>1 DEF ItemPrinted
<1>3. PrintItems(h, f, x) = IF h[x.from].next = NULL THEN p ELSE f[y]
  BY PrintItemsIs
<1>. HIDE DEF p
<1>4. ASSUME h[x.from].next # NULL PROVE Within(p, f[y])
  <2>1. Fits(p) /\ p \in PrintBuffer
    BY <1>2 DEF Within, Fits
  <2>2. y \in Unprinted /\ y.to = p /\ y.from = h[x.from].next /\ h[x.from].next \in Node
    BY <1>4, <2>1, ThenFields
  <2>. HIDE DEF y
  <2>3. rank[y.from] < rank[x.from]
    BY <1>1, <2>2 DEF Descends
  <2>. QED
    BY <2>1, <2>2, <2>3 DEF FitsBelow
<1>. HIDE DEF y
<1>5. CASE h[x.from].next = NULL
  BY <1>2, <1>3, <1>5
<1>6. CASE h[x.from].next # NULL
  <2>1. Within(p, f[y])
    BY <1>4, <1>6
  <2>. QED
    BY <1>2, <1>3, <1>6, <2>1, WithinOn
<1>. QED
  BY <1>5, <1>6

\* From whatever item on: the first one that would not fit has only items that
\* do below and behind it.
LEMMA AllItemsFit ==
  ASSUME NEW h \in Heap, Numbered(h), NEW rank, Descends(h, rank), Unprinted # {}, NEW k \in Nat
  PROVE  FitsBelow(rank, k, ItemsIn(h))
<1>. DEFINE f == ItemsIn(h)
            bad == {j \in Nat : \E y \in Unprinted : rank[y.from] = j /\ Fits(y.to) /\ ~Within(y.to, f[y])}
<1>1. \A x \in Unprinted : f[x] = PrintItems(h, f, x)
  BY ItemsInStep
<1>. HIDE DEF f
<1>2. \A x \in Unprinted : x.from \in Node /\ rank[x.from] \in Nat
  BY DEF Unprinted, Descends
<1>3. ASSUME bad # {} PROVE FALSE
  <2>1. PICK j \in bad : \A i \in bad : j <= i
    <3>1. bad \subseteq Nat
      OBVIOUS
    <3>. HIDE DEF bad
    <3>. QED
      BY <1>3, <3>1, NatMin
  <2>2. PICK y \in Unprinted : rank[y.from] = j /\ Fits(y.to) /\ ~Within(y.to, f[y])
    OBVIOUS
  <2>3. FitsBelow(rank, rank[y.from], f)
    <3>1. ASSUME NEW z \in Unprinted, rank[z.from] < rank[y.from], Fits(z.to), ~Within(z.to, f[z]) PROVE FALSE
      <4>1. rank[z.from] \in Nat /\ j \in Nat
        BY <1>2
      <4>2. rank[z.from] \in bad
        BY <3>1, <4>1
      <4>. HIDE DEF bad
      <4>. QED
        BY <2>1, <2>2, <3>1, <4>1, <4>2
    <3>. QED
      BY <3>1 DEF FitsBelow
  <2>. HIDE DEF bad
  <2>4. Within(y.to, PrintItems(h, f, y))
    BY <2>2, <2>3, ItemsFit
  <2>. QED
    BY <1>1, <2>2, <2>4
<1>4. ASSUME NEW y \in Unprinted, Fits(y.to), ~Within(y.to, f[y]) PROVE FALSE
  <2>1. rank[y.from] \in bad
    BY <1>2, <1>4
  <2>. HIDE DEF bad
  <2>. QED
    BY <1>3, <2>1
<1>5. FitsBelow(rank, k, f)
  BY <1>4 DEF FitsBelow
<1>. QED
  BY <1>5 DEF f

\* Of any tree in which no item is below or behind itself, whatever its depth and
\* its strings: printing it stays inside the buffer, one of the caller's is as
\* long as before, and what was printed ends with a zero inside it.
THEOREM PrintingStaysInside ==
  ASSUME NEW h \in Heap, Numbered(h), NEW rank, Descends(h, rank), NEW n \in Node, NEW length \in Nat,
         NEW format \in BOOLEAN
  PROVE  LET p == PrintItem(h, n, length, format)
             q == PrintPreallocated(h, n, length, format)
         IN /\ Fits(p) /\ (p.ok => p.offset < Len(p.mem) /\ p.mem[p.offset + 1] = 0)
            /\ Fits(q) /\ Ended(q) /\ Len(q.mem) = length
<1>. DEFINE b == Buffer(length, FALSE, format)
            c == Buffer(length, TRUE, format)
            f == ItemsIn(h)
            v == print_value(h, f, b, n)
            p == update_offset(v)
            q == print_value(h, f, c, n)
<1>1. Fits(b) /\ Fits(c) /\ c.noalloc /\ Len(c.mem) = length
  <2>1. Garbage(length) \in Seq(Int) /\ Len(Garbage(length)) = length
    BY DEF Garbage
  <2>2. c.noalloc /\ c.mem = Garbage(length)
    BY DEF Buffer
  <2>. HIDE DEF b, c
  <2>3. Fits(b) /\ Fits(c)
    BY BufferFits DEF b, c
  <2>. QED
    BY <2>1, <2>2, <2>3
<1>2. p = PrintItem(h, n, length, format) /\ q = PrintPreallocated(h, n, length, format)
  BY DEF PrintItem, PrintPreallocated
<1>3. Unprinted # {}
  <2>1. b \in PrintBuffer
    BY <1>1 DEF Fits
  <2>. HIDE DEF b
  <2>2. [to |-> b, kind |-> "array", from |-> n] \in Unprinted
    BY <2>1 DEF Unprinted
  <2>. QED
    BY <2>2
<1>4. rank[n] \in Nat
  BY DEF Descends
<1>5. FitsBelow(rank, rank[n], f)
  BY <1>3, <1>4, AllItemsFit
<1>. HIDE DEF b, c, f
<1>6. Within(b, v) /\ (b.ok => Ended(v)) /\ (~b.ok => v = b)
  BY <1>1, <1>5, ValueFits
<1>7. Within(c, q) /\ (c.ok => Ended(q)) /\ (~c.ok => q = c)
  BY <1>1, <1>5, ValueFits
<1>. HIDE DEF v, q
<1>8. Fits(v) /\ Ended(v) /\ Fits(q) /\ Ended(q) /\ Len(q.mem) = length
  BY <1>1, <1>6, <1>7 DEF Within, SameRoom, Ended
<1>9. Fits(p) /\ (p.ok => p.offset < Len(p.mem) /\ p.mem[p.offset + 1] = 0)
  BY <1>8, UpdateOffsetStops
<1>. HIDE DEF p
<1>. QED
  BY <1>2, <1>8, <1>9

-----------------------------------------------------------------------------
(* Nothing of a refused text stays behind *)

\* Where a node leads to: what follows it in its list, and its own children.
Leads(h, n) == ({h[n].next} \cup (IF h[n].ref THEN {} ELSE {h[n].child})) \ {NULL}

\* No pointer leads out of T.
Shut(h, T) == \A n \in T : Leads(h, n) \subseteq T

\* S is p, and all that can be reached from it: the least such set.
Hangs(h, p, S) ==
  /\ S \subseteq Node /\ {p} \ {NULL} \subseteq S /\ Shut(h, S)
  /\ \A T \in SUBSET Node : {p} \ {NULL} \subseteq T /\ Shut(h, T) => S \subseteq T

LEMMA FreedIsLeads ==
  ASSUME NEW h, NEW S
  PROVE  /\ FreedWith(h, S) = UNION {Leads(h, n) : n \in S}
         /\ FreedWith(h, S) \subseteq S <=> Shut(h, S)
<1>1. FreedWith(h, S) = UNION {Leads(h, n) : n \in S}
  BY DEF FreedWith, Leads
<1>2. ASSUME UNION {Leads(h, n) : n \in S} \subseteq S, NEW n \in S PROVE Leads(h, n) \subseteq S
  BY <1>2
<1>3. ASSUME \A n \in S : Leads(h, n) \subseteq S PROVE UNION {Leads(h, n) : n \in S} \subseteq S
  BY <1>3
<1>. QED
  BY <1>1, <1>2, <1>3 DEF Shut

LEMMA LeadsToNodes ==
  ASSUME NEW h \in Heap, NEW S \in SUBSET Node
  PROVE  FreedWith(h, S) \subseteq Node
<1>1. ASSUME NEW n \in S PROVE Leads(h, n) \subseteq Node
  <2>1. h[n] \in Cell
    BY DEF Heap
  <2>. QED
    BY <2>1 DEF Cell, Pointer, Leads
<1>2. UNION {Leads(h, n) : n \in S} \subseteq Node
  BY <1>1
<1>. QED
  BY <1>2, FreedIsLeads

LEMMA RestTyped ==
  ASSUME IsFiniteSet(Node), NEW T \in SUBSET Node
  PROVE  Cardinality(Node \ T) \in Nat
BY FS_Difference, FS_CardinalityType

LEMMA RestShrinks ==
  ASSUME IsFiniteSet(Node), NEW T \in SUBSET Node, NEW U \in SUBSET Node, ~(U \subseteq T)
  PROVE  Cardinality(Node \ (T \cup U)) < Cardinality(Node \ T)
<1>. DEFINE A == Node \ T
            B == Node \ (T \cup U)
<1>1. IsFiniteSet(A) /\ B \subseteq A /\ B # A
  BY FS_Difference
<1>2. Cardinality(A) \in Nat /\ Cardinality(B) \in Nat
  BY RestTyped
<1>. HIDE DEF A, B
<1>3. Cardinality(B) <= Cardinality(A) /\ Cardinality(B) # Cardinality(A)
  BY <1>1, FS_Subset
<1>4. Cardinality(B) < Cardinality(A)
  BY <1>2, <1>3
<1>. QED
  BY <1>4 DEF A, B

\* How Delete gathers the nodes it frees.
Gathers(h, all) ==
  all = [S \in SUBSET Node |-> IF FreedWith(h, S) \subseteq S THEN S ELSE all[S \cup FreedWith(h, S)]]

LEMMA GatheringExists ==
  ASSUME IsFiniteSet(Node), NEW h \in Heap
  PROVE  \E all : Gathers(h, all)
<1>. DEFINE D == SUBSET Node
            rank == [S \in D |-> Cardinality(Node \ S)]
            B == [w \in D \X [D -> D] |->
                    IF FreedWith(h, w[1]) \subseteq w[1] THEN w[1] ELSE w[2][w[1] \cup FreedWith(h, w[1])]]
<1>1. ASSUME NEW S \in D, NEW f \in [D -> D]
      PROVE  /\ <<S, f>> \in D \X [D -> D]
             /\ B[<<S, f>>] = IF FreedWith(h, S) \subseteq S THEN S ELSE f[S \cup FreedWith(h, S)]
  OBVIOUS
<1>2. ASSUME NEW S \in D PROVE S \cup FreedWith(h, S) \in D
  BY LeadsToNodes
<1>3. B \in [D \X [D -> D] -> D]
  <2>1. ASSUME NEW S \in D, NEW f \in [D -> D]
        PROVE  (IF FreedWith(h, S) \subseteq S THEN S ELSE f[S \cup FreedWith(h, S)]) \in D
    <3>. HIDE DEF D
    <3>. QED
      BY <1>2
  <2>2. ASSUME NEW w \in D \X [D -> D]
        PROVE  (IF FreedWith(h, w[1]) \subseteq w[1] THEN w[1] ELSE w[2][w[1] \cup FreedWith(h, w[1])]) \in D
    <3>. HIDE DEF D
    <3>1. w[1] \in D /\ w[2] \in [D -> D]
      OBVIOUS
    <3>. QED
      BY <2>1, <3>1
  <2>. HIDE DEF D
  <2>. QED
    BY <2>2
<1>. HIDE DEF B
<1>4. rank \in [D -> Nat]
  <2>1. \A S \in D : Cardinality(Node \ S) \in Nat
    BY RestTyped
  <2>. HIDE DEF D
  <2>. QED
    BY <2>1
<1>5. LooksBelow(D, D, rank, B)
  <2>1. ASSUME NEW S \in D, NEW f \in [D -> D], NEW g \in [D -> D],
               \A y \in D : rank[y] < rank[S] => f[y] = g[y]
        PROVE  B[<<S, f>>] = B[<<S, g>>]
    <3>. DEFINE U == S \cup FreedWith(h, S)
    <3>1. ASSUME ~(FreedWith(h, S) \subseteq S) PROVE f[U] = g[U]
      <4>1. U \in D
        BY <1>2
      <4>2. Cardinality(Node \ U) < Cardinality(Node \ S)
        <5>1. FreedWith(h, S) \in SUBSET Node
          BY LeadsToNodes
        <5>. QED
          BY <3>1, <5>1, RestShrinks
      <4>3. rank[U] < rank[S]
        BY <4>1, <4>2
      <4>. QED
        BY <2>1, <4>1, <4>3
    <3>. QED
      BY <1>1, <3>1
  <2>. HIDE DEF D, rank
  <2>. QED
    BY <2>1 DEF LooksBelow
<1>6. {} \in D
  OBVIOUS
<1>7. HasFunction(D, D, B)
  <2>. HIDE DEF D, rank
  <2>. QED
    BY <1>3, <1>4, <1>5, <1>6, DefinedByRank
<1>8. PICK all \in [D -> D] : \A S \in D : all[S] = B[<<S, all>>]
  <2>. HIDE DEF D
  <2>. QED
    BY <1>7 DEF HasFunction
<1>9. \A S \in D : all[S] = IF FreedWith(h, S) \subseteq S THEN S ELSE all[S \cup FreedWith(h, S)]
  BY <1>1, <1>8
<1>10. all = [S \in D |-> IF FreedWith(h, S) \subseteq S THEN S ELSE all[S \cup FreedWith(h, S)]]
  <2>. HIDE DEF D
  <2>. QED
    BY <1>8, <1>9
<1>. QED
  BY <1>10 DEF Gathers

\* From p, all that hangs from p is gathered.
LEMMA GathersAll ==
  ASSUME IsFiniteSet(Node), NEW h \in Heap, NEW p, NEW S, Hangs(h, p, S), NEW all, Gathers(h, all)
  PROVE  all[{p} \ {NULL}] = S
<1>. DEFINE From(T) == T \in SUBSET Node /\ {p} \ {NULL} \subseteq T /\ T \subseteq S
            bad == {k \in Nat : \E T \in SUBSET Node : From(T) /\ Cardinality(Node \ T) = k /\ all[T] # S}
<1>1. S \in SUBSET Node /\ Shut(h, S) /\ {p} \ {NULL} \subseteq S
  BY DEF Hangs
<1>2. ASSUME NEW T \in SUBSET Node
      PROVE  all[T] = IF FreedWith(h, T) \subseteq T THEN T ELSE all[T \cup FreedWith(h, T)]
  BY DEF Gathers
<1>3. ASSUME bad # {} PROVE FALSE
  <2>1. PICK k \in bad : \A j \in bad : k <= j
    <3>1. bad \subseteq Nat
      OBVIOUS
    <3>. HIDE DEF bad
    <3>. QED
      BY <1>3, <3>1, NatMin
  <2>2. PICK T \in SUBSET Node : From(T) /\ Cardinality(Node \ T) = k /\ all[T] # S
    OBVIOUS
  <2>3. k \in Nat
    OBVIOUS
  <2>4. CASE FreedWith(h, T) \subseteq T
    <3>1. Shut(h, T)
      BY <2>4, FreedIsLeads
    <3>2. S \subseteq T
      BY <2>2, <3>1 DEF Hangs
    <3>3. all[T] = T
      BY <1>2, <2>4
    <3>. QED
      BY <2>2, <3>2, <3>3
  <2>5. CASE ~(FreedWith(h, T) \subseteq T)
    <3>. DEFINE U == T \cup FreedWith(h, T)
    <3>1. FreedWith(h, T) \in SUBSET Node
      BY LeadsToNodes
    <3>2. FreedWith(h, T) \subseteq S
      <4>1. \A n \in T : Leads(h, n) \subseteq S
        BY <1>1, <2>2 DEF Shut
      <4>2. UNION {Leads(h, n) : n \in T} \subseteq S
        BY <4>1
      <4>. QED
        BY <4>2, FreedIsLeads
    <3>3. U \in SUBSET Node /\ From(U)
      BY <2>2, <3>1, <3>2
    <3>4. all[T] = all[U]
      BY <1>2, <2>5
    <3>5. Cardinality(Node \ U) < k
      BY <2>2, <2>5, <3>1, RestShrinks
    <3>6. Cardinality(Node \ U) \in Nat
      BY <3>3, RestTyped
    <3>. HIDE DEF U
    <3>7. Cardinality(Node \ U) \in bad
      BY <2>2, <3>3, <3>4, <3>6
    <3>. HIDE DEF bad
    <3>8. k <= Cardinality(Node \ U)
      BY <2>1, <3>7
    <3>. QED
      BY <2>3, <3>5, <3>6, <3>8
  <2>. QED
    BY <2>4, <2>5
<1>. DEFINE R == {p} \ {NULL}
<1>4. From(R)
  BY <1>1
<1>5. Cardinality(Node \ R) \in Nat
  BY <1>1, RestTyped
<1>6. all[R] # S => Cardinality(Node \ R) \in bad
  <2>. HIDE DEF R
  <2>. QED
    BY <1>4, <1>5
<1>. QED
  BY <1>3, <1>6

\* Delete frees exactly what hangs from the item.
LEMMA DeleteFrees ==
  ASSUME IsFiniteSet(Node), NEW h \in Heap, NEW p, NEW S, Hangs(h, p, S)
  PROVE  Delete(h, p) = [n \in Node |-> IF n \in S THEN Free ELSE h[n]]
<1>. DEFINE Eq(e) == [T \in SUBSET Node |-> IF FreedWith(h, T) \subseteq T THEN T ELSE e[T \cup FreedWith(h, T)]]
            all == CHOOSE e : e = Eq(e)
<1>1. all = Eq(all)
  <2>1. \E e : e = Eq(e)
    BY GatheringExists DEF Gathers
  <2>. HIDE DEF Eq
  <2>. QED
    BY <2>1
<1>2. Gathers(h, all)
  <2>. HIDE DEF all
  <2>. QED
    BY <1>1 DEF Gathers
<1>3. Delete(h, p) = [n \in Node |-> IF n \in all[{p} \ {NULL}] THEN Free ELSE h[n]]
  BY DEF Delete
<1>. HIDE DEF all
<1>4. all[{p} \ {NULL}] = S
  BY <1>2, GathersAll
<1>. QED
  BY <1>3, <1>4

\* A free cell is as cJSON_Delete leaves it.
Clean(h) == h \in Heap /\ \A n \in Node : h[n].kind = "free" => h[n] = Free

\* h is g but for the nodes of S, which were free.
Fresh(g, h, S) ==
  /\ h \in Heap /\ S \subseteq Node
  /\ \A n \in Node \ S : h[n] = g[n]
  /\ \A n \in S : g[n] = Free /\ h[n].kind # "free"

\* A node with no pointers, and without a name or a value of another's.
Alone(h, n) == h[n].kind # "free" /\ ~h[n].ref /\ h[n].child = NULL /\ h[n].next = NULL

\* Where pointers are the same, the same hangs from p.
LEMMA HangsStill ==
  ASSUME NEW h, NEW k, NEW p, NEW S, Hangs(h, p, S),
         \A n \in S : Leads(k, n) = Leads(h, n)
  PROVE  Hangs(k, p, S)
<1>1. S \subseteq Node /\ {p} \ {NULL} \subseteq S /\ Shut(h, S)
  BY DEF Hangs
<1>2. Shut(k, S)
  BY <1>1 DEF Shut
<1>3. ASSUME NEW T \in SUBSET Node, {p} \ {NULL} \subseteq T, Shut(k, T) PROVE S \subseteq T
  <2>. DEFINE U == T \cap S
  <2>1. U \in SUBSET Node /\ {p} \ {NULL} \subseteq U
    BY <1>1, <1>3
  <2>2. Shut(h, U)
    <3>1. ASSUME NEW n \in U PROVE Leads(h, n) \subseteq U
      <4>1. Leads(h, n) \subseteq S
        BY <1>1 DEF Shut
      <4>2. Leads(k, n) \subseteq T
        BY <1>3 DEF Shut
      <4>3. Leads(k, n) = Leads(h, n)
        OBVIOUS
      <4>. QED
        BY <4>1, <4>2, <4>3
    <3>. HIDE DEF U
    <3>. QED
      BY <3>1 DEF Shut
  <2>. HIDE DEF U
  <2>3. S \subseteq U
    BY <2>1, <2>2 DEF Hangs
  <2>. QED
    BY <2>3 DEF U
<1>. QED
  BY <1>1, <1>2, <1>3 DEF Hangs

\* A node m of S is told to lead to c, too: then all that hangs from c hangs
\* from p as well.
LEMMA HangsMore ==
  ASSUME NEW h, NEW k, NEW p, NEW S, Hangs(h, p, S), NEW m \in S, NEW c, NEW R, Hangs(k, c, R),
         \A n \in S \ {m} : Leads(k, n) = Leads(h, n),
         Leads(k, m) = Leads(h, m) \cup ({c} \ {NULL})
  PROVE  Hangs(k, p, S \cup R)
<1>1. S \subseteq Node /\ {p} \ {NULL} \subseteq S /\ Shut(h, S)
  BY DEF Hangs
<1>2. R \subseteq Node /\ {c} \ {NULL} \subseteq R /\ Shut(k, R)
  BY DEF Hangs
<1>3. Shut(k, S \cup R)
  <2>1. ASSUME NEW n \in R PROVE Leads(k, n) \subseteq S \cup R
    BY <1>2 DEF Shut
  <2>2. ASSUME NEW n \in S PROVE Leads(k, n) \subseteq S \cup R
    <3>1. Leads(h, n) \subseteq S
      BY <1>1 DEF Shut
    <3>2. Leads(k, n) \subseteq Leads(h, n) \cup ({c} \ {NULL})
      OBVIOUS
    <3>. QED
      BY <1>2, <3>1, <3>2
  <2>. QED
    BY <2>1, <2>2 DEF Shut
<1>4. ASSUME NEW T \in SUBSET Node, {p} \ {NULL} \subseteq T, Shut(k, T) PROVE S \cup R \subseteq T
  <2>. DEFINE U == T \cap S
  <2>1. U \in SUBSET Node /\ {p} \ {NULL} \subseteq U
    BY <1>1, <1>4
  <2>2. Shut(h, U)
    <3>1. ASSUME NEW n \in U PROVE Leads(h, n) \subseteq U
      <4>1. Leads(h, n) \subseteq S
        BY <1>1 DEF Shut
      <4>2. Leads(k, n) \subseteq T
        BY <1>4 DEF Shut
      <4>3. Leads(h, n) \subseteq Leads(k, n)
        OBVIOUS
      <4>. QED
        BY <4>1, <4>2, <4>3
    <3>. HIDE DEF U
    <3>. QED
      BY <3>1 DEF Shut
  <2>3. S \subseteq T
    <3>1. S \subseteq U
      <4>. HIDE DEF U
      <4>. QED
        BY <2>1, <2>2 DEF Hangs
    <3>. QED
      BY <3>1
  <2>4. {c} \ {NULL} \subseteq T
    <3>1. m \in T
      BY <2>3
    <3>2. Leads(k, m) \subseteq T
      BY <1>4, <3>1 DEF Shut
    <3>. QED
      BY <3>2
  <2>5. R \subseteq T
    BY <1>4, <2>4 DEF Hangs
  <2>. QED
    BY <2>3, <2>5
<1>. QED
  BY <1>1, <1>2, <1>3, <1>4 DEF Hangs

LEMMA NothingHangs ==
  ASSUME NEW h
  PROVE  Hangs(h, NULL, {})
BY DEF Hangs, Shut

LEMMA AloneLeads ==
  ASSUME NEW h, NEW n, Alone(h, n)
  PROVE  Leads(h, n) = {}
BY DEF Alone, Leads

LEMMA OneHangs ==
  ASSUME NEW h, NEW n \in Node, Alone(h, n)
  PROVE  Hangs(h, n, {n})
<1>1. Leads(h, n) = {}
  BY AloneLeads
<1>2. Shut(h, {n})
  BY <1>1 DEF Shut
<1>. QED
  BY <1>2 DEF Hangs

\* What was allocated is clean, and deleting it restores the heap.
LEMMA FreshClean ==
  ASSUME NEW g, Clean(g), NEW h, NEW S, Fresh(g, h, S)
  PROVE  Clean(h)
<1>1. ASSUME NEW n \in Node, h[n].kind = "free" PROVE h[n] = Free
  <2>1. n \notin S
    BY <1>1 DEF Fresh
  <2>2. h[n] = g[n]
    BY <2>1 DEF Fresh
  <2>. QED
    BY <1>1, <2>2 DEF Clean
<1>. QED
  BY <1>1 DEF Clean, Fresh

LEMMA DeleteRestores ==
  ASSUME IsFiniteSet(Node), NEW g \in Heap, NEW h, NEW S, Fresh(g, h, S), NEW p, Hangs(h, p, S)
  PROVE  Delete(h, p) = g
<1>1. h \in Heap
  BY DEF Fresh
<1>2. Delete(h, p) = [n \in Node |-> IF n \in S THEN Free ELSE h[n]]
  BY <1>1, DeleteFrees
<1>3. \A n \in Node : (IF n \in S THEN Free ELSE h[n]) = g[n]
  BY DEF Fresh
<1>4. g = [n \in Node |-> g[n]]
  BY DEF Heap
<1>. QED
  BY <1>2, <1>3, <1>4

\* What hangs from `first` was allocated since g, and nothing else was done;
\* `last` ends the list.
Building(g, h, first, last, S) ==
  Fresh(g, h, S) /\ Hangs(h, first, S) /\ (first # NULL => last \in S /\ h[last].next = NULL)

\* Nothing but the kind, the value and the name of n is new.
Marked(h, k, n) ==
  /\ k \in Heap /\ \A m \in Node \ {n} : k[m] = h[m]
  /\ k[n].kind # "free" /\ k[n].ref = h[n].ref /\ k[n].child = h[n].child /\ k[n].next = h[n].next

\* n has become the root of a tree, whose other nodes were free.
Planted(h, k, n, R) ==
  /\ k \in Heap /\ R \subseteq Node /\ n \in Node \ R
  /\ \A m \in Node \ (R \cup {n}) : k[m] = h[m]
  /\ \A m \in R : h[m] = Free /\ k[m].kind # "free"
  /\ k[n].kind # "free" /\ k[n].ref = h[n].ref /\ k[n].next = h[n].next
  /\ Hangs(k, k[n].child, R)

LEMMA MarkedAlone ==
  ASSUME NEW h, NEW k, NEW n, Marked(h, k, n), Alone(h, n)
  PROVE  Alone(k, n)
BY DEF Marked, Alone

LEMMA MarkedTwice ==
  ASSUME NEW h, NEW k, NEW n, Marked(h, k, n), NEW l, Marked(k, l, n)
  PROVE  Marked(h, l, n)
BY DEF Marked

LEMMA MarkedSelf ==
  ASSUME NEW h \in Heap, NEW n, Alone(h, n)
  PROVE  Marked(h, h, n)
BY DEF Marked, Alone

LEMMA MarkedGrown ==
  ASSUME NEW h, NEW k, NEW n \in Node, Marked(h, k, n), Alone(h, n)
  PROVE  Planted(h, k, n, {})
<1>1. k[n].child = NULL
  BY DEF Marked, Alone
<1>2. Hangs(k, k[n].child, {})
  BY <1>1, NothingHangs
<1>. QED
  BY <1>2 DEF Marked, Planted

LEMMA MarkedBuilds ==
  ASSUME NEW g, NEW h, NEW first, NEW last, NEW S, Building(g, h, first, last, S),
         NEW n \in S, NEW k, Marked(h, k, n)
  PROVE  Building(g, k, first, last, S)
<1>1. S \subseteq Node
  BY DEF Building, Fresh
<1>2. \A m \in S : Leads(k, m) = Leads(h, m)
  BY <1>1 DEF Marked, Leads
<1>3. Hangs(k, first, S)
  BY <1>2, HangsStill DEF Building
<1>4. Fresh(g, k, S)
  BY DEF Building, Fresh, Marked
<1>5. first # NULL => last \in S /\ k[last].next = NULL
  BY <1>1 DEF Building, Marked
<1>. QED
  BY <1>3, <1>4, <1>5 DEF Building

LEMMA GrownBuilds ==
  ASSUME NEW g, NEW h, NEW first, NEW last, NEW S, Building(g, h, first, last, S),
         NEW n \in S, Alone(h, n), NEW k, NEW R, Planted(h, k, n, R)
  PROVE  Building(g, k, first, last, S \cup R)
<1>1. S \subseteq Node /\ R \subseteq Node /\ k \in Heap
  BY DEF Building, Fresh, Planted
<1>2. \A m \in S : m \notin R
  BY DEF Building, Fresh, Planted, Free
<1>3. \A m \in S \ {n} : k[m] = h[m]
  BY <1>1, <1>2 DEF Planted
<1>4. ASSUME NEW m \in S \ {n} PROVE Leads(k, m) = Leads(h, m)
  BY <1>3 DEF Leads
<1>5. Leads(k, n) = Leads(h, n) \cup ({k[n].child} \ {NULL})
  <2>1. Leads(h, n) = {}
    BY AloneLeads
  <2>2. k[n].next = NULL /\ ~k[n].ref
    BY DEF Alone, Planted
  <2>. QED
    BY <2>1, <2>2 DEF Leads
<1>6. Hangs(k, first, S \cup R)
  <2>1. Hangs(h, first, S)
    BY DEF Building
  <2>. DEFINE c == k[n].child
  <2>2. Hangs(k, c, R)
    BY DEF Planted
  <2>3. Leads(k, n) = Leads(h, n) \cup ({c} \ {NULL})
    BY <1>5
  <2>. HIDE DEF c
  <2>. QED
    BY ONLY <1>4, <2>1, <2>2, <2>3, n \in S, HangsMore
<1>7. Fresh(g, k, S \cup R)
  <2>1. ASSUME NEW m \in Node \ (S \cup R) PROVE k[m] = g[m]
    <3>1. m # n /\ k[m] = h[m]
      BY DEF Planted
    <3>. QED
      BY <3>1 DEF Building, Fresh
  <2>2. ASSUME NEW m \in R PROVE g[m] = Free /\ k[m].kind # "free"
    <3>1. m \in Node \ S
      BY <1>1, <1>2
    <3>2. h[m] = g[m]
      BY <3>1 DEF Building, Fresh
    <3>. QED
      BY <3>2 DEF Planted
  <2>3. ASSUME NEW m \in S PROVE g[m] = Free /\ k[m].kind # "free"
    <3>1. g[m] = Free /\ h[m].kind # "free"
      BY DEF Building, Fresh
    <3>2. k[m].kind # "free"
      BY <1>3, <3>1 DEF Planted
    <3>. QED
      BY <3>1, <3>2
  <2>. QED
    BY <1>1, <2>1, <2>2, <2>3 DEF Fresh
<1>8. first # NULL => last \in S \cup R /\ k[last].next = NULL
  <2>1. ASSUME first # NULL PROVE last \in S /\ h[last].next = NULL
    BY <2>1 DEF Building
  <2>2. ASSUME NEW m \in S, h[m].next = NULL PROVE k[m].next = NULL
    BY <1>3, <2>2 DEF Planted
  <2>. QED
    BY <2>1, <2>2
<1>. QED
  BY <1>6, <1>7, <1>8 DEF Building

\* A new node behind the last one.
LEMMA LinkBuilds ==
  ASSUME NEW g, Clean(g), NEW h, NEW first, NEW last, NEW S, Building(g, h, first, last, S),
         NEW n \in Node, h[n].kind = "free", first # NULL,
         NEW c \in Cell, c = [Free EXCEPT !.kind = "invalid"]
  PROVE  LET k == suffix_object([h EXCEPT ![n] = c], last, n)
         IN Building(g, k, first, n, S \cup {n}) /\ Alone(k, n)
<1>. DEFINE k == suffix_object([h EXCEPT ![n] = c], last, n)
<1>1. h \in Heap /\ S \subseteq Node /\ last \in S /\ h[last].next = NULL
  BY DEF Building, Fresh
<1>2. n \notin S /\ last # n /\ last \in Node /\ last \in Pointer
  BY <1>1 DEF Building, Fresh, Pointer
<1>3. k = [[[h EXCEPT ![n] = c] EXCEPT ![last].next = n] EXCEPT ![n].prev = last]
  BY DEF suffix_object
<1>4. k \in Heap
  <2>1. [h EXCEPT ![n] = c] \in Heap
    BY <1>1 DEF Heap
  <2>. QED
    BY <1>2, <2>1, SuffixTyped
<1>5. /\ k[n] = [c EXCEPT !.prev = last] /\ k[last] = [h[last] EXCEPT !.next = n]
      /\ \A m \in Node \ {n, last} : k[m] = h[m]
  BY <1>1, <1>2, <1>3 DEF Heap
<1>. HIDE DEF k
<1>6. k[n].kind = "invalid" /\ k[n].ref = FALSE /\ k[n].child = NULL /\ k[n].next = NULL
  BY <1>5 DEF Free
<1>7. k[last].next = n /\ k[last].kind = h[last].kind /\ k[last].child = h[last].child /\ k[last].ref = h[last].ref
  <2>1. h[last] \in Cell
    BY <1>1, <1>2 DEF Heap
  <2>. QED
    BY <1>5, <2>1 DEF Cell
<1>8. Alone(k, n)
  BY <1>6 DEF Alone
<1>9. Hangs(k, n, {n})
  BY <1>8, OneHangs
<1>10. Hangs(k, first, S \cup {n})
  <2>1. Hangs(h, first, S)
    BY DEF Building
  <2>2. \A m \in S \ {last} : Leads(k, m) = Leads(h, m)
    <3>1. \A m \in S \ {last} : k[m] = h[m]
      BY <1>1, <1>2, <1>5
    <3>. QED
      BY <3>1 DEF Leads
  <2>3. Leads(k, last) = Leads(h, last) \cup ({n} \ {NULL})
    BY <1>1, <1>7 DEF Leads
  <2>. QED
    BY ONLY <1>1, <1>9, <2>1, <2>2, <2>3, HangsMore
<1>11. g[n] = Free
  <2>1. h[n] = g[n]
    BY <1>2 DEF Building, Fresh
  <2>. QED
    BY <2>1 DEF Clean
<1>12. Fresh(g, k, S \cup {n})
  <2>1. ASSUME NEW m \in Node \ (S \cup {n}) PROVE k[m] = g[m]
    <3>1. k[m] = h[m]
      BY <1>1, <1>5
    <3>. QED
      BY <3>1 DEF Building, Fresh
  <2>2. ASSUME NEW m \in S PROVE g[m] = Free /\ k[m].kind # "free"
    <3>1. g[m] = Free /\ h[m].kind # "free"
      BY DEF Building, Fresh
    <3>2. k[m].kind = h[m].kind
      BY <1>1, <1>2, <1>5, <1>7
    <3>. QED
      BY <3>1, <3>2
  <2>. QED
    BY <1>1, <1>4, <1>6, <1>11, <2>1, <2>2 DEF Fresh
<1>. QED
  BY <1>6, <1>8, <1>10, <1>12 DEF Building, k

\* A new node by itself.
LEMMA FirstBuilds ==
  ASSUME NEW g, Clean(g), NEW n \in Node, g[n].kind = "free",
         NEW c \in Cell, c = [Free EXCEPT !.kind = "invalid"]
  PROVE  LET k == [g EXCEPT ![n] = c]
         IN Building(g, k, n, n, {n}) /\ Alone(k, n)
<1>. DEFINE k == [g EXCEPT ![n] = c]
<1>1. g \in Heap /\ g[n] = Free
  BY DEF Clean
<1>2. k \in Heap /\ k[n] = c /\ \A m \in Node \ {n} : k[m] = g[m]
  BY <1>1 DEF Heap
<1>. HIDE DEF k
<1>3. k[n].kind = "invalid" /\ k[n].ref = FALSE /\ k[n].child = NULL /\ k[n].next = NULL
  BY <1>2 DEF Free
<1>4. Alone(k, n)
  BY <1>3 DEF Alone
<1>5. Hangs(k, n, {n})
  BY <1>4, OneHangs
<1>6. Fresh(g, k, {n})
  BY <1>1, <1>2, <1>3 DEF Fresh
<1>. QED
  BY <1>3, <1>4, <1>5, <1>6 DEF Building, k

LEMMA CellMarks ==
  ASSUME NEW h \in Heap, NEW n \in Node, NEW c, NEW k, k = [h EXCEPT ![n] = c], k \in Heap,
         c.kind # "free", c.ref = h[n].ref, c.child = h[n].child, c.next = h[n].next
  PROVE  Marked(h, k, n)
BY DEF Marked, Heap

LEMMA StringPuts ==
  ASSUME NEW h \in Heap, NEW n \in Node, NEW s \in Seq(Int)
  PROVE  Marked(h, WithString(h, n, s), n)
<1>. DEFINE c == [h[n] EXCEPT !.kind = "string", !.val = s]
            k == WithString(h, n, s)
<1>1. k = [h EXCEPT ![n] = c]
  BY DEF WithString
<1>2. k \in Heap
  BY HeapWithString
<1>3. c.kind = "string" /\ c.ref = h[n].ref /\ c.child = h[n].child /\ c.next = h[n].next
  BY DEF Heap, Cell
<1>. HIDE DEF c, k
<1>4. Marked(h, k, n)
  BY <1>1, <1>2, <1>3, CellMarks
<1>. QED
  BY <1>4 DEF k

LEMMA NumberPuts ==
  ASSUME NEW h \in Heap, NEW n \in Node, NEW x \in Int, NEW k \in Heap, k = WithNumber(h, n, x)
  PROVE  Marked(h, k, n)
<1>. DEFINE c == [h[n] EXCEPT !.kind = "number", !.val = <<x>>]
<1>1. k = [h EXCEPT ![n] = c]
  BY DEF WithNumber
<1>2. c.kind = "number" /\ c.ref = h[n].ref /\ c.child = h[n].child /\ c.next = h[n].next
  BY DEF Heap, Cell
<1>. HIDE DEF c
<1>. QED
  BY <1>1, <1>2, CellMarks

LEMMA NamePuts ==
  ASSUME NEW h \in Heap, NEW n \in Node, h[n].kind # "free", NEW key, NEW k \in Heap, k = Named(h, n, key)
  PROVE  Marked(h, k, n)
<1>. DEFINE c == [h[n] EXCEPT !.key = key, !.val = NoString]
<1>1. k = [h EXCEPT ![n] = c]
  BY DEF Named
<1>2. c.kind = h[n].kind /\ c.ref = h[n].ref /\ c.child = h[n].child /\ c.next = h[n].next
  BY DEF Heap, Cell
<1>. HIDE DEF c
<1>. QED
  BY <1>1, <1>2, CellMarks

LEMMA LiteralPuts ==
  ASSUME NEW h \in Heap, NEW n \in Node, NEW word \in Literals, NEW k \in Heap, k = [h EXCEPT ![n].kind = word]
  PROVE  Marked(h, k, n)
<1>. DEFINE c == [h[n] EXCEPT !.kind = word]
<1>1. k = [h EXCEPT ![n] = c]
  OBVIOUS
<1>2. c.kind = word /\ c.ref = h[n].ref /\ c.child = h[n].child /\ c.next = h[n].next
  BY DEF Heap, Cell
<1>3. word # "free"
  BY DEF Literals
<1>. HIDE DEF c
<1>. QED
  BY <1>1, <1>2, <1>3, CellMarks

LEMMA StringMarks ==
  ASSUME NEW t \in Seq(Byte), NEW b \in ParseBuffer, NEW n \in Node, Alone(b.heap, n)
  PROVE  Marked(b.heap, parse_string(t, b, n).heap, n)
<1>. DEFINE start == b.offset + 1
            end == StringEnd(t, start)
            read == Unescape(t, start, end.at)
            r == parse_string(t, b, n)
<1>1. b.offset \in Nat /\ start \in Nat /\ b.offset <= start /\ Len(t) \in Nat /\ b.outside \in BOOLEAN /\ b.heap \in Heap
  BY DEF ParseBuffer
<1>2. Marked(b.heap, b.heap, n)
  BY <1>1, MarkedSelf
<1>3. CASE Look(t, b) # Quote \/ end.at = Len(t)
  <2>. DEFINE o == b.outside \/ ~Can(t, b)
  <2>1. r = [Fail(b) EXCEPT !.offset = start, !.outside = o]
    BY <1>3 DEF parse_string, Fail, ParseBuffer
  <2>. HIDE DEF r, o, start
  <2>2. r.heap = b.heap
    BY <2>1 DEF Fail, ParseBuffer
  <2>. QED
    BY <1>2, <2>2 DEF r
<1>4. CASE ~(Look(t, b) # Quote \/ end.at = Len(t))
  <2>1. r = TakeString(b, n, end, read)
    BY <1>4 DEF parse_string
  <2>2. b.offset < Len(t)
    BY <1>4 DEF Look, Can, Quote
  <2>3. end \in Ending
    <3>. HIDE DEF start
    <3>. QED
      BY <1>1, EndingTyped
  <2>4. end.at \in start..Len(t) /\ end.at # Len(t)
    <3>1. start <= Len(t)
      BY <1>1, <2>2
    <3>. HIDE DEF start
    <3>. QED
      BY <1>1, <1>4, <3>1, EndingBounds
  <2>5. end.at \in Nat /\ end.at < Len(t) /\ start <= end.at
    BY <1>1, <2>4
  <2>6. read \in Reading /\ read.at \in start..end.at
    <3>. HIDE DEF start, end
    <3>. QED
      BY <1>1, <2>5, UnescapeStep, ReadsOn
  <2>7. read.at \in Nat /\ read.out \in Seq(Byte)
    <3>. HIDE DEF end, read
    <3>. QED
      BY <1>1, <2>6 DEF Reading
  <2>. HIDE DEF read, end
  <2>. DEFINE short == Allocation(b, end) > MaxString
  <2>. HIDE DEF short
  <2>10. CASE short
    <3>1. r = StoppedAt(b, start)
      <4>1. r = [Fail(b) EXCEPT !.offset = Fail(b).offset + 1] /\ Fail(b).offset = b.offset
        BY <2>1, <2>10 DEF TakeString, Fail, ParseBuffer, short
      <4>. QED
        BY <4>1 DEF StoppedAt
    <3>. HIDE DEF r, start
    <3>2. r.heap = b.heap
      BY <1>1, <3>1, StoppedFields
    <3>. QED
      BY <1>2, <3>2 DEF r
  <2>8. CASE ~short /\ read.at < end.at
    <3>1. r = StoppedAt(b, read.at)
      BY <2>1, <2>8 DEF TakeString, StoppedAt, short
    <3>. HIDE DEF r
    <3>2. r.heap = b.heap
      BY <2>7, <3>1, StoppedFields
    <3>. QED
      BY <1>2, <3>2 DEF r
  <2>9. CASE ~short /\ ~(read.at < end.at)
    <3>. DEFINE s == CString(read.out)
                o == b.outside \/ Len(read.out) + 1 > end.at - b.offset - end.skipped + 1
    <3>1. r = StringAt(b, end.at + 1, n, s, o)
      BY <2>1, <2>9 DEF TakeString, StringAt, Allocation, short
    <3>2. s \in Seq(Int) /\ o \in BOOLEAN
      <4>1. s \in Seq(Byte)
        BY <2>7, CStringEnds
      <4>. HIDE DEF s
      <4>. QED
        BY <4>1, BytesAreInts
    <3>3. end.at + 1 \in Nat
      BY <2>5
    <3>. HIDE DEF r, s, o
    <3>4. r.heap = WithString(b.heap, n, s)
      BY <3>1, <3>2, <3>3, StringFields
    <3>5. Marked(b.heap, r.heap, n)
      BY <1>1, <3>2, <3>4, StringPuts
    <3>. QED
      BY <3>5 DEF r
  <2>. QED
    BY <2>8, <2>9, <2>10
<1>. QED
  BY <1>3, <1>4

LEMMA NumberMarks ==
  ASSUME NEW t \in Seq(Byte), NEW b \in ParseBuffer, Can(t, b), NEW n \in Node, Alone(b.heap, n)
  PROVE  Marked(b.heap, parse_number(t, b, n).heap, n)
<1>. DEFINE minus == IF Look(t, b) = 45 THEN 1 ELSE 0
            i == b.offset + minus
            digits == Digits(t, i)
            number == NumberOf(digits)
            x == IF minus = 1 THEN -number ELSE number
            m == minus + Len(digits)
            r == parse_number(t, b, n)
<1>1. b.offset \in Nat /\ i \in Nat /\ i <= Len(t) /\ Len(t) \in Nat /\ minus \in Nat /\ b.heap \in Heap
  BY DEF Can, ParseBuffer
<1>2. digits \in Seq(Int) /\ Len(digits) \in Nat
  <2>. HIDE DEF i
  <2>1. digits \in Seq(Int)
    BY <1>1, DigitsEnd
  <2>. HIDE DEF digits
  <2>. QED
    BY <2>1
<1>3. r = IF digits = << >> THEN Fail(b) ELSE NumberAt(b, m, n, x)
  BY DEF parse_number, NumberAt
<1>. HIDE DEF digits
<1>4. x \in Int
  <2>1. number \in Int
    BY <1>2, NumberIsNumber
  <2>. HIDE DEF number
  <2>. QED
    BY <2>1
<1>5. m \in Nat
  BY <1>1, <1>2
<1>. HIDE DEF r, x, m
<1>6. CASE digits = << >>
  <2>1. r.heap = b.heap
    BY <1>3, <1>6, FailFields
  <2>2. Marked(b.heap, b.heap, n)
    BY <1>1, MarkedSelf
  <2>. QED
    BY <2>1, <2>2 DEF r
<1>7. CASE digits # << >>
  <2>1. r = NumberAt(b, m, n, x)
    BY <1>3, <1>7
  <2>2. LET q == NumberAt(b, m, n, x) IN q \in ParseBuffer /\ q.heap = WithNumber(b.heap, n, x)
    BY <1>4, <1>5, NumberFields
  <2>3. r \in ParseBuffer /\ r.heap = WithNumber(b.heap, n, x)
    BY <2>1, <2>2
  <2>4. r.heap \in Heap
    BY <2>3 DEF ParseBuffer
  <2>5. Marked(b.heap, r.heap, n)
    BY <1>1, <1>4, <2>3, <2>4, NumberPuts
  <2>. QED
    BY <2>5 DEF r
<1>. QED
  BY <1>6, <1>7

LEMMA LiteralMarks ==
  ASSUME NEW b \in ParseBuffer, NEW n \in Node, NEW word \in Literals
  PROVE  Marked(b.heap, parse_literal(b, n, word).heap, n)
<1>. DEFINE q == Skip(b, Len(Str(word)))
            r == parse_literal(b, n, word)
<1>1. r = [q EXCEPT !.heap[n].kind = word]
  BY DEF parse_literal
<1>2. q.heap = b.heap /\ b.heap \in Heap /\ q = [b EXCEPT !.offset = b.offset + Len(Str(word))]
  BY DEF Skip, ParseBuffer
<1>3. r.heap = [b.heap EXCEPT ![n].kind = word]
  <2>. DEFINE l == Len(Str(word))
  <2>1. q = [b EXCEPT !.offset = b.offset + l]
    BY <1>2
  <2>. HIDE DEF r, q, l
  <2>. QED
    BY <1>1, <1>2, <2>1 DEF ParseBuffer
<1>4. r.heap \in Heap
  BY LiteralFurther
<1>. HIDE DEF r
<1>5. Marked(b.heap, r.heap, n)
  BY <1>2, <1>3, <1>4, LiteralPuts
<1>. QED
  BY <1>5 DEF r

LEMMA ColonKeepsHeap ==
  ASSUME NEW t \in Seq(Byte), NEW b \in ParseBuffer
  PROVE  SkipColon(t, b).heap = b.heap
<1>. DEFINE q == Skip(b, 1)
<1>1. b.offset + 1 \in Nat
  BY DEF ParseBuffer
<1>2. q \in ParseBuffer /\ q.heap = b.heap
  BY <1>1, SkipFields
<1>3. Fail(b).heap = b.heap
  BY FailFields
<1>. HIDE DEF q
<1>4. buffer_skip_whitespace(t, q).heap = q.heap
  BY <1>2, WhitespaceFurther
<1>5. SkipColon(t, b) = IF ~b.ok THEN b ELSE IF Look(t, b) # 58 THEN Fail(b) ELSE buffer_skip_whitespace(t, q)
  BY DEF SkipColon, q
<1>. QED
  BY <1>2, <1>3, <1>4, <1>5

LEMMA NameMarks ==
  ASSUME NEW t \in Seq(Byte), NEW b \in ParseBuffer, NEW n \in Node, NEW kind, Alone(b.heap, n)
  PROVE  Marked(b.heap, parse_name(t, b, n, kind).heap, n)
<1>0. b.heap \in Heap
  BY DEF ParseBuffer
<1>1. CASE kind = "array"
  BY <1>0, <1>1, MarkedSelf DEF parse_name
<1>2. CASE kind # "array"
  <2>. DEFINE p == parse_string(t, b, n)
              q == TakeName(t, p, n)
              r == SkipColon(t, q)
  <2>1. parse_name(t, b, n, kind) = r
    BY <1>2 DEF parse_name
  <2>2. Marked(b.heap, p.heap, n)
    BY StringMarks
  <2>3. p \in ParseBuffer
    BY StringFurther DEF Further
  <2>. HIDE DEF p
  <2>4. Alone(p.heap, n) /\ p.heap \in Heap
    BY <2>2, <2>3, MarkedAlone DEF ParseBuffer
  <2>5. q \in ParseBuffer /\ Marked(p.heap, q.heap, n)
    <3>1. CASE ~p.ok
      <4>1. q = p
        BY <3>1 DEF TakeName
      <4>2. Marked(p.heap, p.heap, n)
        BY <2>4, MarkedSelf
      <4>. QED
        BY <2>3, <4>1, <4>2
    <3>2. CASE p.ok
      <4>. DEFINE w == buffer_skip_whitespace(t, p)
                  s == p.heap[n].val
      <4>1. q = NamedAt(w, n, s)
        BY <3>2 DEF TakeName, NamedAt
      <4>2. s \in Seq(Int)
        BY <2>3 DEF ParseBuffer, Heap, Cell
      <4>3. w \in ParseBuffer /\ w.heap = p.heap
        BY <2>3, WhitespaceFurther DEF Further
      <4>. HIDE DEF q, w, s
      <4>4. q \in ParseBuffer /\ q.heap = Named(w.heap, n, s)
        <5>1. LET z == NamedAt(w, n, s) IN z \in ParseBuffer /\ z.heap = Named(w.heap, n, s)
          BY <4>2, <4>3, NamedFields
        <5>. QED
          BY <4>1, <5>1
      <4>5. q.heap \in Heap /\ p.heap[n].kind # "free"
        BY <2>4, <4>4 DEF ParseBuffer, Alone
      <4>6. Marked(p.heap, q.heap, n)
        BY <2>4, <4>3, <4>4, <4>5, NamePuts
      <4>. QED
        BY <4>4, <4>6 DEF q
    <3>. QED
      BY <3>1, <3>2
  <2>. HIDE DEF q
  <2>6. r.heap = q.heap
    BY <2>5, ColonKeepsHeap
  <2>. HIDE DEF r
  <2>. QED
    BY <2>1, <2>2, <2>5, <2>6, MarkedTwice
<1>. QED
  BY <1>1, <1>2

\* A list was read, and hangs from its head; or all its nodes are free again.
Owned(g, r) ==
  IF r.ok THEN \E S \in SUBSET Node : Fresh(g, r.heap, S) /\ Hangs(r.heap, r.head, S)
  ELSE r.heap = g

ListOwned(y, r) ==
  \A g \in Heap, S \in SUBSET Node :
     Clean(g) /\ Building(g, y.at.heap, y.head, y.last, S) => Owned(g, r)

\* Lists that are read further on are owned.
OwnsBehind(t, f, o) ==
  Proper(f) /\ \A y \in Unfinished : o < y.at.offset /\ y.at.offset < Len(t) => ListOwned(y, f[y])

LEMMA EmptyOwned ==
  ASSUME NEW h \in Heap, NEW z, z.heap = h, z.head = NULL
  PROVE  Owned(h, z)
<1>1. Fresh(h, h, {})
  BY DEF Fresh
<1>2. Hangs(h, NULL, {})
  BY NothingHangs
<1>3. {} \in SUBSET Node
  OBVIOUS
<1>. QED
  BY <1>1, <1>2, <1>3 DEF Owned

LEMMA ListPuts ==
  ASSUME NEW h, NEW n \in Node, Alone(h, n), NEW z \in Heap, NEW p \in Pointer,
         NEW S, Fresh(h, z, S), Hangs(z, p, S), NEW kind \in {"array", "object"}
  PROVE  Planted(h, WithList(z, n, kind, p), n, S)
<1>. DEFINE c == [z[n] EXCEPT !.kind = kind, !.child = p]
            k == WithList(z, n, kind, p)
<1>1. k = [z EXCEPT ![n] = c]
  BY DEF WithList
<1>2. k \in Heap
  BY ListInHeap
<1>3. n \notin S /\ S \subseteq Node
  BY DEF Fresh, Alone, Free
<1>4. z[n] = h[n]
  BY <1>3 DEF Fresh
<1>5. c.kind = kind /\ c.ref = h[n].ref /\ c.child = p /\ c.next = h[n].next
  BY <1>4 DEF Heap, Cell
<1>. HIDE DEF c, k
<1>6. k[n] = c /\ \A m \in Node \ {n} : k[m] = z[m]
  BY <1>1 DEF Heap
<1>7. Hangs(k, p, S)
  <2>1. \A m \in S : Leads(k, m) = Leads(z, m)
    BY <1>3, <1>6 DEF Leads
  <2>. QED
    BY <2>1, HangsStill
<1>8. \A m \in Node \ (S \cup {n}) : k[m] = h[m]
  BY <1>6 DEF Fresh
<1>9. \A m \in S : h[m] = Free /\ k[m].kind # "free"
  BY <1>3, <1>6 DEF Fresh
<1>10. Planted(h, k, n, S)
  BY <1>2, <1>3, <1>5, <1>6, <1>7, <1>8, <1>9 DEF Planted
<1>. QED
  BY <1>10 DEF k

LEMMA ClosedGrows ==
  ASSUME NEW h \in Heap, NEW n \in Node, Alone(h, n), NEW z \in ParseBuffer, Owned(h, z),
         z.ok => z.depth - 1 \in Nat, NEW kind \in {"array", "object"}
  PROVE  \E R \in SUBSET Node : Planted(h, ListClosed(z, n, kind).heap, n, R)
<1>. DEFINE r == ListClosed(z, n, kind)
<1>1. CASE ~z.ok
  <2>1. r.heap = h
    BY <1>1 DEF ListClosed, Owned
  <2>2. Marked(h, h, n)
    BY MarkedSelf
  <2>3. Planted(h, h, n, {})
    BY <2>2, MarkedGrown
  <2>4. {} \in SUBSET Node
    OBVIOUS
  <2>. HIDE DEF r
  <2>. QED
    BY <2>1, <2>3, <2>4 DEF r
<1>2. CASE z.ok
  <2>1. r = ClosedAt(z, n, kind)
    BY <1>2 DEF ListClosed, ClosedAt
  <2>2. LET q == ClosedAt(z, n, kind) IN q.heap = WithList(z.heap, n, kind, z.head)
    BY <1>2, ClosedFields
  <2>3. r.heap = WithList(z.heap, n, kind, z.head)
    BY <2>1, <2>2
  <2>4. PICK S \in SUBSET Node : Fresh(h, z.heap, S) /\ Hangs(z.heap, z.head, S)
    BY <1>2 DEF Owned
  <2>. DEFINE e == z.heap
              p == z.head
  <2>5. e \in Heap /\ p \in Pointer
    BY DEF ParseBuffer
  <2>6. Fresh(h, e, S) /\ Hangs(e, p, S)
    BY <2>4
  <2>. HIDE DEF e, p, r
  <2>7. Planted(h, WithList(e, n, kind, p), n, S)
    BY <2>5, <2>6, ListPuts
  <2>. QED
    BY <2>3, <2>7 DEF e, p, r
<1>. QED
  BY <1>1, <1>2

LEMMA ListGrows ==
  ASSUME NEW t \in Seq(Byte), NEW f, NEW o \in Int, OwnsBehind(t, f, o),
         NEW b \in ParseBuffer, o < b.offset, NEW n \in Node, NEW kind \in {"array", "object"},
         Clean(b.heap), Alone(b.heap, n)
  PROVE  \E R \in SUBSET Node : Planted(b.heap, parse_list(t, f, b, n, kind).heap, n, R)
<1>. DEFINE i == InsideOf(t, b)
            z == ListInside(t, f, i, kind)
            y == BeginsAt(i, kind)
            r == parse_list(t, f, b, n, kind)
            h == b.heap
<1>1. r = IF b.depth >= Nesting THEN Fail(b)
          ELSE IF ~Can(t, i) THEN Fail(Skip(i, -1))
          ELSE ListClosed(z, n, kind)
  BY DEF parse_list, InsideOf, DeeperAt
<1>2. i \in ParseBuffer /\ b.offset + 1 <= i.offset /\ i.ok = b.ok /\ i.depth = b.depth + 1 /\ i.heap = h
  BY InsideFields
<1>3. y \in Unfinished /\ y.at.ok = b.ok /\ y.at.depth = b.depth + 1 /\ b.offset <= y.at.offset /\ y.at.offset + 1 = i.offset
      /\ y.head = NULL /\ y.at.heap = h
  BY BeginFields
<1>4. y.at = Skip(i, -1)
  BY DEF BeginsAt
<1>5. b.offset \in Nat /\ i.offset \in Nat /\ y.at.offset \in Nat /\ y.at \in ParseBuffer /\ b.depth \in Nat /\ h \in Heap
      /\ Len(t) \in Nat
  BY <1>2, <1>3 DEF ParseBuffer, Unfinished
<1>6. \E R \in SUBSET Node : Planted(h, h, n, R)
  <2>1. Marked(h, h, n)
    BY <1>5, MarkedSelf
  <2>2. Planted(h, h, n, {})
    BY <2>1, MarkedGrown
  <2>3. {} \in SUBSET Node
    OBVIOUS
  <2>. QED
    BY <2>2, <2>3
<1>7. Fail(b).heap = h
  BY FailFields
<1>8. Fail(Skip(i, -1)).heap = h
  <2>. DEFINE s == y.at
  <2>1. s \in ParseBuffer /\ s.heap = h /\ Skip(i, -1) = s
    BY <1>3, <1>4, <1>5
  <2>. HIDE DEF s, y, i, h
  <2>2. Fail(s).heap = s.heap
    BY <2>1, FailFields
  <2>. QED
    BY <2>1, <2>2
<1>9. ASSUME Can(t, i) PROVE z \in ParseBuffer /\ (z.ok => z.depth - 1 \in Nat) /\ Owned(h, z)
  <2>1. CASE Look(t, i) = Closing(kind)
    <3>1. z = [i EXCEPT !.head = NULL]
      BY <2>1 DEF ListInside
    <3>2. NULL \in Pointer
      BY DEF Pointer
    <3>. HIDE DEF z, i
    <3>3. z \in ParseBuffer /\ z.depth = i.depth /\ z.heap = i.heap /\ z.head = NULL
      BY <1>2, <3>1, <3>2, HeadedFields
    <3>4. z.depth - 1 \in Nat
      BY <1>2, <1>5, <3>3
    <3>5. z.heap = h
      BY <1>2, <3>3
    <3>. HIDE DEF h
    <3>6. Owned(h, z)
      BY <1>5, <3>3, <3>5, EmptyOwned
    <3>. QED
      BY <3>3, <3>4, <3>6
  <2>2. CASE Look(t, i) # Closing(kind)
    <3>1. z = f[y]
      BY <2>2 DEF ListInside, BeginsAt
    <3>2. i.offset < Len(t)
      BY <1>9 DEF Can
    <3>3. o < y.at.offset /\ y.at.offset < Len(t)
      <4>. DEFINE u == y.at.offset
                  v == i.offset
                  w == b.offset
      <4>1. w \in Nat /\ v \in Nat /\ u \in Nat /\ w <= u /\ u + 1 = v /\ v < Len(t) /\ o < w /\ Len(t) \in Nat
        BY <1>3, <1>5, <3>2
      <4>. HIDE DEF u, v, w
      <4>2. o < u /\ u < Len(t)
        BY <4>1
      <4>. QED
        BY <4>2 DEF u
    <3>. HIDE DEF z, y, i
    <3>4. ListOwned(y, z) /\ Further(y.at, z)
      BY <1>3, <3>1, <3>3 DEF OwnsBehind, Proper
    <3>5. z \in ParseBuffer /\ (z.ok => z.depth = y.at.depth)
      BY <3>4 DEF Further
    <3>6. z.ok => z.depth - 1 \in Nat
      BY <1>3, <1>5, <3>5
    <3>7. Building(h, y.at.heap, y.head, y.last, {})
      <4>1. Fresh(h, h, {})
        BY <1>5 DEF Fresh
      <4>2. Hangs(h, NULL, {})
        BY NothingHangs
      <4>. QED
        BY <1>3, <4>1, <4>2 DEF Building
    <3>8. Owned(h, z)
      <4>1. {} \in SUBSET Node
        OBVIOUS
      <4>. QED
        BY <1>5, <3>4, <3>7, <4>1 DEF ListOwned
    <3>. QED
      BY <3>5, <3>6, <3>8
  <2>. QED
    BY <2>1, <2>2
<1>10. ASSUME Can(t, i) PROVE \E R \in SUBSET Node : Planted(h, ListClosed(z, n, kind).heap, n, R)
  <2>. HIDE DEF z, i
  <2>1. z \in ParseBuffer /\ (z.ok => z.depth - 1 \in Nat) /\ Owned(h, z)
    BY <1>9, <1>10
  <2>2. Alone(h, n) /\ h \in Heap
    BY <1>5
  <2>. HIDE DEF h
  <2>. QED
    BY <2>1, <2>2, ClosedGrows
<1>. HIDE DEF r, z, i, h
<1>11. \E R \in SUBSET Node : Planted(h, r.heap, n, R)
  BY <1>1, <1>6, <1>7, <1>8, <1>10
<1>. QED
  BY <1>11 DEF r, h

LEMMA ValueGrows ==
  ASSUME NEW t \in Seq(Byte), NEW f, NEW o \in Int, OwnsBehind(t, f, o),
         NEW b \in ParseBuffer, o < b.offset, NEW n \in Node, Clean(b.heap), Alone(b.heap, n)
  PROVE  \E R \in SUBSET Node : Planted(b.heap, parse_value(t, f, b, n).heap, n, R)
<1>. DEFINE r == parse_value(t, f, b, n)
            h == b.heap
<1>1. ASSUME NEW k, Marked(h, k, n) PROVE \E R \in SUBSET Node : Planted(h, k, n, R)
  <2>1. Planted(h, k, n, {})
    BY <1>1, MarkedGrown
  <2>2. {} \in SUBSET Node
    OBVIOUS
  <2>. QED
    BY <2>1, <2>2
<1>2. CASE StartsWith(t, b, Str("null")) \/ StartsWith(t, b, Str("false")) \/ StartsWith(t, b, Str("true"))
  <2>1. \E word \in Literals : r = parse_literal(b, n, word)
    BY <1>2 DEF parse_value, Literals
  <2>2. PICK word \in Literals : r = parse_literal(b, n, word)
    BY <2>1
  <2>. HIDE DEF r
  <2>3. Marked(h, r.heap, n)
    BY <2>2, LiteralMarks
  <2>. HIDE DEF h
  <2>. QED
    BY <1>1, <2>3 DEF r, h
<1>3. CASE ~(StartsWith(t, b, Str("null")) \/ StartsWith(t, b, Str("false")) \/ StartsWith(t, b, Str("true")))
  <2>. DEFINE c == Look(t, b)
  <2>0. r = CASE c = Quote -> parse_string(t, b, n)
         [] c \in {45} \cup 48..57 -> parse_number(t, b, n)
         [] c = Opening("array") -> parse_array(t, f, b, n)
         [] c = Opening("object") -> parse_object(t, f, b, n)
         [] OTHER -> Fail(b)
    BY <1>3 DEF parse_value
  <2>. HIDE DEF r
  <2>1. Quote = 34 /\ Opening("array") = 91 /\ Opening("object") = 123
    BY DEF Quote, Opening
  <2>2. CASE c = Quote
    <3>1. r = parse_string(t, b, n)
      BY <2>0, <2>1, <2>2
    <3>2. Marked(h, r.heap, n)
      BY <3>1, StringMarks
    <3>. HIDE DEF h
    <3>. QED
      BY <1>1, <3>2 DEF r, h
  <2>3. CASE c \in {45} \cup 48..57
    <3>1. r = parse_number(t, b, n)
      BY <2>0, <2>1, <2>3
    <3>2. Can(t, b)
      <4>1. c # 0
        BY <2>3
      <4>. QED
        BY <4>1 DEF Look
    <3>3. Marked(h, r.heap, n)
      BY <3>1, <3>2, NumberMarks
    <3>. HIDE DEF h
    <3>. QED
      BY <1>1, <3>3 DEF r, h
  <2>4. CASE c = Opening("array")
    <3>1. r = parse_list(t, f, b, n, "array")
      BY <2>0, <2>1, <2>4 DEF parse_array
    <3>. QED
      BY <3>1, ListGrows DEF r
  <2>5. CASE c = Opening("object")
    <3>1. r = parse_list(t, f, b, n, "object")
      BY <2>0, <2>1, <2>5 DEF parse_object
    <3>. QED
      BY <3>1, ListGrows DEF r
  <2>6. CASE ~(c = Quote \/ c \in {45} \cup 48..57 \/ c = Opening("array") \/ c = Opening("object"))
    <3>1. r = Fail(b)
      BY <2>0, <2>6
    <3>2. r.heap = h
      BY <3>1, FailFields
    <3>3. Marked(h, h, n)
      BY MarkedSelf DEF ParseBuffer
    <3>. HIDE DEF h
    <3>. QED
      BY <1>1, <3>2, <3>3 DEF r, h
  <2>. QED
    BY <2>2, <2>3, <2>4, <2>5, <2>6
<1>. QED
  BY <1>2, <1>3

LEMMA NothingBuilt ==
  ASSUME NEW g \in Heap, NEW h, NEW last, NEW S, Building(g, h, NULL, last, S)
  PROVE  S = {} /\ h = g
<1>1. S \subseteq {}
  <2>1. {} \in SUBSET Node /\ {NULL} \ {NULL} \subseteq {} /\ Shut(h, {})
    BY DEF Shut
  <2>. QED
    BY <2>1 DEF Building, Hangs
<1>2. h \in Heap /\ \A n \in Node : h[n] = g[n]
  BY <1>1 DEF Building, Fresh
<1>. QED
  BY <1>1, <1>2 DEF Heap

LEMMA LinkedBuilds ==
  ASSUME NEW x \in Unfinished, NodeOf(x) # NULL, NEW g, Clean(g), NEW S,
         Building(g, x.at.heap, x.head, x.last, S)
  PROVE  Building(g, LinkedTo(x), HeadOf(x), NodeOf(x), S \cup {NodeOf(x)}) /\ Alone(LinkedTo(x), NodeOf(x))
<1>. DEFINE h == x.at.heap
            new == New_Item(h, "invalid")
            n == new.node
            c == [Free EXCEPT !.kind = "invalid"]
<1>1. n = NodeOf(x) /\ LinkedTo(x) = IF x.head = NULL THEN new.heap ELSE suffix_object(new.heap, x.last, n)
  BY DEF NodeOf, LinkedTo
<1>2. h \in Heap /\ n \in Node
  <2>1. x.at \in ParseBuffer /\ n \in Node
    BY <1>1, NodeFields
  <2>. QED
    BY <2>1 DEF ParseBuffer
<1>3. h[n].kind = "free" /\ new.heap = [h EXCEPT ![n] = c]
  BY <1>1, <1>2, NewItemFields
<1>4. c \in Cell
  BY FreeIsCell DEF Cell, Kinds
<1>5. c = [Free EXCEPT !.kind = "invalid"]
  OBVIOUS
<1>6. Building(g, h, x.head, x.last, S)
  OBVIOUS
<1>. DEFINE k == new.heap
            last == x.last
            first == x.head
<1>7. LinkedTo(x) = IF first = NULL THEN k ELSE suffix_object(k, last, n)
  BY <1>1
<1>8. k = [h EXCEPT ![n] = c]
  BY <1>3
<1>9. HeadOf(x) = IF first = NULL THEN n ELSE first
  BY <1>1 DEF HeadOf
<1>10. Building(g, h, first, last, S)
  BY <1>6
<1>11. g \in Heap
  BY DEF Clean
<1>. HIDE DEF k, n, h, c, last, first
<1>12. CASE first = NULL
  <2>1. S = {} /\ h = g
    BY <1>10, <1>11, <1>12, NothingBuilt
  <2>2. Building(g, k, n, n, {n}) /\ Alone(k, n)
    BY <1>2, <1>3, <1>4, <1>5, <1>8, <2>1, FirstBuilds
  <2>3. S \cup {n} = {n}
    BY <2>1
  <2>. QED
    BY <1>1, <1>7, <1>9, <1>12, <2>2, <2>3
<1>13. CASE first # NULL
  <2>1. LET q == suffix_object([h EXCEPT ![n] = c], last, n)
        IN Building(g, q, first, n, S \cup {n}) /\ Alone(q, n)
    BY <1>2, <1>3, <1>4, <1>5, <1>10, <1>13, LinkBuilds
  <2>2. Building(g, suffix_object(k, last, n), first, n, S \cup {n}) /\ Alone(suffix_object(k, last, n), n)
    BY <1>8, <2>1
  <2>. QED
    BY <1>1, <1>7, <1>9, <1>13, <2>2
<1>. QED
  BY <1>12, <1>13

LEMMA NamedBuilds ==
  ASSUME NEW t \in Seq(Byte), NEW x \in Unfinished, NodeOf(x) # NULL, Alone(LinkedTo(x), NodeOf(x))
  PROVE  Marked(LinkedTo(x), NameAt(t, x).heap, NodeOf(x))
<1>. DEFINE h == LinkedTo(x)
            a == [x.at EXCEPT !.heap = h]
            s == Skip(a, 1)
            w == buffer_skip_whitespace(t, s)
<1>1. x.at \in ParseBuffer /\ NodeOf(x) \in Node /\ h \in Heap
  BY NodeFields
<1>2. NameAt(t, x) = parse_name(t, w, NodeOf(x), x.kind)
  BY DEF NameAt
<1>3. Alone(h, NodeOf(x))
  OBVIOUS
<1>. HIDE DEF h
<1>4. a \in ParseBuffer /\ a.heap = h
  BY <1>1, HeapFields
<1>. HIDE DEF a
<1>5. a.offset + 1 \in Nat
  BY <1>4 DEF ParseBuffer
<1>6. s \in ParseBuffer /\ s.heap = h
  BY <1>4, <1>5, SkipFields
<1>. HIDE DEF s
<1>7. w \in ParseBuffer /\ w.heap = h
  BY <1>6, WhitespaceFurther DEF Further
<1>. HIDE DEF w
<1>8. Marked(w.heap, parse_name(t, w, NodeOf(x), x.kind).heap, NodeOf(x))
  BY <1>1, <1>3, <1>7, NameMarks
<1>. QED
  BY <1>2, <1>7, <1>8 DEF h

LEMMA ItemBuilds ==
  ASSUME NEW t \in Seq(Byte), NEW f, NEW x \in Unfinished, NodeOf(x) # NULL, OwnsBehind(t, f, x.at.offset),
         NEW g, Clean(g), NEW S, Building(g, x.at.heap, x.head, x.last, S)
  PROVE  \E R \in SUBSET Node : Building(g, ValueAt(t, f, x).heap, HeadOf(x), NodeOf(x), R)
<1>. DEFINE h == LinkedTo(x)
            n == NodeOf(x)
            a == NameAt(t, x)
            first == HeadOf(x)
            T == S \cup {n}
            q == parse_value(t, f, a, n)
            v == ValueAt(t, f, x)
<1>1. Building(g, h, first, n, T) /\ Alone(h, n)
  BY LinkedBuilds
<1>2. Marked(h, a.heap, n)
  BY <1>1, NamedBuilds
<1>3. a \in ParseBuffer /\ x.at.offset < a.offset /\ x.at.offset \in Int
  <2>1. Further(x.at, a) /\ x.at.offset < a.offset
    BY NameAtFurther
  <2>2. x.at.offset \in Nat
    BY DEF Unfinished, ParseBuffer
  <2>. QED
    BY <2>1, <2>2 DEF Further
<1>4. n \in Node /\ n \in T
  BY NodeFields
<1>5. v = IF ~a.ok THEN a ELSE SkipBehind(t, q, TRUE)
  BY DEF ValueAt, ItemValue
<1>. HIDE DEF h, n, a, T, first
<1>6. Building(g, a.heap, first, n, T)
  BY <1>1, <1>2, <1>4, MarkedBuilds
<1>7. Alone(a.heap, n) /\ Clean(a.heap)
  BY <1>1, <1>2, <1>6, MarkedAlone, FreshClean DEF Building
<1>8. \E R \in SUBSET Node : Planted(a.heap, q.heap, n, R)
  <2>. DEFINE o == x.at.offset
  <2>1. o \in Int /\ OwnsBehind(t, f, o) /\ o < a.offset
    BY <1>3
  <2>. HIDE DEF o
  <2>. QED
    BY <1>3, <1>4, <1>7, <2>1, ValueGrows
<1>9. PICK R \in SUBSET Node : Planted(a.heap, q.heap, n, R)
  BY <1>8
<1>10. q \in ParseBuffer
  <2>1. Proper(f)
    BY DEF OwnsBehind
  <2>. QED
    BY <1>3, <1>4, <2>1, ValueFurther DEF Further
<1>. HIDE DEF q, v
<1>11. Building(g, q.heap, first, n, T \cup R)
  <2>. DEFINE k == q.heap
              l == a.heap
  <2>1. Planted(l, k, n, R) /\ Building(g, l, first, n, T) /\ Alone(l, n)
    BY <1>6, <1>7, <1>9
  <2>. HIDE DEF k, l
  <2>2. Building(g, k, first, n, T \cup R)
    BY <1>4, <2>1, GrownBuilds
  <2>. QED
    BY <2>2 DEF k
<1>12. SkipBehind(t, q, TRUE).heap = q.heap
  BY <1>10, WhitespaceFurther DEF SkipBehind
<1>13. T \in SUBSET Node /\ T \cup R \in SUBSET Node
  BY <1>6 DEF Building, Fresh
<1>14. CASE ~a.ok
  <2>1. v.heap = a.heap
    BY <1>5, <1>14
  <2>2. Building(g, v.heap, first, n, T)
    BY <1>6, <2>1
  <2>. QED
    BY <1>13, <2>2 DEF v, first, n
<1>15. CASE a.ok
  <2>1. v.heap = q.heap
    BY <1>5, <1>12, <1>15
  <2>2. Building(g, v.heap, first, n, T \cup R)
    BY <1>11, <2>1
  <2>. QED
    BY <1>13, <2>2 DEF v, first, n
<1>. QED
  BY <1>14, <1>15

LEMMA RingedMarks ==
  ASSUME NEW b \in ParseBuffer, NEW first \in Node, b.heap[first].kind # "free", NEW n \in Node
  PROVE  LET r == Ringed(b, first, n)
         IN Marked(b.heap, r.heap, first) /\ r.ok = b.ok /\ r.head = first
<1>. DEFINE c == [b.heap[first] EXCEPT !.prev = n]
            h == [b.heap EXCEPT ![first] = c]
            r == Ringed(b, first, n)
<1>1. r \in ParseBuffer /\ r.ok = b.ok /\ r.head = first
  BY RingedFields
<1>2. b.heap \in Heap /\ r.heap \in Heap
  BY <1>1 DEF ParseBuffer
<1>3. r.heap = h
  BY DEF Ringed, ParseBuffer
<1>4. c.kind = b.heap[first].kind /\ c.ref = b.heap[first].ref /\ c.child = b.heap[first].child /\ c.next = b.heap[first].next
  BY <1>2 DEF Heap, Cell
<1>. HIDE DEF c, r
<1>5. Marked(b.heap, r.heap, first)
  BY <1>2, <1>3, <1>4, CellMarks
<1>. QED
  BY <1>1, <1>5 DEF r

LEMMA GivesUpOwned ==
  ASSUME IsFiniteSet(Node), NEW g \in Heap, NEW b \in ParseBuffer, NEW first, NEW S,
         Fresh(g, b.heap, S), Hangs(b.heap, first, S)
  PROVE  Owned(g, GiveUp(b, first))
<1>. DEFINE r == GiveUp(b, first)
            h == b.heap
<1>1. r.heap = Delete(h, first) /\ r.ok = FALSE
  BY GiveUpFields
<1>2. Fresh(g, h, S) /\ Hangs(h, first, S)
  OBVIOUS
<1>. HIDE DEF r, h
<1>3. Delete(h, first) = g
  BY <1>2, DeleteRestores
<1>4. Owned(g, r)
  BY <1>1, <1>3 DEF Owned
<1>. QED
  BY <1>4 DEF r

LEMMA BehindOwned ==
  ASSUME IsFiniteSet(Node), NEW t \in Seq(Byte), NEW f, NEW o \in Int, OwnsBehind(t, f, o),
         NEW g \in Heap, Clean(g), NEW b \in ParseBuffer, o < b.offset, NEW kind \in {"array", "object"},
         NEW first \in Node, NEW n \in Node, NEW S \in SUBSET Node, Building(g, b.heap, first, n, S)
  PROVE  Owned(g, ItemsBehind(t, f, b, kind, first, n))
<1>. DEFINE z == GoesOnAt(b, kind, first, n)
            q == Ringed(b, first, n)
            u == GiveUp(b, first)
            r == ItemsBehind(t, f, b, kind, first, n)
<1>1. r = IF ~b.ok THEN u ELSE IF Look(t, b) = 44 THEN f[z]
          ELSE IF Look(t, b) = Closing(kind) THEN q ELSE u
  BY BehindIs
<1>2. Owned(g, u)
  <2>1. Fresh(g, b.heap, S) /\ Hangs(b.heap, first, S)
    BY DEF Building
  <2>. QED
    BY <2>1, GivesUpOwned
<1>3. ASSUME Look(t, b) = 44 PROVE Owned(g, f[z])
  <2>1. z \in Unfinished /\ z.at = b /\ z.head = first /\ z.last = n
    BY GoesOnFields
  <2>2. b.offset < Len(t)
    BY <1>3 DEF Look, Can
  <2>. HIDE DEF z
  <2>3. ListOwned(z, f[z])
    BY <2>1, <2>2 DEF OwnsBehind
  <2>. QED
    BY <2>1, <2>3 DEF ListOwned
<1>4. ASSUME b.ok PROVE Owned(g, q)
  <2>1. first \in S /\ b.heap[first].kind # "free"
    <3>1. first \in S
      BY DEF Building, Hangs
    <3>. QED
      BY <3>1 DEF Building, Fresh
  <2>2. Marked(b.heap, q.heap, first) /\ q.ok = b.ok /\ q.head = first
    BY <2>1, RingedMarks
  <2>. DEFINE h == b.heap
              k == q.heap
  <2>3. Building(g, h, first, n, S) /\ Marked(h, k, first)
    BY <2>2
  <2>. HIDE DEF h, k
  <2>4. Building(g, k, first, n, S)
    BY <2>1, <2>3, MarkedBuilds
  <2>5. Fresh(g, k, S) /\ Hangs(k, first, S)
    BY <2>4 DEF Building
  <2>6. Fresh(g, q.heap, S) /\ Hangs(q.heap, q.head, S)
    BY <2>2, <2>5 DEF k
  <2>. HIDE DEF q
  <2>. QED
    BY <1>4, <2>2, <2>6 DEF Owned
<1>. HIDE DEF r, q, u, z
<1>5. Owned(g, r)
  BY <1>1, <1>2, <1>3, <1>4
<1>. QED
  BY <1>5 DEF r

LEMMA ItemsOwned ==
  ASSUME IsFiniteSet(Node), NEW t \in Seq(Byte), NEW f, NEW x \in Unfinished, OwnsBehind(t, f, x.at.offset)
  PROVE  ListOwned(x, ReadItems(t, f, x))
<1>1. ASSUME NEW g \in Heap, NEW S \in SUBSET Node, Clean(g), Building(g, x.at.heap, x.head, x.last, S)
      PROVE  Owned(g, ReadItems(t, f, x))
  <2>1. /\ x.at \in ParseBuffer /\ NodeOf(x) \in Pointer /\ x.head \in Pointer /\ x.kind \in {"array", "object"}
        /\ NodeOf(x) # NULL => NodeOf(x) \in Node /\ HeadOf(x) \in Node
    BY NodeFields
  <2>2. CASE NodeOf(x) = NULL
    <3>1. ReadItems(t, f, x) = GiveUp(x.at, x.head)
      BY <2>2, ReadItemsIs
    <3>2. Fresh(g, x.at.heap, S) /\ Hangs(x.at.heap, x.head, S)
      BY <1>1 DEF Building
    <3>3. Owned(g, GiveUp(x.at, x.head))
      BY <2>1, <3>2, GivesUpOwned
    <3>. QED
      BY <3>1, <3>3
  <2>3. CASE NodeOf(x) # NULL
    <3>. DEFINE v == ValueAt(t, f, x)
                a == NameAt(t, x)
                o == x.at.offset
                first == HeadOf(x)
                n == NodeOf(x)
    <3>1. ReadItems(t, f, x) = ItemsBehind(t, f, v, x.kind, first, n)
      BY <2>3, ReadItemsIs
    <3>2. PICK R \in SUBSET Node : Building(g, v.heap, first, n, R)
      BY <1>1, <2>3, ItemBuilds
    <3>3. a \in ParseBuffer /\ o < a.offset /\ o \in Nat
      <4>1. Further(x.at, a) /\ o < a.offset
        BY <2>3, NameAtFurther
      <4>. QED
        BY <2>1, <4>1 DEF Further, ParseBuffer
    <3>4. v \in ParseBuffer /\ a.offset <= v.offset
      <4>1. v = ItemValue(t, f, a, n)
        BY DEF ValueAt
      <4>2. Proper(f) /\ n \in Node
        BY <2>1, <2>3 DEF OwnsBehind
      <4>. HIDE DEF a, v, n
      <4>3. Further(a, v)
        BY <3>3, <4>1, <4>2, ItemFurther
      <4>. QED
        BY <4>3 DEF Further
    <3>5. o \in Int /\ o < v.offset
      <4>1. a.offset \in Nat /\ v.offset \in Nat
        BY <3>3, <3>4 DEF ParseBuffer
      <4>. HIDE DEF a, v, o
      <4>. QED
        BY <3>3, <3>4, <4>1
    <3>6. first \in Node /\ n \in Node /\ OwnsBehind(t, f, o)
      BY <2>1, <2>3
    <3>. HIDE DEF v, a, o, first, n
    <3>7. Owned(g, ItemsBehind(t, f, v, x.kind, first, n))
      BY <1>1, <2>1, <3>2, <3>4, <3>5, <3>6, BehindOwned
    <3>. QED
      BY <3>1, <3>7
  <2>. QED
    BY <2>2, <2>3
<1>. QED
  BY <1>1 DEF ListOwned

LEMMA AllItemsOwned ==
  ASSUME IsFiniteSet(Node), NEW t \in Seq(Byte), Unfinished # {}
  PROVE  OwnsBehind(t, ItemsOf(t), -1)
<1>. DEFINE g == ItemsOf(t)
            bad == {k \in Nat : \E y \in Unfinished : Ahead(t)[y] = k /\ ~ListOwned(y, g[y])}
<1>1. Proper(g) /\ \A x \in Unfinished : g[x] = ReadItems(t, g, x)
  BY ItemsOfStep
<1>. HIDE DEF g
<1>2. ASSUME bad # {} PROVE FALSE
  <2>1. PICK k \in bad : \A j \in bad : k <= j
    <3>1. bad \subseteq Nat
      OBVIOUS
    <3>. HIDE DEF bad
    <3>. QED
      BY <1>2, <3>1, NatMin
  <2>2. PICK y \in Unfinished : Ahead(t)[y] = k /\ ~ListOwned(y, g[y])
    OBVIOUS
  <2>3. k \in Nat
    OBVIOUS
  <2>4. ASSUME NEW z \in Unfinished, y.at.offset < z.at.offset, z.at.offset < Len(t) PROVE ListOwned(z, g[z])
    <3>1. Ahead(t)[z] < Ahead(t)[y] /\ Ahead(t)[z] \in Nat
      BY <2>4, AheadLess
    <3>2. ~ListOwned(z, g[z]) => Ahead(t)[z] \in bad
      BY <3>1
    <3>. HIDE DEF bad
    <3>. QED
      BY <2>1, <2>2, <2>3, <3>1, <3>2
  <2>5. OwnsBehind(t, g, y.at.offset)
    BY <1>1, <2>4 DEF OwnsBehind
  <2>6. ListOwned(y, ReadItems(t, g, y))
    BY <2>5, ItemsOwned
  <2>. QED
    BY <1>1, <2>2, <2>6
<1>3. ASSUME NEW y \in Unfinished PROVE ListOwned(y, g[y])
  <2>1. Ahead(t)[y] \in Nat
    BY AheadLess
  <2>. QED
    BY <1>2, <2>1
<1>. QED
  BY <1>1, <1>3 DEF OwnsBehind, g

LEMMA BomKeeps ==
  ASSUME NEW t \in Seq(Byte), NEW b \in ParseBuffer
  PROVE  LET r == skip_utf8_bom(t, b)
         IN r \in ParseBuffer /\ r.heap = b.heap
<1>1. b.offset + 3 \in Nat
  BY DEF ParseBuffer
<1>2. Skip(b, 3) \in ParseBuffer /\ Skip(b, 3).heap = b.heap
  BY <1>1, SkipFields
<1>. QED
  BY <1>2 DEF skip_utf8_bom

\* What reading a value into a new node leaves, is a tree that hangs from it.
LEMMA ValueBuilds ==
  ASSUME IsFiniteSet(Node), NEW t \in Seq(Byte), NEW h, Clean(h), NEW b \in ParseBuffer, NEW n \in Node,
         Building(h, b.heap, n, n, {n}), Alone(b.heap, n)
  PROVE  LET v == parse_value(t, ItemsOf(t), b, n)
         IN v \in ParseBuffer /\ \E S \in SUBSET Node : Building(h, v.heap, n, n, S)
<1>. DEFINE f == ItemsOf(t)
            v == parse_value(t, f, b, n)
            y == [at |-> b, kind |-> "array", head |-> NULL, last |-> NULL]
            o == -1
<1>1. Unfinished # {}
  <2>1. y \in Unfinished
    BY DEF Unfinished, Pointer
  <2>. QED
    BY <2>1
<1>2. OwnsBehind(t, f, o) /\ o \in Int
  BY <1>1, AllItemsOwned
<1>3. b.offset \in Nat /\ o < b.offset
  BY DEF ParseBuffer
<1>4. Clean(b.heap)
  BY FreshClean DEF Building
<1>. HIDE DEF f, o
<1>5. PICK R \in SUBSET Node : Planted(b.heap, v.heap, n, R)
  BY <1>2, <1>3, <1>4, ValueGrows
<1>6. v \in ParseBuffer
  BY <1>2, ValueFurther DEF OwnsBehind, Further
<1>. DEFINE g == b.heap
            k == v.heap
            S == {n}
<1>7. Building(h, g, n, n, S) /\ Alone(g, n) /\ Planted(g, k, n, R) /\ n \in S
  BY <1>5
<1>. HIDE DEF v, g, k, S
<1>8. Building(h, k, n, n, S \cup R)
  BY <1>7, GrownBuilds
<1>9. S \cup R \in SUBSET Node
  BY DEF S
<1>. QED
  BY <1>6, <1>8, <1>9 DEF k, v, f

\* Whatever the text, ended by a zero or not: where it is refused, every node
\* and every string that was allocated in reading it has been freed, and the heap
\* is as it was; where an item is returned, deleting that item frees all that
\* was allocated and nothing else; and what was there before is as it was.
THEOREM ReadingLeavesNothing ==
  ASSUME IsFiniteSet(Node), NEW t \in Seq(Byte), NEW h \in Heap, Clean(h), NEW required \in BOOLEAN
  PROVE  LET r == ParseWithLengthOpts(h, t, required)
         IN /\ r.node = NULL => r.heap = h
            /\ r.node # NULL => Delete(r.heap, r.node) = h
            /\ \A n \in Live(h) : r.heap[n] = h[n]
<1>. DEFINE new == New_Item(h, "invalid")
            n == new.node
            start == StartOf(new.heap)
            bom == skip_utf8_bom(t, start)
            begin == buffer_skip_whitespace(t, bom)
            value == parse_value(t, ItemsOf(t), begin, n)
            end == SkipBehind(t, value, required)
            r == ParseWithLengthOpts(h, t, required)
<1>1. r = IF t = << >> \/ n = NULL
          THEN [heap |-> h, node |-> NULL, end |-> 0, outside |-> FALSE]
          ELSE Parsed(t, n, end, required)
  BY DEF ParseWithLengthOpts, StartOf
<1>2. new.heap \in Heap /\ n \in Pointer
  BY NewItemFields
<1>3. CASE t = << >> \/ n = NULL
  <2>1. r = [heap |-> h, node |-> NULL, end |-> 0, outside |-> FALSE]
    BY <1>1, <1>3
  <2>. HIDE DEF r
  <2>2. r.heap = h /\ r.node = NULL
    BY <2>1
  <2>3. /\ r.node = NULL => r.heap = h
        /\ r.node # NULL => Delete(r.heap, r.node) = h
        /\ \A m \in Live(h) : r.heap[m] = h[m]
    BY <2>2
  <2>. QED
    BY <2>3 DEF r
<1>4. CASE t # << >> /\ n # NULL
  <2>1. n \in Node
    BY <1>2, <1>4 DEF Pointer
  <2>. DEFINE c == [Free EXCEPT !.kind = "invalid"]
              k == [h EXCEPT ![n] = c]
  <2>2. h[n].kind = "free" /\ new.heap = k
    BY <1>4, NewItemFields
  <2>3. Building(h, k, n, n, {n}) /\ Alone(k, n)
    <3>1. c \in Cell
      BY FreeIsCell DEF Cell, Kinds
    <3>2. c = [Free EXCEPT !.kind = "invalid"]
      OBVIOUS
    <3>3. h[n].kind = "free"
      BY <2>2
    <3>. HIDE DEF c, n
    <3>. QED
      BY <2>1, <3>1, <3>2, <3>3, FirstBuilds
  <2>4. start \in ParseBuffer /\ start.heap = k
    BY <1>2, <2>2 DEF StartOf, ParseBuffer, Pointer
  <2>5. r = Parsed(t, n, end, required)
    BY <1>1, <1>4
  <2>. HIDE DEF n, k, start, r
  <2>6. bom \in ParseBuffer /\ bom.heap = k
    BY <2>4, BomKeeps
  <2>. HIDE DEF bom
  <2>7. begin \in ParseBuffer /\ begin.heap = k
    BY <2>6, WhitespaceFurther DEF Further
  <2>. HIDE DEF begin
  <2>8. value \in ParseBuffer /\ \E S \in SUBSET Node : Building(h, value.heap, n, n, S)
    BY <2>1, <2>3, <2>7, ValueBuilds
  <2>. HIDE DEF value
  <2>9. end.heap = value.heap
    BY <2>8, WhitespaceFurther DEF SkipBehind
  <2>. HIDE DEF end
  <2>10. PICK S \in SUBSET Node : Fresh(h, end.heap, S) /\ Hangs(end.heap, n, S)
    BY <2>8, <2>9 DEF Building
  <2>11. Delete(end.heap, n) = h
    <3>. DEFINE e == end.heap
    <3>1. Fresh(h, e, S) /\ Hangs(e, n, S)
      BY <2>10
    <3>. HIDE DEF e
    <3>2. Delete(e, n) = h
      BY <3>1, DeleteRestores
    <3>. QED
      BY <3>2 DEF e
  <2>12. \A m \in Live(h) : end.heap[m] = h[m]
    <3>1. ASSUME NEW m \in Live(h) PROVE end.heap[m] = h[m]
      <4>1. m \in Node /\ h[m] # Free
        BY DEF Live, Free
      <4>2. m \notin S
        BY <2>10, <4>1 DEF Fresh
      <4>. QED
        BY <2>10, <4>1, <4>2 DEF Fresh
    <3>. QED
      BY <3>1
  <2>13. \/ r.heap = end.heap /\ r.node = n
         \/ r.heap = Delete(end.heap, n) /\ r.node = NULL
    BY <2>5 DEF Parsed
  <2>14. /\ r.node = NULL => r.heap = h
         /\ r.node # NULL => Delete(r.heap, r.node) = h
         /\ \A m \in Live(h) : r.heap[m] = h[m]
    <3>1. n # NULL
      BY <1>4
    <3>. QED
      BY <2>11, <2>12, <2>13, <3>1
  <2>. QED
    BY <2>14 DEF r
<1>. QED
  BY <1>3, <1>4
=============================================================================
