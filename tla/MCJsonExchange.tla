---------------------------- MODULE MCJsonExchange ----------------------------
(* Model-checking instance of JsonExchange: documents of up to three levels  *)
(* whose strings have one character of each sort, and documents that become  *)
(* one another.                                                              *)
EXTENDS JsonExchange

Leaf(kind, val) == [kind |-> kind, key |-> NoString, val |-> val, kids |-> <<>>]
Named(key, v) == [v EXCEPT !.key = key]
Array(kids) == [kind |-> "array", key |-> NoString, val |-> NoString, kids |-> kids]
Object(kids) == [kind |-> "object", key |-> NoString, val |-> NoString, kids |-> kids]

\* a, a quote, a newline, a control character; characters of two, three and
\* four bytes.
Characters == {97, 34, 92, 10, 1, 233, 8364, 128512}
Strings == {<<>>} \cup {<<c>> : c \in Characters} \cup {<<97, c>> : c \in {32, 34, 128512}}

Scalars ==
  {Leaf(k, NoString) : k \in {"null", "true", "false"}}
  \cup {Leaf("number", <<n>>) : n \in {0, -7, 120}}
  \cup {Leaf("string", s) : s \in Strings}

Few == {Leaf("number", <<-7>>), Leaf("string", <<34, 97>>)}
Lists(S) == {<<>>} \cup {<<x>> : x \in S} \cup {<<x, y>> : x, y \in S}
Members(S) ==
  {<<>>} \cup {<<Named(k, x)>> : k \in {<<>>, <<233>>}, x \in S}
  \cup {<<Named(<<97>>, x), Named(<<34>>, y)>> : x, y \in S}

Flat == {Array(l) : l \in Lists(Few)} \cup {Object(m) : m \in Members(Few)}
Nested ==
  {Array(<<x>>) : x \in Flat} \cup {Object(<<Named(<<97>>, x), Named(<<98>>, Leaf("true", NoString))>>) : x \in Flat}
Deep == Array(<<Array(<<Array(<<>>)>>)>>)
TooDeep == {Array(<<Deep>>), Object(<<Named(<<97>>, Array(<<Deep>>))>>)}

\* A blank inside a string, behind a string that ends in a backslash, or not.
Blanks == {Array(<<Leaf("string", x), Leaf("string", <<97, 32>>)>>) : x \in {<<92>>, <<92, 97>>}}

\* Values and members that are changed, added, removed; names that are sorted
\* otherwise with case than without, and names a pointer escapes.
One == Leaf("number", <<1>>)
Two == Leaf("number", <<2>>)
Null == Leaf("null", NoString)
a == <<97>>
b == <<98>>
Changing ==
  {One, Null, Deep, Leaf("string", a), Leaf("string", b), Array(<<>>), Array(<<Two>>),
   Array(<<One, Two, Object(<<Named(a, One)>>)>>), Array(<<One, Two, Object(<<Named(b, Null)>>)>>),
   Object(<<>>), Object(<<Named(a, Two)>>), Object(<<Named(b, One), Named(a, One)>>),
   Object(<<Named(<<66>>, One), Named(a, Null)>>), Object(<<Named(<<66>>, Two)>>),
   Object(<<Named(a, Object(<<Named(b, Two)>>)), Named(<<99>>, Array(<<One, Two>>)), Named(b, One)>>),
   Object(<<Named(a, Object(<<Named(b, One), Named(a, Two)>>)), Named(<<99>>, Array(<<>>))>>)}
  \cup {Object(<<Named(<<126>>, Object(<<Named(a, x)>>)), Named(<<97, 126>>, x)>>) : x \in {One, Two}}
  \cup {Object(<<Named(<<47>>, x)>>) : x \in {One, Two}}

\* A value or a name that is one character too long for the memory there is,
\* behind what has been read already.
Long == [i \in 1..(MaxString - 1) |-> 97]
TooLong ==
  {Leaf("string", Long), Array(<<One, Leaf("string", Long)>>),
   Object(<<Named(a, Array(<<One>>)), Named(b, Leaf("string", Long))>>),
   Object(<<Named(a, Leaf("string", b)), Named(Long, One)>>)}

Documents == Changing \cup Scalars \cup Flat \cup Nested \cup TooDeep \cup Blanks \cup TooLong

\* Memory for no more than some items.
FewNodes == {1..n : n \in 0..4}

\* Nothing, a blank and a newline, a comment of each sort.
Separators == {<<>>, <<32, 10>>, <<47, 42, 34, 42, 47>>, <<47, 47, 10>>}
Damages == {34, 92, 44, 125, 48}
=============================================================================
