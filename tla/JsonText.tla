----------------------------- MODULE JsonText -----------------------------
(***************************************************************************)
(* A document on its way from one program to another: built with cJSON and *)
(* printed, into a buffer that grows or one of the caller's, or written by *)
(* a program that is not cJSON; minified; damaged; and read by cJSON.      *)
(***************************************************************************)
EXTENDS JsonRead, JsonPrint, JsonCompare, JsonUnicode

CONSTANTS Docs,   \* documents: trees whose strings are sequences of code points
          Spaces, \* what another program may write between two tokens
          Damage, \* characters that may take the place of others
          MaxText, \* bound: the length of a text that is damaged
          Memories \* sets of addresses, all that is free when a text is read

VARIABLES pc,     \* what happened last
          doc,    \* the document
          text,   \* the string that holds it
          buffer,  \* the buffer it was printed to
          result  \* what reading it gave

vars == <<pc, doc, text, buffer, result>>

-----------------------------------------------------------------------------
(* Documents and their texts *)

ToUtf8(s) == IF s = NoString THEN s ELSE FlattenSeq([i \in DOMAIN s |-> Utf8(s[i])])

\* The document as cJSON holds it, its strings in UTF-8.
RECURSIVE Encoded(_)
Encoded(v) ==
  [v EXCEPT !.key = ToUtf8(@), !.kids = [i \in DOMAIN @ |-> Encoded(@[i])],
            !.val = IF v.kind = "string" THEN ToUtf8(@) ELSE @]

\* A document written by another program, with s behind every token.
RECURSIVE Written(_, _)
Written(v, s) ==
  LET Text(x) == <<34>> \o FlattenSeq([i \in DOMAIN x |-> Escape(x[i])]) \o <<34>> \o s
      Part(i) == (IF i > 1 THEN <<44>> \o s ELSE <<>>)
                 \o (IF v.kind = "object" THEN Text(v.kids[i].key) \o <<58>> \o s ELSE <<>>)
                 \o Written(v.kids[i], s)
      Inside == FlattenSeq([i \in DOMAIN v.kids |-> Part(i)])
  IN CASE v.kind \in {"null", "true", "false"} -> Str(v.kind) \o s
       [] v.kind = "number" -> Decimal(v.val[1]) \o s
       [] v.kind = "string" -> Text(v.val)
       [] v.kind = "array" -> <<91>> \o s \o Inside \o <<93>> \o s
       [] v.kind = "object" -> <<123>> \o s \o Inside \o <<125>> \o s

NotPrinted == Buffer(0, TRUE, FALSE)
Unread == [heap |-> Empty, node |-> NULL, end |-> 0, outside |-> FALSE]

Init ==
  /\ doc \in Docs
  /\ pc = "built" /\ text = <<>> /\ buffer = NotPrinted /\ result = Unread

-----------------------------------------------------------------------------

Item == Build(Empty, Encoded(doc))

PrintDoc ==
  /\ pc = "built"
  /\ \E format \in BOOLEAN, prebuffer \in {0, 1, 256} :
       buffer' = PrintItem(Item.heap, Item.node, prebuffer, format)
  /\ text' = Printed(buffer') /\ pc' = "printed"
  /\ UNCHANGED <<doc, result>>

\* Into a buffer of any length, up to some more than is needed.
Needed(format) == Len(Printed(PrintItem(Item.heap, Item.node, 256, format))) + 1

PrintToBuffer ==
  /\ pc = "built"
  /\ \E format \in BOOLEAN : \E length \in 0..(Needed(format) + 6) :
       buffer' = PrintPreallocated(Item.heap, Item.node, length, format)
  /\ text' = IF buffer'.ok THEN Printed(buffer') ELSE <<>>
  /\ pc' = IF buffer'.ok THEN "printed" ELSE "no room"
  /\ UNCHANGED <<doc, result>>

WriteElsewhere ==
  /\ pc = "built"
  /\ \E s \in Spaces :
       /\ text' = s \o Written(doc, s)
       /\ pc' = IF 47 \in ToSet(s) THEN "commented" ELSE "printed"
  /\ UNCHANGED <<doc, buffer, result>>

MinifyText ==
  /\ pc \in {"printed", "commented"}
  /\ text' = Minify(text) /\ pc' = "minified"
  /\ UNCHANGED <<doc, buffer, result>>

\* The end is lost, or one character becomes another.
DamageText ==
  /\ pc = "printed" /\ Len(text) <= MaxText
  /\ \E i \in DOMAIN text :
       \/ text' = SubSeq(text, 1, i - 1)
       \/ \E c \in Damage : text' = [text EXCEPT ![i] = c]
  /\ pc' = "damaged"
  /\ UNCHANGED <<doc, buffer, result>>

\* cJSON_Parse hands on the zero behind the text, cJSON_ParseWithLength not.
ReadText ==
  /\ pc \in {"printed", "minified", "damaged"}
  /\ \E terminated, required \in BOOLEAN :
       /\ required => terminated
       /\ result' = ParseWithLengthOpts(Empty, IF terminated THEN Append(text, 0) ELSE text, required)
       /\ pc' = CASE pc = "printed" -> "read"
                  [] pc = "minified" -> "read minified"
                  [] pc = "damaged" -> IF terminated THEN "tried" ELSE "tried by length"
  /\ UNCHANGED <<doc, text, buffer>>

\* Other items take most of the memory: the allocation of an item fails where
\* the text needs one more.
Occupied == [Free EXCEPT !.kind = "raw"]
Scarce(free) == [n \in Node |-> IF n \in free THEN Free ELSE Occupied]

ReadScarce ==
  /\ pc = "printed"
  /\ \E free \in Memories :
       result' = ParseWithLengthOpts(Scarce(free), Append(text, 0), TRUE)
  /\ pc' = "starved"
  /\ UNCHANGED <<doc, text, buffer>>

Next ==
  \/ PrintDoc \/ PrintToBuffer \/ WriteElsewhere
  \/ MinifyText \/ DamageText \/ ReadText \/ ReadScarce

Spec == Init /\ [][Next]_vars

-----------------------------------------------------------------------------
(* Properties *)

RECURSIVE Depth(_)
Depth(v) ==
  IF v.kind \notin {"array", "object"} THEN 0
  ELSE 1 + FoldLeft(LAMBDA m, kid : IF Depth(kid) > m THEN Depth(kid) ELSE m, 0, v.kids)

\* Minifying takes the quote behind an escaped backslash for an escaped one.
RECURSIVE HasLastBackslash(_)
HasLastBackslash(v) ==
  \/ \E s \in {v.key, v.val} : s # <<>> /\ Last(s) = 92
  \/ \E i \in DOMAIN v.kids : HasLastBackslash(v.kids[i])

\* There may be no memory for a string: a character is twelve bytes at most.
RECURSIVE HasLongString(_)
HasLongString(v) ==
  \/ \E s \in {v.key, v.val} : 12 * Len(s) + 2 > MaxString
  \/ \E i \in DOMAIN v.kids : HasLongString(v.kids[i])

\* What one program printed, or another wrote, with or without comments, is
\* what is read, unless it is nested too deep to be read at all, or a string
\* of it is too long; minifying removes the comments and nothing else, unless
\* a string ends in a backslash.
TextRoundTrip ==
  pc = "read" \/ (pc = "read minified" /\ ~HasLastBackslash(doc)) =>
    IF Depth(doc) > Nesting THEN result.node = NULL
    ELSE \/ HasLongString(doc) /\ result.node = NULL
         \/ /\ result.node # NULL /\ Tree(result.heap, result.node) = Encoded(doc)
            /\ result.end <= Len(text)
            /\ LET both == Build(result.heap, Encoded(doc))
               IN Compare(both.heap, result.node, both.node, TRUE)

\* "cJSON is not always 100% accurate in estimating how much memory it will
\* use, so to be safe allocate 5 bytes more than you actually need": nothing
\* is written behind the end of the buffer; a text said to be printed is all
\* there, and with those 5 bytes it always is.
PrintFits ==
  /\ ~buffer.outside
  /\ pc = "no room" => Len(buffer.mem) < Needed(buffer.format) + 5
  /\ pc = "printed" /\ buffer # NotPrinted =>
       /\ Len(text) + 1 <= Len(buffer.mem)
       /\ text = Printed(PrintItem(Item.heap, Item.node, 256, buffer.format))

SameTree(x, y) == Tree(x.heap, x.node) = Tree(y.heap, y.node)

\* Where reading gave up, nothing is left behind.
NothingLeft == result.heap \in {Empty} \cup {Scarce(free) : free \in Memories}

\* A text that is damaged, too long or too deep, or for whose items the memory
\* does not do, is read without looking behind its end and refused without
\* leaving anything behind, with the error within the text; what a damaged
\* text is read as is printed and read as the same again.
ReadClean ==
  /\ pc \in {"starved", "tried"} => ~result.outside
  /\ result.end <= Len(text)
  /\ result.node = NULL => NothingLeft
  /\ pc = "starved" /\ result.node # NULL => Tree(result.heap, result.node) = Encoded(doc)
  /\ pc \in {"tried", "tried by length"} /\ result.node # NULL =>
       LET again == Printed(PrintItem(result.heap, result.node, 256, FALSE))
       IN /\ WellLinked(result.heap)
          /\ SameTree(ParseWithLengthOpts(Empty, Append(again, 0), TRUE), result)
=============================================================================
