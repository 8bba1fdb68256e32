---------------------------- MODULE JsonCompare ----------------------------
(***************************************************************************)
(* Texts and trees as they are: cJSON_Minify takes from a text what does   *)
(* not count, cJSON_Compare compares two trees.                            *)
(***************************************************************************)
EXTENDS JsonHeap

-----------------------------------------------------------------------------
(* Minifying *)

\* t without its first characters, up to and including the end of a comment.
RECURSIVE BehindLine(_)
BehindLine(t) ==
  IF t = <<>> THEN t ELSE IF Head(t) = 10 THEN Tail(t) ELSE BehindLine(Tail(t))

RECURSIVE BehindComment(_)
BehindComment(t) ==
  IF t = <<>> THEN t
  ELSE IF Len(t) > 1 /\ t[1] = 42 /\ t[2] = 47 THEN SubSeq(t, 3, Len(t))
  ELSE BehindComment(Tail(t))

\* What is left of t from inside a string on; `in` is TRUE inside one.
RECURSIVE MinifyFrom(_, _)
MinifyFrom(t, in) ==
  LET Rest(n) == SubSeq(t, n, Len(t))
      second == IF Len(t) > 1 THEN t[2] ELSE 0
  IN IF t = <<>> THEN <<>>
     ELSE IF in
     THEN IF t[1] = 92 /\ second = 34 THEN <<92, 34>> \o MinifyFrom(Rest(3), TRUE)
          ELSE <<t[1]>> \o MinifyFrom(Rest(2), t[1] # 34)
     ELSE CASE t[1] \in {32, 9, 13, 10} -> MinifyFrom(Rest(2), FALSE)
            [] t[1] = 47 /\ second = 47 -> MinifyFrom(BehindLine(Rest(3)), FALSE)
            [] t[1] = 47 /\ second = 42 -> MinifyFrom(BehindComment(Rest(3)), FALSE)
            [] t[1] = 47 /\ second \notin {47, 42} -> MinifyFrom(Rest(2), FALSE)
            [] OTHER -> <<t[1]>> \o MinifyFrom(Rest(2), t[1] = 34)

Minify(t) == MinifyFrom(t, FALSE)

-----------------------------------------------------------------------------
(* Comparing *)

\* The members of an object are looked for in the other one by name.
RECURSIVE Compare(_, _, _, _)
Compare(h, a, b, sensitive) ==
  LET as == Kids(h, a)
      bs == Kids(h, b)
      Has(x, o) == LET y == get_object_item(h, o, h[x].key, sensitive)
                   IN y # NULL /\ Compare(h, x, y, sensitive)
  IN /\ a # NULL /\ b # NULL /\ h[a].kind = h[b].kind /\ h[a].kind # "invalid"
     /\ \/ a = b
        \/ h[a].kind \in {"null", "true", "false"}
        \/ h[a].kind \in {"number", "string", "raw"} /\ h[a].val = h[b].val /\ h[a].val # NoString
        \/ h[a].kind = "array" /\ Len(as) = Len(bs)
           /\ \A i \in DOMAIN as : Compare(h, as[i], bs[i], sensitive)
        \/ h[a].kind = "object" /\ (\A x \in ToSet(as) : Has(x, b))
           /\ \A y \in ToSet(bs) : Has(y, a)
=============================================================================
