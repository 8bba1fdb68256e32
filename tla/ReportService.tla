--------------------------- MODULE ReportService ---------------------------
(***************************************************************************)
(* What the client session promises the threads that use it: calls happen  *)
(* one at a time, a call succeeds only after the server has taken it, and  *)
(* a call that was made does not stay open for ever.                       *)
(***************************************************************************)
CONSTANT Thread
VARIABLES caller, \* the thread whose call is open, or nobody
          taken,  \* the server has handled the open call
          answer  \* what the last call of each thread returned

vars == <<caller, taken, answer>>

Init == caller = "nobody" /\ taken = FALSE /\ answer = [t \in Thread |-> "none"]

Call(t) ==
  /\ caller = "nobody"
  /\ caller' = t /\ taken' = FALSE
  /\ answer' = [answer EXCEPT ![t] = "none"]

Take == caller \in Thread /\ taken' = TRUE /\ UNCHANGED <<caller, answer>>

Return(t, v) ==
  /\ caller = t
  /\ v = "ok" => taken
  /\ answer' = [answer EXCEPT ![t] = v]
  /\ caller' = "nobody" /\ taken' = FALSE

Next == \/ \E t \in Thread : Call(t)
        \/ Take
        \/ \E t \in Thread, v \in {"ok", "error", "exception"} : Return(t, v)

Spec ==
  /\ Init /\ [][Next]_vars
  /\ \A t \in Thread : caller = t ~> caller # t
=============================================================================
