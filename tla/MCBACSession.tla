---------------------------- MODULE MCBACSession ----------------------------
(* Model-checking instance of BACSession: what a stale header may read as.  *)
EXTENDS BACSession

\* Everything a short string may leave behind except the one header that
\* would pass for the awaited answer.
StaleNoSuccess ==
  {Hdr(Garbage, Garbage), Hdr(LOGIN, "Request"), Hdr(LOGIN, "Error"),
   Hdr(MACHINE_INFO, Garbage), Hdr(GAME_ABNORMAL_DATA, Garbage)}

\* A zeroed buffer.
StaleZero == {Hdr(Garbage, Garbage)}
=============================================================================
