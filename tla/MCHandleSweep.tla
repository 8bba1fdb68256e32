--------------------------- MODULE MCHandleSweep ---------------------------
(***************************************************************************)
(* Model-checking instance of HandleSweep.  The entry's field holds four   *)
(* numbers, so that of the two processes 1 and 5 the second reads as the   *)
(* first, and so do their handle values.                                   *)
(***************************************************************************)
EXTENDS HandleSweep
=============================================================================
