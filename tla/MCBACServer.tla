---------------------------- MODULE MCBACServer ----------------------------
(* Model-checking instance of BACServer: symmetric ids and addresses. *)
EXTENDS BACServer, TLC

Symmetry == Permutations(ConnId) \cup Permutations(Node)
=============================================================================
