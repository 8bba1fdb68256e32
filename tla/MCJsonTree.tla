---------------------------- MODULE MCJsonTree ----------------------------
(* Model-checking instance of JsonTree: two names that differ in case;      *)
(* which free address malloc returns makes no difference.                   *)
EXTENDS JsonTree

Names == {<<97>>, <<65>>} \* a and A
Symmetry == Permutations(Node)
=============================================================================
