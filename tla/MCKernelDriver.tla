--------------------------- MODULE MCKernelDriver ---------------------------
(* Model-checking instance of KernelDriver: interchangeable process ids.    *)
EXTENDS KernelDriver, TLC

Symmetry == Permutations(Pid)
=============================================================================
