-------------------------- MODULE MCDriverService --------------------------
(* Model-checking instance of DriverService: interchangeable games.         *)
EXTENDS DriverService, TLC

Symmetry == Permutations(Proc) \cup Permutations(Path)
=============================================================================
