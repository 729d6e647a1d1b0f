--------------------------- MODULE MCAdministration ---------------------------
(* Administration for TLC: administrators and ids are interchangeable.         *)
EXTENDS Administration, TLC

Symmetry == Permutations(Admin) \cup Permutations(Id)
===============================================================================
