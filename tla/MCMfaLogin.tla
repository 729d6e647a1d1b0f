----------------------------- MODULE MCMfaLogin -----------------------------
(* MfaLogin for TLC: browsers are interchangeable, and so are addresses.     *)
EXTENDS MfaLogin, TLC

Symmetry == Permutations(Browsers) \cup Permutations(Addresses)
=============================================================================
