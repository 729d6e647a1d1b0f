---------------------------- MODULE MCKillActions ----------------------------
(* KillActions for TLC: processes are interchangeable.                        *)
EXTENDS KillActions, TLC

Symmetry == Permutations(Pid)
==============================================================================
