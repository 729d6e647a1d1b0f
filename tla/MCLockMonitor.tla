---------------------------- MODULE MCLockMonitor ----------------------------
(***************************************************************************)
(* Instances of LockMonitor for TLC.  In Pairs, session 1 blocks sessions  *)
(* 2 and 3; in OnePair it blocks session 2 only.                           *)
(***************************************************************************)
EXTENDS LockMonitor

Pairs   == {<<2, 1>>, <<3, 1>>}
OnePair == {<<2, 1>>}
=============================================================================
