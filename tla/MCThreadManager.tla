-------------------------- MODULE MCThreadManager --------------------------
(* Small instances of ThreadManager for TLC. *)
EXTENDS ThreadManager, TLC

CONSTANTS t1, t2, t3

Three == {t1, t2, t3}
=============================================================================
