------------------------- MODULE MCWorkSerializer -------------------------
(* Small instances of WorkSerializer for TLC. *)
EXTENDS WorkSerializer

CONSTANTS c1, c2, b1, b2, b3, b4, t1, t2

TwoClients == {c1, c2}
FourCallbacks == {b1, b2, b3, b4}
TwoThreads == {t1, t2}
=============================================================================
