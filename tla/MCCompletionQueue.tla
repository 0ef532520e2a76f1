------------------------- MODULE MCCompletionQueue -------------------------
(* Small instances of CompletionQueue for TLC. *)
EXTENDS CompletionQueue, TLC

CONSTANTS o1, o2, p1, p2, nobody, stub

OneOp == {o1}
TwoOps == {o1, o2}
OnePoller == {p1}
TwoPollers == {p1, p2}

Interchangeable == Permutations(Op) \cup Permutations(Poller)
NoOps == {}
=============================================================================
