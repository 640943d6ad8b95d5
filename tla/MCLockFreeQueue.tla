--------------------------- MODULE MCLockFreeQueue ---------------------------
(* Two producers and two consumers: enough for a thread to be overtaken by one *)
(* of its kind and by one of the other kind.                                   *)
EXTENDS LockFreeQueue, TLC

\* Threads of a kind are alike.
Symmetry == Permutations(Producers) \cup Permutations(Consumers)
=============================================================================
