---------------------------- MODULE MCSettlement ----------------------------
(* TLC instances of Settlement.                                            *)
EXTENDS Settlement, TLC

CONSTANTS r1, r2, r3, k1

\* All requests of one key.
OneKey == [r \in Requests |-> k1]

Symmetry == Permutations(Requests)
=============================================================================
