----------------------------- MODULE MCKeyGates -----------------------------
(* TLC instance of KeyGates: symmetric goroutines, cells and keys.         *)
EXTENDS KeyGates, TLC

Symmetry == Permutations(Procs) \cup Permutations(Entries) \cup Permutations(Keys)
=============================================================================
