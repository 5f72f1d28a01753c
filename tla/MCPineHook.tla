----------------------------- MODULE MCPineHook -----------------------------
(* Instances of PineHook for TLC: threads, callbacks and records are model   *)
(* values that can be exchanged for one another.                             *)
EXTENDS PineHook, TLC

Symmetry == Permutations(Threads) \union Permutations(Callbacks) \union Permutations(Records)
=============================================================================
