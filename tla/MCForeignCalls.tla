----------------------------- MODULE MCForeignCalls -----------------------------
(***************************************************************************)
(* ForeignCalls for TLC: goroutines, threads and blocks may be exchanged.  *)
(***************************************************************************)
EXTENDS ForeignCalls, TLC

Symmetry == Permutations(Goroutines) \cup Permutations(Threads) \cup Permutations(Blocks)
================================================================================
