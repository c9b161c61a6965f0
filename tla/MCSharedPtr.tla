----------------------------- MODULE MCSharedPtr -----------------------------
(* Model-checking instances of SharedPtr.                                  *)
EXTENDS SharedPtr, TLC

Symmetry ==
  Permutations(Threads) \cup Permutations(SharedPtrs) \cup Permutations(Blocks)
=============================================================================
