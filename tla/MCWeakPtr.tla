------------------------------ MODULE MCWeakPtr ------------------------------
(* Model-checking instances of WeakPtr.                                    *)
EXTENDS WeakPtr, TLC

Symmetry ==
  Permutations(Threads) \cup Permutations(SharedPtrs)
    \cup Permutations(WeakPtrs) \cup Permutations(Blocks)
=============================================================================
