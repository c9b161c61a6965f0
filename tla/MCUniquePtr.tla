----------------------------- MODULE MCUniquePtr -----------------------------
(* Model-checking instances of UniquePtr.                                  *)
EXTENDS UniquePtr, TLC

Symmetry == Permutations(Roots) \cup Permutations(Objects)
=============================================================================
