------------------------------ MODULE MCVector ------------------------------
(* Symmetry for the runs of Vector without liveness.                       *)
EXTENDS Vector, TLC

Symmetry == Permutations(Vecs) \cup Permutations(Buffers) \cup Permutations(Vals)
=============================================================================
