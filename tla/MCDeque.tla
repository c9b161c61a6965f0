------------------------------ MODULE MCDeque ------------------------------
(* Symmetry for the run of Deque: it compares values and nothing else.     *)
EXTENDS Deque

Symmetry == Permutations(Vals)
=============================================================================
