---------------------------- MODULE MCUnorderedMap ----------------------------
(* Model-checking instances of UnorderedMap.                               *)
EXTENDS UnorderedMap, TLC

Symmetry == Permutations(Keys) \cup Permutations(Vals)

\* The fast modulo is the modulo on the capacities the class keeps to.
ASSUME \A n \in PowersOfTwo : \A i \in 0 .. 31 : And[i, n - 1] = i % n
=============================================================================
