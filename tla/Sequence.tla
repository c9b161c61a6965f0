------------------------------ MODULE Sequence ------------------------------
(***************************************************************************)
(* What the sequence containers promise, without buffers or capacities:    *)
(* each name stands for a finite sequence, which calls extend, shorten,    *)
(* edit at one position, or hand over to another name.                     *)
(***************************************************************************)
EXTENDS Naturals, SequencesExt

CONSTANTS Names, Elems

VARIABLE seqs   \* seqs[n]: the elements of n

Init == seqs = [n \in Names |-> <<>>]

\* An empty n is filled, whatever with.
Fill(n) ==
  /\ seqs[n] = <<>> /\ seqs'[n] \in Seq(Elems)
  /\ seqs' = [seqs EXCEPT ![n] = seqs'[n]]

\* n gets longer by copies of one element.
Extend(n) ==
  /\ Len(seqs'[n]) > Len(seqs[n])
  /\ \E x \in Elems :
       seqs' = [seqs EXCEPT ![n] = @ \o [i \in 1 .. Len(seqs'[n]) - Len(@) |-> x]]

Truncate(n, len) == seqs' = [seqs EXCEPT ![n] = SubSeq(@, 1, len)]

Insert(n, i, x) == seqs' = [seqs EXCEPT ![n] = InsertAt(@, i, x)]

Erase(n, i) == seqs' = [seqs EXCEPT ![n] = RemoveAt(@, i)]

\* n takes the elements of m, which is empty afterwards.
Take(n, m) == seqs' = [seqs EXCEPT ![n] = seqs[m], ![m] = <<>>]

Next ==
  \/ \E n \in Names :
       \/ Fill(n)
       \/ Extend(n)
       \/ \E len \in 0 .. Len(seqs[n]) : Truncate(n, len)
       \/ \E i \in 1 .. Len(seqs[n]) + 1, x \in Elems : Insert(n, i, x)
       \/ \E i \in 1 .. Len(seqs[n]) : Erase(n, i)
  \/ \E n, m \in Names : Take(n, m)

Spec == Init /\ [][Next]_seqs
=============================================================================
