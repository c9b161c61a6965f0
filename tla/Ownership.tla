------------------------------ MODULE Ownership ------------------------------
(***************************************************************************)
(* What the reference-counted pointers promise, without counters, control  *)
(* blocks or threads: some pointers own an object together, and the object *)
(* is destroyed once, after the last of them has let go of it.             *)
(***************************************************************************)
CONSTANTS
  Ptrs,       \* the owning pointers
  Objects,
  None

VARIABLES
  owns,       \* owns[p]: the object that p owns, or None
  life        \* life[o]: "unused", "live" or "deleted"

vars == <<owns, life>>

Init ==
  /\ owns = [p \in Ptrs |-> None]
  /\ life = [o \in Objects |-> "unused"]

Abandoned(o) == life[o] = "live" /\ \A p \in Ptrs : owns[p] # o

Create(p, o) ==
  /\ owns[p] = None /\ life[o] = "unused"
  /\ owns' = [owns EXCEPT ![p] = o]
  /\ life' = [life EXCEPT ![o] = "live"]

\* p joins the owners of what q owns.
Share(p, q) ==
  /\ owns[p] = None /\ owns[q] # None
  /\ owns' = [owns EXCEPT ![p] = owns[q]]
  /\ UNCHANGED life

\* p and q exchange what they own; a move is an exchange with None.
Exchange(p, q) ==
  /\ owns' = [owns EXCEPT ![p] = owns[q], ![q] = owns[p]]
  /\ UNCHANGED life

LetGo(p) ==
  /\ owns[p] # None
  /\ owns' = [owns EXCEPT ![p] = None]
  /\ UNCHANGED life

Destroy(o) ==
  /\ Abandoned(o)
  /\ life' = [life EXCEPT ![o] = "deleted"]
  /\ UNCHANGED owns

Next ==
  \/ \E p \in Ptrs, o \in Objects : Create(p, o)
  \/ \E p, q \in Ptrs : Share(p, q) \/ Exchange(p, q)
  \/ \E p \in Ptrs : LetGo(p)
  \/ \E o \in Objects : Destroy(o)

Spec == Init /\ [][Next]_vars

FairSpec == Spec /\ \A o \in Objects : WF_vars(Destroy(o))

=============================================================================
