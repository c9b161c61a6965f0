----------------------------- MODULE Dictionary -----------------------------
(***************************************************************************)
(* What the associative containers promise, without buckets, nodes or      *)
(* probing: a partial function from keys to values.  An insertion leaves   *)
(* alone a key that is there, a key leaves only when it is erased, and a   *)
(* call changes the entries in its first step, never while it goes on.     *)
(***************************************************************************)
CONSTANTS Keys, Vals

VARIABLES
  dict,   \* the entries: a function whose domain is the set of keys
  busy    \* whether a call is in progress

Empty == [k \in {} |-> k]

Init == dict = Empty /\ busy = FALSE

Insert(k, v) ==
  /\ ~busy /\ k \notin DOMAIN dict
  /\ dict' = [x \in DOMAIN dict \cup {k} |-> IF x = k THEN v ELSE dict[x]]
  /\ busy' \in BOOLEAN

Erase(k) ==
  /\ ~busy /\ k \in DOMAIN dict
  /\ dict' = [x \in DOMAIN dict \ {k} |-> dict[x]]
  /\ UNCHANGED busy

Clear ==
  /\ ~busy
  /\ dict' = Empty
  /\ UNCHANGED busy

\* A call that leaves the entries as they are begins, or any call ends.
BeginOrEnd ==
  /\ busy' = ~busy
  /\ UNCHANGED dict

Next ==
  \/ \E k \in Keys, v \in Vals : Insert(k, v)
  \/ \E k \in Keys : Erase(k)
  \/ Clear
  \/ BeginOrEnd

Spec == Init /\ [][Next]_<<dict, busy>>
=============================================================================
