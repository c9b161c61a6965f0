----------------------------- MODULE UnorderedSet -----------------------------
(***************************************************************************)
(* rack::unordered_set (src/src/unordered_set.hpp): an unordered_map from  *)
(* the elements to a dummy, so that Vals has one member, the char 0 that   *)
(* is the value of every key.  Its calls go to the map m; an iterator      *)
(* wraps one of m's, which is a bucket or end().  Elements are erased      *)
(* where an iterator is: erase(const K&) returns m's iterator as a size_t  *)
(* and does not compile.                                                   *)
(***************************************************************************)
EXTENDS UnorderedMap

VARIABLE it   \* an iterator of the client; None while it must not be used

setVars == <<vars, it>>

SetInit == Init /\ it = None

\* ++: from a bucket to the next that is occupied, or the end
NextOccupied(i) ==
  CHOOSE j \in i + 1 .. capacity :
    /\ j \in Occupied \cup {capacity}
    /\ \A o \in Occupied : o <= i \/ j <= o

\* An insertion moves entries, also those it does not concern: iterators end.
SetInsert(k) == (\E dummy \in Vals : Insert(k, dummy)) /\ it' = None

SetRehash(n) == MayRehash(n) /\ Rehash(n) /\ it' = None

SetClear == Clear /\ it' = None

Begin == call.pc = "idle" /\ it' = NextOccupied(-1) /\ UNCHANGED vars

Increment == call.pc = "idle" /\ it \in Occupied /\ it' = NextOccupied(it) /\ UNCHANGED vars

FindIt(k) == call.pc = "idle" /\ Find(k) # None /\ it' = Find(k) /\ UNCHANGED vars

\* Mutation: erase() returns the next bucket, occupied or not
EraseItNext == it \in Occupied /\ EraseAt(it) /\ it' = it + 1

\* it = erase(it): the iterator to return is computed before the bucket is given up.
EraseIt == it \in Occupied /\ EraseAt(it) /\ it' = NextOccupied(it)

SetLoop == Loop /\ UNCHANGED it

SetNext ==
  \/ \E k \in Keys : SetInsert(k) \/ FindIt(k)
  \/ \E n \in {capacity \div 2, capacity} : SetRehash(n)
  \/ SetClear \/ Begin \/ Increment \/ EraseIt
  \/ SetLoop

SetSpec == SetInit /\ [][SetNext]_setVars /\ WF_setVars(SetLoop)

-----------------------------------------------------------------------------
\* An iterator the client may use is at an element or at the end, whatever has
\* been erased under it and displaced before it was made: a loop that erases
\* while it iterates (the test unordered_set_test.iterate) never stands on a tombstone.
IteratorAtElement == it # None => it \in Occupied \cup {capacity}
=============================================================================
