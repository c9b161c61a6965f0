----------------------------- MODULE UnorderedMap -----------------------------
(***************************************************************************)
(* rack::unordered_map (src/src/unordered_map.hpp): open addressing with   *)
(* robin-hood probing in a table of buckets.                               *)
(*                                                                         *)
(* insert() is modelled one iteration of its probe loop at a time: in the  *)
(* middle of it an entry that was displaced by a richer one is in no       *)
(* bucket, only in the local currKv.  rehash() inserts the entries of the  *)
(* old table one after another and then lets the insert() that called it   *)
(* go on, so both are one queue of entries to insert (call.todo).          *)
(*                                                                         *)
(* The hash function is arbitrary: keyHash is chosen at the start.         *)
(***************************************************************************)
EXTENDS Integers, Sequences, FiniteSets

CONSTANTS
  Keys, Vals,
  Hashes,         \* the values of std::hash<K>
  InitCapacity,   \* the constructor accepts powers of two only
  MaxCapacity,    \* bound: no insert() that would grow the table beyond it
  WordMod,        \* 2^64: probeDist is a size_t
  None

\* A power of two has no odd divisor but 1.
PowersOfTwo == {n \in 1 .. WordMod : \A d \in 2 .. n : n % d = 0 => d % 2 = 0}

ASSUME UnorderedMapAssumption ==
  /\ Hashes \subseteq Nat
  /\ WordMod \in Nat /\ InitCapacity \in PowersOfTwo /\ MaxCapacity \in 0 .. WordMod
  /\ None \notin Keys \cup Vals \cup Nat

VARIABLES
  keyHash,        \* the hash function
  table,          \* the buckets, indexed from 0
  size, capacity,
  call            \* the insert() or rehash() in progress

vars == <<keyHash, table, size, capacity, call>>

BucketIdxs == 0 .. capacity - 1

EmptyBucket == [state |-> "EMPTY", kv |-> None, probeDist |-> 0]

EmptyTable(n) == [i \in 0 .. n - 1 |-> EmptyBucket]

\* key is the argument of insert(), None in a rehash() of the client's, and ret
\* the bucket of the iterator the call returned
Idle == [pc |-> "idle", kv |-> None, home |-> 0, curr |-> 0,
         todo |-> <<>>, key |-> None, ret |-> None]

\* x & m, bit by bit
And[x \in Nat, m \in Nat] ==
  IF m = 0 THEN 0 ELSE 2 * And[x \div 2, m \div 2] + (x % 2) * (m % 2)

\* mod(): i & (N - 1), the fast modulo when N is a power of two
Mod(i, N) == IF N \in PowersOfTwo THEN i % N ELSE And[i % WordMod, (N - 1) % WordMod]

Home(k) == Mod(keyHash[k], capacity)

Occupied == {i \in BucketIdxs : table[i].state = "OCCUPIED"}

\* find(): probe from the home bucket, over deleted buckets, to an empty one
Find(k) ==
  LET at(d) == Mod(Home(k) + d, capacity)
      Holds(i) == i \in Occupied /\ table[i].kv.key = k
      stops == {d \in BucketIdxs : Holds(at(d)) \/ table[at(d)].state = "EMPTY"}
      first == CHOOSE d \in stops : \A e \in stops : d <= e
  IN IF stops # {} /\ Holds(at(first)) THEN at(first) ELSE None

-----------------------------------------------------------------------------
Init ==
  /\ keyHash \in [Keys -> Hashes]
  /\ table = EmptyTable(InitCapacity)
  /\ size = 0
  /\ capacity = InitCapacity
  /\ call = Idle

\* loadFactor() >= 0.75; without buckets it is NaN and the comparison is false.
Full == capacity > 0 /\ 4 * size >= 3 * capacity

Insert(k, v) ==
  /\ call.pc = "idle"
  /\ Full => 2 * capacity <= MaxCapacity
  /\ call' = [Idle EXCEPT !.pc = "next", !.todo = <<[key |-> k, val |-> v]>>, !.key = k]
  /\ UNCHANGED <<keyHash, table, size, capacity>>

\* The entries of the table in bucket order.
Entries ==
  LET n == Cardinality(Occupied)
      nth == CHOOSE f \in [1 .. n -> Occupied] : \A i, j \in 1 .. n : i < j => f[i] < f[j]
  IN [i \in 1 .. n |-> table[nth[i]].kv]

\* Mutation: _size is not reset, and counts the entries twice
ReallocateKept(n, key, rest) ==
  LET m == IF 3 * n > 4 * size THEN n ELSE 2 * size
      todo == Entries \o rest
  IN
  /\ table' = EmptyTable(m)
  /\ capacity' = m
  /\ call' = IF todo = <<>> THEN Idle
             ELSE [Idle EXCEPT !.pc = "next", !.todo = todo, !.key = key]
  /\ UNCHANGED <<keyHash, size>>

\* rehash(n) in a call of insert(key), to be followed by the insertions in rest
Reallocate(n, key, rest) ==
  LET m == IF 3 * n > 4 * size THEN n ELSE 2 * size
      todo == Entries \o rest
  IN
  /\ table' = EmptyTable(m)
  /\ size' = 0
  /\ capacity' = m
  /\ call' = IF todo = <<>> THEN Idle
             ELSE [Idle EXCEPT !.pc = "next", !.todo = todo, !.key = key]
  /\ UNCHANGED keyHash

Rehash(n) ==
  /\ call.pc = "idle"
  /\ Reallocate(n, None, <<>>)

\* insert() finds loadFactor() >= 0.75
Grow ==
  /\ call.pc = "next" /\ Full
  /\ Reallocate(2 * capacity, call.key, call.todo)

\* insert() starts to probe.
Probe ==
  LET kv == Head(call.todo) IN
  /\ call.pc = "next" /\ ~Full
  /\ call' = [call EXCEPT !.pc = "probe", !.kv = kv, !.todo = Tail(@),
                          !.home = Home(kv.key), !.curr = Home(kv.key)]
  /\ UNCHANGED <<keyHash, table, size, capacity>>

\* insert() returns an iterator to bucket i; an enclosing rehash() goes on.
Returned(i) ==
  IF call.todo = <<>> THEN [Idle EXCEPT !.key = call.key, !.ret = i]
  ELSE [call EXCEPT !.pc = "next", !.kv = None, !.home = 0, !.curr = 0]

\* The loop goes on at the next bucket with entry kv, whose home is h, unless
\* that is where it began: then kv is not inserted and insert() returns end().
GoOn(kv, h) ==
  LET next == Mod(call.curr + 1, capacity) IN
  call' = IF next = h THEN Returned(capacity)
          ELSE [call EXCEPT !.kv = kv, !.home = h, !.curr = next]

Probing(states) == call.pc = "probe" /\ table[call.curr].state \in states

Distance == Mod(call.curr - call.home, capacity)

KeyExists ==
  /\ Probing({"OCCUPIED"}) /\ table[call.curr].kv.key = call.kv.key
  /\ call' = Returned(call.curr)
  /\ UNCHANGED <<keyHash, table, size, capacity>>

\* Mutation: assignment instead of swap, the displaced entry is dropped
StealLost ==
  LET bucket == table[call.curr] IN
  /\ Probing({"OCCUPIED"}) /\ bucket.kv.key # call.kv.key
  /\ bucket.probeDist < Distance
  /\ table' = [table EXCEPT ![call.curr].kv = call.kv, ![call.curr].probeDist = Distance]
  /\ call' = Returned(call.curr)
  /\ UNCHANGED <<keyHash, size, capacity>>

Steal ==
  LET bucket == table[call.curr] IN
  /\ Probing({"OCCUPIED"}) /\ bucket.kv.key # call.kv.key
  /\ bucket.probeDist < Distance
  /\ table' = [table EXCEPT ![call.curr].kv = call.kv, ![call.curr].probeDist = Distance]
  /\ GoOn(bucket.kv, Home(bucket.kv.key))
  /\ UNCHANGED <<keyHash, size, capacity>>

\* Mutation: currIdx is not advanced
AdvanceStuck ==
  /\ Probing({"OCCUPIED"}) /\ table[call.curr].kv.key # call.kv.key
  /\ table[call.curr].probeDist >= Distance
  /\ UNCHANGED vars

Advance ==
  LET bucket == table[call.curr] IN
  /\ Probing({"OCCUPIED"}) /\ bucket.kv.key # call.kv.key
  /\ bucket.probeDist >= Distance
  /\ GoOn(call.kv, call.home)
  /\ UNCHANGED <<keyHash, table, size, capacity>>

\* Mutation: a signed distance
PlaceSigned ==
  /\ Probing({"EMPTY", "DELETED"})
  /\ table' = [table EXCEPT ![call.curr] =
                 [state |-> "OCCUPIED", kv |-> call.kv, probeDist |-> call.curr - call.home]]
  /\ size' = size + 1
  /\ call' = Returned(call.curr)
  /\ UNCHANGED <<keyHash, capacity>>

\* An empty or deleted bucket takes the entry; the distance is not reduced
\* modulo the capacity here.
Place ==
  /\ Probing({"EMPTY", "DELETED"})
  /\ table' = [table EXCEPT ![call.curr] =
                 [state |-> "OCCUPIED", kv |-> call.kv,
                  probeDist |-> (call.curr - call.home) % WordMod]]
  /\ size' = size + 1
  /\ call' = Returned(call.curr)
  /\ UNCHANGED <<keyHash, capacity>>

\* Mutation: no tombstone
EraseAtEmptied(i) ==
  /\ call.pc = "idle" /\ i \in Occupied
  /\ table' = [table EXCEPT ![i] = EmptyBucket]
  /\ size' = IF size > 0 THEN size - 1 ELSE size
  /\ call' = Idle
  /\ UNCHANGED <<keyHash, capacity>>

\* erase(pos) on an occupied bucket; erase(key) is this at find(key).
EraseAt(i) ==
  /\ call.pc = "idle" /\ i \in Occupied
  /\ table' = [table EXCEPT ![i].state = "DELETED", ![i].kv = None]
  /\ size' = IF size > 0 THEN size - 1 ELSE size
  /\ call' = Idle
  /\ UNCHANGED <<keyHash, capacity>>

Clear ==
  /\ call.pc = "idle"
  /\ table' = [i \in BucketIdxs |->
                 IF table[i].state = "EMPTY" THEN table[i] ELSE EmptyBucket]
  /\ size' = size - Cardinality(Occupied)
  /\ call' = Idle
  /\ UNCHANGED <<keyHash, capacity>>

\* The table is moved into another map, and this one is left without buckets.
MoveFrom ==
  /\ call.pc = "idle" /\ capacity > 0
  /\ table' = EmptyTable(0)
  /\ size' = 0
  /\ capacity' = 0
  /\ call' = Idle
  /\ UNCHANGED keyHash

-----------------------------------------------------------------------------
Loop == Grow \/ Probe \/ KeyExists \/ Steal \/ Advance \/ Place

\* rehash() is called with a power of two that the load factor allows.
MayRehash(n) == n \in PowersOfTwo /\ 3 * n > 4 * size

\* A map that has been moved from is rehashed before it is used again.
Next ==
  \/ capacity > 0 /\ \E k \in Keys, v \in Vals : Insert(k, v)
  \/ \E n \in {capacity \div 2, capacity, InitCapacity} : MayRehash(n) /\ Rehash(n)
  \/ Clear
  \/ MoveFrom
  \/ Loop

Spec == Init /\ [][Next]_vars

\* The same with insert() into a map that has been moved from
MovedFromSpec == Init /\ [][Next \/ \E k \in Keys, v \in Vals : Insert(k, v)]_vars

\* rehash(n) with any n, which its comment says is bumped up when too small
AnyRehashSpec == Init /\ [][Next \/ \E n \in 1 .. 4 : Rehash(n)]_vars

-----------------------------------------------------------------------------
(* Properties.                                                             *)

Pairs == [key : Keys, val : Vals]

TypeOK ==
  /\ keyHash \in [Keys -> Hashes]
  /\ capacity \in Nat /\ size \in 0 .. capacity
  /\ table \in [BucketIdxs -> [state : {"EMPTY", "OCCUPIED", "DELETED"},
                               kv : Pairs \cup {None}, probeDist : 0 .. WordMod - 1]]
  /\ call \in [pc : {"idle", "next", "probe"}, kv : Pairs \cup {None},
               home : Nat, curr : Nat, todo : Seq(Pairs),
               key : Keys \cup {None}, ret : Nat \cup {None}]

\* Probing for a key that is in the table meets no empty bucket on the way,
\* however often entries were displaced, erased or overwritten in between.
ProbePathUnbroken ==
  \A i \in Occupied :
    \A d \in 0 .. Mod(i - Home(table[i].kv.key), capacity) :
      table[Mod(Home(table[i].kv.key) + d, capacity)].state # "EMPTY"

\* Between calls find() finds every entry in the bucket where it is, and
\* nothing else, and _size counts the occupied buckets, whatever a rehash() has
\* put into the table again.
FindAgrees ==
  call.pc = "idle" /\ capacity > 0 =>
    /\ size = Cardinality(Occupied)
    /\ \A i \in Occupied : Find(table[i].kv.key) = i
    /\ \A k \in Keys : Find(k) # None => k \in {table[i].kv.key : i \in Occupied}

\* The entries in no bucket in the middle of a call, in the order in which they
\* will be inserted: the one displaced in currKv, and those to be copied.
InFlight == (IF call.pc = "probe" THEN <<call.kv>> ELSE <<>>) \o call.todo

Held == {table[i].kv : i \in Occupied} \cup {InFlight[n] : n \in DOMAIN InFlight}

HeldKeys == {kv.key : kv \in Held}

\* No entry gets lost while others are displaced and the table is rebuilt: a
\* key leaves the map only by erase() and clear(), never in a call of insert()
\* or rehash().
NothingLost == [][call.pc # "idle" => HeldKeys \subseteq HeldKeys']_vars

\* Of entries with the same key, the one in the table or else the first to be
\* inserted counts; the others will be refused.
Contents ==
  [k \in HeldKeys |->
     LET stored == {i \in Occupied : table[i].kv.key = k}
         waiting == {n \in DOMAIN InFlight : InFlight[n].key = k}
     IN IF stored # {} THEN table[CHOOSE i \in stored : TRUE].kv.val
        ELSE InFlight[CHOOSE n \in waiting : \A m \in waiting : n <= m].val]

AsDictionary == INSTANCE Dictionary WITH
  dict <- Contents, busy <- (call.pc # "idle")

\* The table is a dictionary: whatever is displaced or rebuilt, every step of
\* a call leaves the entries alone but the one that begins it.
ImplementsDictionary == AsDictionary!Spec

\* "should never happen due to the load factor invariant": the probe loop
\* never comes back to where it started.
NeverWraps == call.ret # capacity

\* Every insert() and every rehash() ends.
CallsReturn == call.pc # "idle" ~> call.pc = "idle"

\* The probe loop looks into buckets of the table only.
ProbesInTable == call.pc = "probe" => call.curr \in BucketIdxs

\* A key is in at most one bucket.
KeysUnique ==
  \A i, j \in Occupied : table[i].kv.key = table[j].kv.key => i = j

\* The iterator insert() returns, and with it the reference operator[]
\* returns, is at the key it was called with.
ReturnsKey ==
  call.key # None /\ call.ret \in BucketIdxs => table[call.ret].kv.key = call.key

\* probeDist is the distance of the key from its home bucket.
ProbeDistExact ==
  \A i \in Occupied :
    table[i].probeDist = Mod(i - Home(table[i].kv.key), capacity)
=============================================================================
