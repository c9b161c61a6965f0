-------------------------- MODULE UnorderedMapProofs --------------------------
(***************************************************************************)
(* Proofs about UnorderedMap, for any keys, values and hash function, any  *)
(* width of a word, and any capacity that fits in it, and about            *)
(* UnorderedSet, whose calls are calls of the map and of erase().          *)
(***************************************************************************)
EXTENDS UnorderedSet, FiniteSetTheorems, SequenceTheorems, TLAPS

-----------------------------------------------------------------------------
(* The inductive invariant.  Its core is what the probe loop has seen: no  *)
(* empty bucket from the home of the entry it carries to where it is.      *)

\* n buckets from the home bucket of k on are not empty.
Passable(k, n) ==
  \A d \in 0 .. n - 1 : table[(Home(k) + d) % capacity].state # "EMPTY"

\* How far bucket i is from the home bucket of k.
DistanceTo(k, i) == (i - Home(k)) % capacity

CapacityOK == capacity = 0 \/ capacity \in PowersOfTwo

BucketsOK == \A i \in Occupied : table[i].kv \in Pairs

PathsOK == \A i \in Occupied : Passable(table[i].kv.key, DistanceTo(table[i].kv.key, i))

\* A call will not fill the table: it grows first, or there is room for all
\* entries to come.
RoomOK ==
  LET n == Len(call.todo) IN
  /\ call.pc # "idle" => capacity > 0
  /\ call.pc = "next" =>
       /\ n > 0
       /\ IF Full THEN n = 1 /\ 2 * capacity <= MaxCapacity
          ELSE 4 * (size + n - 1) < 3 * capacity
  /\ call.pc = "probe" => 4 * (size + n) < 3 * capacity

ProbeOK ==
  call.pc = "probe" =>
    /\ call.kv \in Pairs /\ call.home = Home(call.kv.key) /\ call.curr \in BucketIdxs
    /\ Passable(call.kv.key, DistanceTo(call.kv.key, call.curr))

MapInv ==
  /\ TypeOK /\ CapacityOK /\ BucketsOK /\ PathsOK /\ RoomOK /\ ProbeOK
  /\ size = Cardinality(Occupied)

-----------------------------------------------------------------------------
(* Places in the table.                                                    *)

LEMMA InRange == \A c \in Nat \ {0} : \A x \in 0 .. c - 1 : x % c = x
OBVIOUS

LEMMA ModType == \A c \in Nat \ {0} : \A x \in Int : x % c \in 0 .. c - 1
OBVIOUS

LEMMA AroundUp == \A c \in Nat \ {0} : \A x \in 0 .. c - 1 : (x + c) % c = x
OBVIOUS

\* The distance from h to i, going up and around.
LEMMA Apart ==
  ASSUME NEW c \in Nat \ {0}, NEW h \in 0 .. c - 1, NEW i \in 0 .. c - 1
  PROVE  (i - h) % c = IF i >= h THEN i - h ELSE i - h + c
OBVIOUS

LEMMA Further ==
  ASSUME NEW c \in Nat \ {0}, NEW h \in 0 .. c - 1, NEW d \in 0 .. c - 1
  PROVE  (h + d) % c = IF h + d < c THEN h + d ELSE h + d - c
OBVIOUS

LEMMA CapacityFacts ==
  ASSUME CapacityOK, capacity # 0
  PROVE  /\ capacity \in Nat \ {0} /\ capacity <= WordMod /\ capacity \in PowersOfTwo
         /\ \A i : Mod(i, capacity) = i % capacity
<1>1. capacity \in PowersOfTwo
  BY DEF CapacityOK
<1>2. capacity \in 1 .. WordMod
  BY <1>1 DEF PowersOfTwo
<1>3. \A i : Mod(i, capacity) = i % capacity
  BY <1>1 DEF Mod
<1> QED
  BY <1>1, <1>2, <1>3, UnorderedMapAssumption

LEMMA HomeType ==
  ASSUME CapacityOK, capacity # 0, keyHash \in [Keys -> Hashes], NEW k \in Keys
  PROVE  Home(k) \in BucketIdxs
<1>1. keyHash[k] \in Nat
  BY UnorderedMapAssumption
<1>2. Home(k) = keyHash[k] % capacity /\ capacity \in Nat \ {0}
  BY CapacityFacts DEF Home
<1> QED
  BY <1>1, <1>2, ModType DEF BucketIdxs

\* The bucket at a distance, and the distance of a bucket.
LEMMA Places ==
  ASSUME NEW c \in Nat \ {0}, NEW h \in 0 .. c - 1
  PROVE  /\ \A i \in 0 .. c - 1 : (i - h) % c \in 0 .. c - 1 /\ (h + ((i - h) % c)) % c = i
         /\ \A d \in 0 .. c - 1 : (h + d) % c \in 0 .. c - 1 /\ (((h + d) % c) - h) % c = d
<1>1. ASSUME NEW i \in 0 .. c - 1
      PROVE  (i - h) % c \in 0 .. c - 1 /\ (h + ((i - h) % c)) % c = i
  <2>1. (i - h) % c = IF i >= h THEN i - h ELSE i - h + c
    BY Apart
  <2>2. PICK d \in 0 .. c - 1 : d = (i - h) % c
    BY ModType
  <2>3. (h + d) % c = IF h + d < c THEN h + d ELSE h + d - c
    BY Further
  <2> QED
    BY <2>1, <2>2, <2>3
<1>2. ASSUME NEW d \in 0 .. c - 1
      PROVE  (h + d) % c \in 0 .. c - 1 /\ (((h + d) % c) - h) % c = d
  <2>1. (h + d) % c = IF h + d < c THEN h + d ELSE h + d - c
    BY Further
  <2>2. PICK i \in 0 .. c - 1 : i = (h + d) % c
    BY ModType
  <2>3. (i - h) % c = IF i >= h THEN i - h ELSE i - h + c
    BY Apart
  <2> QED
    BY <2>1, <2>2, <2>3
<1> QED
  BY <1>1, <1>2

\* The next bucket is one further, unless it is where the way began.
LEMMA OneFurther ==
  ASSUME NEW c \in Nat \ {0}, NEW h \in 0 .. c - 1, NEW i \in 0 .. c - 1
  PROVE  /\ (i + 1) % c \in 0 .. c - 1
         /\ (i + 1) % c # h => (((i + 1) % c) - h) % c = ((i - h) % c) + 1
         /\ (i + 1) % c = h => (i - h) % c = c - 1
<1>1. (i + 1) % c = IF i + 1 < c THEN i + 1 ELSE 0
  <2>1. CASE i + 1 < c
    BY <2>1, InRange
  <2>2. CASE i + 1 = c
    BY <2>2
  <2> QED
    BY <2>1, <2>2
<1>2. PICK n \in 0 .. c - 1 : n = (i + 1) % c
  BY ModType
<1>3. (n - h) % c = IF n >= h THEN n - h ELSE n - h + c
  BY Apart
<1>4. (i - h) % c = IF i >= h THEN i - h ELSE i - h + c
  BY Apart
<1> QED
  BY <1>1, <1>2, <1>3, <1>4

-----------------------------------------------------------------------------
(* Types.                                                                  *)

BucketType == [state : {"EMPTY", "OCCUPIED", "DELETED"}, kv : Pairs \cup {None},
               probeDist : 0 .. WordMod - 1]

CallType == [pc : {"idle", "next", "probe"}, kv : Pairs \cup {None}, home : Nat, curr : Nat,
             todo : Seq(Pairs), key : Keys \cup {None}, ret : Nat \cup {None}]

LEMMA TypeOKParts ==
  TypeOK <=> /\ keyHash \in [Keys -> Hashes]
             /\ capacity \in Nat /\ size \in 0 .. capacity
             /\ table \in [BucketIdxs -> BucketType]
             /\ call \in CallType
BY DEF TypeOK, BucketType, CallType

LEMMA TypeOKPartsNext ==
  TypeOK' <=> /\ keyHash' \in [Keys -> Hashes]
              /\ capacity' \in Nat /\ size' \in 0 .. capacity'
              /\ table' \in [0 .. capacity' - 1 -> BucketType]
              /\ call' \in CallType
BY DEF TypeOK, BucketType, CallType, BucketIdxs

LEMMA MapFacts ==
  ASSUME MapInv
  PROVE  /\ keyHash \in [Keys -> Hashes] /\ capacity \in Nat /\ size \in Nat /\ size <= capacity
         /\ table \in [BucketIdxs -> BucketType] /\ BucketIdxs = 0 .. capacity - 1
         /\ call \in CallType /\ Len(call.todo) \in Nat /\ call.todo \in Seq(Pairs)
         /\ CapacityOK /\ size = Cardinality(Occupied) /\ IsFiniteSet(Occupied)
         /\ Occupied \subseteq BucketIdxs
<1>1. /\ keyHash \in [Keys -> Hashes] /\ capacity \in Nat /\ size \in Nat /\ size <= capacity
      /\ table \in [BucketIdxs -> BucketType] /\ call \in CallType
  BY TypeOKParts DEF MapInv
<1>2. call.todo \in Seq(Pairs) /\ Len(call.todo) \in Nat
  BY <1>1, LenProperties DEF CallType
<1>3. IsFiniteSet(BucketIdxs) /\ Occupied \subseteq BucketIdxs
  BY <1>1, FS_Interval DEF BucketIdxs, Occupied
<1>4. IsFiniteSet(Occupied)
  BY <1>3, FS_Subset
<1> QED
  BY <1>1, <1>2, <1>3, <1>4 DEF MapInv, BucketIdxs

LEMMA CallKey == \A c \in CallType : c.key \in Keys \cup {None}
BY DEF CallType

LEMMA IdleType ==
  /\ Idle \in CallType /\ Idle.pc = "idle" /\ Idle.todo = <<>>
  /\ \A k \in Keys \cup {None}, r \in Nat \cup {None} :
       [Idle EXCEPT !.key = k, !.ret = r] \in CallType
<1>1. <<>> \in Seq(Pairs)
  BY EmptySeq
<1> QED
  BY <1>1 DEF Idle, CallType

LEMMA IdleIsOK == call'.pc = "idle" => RoomOK' /\ ProbeOK'
BY DEF RoomOK, ProbeOK

\* insert() returns: if an enclosing rehash() goes on, there is still room.
LEMMA ReturnedOK ==
  ASSUME MapInv, call.pc = "probe", NEW i \in Nat, call' = Returned(i),
         size' \in {size, size + 1}, capacity' = capacity
  PROVE  call' \in CallType /\ RoomOK' /\ ProbeOK'
<1>1. /\ call \in CallType /\ Len(call.todo) \in Nat /\ call.todo \in Seq(Pairs)
      /\ size \in Nat /\ capacity \in Nat
  BY MapFacts
<1>2. CASE call.todo = <<>>
  <2>1. call' = [Idle EXCEPT !.key = call.key, !.ret = i]
    BY <1>2 DEF Returned
  <2>2. call' \in CallType
    <3>1. call.key \in Keys \cup {None} /\ i \in Nat \cup {None}
      BY <1>1, CallKey
    <3>2. [Idle EXCEPT !.key = call.key, !.ret = i] \in CallType
      BY <3>1, IdleType, Zenon
    <3> QED
      BY <2>1, <3>2, Zenon
  <2>3. call'.pc = "idle"
    BY <2>1 DEF Idle
  <2> QED
    BY <2>2, <2>3, IdleIsOK
<1>3. CASE call.todo # <<>>
  <2>1. call' = [call EXCEPT !.pc = "next", !.kv = None, !.home = 0, !.curr = 0]
    BY <1>3 DEF Returned
  <2>2. call' \in CallType /\ call'.pc = "next" /\ call'.todo = call.todo
    <3>1. None \in Pairs \cup {None} /\ 0 \in Nat /\ "next" \in {"idle", "next", "probe"}
      OBVIOUS
    <3>2. /\ call.pc \in {"idle", "next", "probe"} /\ call.key \in Keys \cup {None}
          /\ call.ret \in Nat \cup {None} /\ call.todo \in Seq(Pairs)
      BY <1>1 DEF CallType
    <3>3. call' = [pc |-> "next", kv |-> None, home |-> 0, curr |-> 0,
                   todo |-> call.todo, key |-> call.key, ret |-> call.ret]
      BY <1>1, <2>1 DEF CallType
    <3> QED
      BY <3>1, <3>2, <3>3 DEF CallType
  <2>3. PICK n \in Nat : n = Len(call.todo)
    BY <1>1
  <2>4. n > 0
    BY <1>1, <1>3, <2>3, EmptySeq
  <2>5. PICK c \in Nat : c = capacity
    BY <1>1
  <2>6. PICK s \in Nat : s = size'
    BY <1>1
  <2>7. 4 * (s + n - 1) < 3 * c /\ 4 * s < 3 * c
    <3>1. PICK old \in Nat : old = size
      BY <1>1
    <3>2. 4 * (old + n) < 3 * c
      BY <2>3, <2>5, <3>1 DEF MapInv, RoomOK
    <3>3. s = old \/ s = old + 1
      BY <2>6, <3>1
    <3> QED
      BY <2>4, <3>2, <3>3
  <2>8. Len(call'.todo) = n
    BY <2>2, <2>3
  <2>9. RoomOK'
    <3>1. c > 0 /\ ~(4 * s >= 3 * c)
      BY <2>7
    <3>2. ~Full'
      BY <2>5, <2>6, <3>1 DEF Full
    <3> QED
      BY <2>2, <2>4, <2>5, <2>6, <2>7, <2>8, <3>1, <3>2 DEF RoomOK
  <2>10. ProbeOK'
    BY <2>2 DEF ProbeOK
  <2> QED
    BY <2>2, <2>9, <2>10
<1> QED
  BY <1>2, <1>3

\* The steps that leave the table as it is.
LEMMA SameTable ==
  ASSUME MapInv, UNCHANGED <<keyHash, table, size, capacity>>,
         call' \in CallType, RoomOK', ProbeOK'
  PROVE  MapInv'
<1>1. TypeOK'
  BY TypeOKParts, TypeOKPartsNext DEF MapInv, BucketIdxs
<1>2. Occupied' = Occupied
  BY DEF Occupied, BucketIdxs
<1>3. CapacityOK' /\ BucketsOK'
  BY <1>2 DEF MapInv, CapacityOK, BucketsOK
<1>4. PathsOK'
  BY <1>2 DEF MapInv, PathsOK, Passable, DistanceTo, Home
<1> QED
  BY <1>1, <1>2, <1>3, <1>4 DEF MapInv

\* The steps that leave no entry in the table.
LEMMA NoEntries ==
  ASSUME MapInv, keyHash' = keyHash, capacity' \in Nat, CapacityOK', size' = 0,
         table' \in [0 .. capacity' - 1 -> BucketType],
         \A i \in 0 .. capacity' - 1 : table'[i].state = "EMPTY",
         call' \in CallType, RoomOK', ProbeOK'
  PROVE  MapInv'
<1>1. TypeOK'
  <2>1. keyHash' \in [Keys -> Hashes] /\ size' \in 0 .. capacity'
    BY MapFacts
  <2> QED
    BY <2>1, TypeOKPartsNext
<1>2. Occupied' = {}
  BY DEF Occupied, BucketIdxs
<1>3. BucketsOK' /\ PathsOK'
  BY <1>2 DEF BucketsOK, PathsOK
<1>4. Cardinality({}) = 0
  BY FS_EmptySet
<1> QED
  BY <1>1, <1>2, <1>3, <1>4 DEF MapInv

-----------------------------------------------------------------------------
(* Ways through the table.                                                 *)

LEMMA DistanceType ==
  ASSUME MapInv, capacity # 0, NEW k \in Keys, NEW i \in BucketIdxs
  PROVE  /\ Home(k) \in 0 .. capacity - 1 /\ i \in 0 .. capacity - 1
         /\ capacity \in Nat \ {0}
         /\ DistanceTo(k, i) \in 0 .. capacity - 1
         /\ (Home(k) + DistanceTo(k, i)) % capacity = i
<1>1. capacity \in Nat \ {0} /\ Home(k) \in 0 .. capacity - 1 /\ i \in 0 .. capacity - 1
  BY MapFacts, HomeType, CapacityFacts DEF BucketIdxs
<1>2. PICK c \in Nat \ {0} : c = capacity
  BY <1>1
<1>3. PICK h \in 0 .. c - 1 : h = Home(k)
  BY <1>1, <1>2
<1>4. (i - h) % c \in 0 .. c - 1 /\ (h + ((i - h) % c)) % c = i
  <2>1. i \in 0 .. c - 1
    BY <1>1, <1>2
  <2> QED
    BY <2>1, Places, Zenon
<1> QED
  BY <1>1, <1>2, <1>3, <1>4 DEF DistanceTo

LEMMA DistanceOnWay ==
  ASSUME MapInv, capacity # 0, NEW k \in Keys, NEW d \in 0 .. capacity - 1
  PROVE  /\ (Home(k) + d) % capacity \in BucketIdxs
         /\ DistanceTo(k, (Home(k) + d) % capacity) = d
<1>1. capacity \in Nat \ {0} /\ Home(k) \in 0 .. capacity - 1
  BY MapFacts, HomeType, CapacityFacts DEF BucketIdxs
<1>2. PICK c \in Nat \ {0} : c = capacity
  BY <1>1
<1>3. PICK h \in 0 .. c - 1 : h = Home(k)
  BY <1>1, <1>2
<1>4. (h + d) % c \in 0 .. c - 1 /\ (((h + d) % c) - h) % c = d
  <2>1. d \in 0 .. c - 1
    BY <1>2
  <2> QED
    BY <2>1, Places, Zenon
<1> QED
  BY <1>2, <1>3, <1>4 DEF DistanceTo, BucketIdxs

LEMMA NextBucket ==
  ASSUME MapInv, capacity # 0, NEW k \in Keys, NEW i \in BucketIdxs
  PROVE  /\ (i + 1) % capacity \in BucketIdxs
         /\ (i + 1) % capacity # Home(k) =>
              DistanceTo(k, (i + 1) % capacity) = DistanceTo(k, i) + 1
         /\ (i + 1) % capacity = Home(k) => DistanceTo(k, i) = capacity - 1
<1>1. capacity \in Nat \ {0} /\ Home(k) \in 0 .. capacity - 1 /\ i \in 0 .. capacity - 1
  BY DistanceType
<1>2. PICK c \in Nat \ {0} : c = capacity
  BY <1>1
<1>3. PICK h \in 0 .. c - 1 : h = Home(k)
  BY <1>1, <1>2
<1>4. /\ (i + 1) % c \in 0 .. c - 1
      /\ (i + 1) % c # h => (((i + 1) % c) - h) % c = ((i - h) % c) + 1
      /\ (i + 1) % c = h => (i - h) % c = c - 1
  BY <1>1, <1>2, OneFurther
<1> QED
  BY <1>2, <1>3, <1>4 DEF DistanceTo, BucketIdxs

LEMMA SameHomes ==
  ASSUME UNCHANGED <<keyHash, capacity>>
  PROVE  \A k, i : Home(k)' = Home(k) /\ DistanceTo(k, i)' = DistanceTo(k, i)
BY DEF Home, DistanceTo

\* A way stays open as long as no bucket becomes empty.
LEMMA PassableKept ==
  ASSUME MapInv, capacity # 0, UNCHANGED <<keyHash, capacity>>,
         \A i \in BucketIdxs : table'[i].state = "EMPTY" => table[i].state = "EMPTY",
         NEW k \in Keys, NEW n \in 0 .. capacity, Passable(k, n)
  PROVE  Passable(k, n)'
<1>1. ASSUME NEW d \in 0 .. n - 1
      PROVE  table'[(Home(k) + d) % capacity].state # "EMPTY"
  <2>1. d \in 0 .. capacity - 1
    BY MapFacts
  <2>2. (Home(k) + d) % capacity \in BucketIdxs
    BY <2>1, DistanceOnWay
  <2>3. table[(Home(k) + d) % capacity].state # "EMPTY"
    BY DEF Passable
  <2> QED
    BY <2>2, <2>3
<1> QED
  BY <1>1 DEF Passable, Home

\* The way goes on over the bucket it has led to.
LEMMA PassableFurther ==
  ASSUME MapInv, capacity # 0, NEW k \in Keys, NEW i \in BucketIdxs,
         Passable(k, DistanceTo(k, i)), table[i].state # "EMPTY"
  PROVE  /\ Passable(k, DistanceTo(k, i) + 1)
         /\ (i + 1) % capacity # Home(k) => Passable(k, DistanceTo(k, (i + 1) % capacity))
<1>1. PICK n \in 0 .. capacity - 1 : n = DistanceTo(k, i)
  BY DistanceType
<1>2. (Home(k) + n) % capacity = i
  BY <1>1, DistanceType
<1>3. \A d \in 0 .. n : d = n \/ d \in 0 .. n - 1
  OBVIOUS
<1>4. \A d \in 0 .. n : table[(Home(k) + d) % capacity].state # "EMPTY"
  BY <1>1, <1>2, <1>3 DEF Passable
<1>5. 0 .. (n + 1) - 1 = 0 .. n
  OBVIOUS
<1>6. Passable(k, n + 1)
  BY <1>4, <1>5 DEF Passable
<1> QED
  BY <1>1, <1>6, NextBucket

\* The probe loop goes on, or comes back to where it began and ends.
LEMMA GoOnOK ==
  ASSUME MapInv, call.pc = "probe", UNCHANGED <<keyHash, capacity, size>>,
         \A i \in BucketIdxs : table'[i].state = "EMPTY" => table[i].state = "EMPTY",
         NEW kv \in Pairs, GoOn(kv, Home(kv.key)), table[call.curr].state # "EMPTY",
         Passable(kv.key, DistanceTo(kv.key, call.curr))
  PROVE  call' \in CallType /\ RoomOK' /\ ProbeOK'
<1>1. /\ capacity # 0 /\ capacity \in Nat /\ call \in CallType /\ call.curr \in BucketIdxs
      /\ 4 * (size + Len(call.todo)) < 3 * capacity /\ CapacityOK
  BY MapFacts DEF MapInv, RoomOK, ProbeOK
<1>2. kv.key \in Keys
  BY DEF Pairs
<1>3. PICK next \in BucketIdxs : next = (call.curr + 1) % capacity
  BY <1>1, <1>2, NextBucket
<1>4. PICK home \in BucketIdxs : home = Home(kv.key)
  BY <1>1, <1>2, DistanceType DEF BucketIdxs
<1>5. call' = IF next = home THEN Returned(capacity)
              ELSE [call EXCEPT !.kv = kv, !.home = home, !.curr = next]
  <2>1. Mod(call.curr + 1, capacity) = next
    BY <1>1, <1>3, CapacityFacts
  <2> QED
    BY <1>4, <2>1 DEF GoOn
<1>6. CASE next = home
  BY <1>1, <1>5, <1>6, ReturnedOK
<1>7. CASE next # home
  <2>1. next \in Nat /\ home \in Nat
    BY DEF BucketIdxs
  <2>2. Passable(kv.key, DistanceTo(kv.key, next))
    BY <1>1, <1>2, <1>3, <1>4, <1>7, PassableFurther
  <2>3. PICK n \in 0 .. capacity : n = DistanceTo(kv.key, next)
    BY <1>1, <1>2, DistanceType
  <2>4. Passable(kv.key, n)'
    BY <1>1, <1>2, <2>2, <2>3, PassableKept
  <2>5. call' = [call EXCEPT !.kv = kv, !.home = home, !.curr = next]
    BY <1>5, <1>7
  <2>6. /\ call' \in CallType /\ call'.pc = "probe" /\ call'.kv = kv /\ call'.home = home
        /\ call'.curr = next /\ call'.todo = call.todo
    BY <1>1, <2>1, <2>5 DEF CallType
  <2>7. RoomOK'
    BY <1>1, <2>6 DEF RoomOK
  <2>8. ProbeOK'
    <3>1. home = Home(kv.key)' /\ n = DistanceTo(kv.key, next)'
      BY <1>4, <2>3, SameHomes
    <3>2. next \in BucketIdxs'
      BY DEF BucketIdxs
    <3>3. Passable(kv.key, DistanceTo(kv.key, next))'
      BY <2>4, <3>1 DEF Passable
    <3> QED
      BY <2>6, <3>1, <3>2, <3>3 DEF ProbeOK
  <2> QED
    BY <2>6, <2>7, <2>8
<1> QED
  BY <1>6, <1>7

-----------------------------------------------------------------------------
(* The steps of insert().                                                  *)

LEMMA InsertStep ==
  ASSUME MapInv, capacity > 0, NEW k \in Keys, NEW v \in Vals, Insert(k, v)
  PROVE  MapInv'
<1> DEFINE kv == [key |-> k, val |-> v]
<1>1. kv \in Pairs
  BY DEF Pairs
<1>2. <<kv>> \in Seq(Pairs) /\ Len(<<kv>>) = 1
  BY <1>1
<1> HIDE DEF kv
<1>3. call' = [pc |-> "next", kv |-> None, home |-> 0, curr |-> 0,
               todo |-> <<kv>>, key |-> k, ret |-> None]
  BY DEF Insert, Idle, kv
<1>4. call' \in CallType
  BY <1>2, <1>3 DEF CallType
<1>5. UNCHANGED <<keyHash, table, size, capacity>> /\ (Full => 2 * capacity <= MaxCapacity)
  BY DEF Insert
<1>6. RoomOK'
  <2>1. PICK c \in Nat : c = capacity
    BY MapFacts
  <2>2. PICK s \in Nat : s = size
    BY MapFacts
  <2>3. ~(4 * s >= 3 * c) => 4 * (s + 1 - 1) < 3 * c
    OBVIOUS
  <2>4. Len(call'.todo) = 1 /\ call'.pc = "next" /\ c > 0 /\ Full' = Full
    BY <1>2, <1>3, <1>5, <2>1 DEF Full
  <2>5. Full <=> c > 0 /\ 4 * s >= 3 * c
    BY <2>1, <2>2 DEF Full
  <2> QED
    BY <1>5, <2>1, <2>2, <2>3, <2>4, <2>5 DEF RoomOK
<1>7. ProbeOK'
  BY <1>3 DEF ProbeOK
<1> QED
  BY <1>4, <1>5, <1>6, <1>7, SameTable

LEMMA AtHome ==
  ASSUME MapInv, capacity # 0, NEW h \in BucketIdxs
  PROVE  (h - h) % capacity = 0
<1>1. PICK c \in Nat \ {0} : c = capacity
  BY MapFacts
<1>2. h \in 0 .. c - 1
  BY <1>1 DEF BucketIdxs
<1>3. (h - h) % c = h - h
  BY <1>2, Apart
<1> QED
  BY <1>1, <1>2, <1>3

LEMMA ProbeStep ==
  ASSUME MapInv, Probe
  PROVE  MapInv'
<1>1. call \in CallType /\ call.todo \in Seq(Pairs) /\ Len(call.todo) \in Nat /\ call.pc = "next"
  BY MapFacts DEF Probe
<1>2. Len(call.todo) > 0 /\ capacity > 0 /\ 4 * (size + Len(call.todo) - 1) < 3 * capacity
  BY <1>1 DEF Probe, MapInv, RoomOK
<1>3. call.todo # <<>>
  BY <1>1, <1>2, EmptySeq
<1>4. PICK kv \in Pairs : kv = Head(call.todo)
  BY <1>1, <1>3, HeadTailProperties
<1>5. PICK rest \in Seq(Pairs) : rest = Tail(call.todo) /\ Len(rest) = Len(call.todo) - 1
  BY <1>1, <1>3, HeadTailProperties
<1>6. kv.key \in Keys /\ capacity # 0
  BY <1>2 DEF Pairs
<1>7. PICK h \in BucketIdxs : h = Home(kv.key)
  BY <1>6, MapFacts, HomeType
<1>8. h \in Nat
  BY DEF BucketIdxs
<1>9. call' = [call EXCEPT !.pc = "probe", !.kv = kv, !.todo = rest, !.home = h, !.curr = h]
  BY <1>4, <1>5, <1>7 DEF Probe
<1>10. /\ call' \in CallType /\ call'.pc = "probe" /\ call'.kv = kv /\ call'.home = h
       /\ call'.curr = h /\ call'.todo = rest
  BY <1>1, <1>8, <1>9 DEF CallType
<1>11. UNCHANGED <<keyHash, table, size, capacity>>
  BY DEF Probe
<1>12. RoomOK'
  <2>1. PICK n \in Nat : n = Len(rest)
    BY LenProperties
  <2>2. size + n = size + Len(call.todo) - 1 /\ 4 * (size + n) < 3 * capacity
    BY <1>1, <1>2, <1>5, <2>1, MapFacts
  <2> QED
    BY <1>2, <1>10, <1>11, <2>1, <2>2 DEF RoomOK
<1>13. ProbeOK'
  <2>1. (h - h) % capacity = 0
    BY <1>2, MapFacts, AtHome
  <2>2. DistanceTo(kv.key, h)' = 0 /\ h = Home(kv.key)' /\ h \in BucketIdxs'
    BY <1>7, <1>11, <2>1 DEF DistanceTo, Home, BucketIdxs
  <2>3. Passable(kv.key, DistanceTo(kv.key, h))'
    BY <2>2 DEF Passable
  <2> QED
    BY <1>10, <2>2, <2>3 DEF ProbeOK
<1> QED
  BY <1>10, <1>11, <1>12, <1>13, SameTable

\* What the probe loop knows.
LEMMA ProbingFacts ==
  ASSUME MapInv, NEW states, Probing(states)
  PROVE  /\ call.pc = "probe" /\ capacity # 0 /\ capacity \in Nat \ {0}
         /\ call.curr \in BucketIdxs /\ call.curr \in Nat /\ call.curr \in Int
         /\ call.kv \in Pairs /\ call.kv.key \in Keys /\ call.home = Home(call.kv.key)
         /\ call.home \in BucketIdxs /\ call.home \in Int
         /\ Passable(call.kv.key, DistanceTo(call.kv.key, call.curr))
         /\ DistanceTo(call.kv.key, call.curr) \in 0 .. capacity - 1
         /\ Distance = DistanceTo(call.kv.key, call.curr)
         /\ table[call.curr] \in BucketType /\ table[call.curr].state \in states
         /\ 4 * (size + Len(call.todo)) < 3 * capacity
<1>1. call.pc = "probe" /\ table[call.curr].state \in states
  BY DEF Probing
<1>2. /\ call.kv \in Pairs /\ call.home = Home(call.kv.key) /\ call.curr \in BucketIdxs
      /\ Passable(call.kv.key, DistanceTo(call.kv.key, call.curr))
      /\ capacity > 0 /\ 4 * (size + Len(call.todo)) < 3 * capacity
  BY <1>1 DEF MapInv, ProbeOK, RoomOK
<1>3. capacity \in Nat \ {0} /\ capacity # 0 /\ call.curr \in Nat
  BY <1>2, MapFacts DEF BucketIdxs
<1>4. call.kv.key \in Keys
  BY <1>2 DEF Pairs
<1>5. DistanceTo(call.kv.key, call.curr) \in 0 .. capacity - 1
  BY <1>2, <1>3, <1>4, DistanceType
<1>6. call.home \in BucketIdxs
  BY <1>2, <1>3, <1>4, HomeType, MapFacts
<1>7. Distance = DistanceTo(call.kv.key, call.curr)
  BY <1>2, <1>3, CapacityFacts, MapFacts DEF Distance, DistanceTo
<1>8. table[call.curr] \in BucketType
  BY <1>2, MapFacts
<1> QED
  BY <1>1, <1>2, <1>3, <1>4, <1>5, <1>6, <1>7, <1>8 DEF BucketIdxs

LEMMA KeyExistsStep ==
  ASSUME MapInv, KeyExists
  PROVE  MapInv'
<1>1. call.pc = "probe" /\ call.curr \in Nat
  BY ProbingFacts DEF KeyExists
<1>2. call' \in CallType /\ RoomOK' /\ ProbeOK'
  BY <1>1, ReturnedOK DEF KeyExists
<1> QED
  BY <1>2, SameTable DEF KeyExists

LEMMA AdvanceStep ==
  ASSUME MapInv, Advance
  PROVE  MapInv'
<1>1. Probing({"OCCUPIED"})
  BY DEF Advance
<1>2. PICK kv \in Pairs : kv = call.kv
  BY <1>1, ProbingFacts
<1>3. GoOn(kv, Home(kv.key)) /\ Passable(kv.key, DistanceTo(kv.key, call.curr))
  BY <1>1, <1>2, ProbingFacts DEF Advance
<1>4. table[call.curr].state # "EMPTY" /\ call.pc = "probe"
  BY <1>1 DEF Probing
<1>5. UNCHANGED <<keyHash, table, size, capacity>>
  BY DEF Advance
<1>6. call' \in CallType /\ RoomOK' /\ ProbeOK'
  BY <1>3, <1>4, <1>5, GoOnOK
<1> QED
  BY <1>5, <1>6, SameTable

-----------------------------------------------------------------------------
(* The steps that change one bucket.                                       *)

LEMMA EditTable ==
  ASSUME MapInv, capacity # 0, UNCHANGED <<keyHash, capacity>>,
         NEW i \in BucketIdxs, NEW b \in BucketType, table' = [table EXCEPT ![i] = b],
         b.state # "EMPTY",
         b.state = "OCCUPIED" => b.kv \in Pairs /\ Passable(b.kv.key, DistanceTo(b.kv.key, i)),
         size' \in 0 .. capacity, size' = Cardinality(Occupied)',
         call' \in CallType, RoomOK', ProbeOK'
  PROVE  MapInv'
<1>1. /\ table \in [BucketIdxs -> BucketType] /\ BucketIdxs' = BucketIdxs
      /\ \A j \in BucketIdxs : table'[j] = IF j = i THEN b ELSE table[j]
  BY MapFacts DEF BucketIdxs
<1>2. TypeOK'
  <2>1. table' \in [0 .. capacity - 1 -> BucketType]
    BY <1>1 DEF BucketIdxs
  <2> QED
    BY <2>1, MapFacts, TypeOKPartsNext
<1>3. CapacityOK'
  BY DEF MapInv, CapacityOK
<1>4. ASSUME NEW j \in Occupied'
      PROVE  table'[j].kv \in Pairs /\ Passable(table[j].kv.key, DistanceTo(table[j].kv.key, j))'
  <2>1. j \in BucketIdxs /\ table'[j].state = "OCCUPIED"
    BY <1>1 DEF Occupied
  <2>2. /\ table'[j].kv \in Pairs
        /\ Passable(table'[j].kv.key, DistanceTo(table'[j].kv.key, j))
    <3>1. CASE j = i
      BY <1>1, <2>1, <3>1
    <3>2. CASE j # i
      <4>1. table'[j] = table[j] /\ j \in Occupied
        BY <1>1, <2>1, <3>2 DEF Occupied
      <4> QED
        BY <4>1 DEF MapInv, BucketsOK, PathsOK
    <3> QED
      BY <3>1, <3>2
  <2>3. PICK k \in Keys : k = table'[j].kv.key
    BY <2>2 DEF Pairs
  <2>4. PICK n \in 0 .. capacity - 1 : n = DistanceTo(k, j)
    BY <2>1, DistanceType
  <2>5. n \in 0 .. capacity /\ Passable(k, n)
    BY <2>2, <2>3, <2>4, MapFacts
  <2>6. \A l \in BucketIdxs : table'[l].state = "EMPTY" => table[l].state = "EMPTY"
    BY <1>1
  <2>7. Passable(k, n)'
    BY <2>5, <2>6, PassableKept
  <2>8. n = DistanceTo(k, j)'
    BY <2>4, SameHomes
  <2> QED
    BY <2>2, <2>3, <2>7, <2>8 DEF Passable, DistanceTo, Home
<1>5. BucketsOK' /\ PathsOK'
  BY <1>4 DEF BucketsOK, PathsOK
<1> QED
  BY <1>2, <1>3, <1>5 DEF MapInv

\* Two fields of a bucket are assigned.
LEMMA Robbed ==
  ASSUME NEW b \in BucketType, NEW x, NEW y
  PROVE  [b EXCEPT !.kv = x, !.probeDist = y] = [state |-> b.state, kv |-> x, probeDist |-> y]
<1>1. [b EXCEPT !.kv = x, !.probeDist = y] = [[b EXCEPT !.kv = x] EXCEPT !.probeDist = y]
  OBVIOUS
<1>2. PICK c : c = [state |-> b.state, kv |-> x, probeDist |-> b.probeDist]
  OBVIOUS
<1>3. [b EXCEPT !.kv = x] = c
  BY <1>2 DEF BucketType
<1>4. [c EXCEPT !.probeDist = y] = [state |-> b.state, kv |-> x, probeDist |-> y]
  BY <1>2
<1> QED
  BY <1>1, <1>3, <1>4

LEMMA Erased ==
  ASSUME NEW b \in BucketType, NEW x, NEW y
  PROVE  [b EXCEPT !.state = x, !.kv = y] = [state |-> x, kv |-> y, probeDist |-> b.probeDist]
<1>1. [b EXCEPT !.state = x, !.kv = y] = [[b EXCEPT !.state = x] EXCEPT !.kv = y]
  OBVIOUS
<1>2. PICK c : c = [state |-> x, kv |-> b.kv, probeDist |-> b.probeDist]
  OBVIOUS
<1>3. [b EXCEPT !.state = x] = c
  BY <1>2 DEF BucketType
<1>4. [c EXCEPT !.kv = y] = [state |-> x, kv |-> y, probeDist |-> b.probeDist]
  BY <1>2
<1> QED
  BY <1>1, <1>3, <1>4

\* The entry in the loop's hand is swapped with the one in the bucket.
LEMMA StealFacts ==
  ASSUME MapInv, Steal
  PROVE  \E i \in BucketIdxs, kv \in Pairs, carried \in Pairs, d \in 0 .. capacity - 1 :
           /\ i = call.curr /\ table[i].state = "OCCUPIED" /\ i \in Occupied
           /\ kv = table[i].kv /\ Passable(kv.key, DistanceTo(kv.key, i))
           /\ carried = call.kv /\ kv.key # carried.key
           /\ d = DistanceTo(carried.key, i) /\ d = Distance /\ table[i].probeDist < d
           /\ table' = [table EXCEPT ![i] = [state |-> "OCCUPIED", kv |-> carried,
                                            probeDist |-> d]]
           /\ UNCHANGED <<keyHash, capacity, size>> /\ GoOn(kv, Home(kv.key))
<1>1. Probing({"OCCUPIED"})
  BY DEF Steal
<1>2. PICK i \in BucketIdxs : i = call.curr
  BY <1>1, ProbingFacts
<1>3. /\ table[i].state = "OCCUPIED" /\ table[i] \in BucketType
      /\ i \in Occupied
  BY <1>1, <1>2, ProbingFacts DEF Occupied
<1>4. PICK carried \in Pairs : carried = call.kv
  BY <1>1, ProbingFacts
<1>5. PICK d \in 0 .. capacity - 1 : d = Distance /\ d = DistanceTo(carried.key, i)
  BY <1>1, <1>2, <1>4, ProbingFacts
<1>6. PICK b : b = [state |-> "OCCUPIED", kv |-> carried, probeDist |-> d]
  OBVIOUS
<1>7. table' = [table EXCEPT ![i] = b]
  <2>1. [table[i] EXCEPT !.kv = carried, !.probeDist = d] = b
    <3>1. [table[i] EXCEPT !.kv = carried, !.probeDist = d]
            = [state |-> table[i].state, kv |-> carried, probeDist |-> d]
      BY <1>3, Robbed
    <3> QED
      BY <1>3, <1>6, <3>1
  <2>2. table \in [BucketIdxs -> BucketType]
    BY MapFacts
  <2>3. table' = [table EXCEPT ![i].kv = carried, ![i].probeDist = d]
    BY <1>2, <1>4, <1>5 DEF Steal
  <2> QED
    BY <2>1, <2>2, <2>3
<1>8. PICK kv \in Pairs : kv = table[i].kv /\ Passable(kv.key, DistanceTo(kv.key, i))
  BY <1>3 DEF MapInv, BucketsOK, PathsOK
<1>9. /\ kv.key # carried.key /\ table[i].probeDist < d
      /\ UNCHANGED <<keyHash, capacity, size>> /\ GoOn(kv, Home(kv.key))
  BY <1>2, <1>4, <1>5, <1>8 DEF Steal
<1> QED
  BY <1>2, <1>3, <1>4, <1>5, <1>6, <1>7, <1>8, <1>9

LEMMA StealStep ==
  ASSUME MapInv, Steal
  PROVE  MapInv'
<1>1. PICK i \in BucketIdxs, kv \in Pairs, carried \in Pairs, d \in 0 .. capacity - 1 :
        /\ i = call.curr /\ table[i].state = "OCCUPIED"
        /\ Passable(kv.key, DistanceTo(kv.key, i))
        /\ carried = call.kv /\ d = DistanceTo(carried.key, i)
        /\ table' = [table EXCEPT ![i] = [state |-> "OCCUPIED", kv |-> carried, probeDist |-> d]]
        /\ UNCHANGED <<keyHash, capacity, size>> /\ GoOn(kv, Home(kv.key))
  BY StealFacts
<1>2. capacity # 0 /\ call.pc = "probe" /\ Passable(carried.key, DistanceTo(carried.key, i))
  BY <1>1, ProbingFacts DEF Steal
<1>3. PICK b : b = [state |-> "OCCUPIED", kv |-> carried, probeDist |-> d]
  OBVIOUS
<1>4. b \in BucketType /\ b.state = "OCCUPIED" /\ b.kv = carried
  <2>1. d \in 0 .. WordMod - 1
    BY <1>2, CapacityFacts, MapFacts, UnorderedMapAssumption
  <2> QED
    BY <1>3, <2>1 DEF BucketType
<1>5. table' = [table EXCEPT ![i] = b]
  BY <1>1, <1>3
<1>6. /\ table \in [BucketIdxs -> BucketType]
      /\ \A j \in BucketIdxs : table'[j].state = table[j].state
  BY <1>1, <1>4, <1>5, MapFacts
<1>7. call' \in CallType /\ RoomOK' /\ ProbeOK'
  <2>1. table[call.curr].state # "EMPTY" /\ Passable(kv.key, DistanceTo(kv.key, call.curr))
    BY <1>1
  <2>2. \A j \in BucketIdxs : table'[j].state = "EMPTY" => table[j].state = "EMPTY"
    BY <1>6
  <2> QED
    BY <1>1, <1>2, <2>1, <2>2, GoOnOK
<1>8. Occupied' = Occupied
  BY <1>1, <1>6 DEF Occupied, BucketIdxs
<1>9. size' = Cardinality(Occupied)' /\ size' \in 0 .. capacity
  BY <1>1, <1>8, MapFacts
<1>10. capacity # 0 /\ UNCHANGED <<keyHash, capacity>>
  BY <1>1, <1>2
<1>11. b.state # "EMPTY" /\ b.kv \in Pairs /\ Passable(b.kv.key, DistanceTo(b.kv.key, i))
  BY <1>2, <1>4
<1> QED
  BY <1>4, <1>5, <1>7, <1>9, <1>10, <1>11, EditTable

LEMMA PlaceStep ==
  ASSUME MapInv, Place
  PROVE  MapInv'
<1>1. Probing({"EMPTY", "DELETED"})
  BY DEF Place
<1>2. PICK i \in BucketIdxs : i = call.curr
  BY <1>1, ProbingFacts
<1>3. capacity # 0 /\ call.pc = "probe" /\ table[i].state # "OCCUPIED" /\ i \in Nat
  BY <1>1, <1>2, ProbingFacts
<1>4. PICK carried \in Pairs : carried = call.kv
  BY <1>1, ProbingFacts
<1>5. PICK d \in 0 .. WordMod - 1 : d = (call.curr - call.home) % WordMod
  <2>1. WordMod \in Nat \ {0}
    BY <1>3, CapacityFacts, MapFacts, UnorderedMapAssumption
  <2>2. call.curr - call.home \in Int
    BY <1>1, ProbingFacts
  <2> QED
    BY <2>1, <2>2, ModType
<1>6. PICK b : b = [state |-> "OCCUPIED", kv |-> carried, probeDist |-> d]
  OBVIOUS
<1>7. b \in BucketType /\ b.state = "OCCUPIED" /\ b.kv = carried
  BY <1>6 DEF BucketType
<1>8. table' = [table EXCEPT ![i] = b]
  BY <1>2, <1>4, <1>5, <1>6 DEF Place
<1>9. UNCHANGED <<keyHash, capacity>> /\ size' = size + 1
  BY DEF Place
<1>10. Passable(carried.key, DistanceTo(carried.key, i))
  BY <1>1, <1>2, <1>4, ProbingFacts
<1>11. call' \in CallType /\ RoomOK' /\ ProbeOK'
  <2>1. call' = Returned(i) /\ size' \in {size, size + 1}
    BY <1>2, <1>9 DEF Place
  <2> QED
    BY <1>3, <1>9, <2>1, ReturnedOK
<1>12. Occupied' = Occupied \cup {i} /\ i \notin Occupied
  <2>1. \A j \in BucketIdxs : table'[j].state = IF j = i THEN "OCCUPIED" ELSE table[j].state
    BY <1>7, <1>8, MapFacts
  <2>2. BucketIdxs' = BucketIdxs
    BY <1>9 DEF BucketIdxs
  <2> QED
    BY <1>3, <2>1, <2>2 DEF Occupied
<1>13. size' = Cardinality(Occupied)'
  BY <1>9, <1>12, MapFacts, FS_AddElement
<1>14. size' \in 0 .. capacity
  <2>1. PICK s \in Nat : s = size
    BY MapFacts
  <2>2. PICK n \in Nat : n = Len(call.todo)
    BY MapFacts
  <2>3. PICK c \in Nat : c = capacity
    BY MapFacts
  <2>4. 4 * (s + n) < 3 * c
    BY <1>1, <2>1, <2>2, <2>3, ProbingFacts
  <2>5. s + 1 \in 0 .. c
    BY <2>4
  <2> QED
    BY <1>9, <2>1, <2>3, <2>5
<1> QED
  BY <1>3, <1>7, <1>8, <1>9, <1>10, <1>11, <1>13, <1>14, EditTable

\* erase() leaves a tombstone, so that no way is broken.
LEMMA EraseAtStep ==
  ASSUME MapInv, NEW i, EraseAt(i)
  PROVE  MapInv'
<1>1. i \in Occupied /\ i \in BucketIdxs /\ capacity # 0 /\ table[i] \in BucketType
  BY MapFacts DEF EraseAt
<1>2. PICK b : b = [state |-> "DELETED", kv |-> None, probeDist |-> table[i].probeDist]
  OBVIOUS
<1>3. b \in BucketType /\ b.state = "DELETED"
  BY <1>1, <1>2 DEF BucketType
<1>4. table' = [table EXCEPT ![i] = b]
  <2>1. [table[i] EXCEPT !.state = "DELETED", !.kv = None] = b
    BY <1>1, <1>2, Erased
  <2>2. table \in [BucketIdxs -> BucketType]
    BY MapFacts
  <2>3. table' = [table EXCEPT ![i].state = "DELETED", ![i].kv = None]
    BY DEF EraseAt
  <2> QED
    BY <1>1, <2>1, <2>2, <2>3
<1>5. UNCHANGED <<keyHash, capacity>> /\ call' = Idle
  BY DEF EraseAt
<1>6. call' \in CallType /\ RoomOK' /\ ProbeOK'
  BY <1>5, IdleType, IdleIsOK
<1>7. Occupied' = Occupied \ {i}
  <2>1. \A j \in BucketIdxs : table'[j].state = IF j = i THEN "DELETED" ELSE table[j].state
    BY <1>3, <1>4, MapFacts
  <2>2. BucketIdxs' = BucketIdxs
    BY <1>5 DEF BucketIdxs
  <2> QED
    BY <2>1, <2>2 DEF Occupied
<1>8. Cardinality(Occupied) \in Nat /\ Cardinality(Occupied \ {i}) = Cardinality(Occupied) - 1
  BY <1>1, MapFacts, FS_RemoveElement, FS_CardinalityType
<1>9. Cardinality(Occupied \ {i}) \in Nat
  BY MapFacts, FS_RemoveElement, FS_CardinalityType, FS_Subset
<1>10. size > 0 /\ size' = size - 1
  BY <1>8, <1>9, MapFacts DEF EraseAt
<1>11. size' \in 0 .. capacity /\ size' = Cardinality(Occupied)'
  BY <1>7, <1>8, <1>10, MapFacts
<1> QED
  BY <1>1, <1>3, <1>4, <1>5, <1>6, <1>11, EditTable

-----------------------------------------------------------------------------
(* The steps that empty the table.                                         *)

LEMMA EmptyBucketType ==
  ASSUME MapInv, WordMod # 0
  PROVE  EmptyBucket \in BucketType /\ EmptyBucket.state = "EMPTY"
BY UnorderedMapAssumption DEF EmptyBucket, BucketType

LEMMA ClearStep ==
  ASSUME MapInv, Clear
  PROVE  MapInv'
<1>1. /\ keyHash' = keyHash /\ capacity' = capacity /\ call' = Idle /\ size' = size - Cardinality(Occupied)
      /\ table' = [i \in BucketIdxs |-> IF table[i].state = "EMPTY" THEN table[i] ELSE EmptyBucket]
  BY DEF Clear
<1>2. call' \in CallType /\ RoomOK' /\ ProbeOK'
  BY <1>1, IdleType, IdleIsOK
<1>3. ASSUME NEW i \in BucketIdxs
      PROVE  table'[i] \in BucketType /\ table'[i].state = "EMPTY"
  <2>1. WordMod # 0
    BY CapacityFacts, MapFacts, UnorderedMapAssumption
  <2> QED
    BY <1>1, <2>1, MapFacts, EmptyBucketType
<1>4. table' \in [0 .. capacity' - 1 -> BucketType]
  BY <1>1, <1>3 DEF BucketIdxs
<1>5. size' = 0 /\ capacity' \in Nat /\ CapacityOK'
  BY <1>1, MapFacts DEF CapacityOK
<1>6. \A i \in 0 .. capacity' - 1 : table'[i].state = "EMPTY"
  BY <1>1, <1>3 DEF BucketIdxs
<1> QED
  BY <1>1, <1>2, <1>4, <1>5, <1>6, NoEntries

LEMMA MoveFromStep ==
  ASSUME MapInv, MoveFrom
  PROVE  MapInv'
<1>1. /\ keyHash' = keyHash /\ capacity' = 0 /\ call' = Idle /\ size' = 0
      /\ table' = EmptyTable(0)
  BY DEF MoveFrom
<1>2. call' \in CallType /\ RoomOK' /\ ProbeOK'
  BY <1>1, IdleType, IdleIsOK
<1>3. 0 .. capacity' - 1 = {} /\ CapacityOK' /\ capacity' \in Nat
  BY <1>1 DEF CapacityOK
<1>4. table' \in [0 .. capacity' - 1 -> BucketType]
  BY <1>1, <1>3 DEF EmptyTable
<1> QED
  BY <1>1, <1>2, <1>3, <1>4, NoEntries

-----------------------------------------------------------------------------
(* The entries in bucket order.  That a finite set of numbers has an       *)
(* increasing enumeration is shown by induction on its size.               *)

Enumerates(f, S) ==
  LET n == Cardinality(S) IN
  f \in [1 .. n -> S] /\ \A i, j \in 1 .. n : i < j => f[i] < f[j]

LEMMA Least ==
  ASSUME NEW S, S \subseteq Nat, S # {}
  PROVE  \E n \in S : \A m \in S : n <= m
<1> DEFINE T == {0 .. n : n \in S}
<1>1. \A n \in S : 0 .. n \in FiniteSubsetsOf(Nat)
  BY FS_Interval, 0 \in Int DEF FiniteSubsetsOf
<1>2. PICK x \in T : \A y \in T : <<y, x>> \notin StrictSubsetOrdering(Nat)
  <2> HIDE DEF T
  <2>1. T # {} /\ T \subseteq FiniteSubsetsOf(Nat)
    BY <1>1 DEF T
  <2> QED
    BY <2>1, WFMin, FS_StrictSubsetOrderingWellFounded
<1>3. PICK n \in S : x = 0 .. n
  OBVIOUS
<1>4. ASSUME NEW m \in S, m < n PROVE FALSE
  <2>1. 0 .. m \in T /\ 0 .. m \in SUBSET Nat /\ 0 .. n \in SUBSET Nat
    OBVIOUS
  <2>2. 0 .. m \subseteq 0 .. n /\ n \in 0 .. n /\ n \notin 0 .. m
    BY <1>4
  <2> QED BY <1>2, <1>3, <2>1, <2>2 DEF StrictSubsetOrdering
<1> QED BY <1>4

LEMMA NatInd ==
  ASSUME NEW S, S \subseteq Nat, 0 \in S, \A n \in S : n + 1 \in S
  PROVE  S = Nat
<1> SUFFICES ASSUME Nat \ S # {} PROVE FALSE
  OBVIOUS
<1>1. PICK n \in Nat \ S : \A m \in Nat \ S : n <= m
  BY Least
<1> QED BY <1>1

\* A set of numbers below a bound is enumerated by enumerating those below a
\* smaller bound first.
LEMMA EnumerateBelow ==
  ASSUME NEW S, S \subseteq Nat, NEW n \in Nat
  PROVE  \E f : Enumerates(f, S \cap (0 .. n - 1))
<1> DEFINE Part(m) == S \cap (0 .. m - 1)
           Good == {m \in Nat : \E f : Enumerates(f, Part(m))}
<1>1. 0 \in Good
  <2>1. Part(0) = {}
    OBVIOUS
  <2>2. Cardinality(Part(0)) = 0
    BY <2>1, FS_EmptySet
  <2>3. \A f : f \in [1 .. 0 -> Part(0)] => Enumerates(f, Part(0))
    BY <2>2 DEF Enumerates
  <2>4. [i \in 1 .. 0 |-> 0] \in [1 .. 0 -> Part(0)]
    OBVIOUS
  <2> QED
    BY <2>3, <2>4
<1>2. ASSUME NEW m \in Good
      PROVE  m + 1 \in Good
  <2>1. PICK f : Enumerates(f, Part(m))
    OBVIOUS
  <2>2. IsFiniteSet(Part(m)) /\ Cardinality(Part(m)) \in Nat
    <3>1. IsFiniteSet(0 .. m - 1)
      BY FS_Interval
    <3> QED
      BY <3>1, FS_Subset, FS_CardinalityType
  <2>3. PICK c \in Nat : c = Cardinality(Part(m))
    BY <2>2
  <2>4. f \in [1 .. c -> Part(m)] /\ \A i, j \in 1 .. c : i < j => f[i] < f[j]
    BY <2>1, <2>3 DEF Enumerates
  <2>5. CASE m \in S
    <3>1. Part(m + 1) = Part(m) \cup {m} /\ m \notin Part(m)
      BY <2>5
    <3>2. Cardinality(Part(m + 1)) = c + 1
      BY <2>2, <2>3, <3>1, FS_AddElement
    <3> DEFINE g == [i \in 1 .. c + 1 |-> IF i = c + 1 THEN m ELSE f[i]]
    <3>3. \A i \in 1 .. c + 1 : i = c + 1 \/ i \in 1 .. c
      OBVIOUS
    <3>4. \A i \in 1 .. c : g[i] = f[i] /\ f[i] \in Part(m) /\ f[i] \in 0 .. m - 1
      BY <2>4
    <3>5. g \in [1 .. c + 1 -> Part(m + 1)]
      BY <3>1, <3>3, <3>4
    <3>6. g[c + 1] = m
      OBVIOUS
    <3> HIDE DEF g
    <3>7. ASSUME NEW i \in 1 .. c + 1, NEW j \in 1 .. c + 1, i < j
          PROVE  g[i] < g[j]
      <4>1. i \in 1 .. c
        BY <3>7
      <4>2. g[i] = f[i] /\ f[i] \in 0 .. m - 1
        BY <3>4, <4>1
      <4>3. CASE j = c + 1
        BY <3>6, <4>2, <4>3
      <4>4. CASE j \in 1 .. c
        BY <2>4, <3>4, <3>7, <4>1, <4>4
      <4> QED
        BY <3>3, <4>3, <4>4
    <3>8. Enumerates(g, Part(m + 1))
      BY <3>2, <3>5, <3>7 DEF Enumerates
    <3> QED
      BY <3>8
  <2>6. CASE m \notin S
    <3>1. Part(m + 1) = Part(m)
      BY <2>6
    <3> QED
      BY <2>1, <3>1
  <2> QED
    BY <2>5, <2>6
<1>3. Good = Nat
  <2> HIDE DEF Part
  <2>1. Good \subseteq Nat
    OBVIOUS
  <2> HIDE DEF Good
  <2> QED
    BY <1>1, <1>2, <2>1, NatInd
<1> QED
  BY <1>3

LEMMA EntriesInOrder ==
  ASSUME MapInv
  PROVE  \E nth \in [1 .. size -> Occupied] :
           /\ \A i, j \in 1 .. size : i < j => nth[i] < nth[j]
           /\ Entries = [i \in 1 .. size |-> table[nth[i]].kv]
<1>1. PICK n \in Nat : n = Cardinality(Occupied) /\ n = size
  BY MapFacts
<1>2. \E f : f \in [1 .. n -> Occupied] /\ \A i, j \in 1 .. n : i < j => f[i] < f[j]
  <2>1. PICK c \in Nat : c = capacity
    BY MapFacts
  <2>2. Occupied \subseteq Nat /\ Occupied \cap (0 .. c - 1) = Occupied
    BY <2>1, MapFacts
  <2>3. \E f : Enumerates(f, Occupied \cap (0 .. c - 1))
    BY <2>2, EnumerateBelow
  <2> QED
    BY <1>1, <2>2, <2>3 DEF Enumerates
<1> DEFINE nth == CHOOSE f \in [1 .. n -> Occupied] : \A i, j \in 1 .. n : i < j => f[i] < f[j]
<1>3. nth \in [1 .. n -> Occupied] /\ \A i, j \in 1 .. n : i < j => nth[i] < nth[j]
  BY <1>2
<1>4. Entries = [i \in 1 .. n |-> table[nth[i]].kv]
  BY <1>1 DEF Entries
<1> HIDE DEF nth
<1> QED
  BY <1>1, <1>3, <1>4

LEMMA EntriesFacts ==
  ASSUME MapInv
  PROVE  Entries \in Seq(Pairs) /\ Len(Entries) = size
<1>1. PICK n \in Nat : n = size
  BY MapFacts
<1>2. PICK nth \in [1 .. n -> Occupied] : Entries = [i \in 1 .. n |-> table[nth[i]].kv]
  BY <1>1, EntriesInOrder
<1>3. \A i \in 1 .. n : table[nth[i]].kv \in Pairs
  BY DEF MapInv, BucketsOK
<1> QED
  BY <1>1, <1>2, <1>3

-----------------------------------------------------------------------------
(* rehash(), and the capacities that occur.                                *)

LEMMA Doubled ==
  ASSUME NEW n \in PowersOfTwo, 2 * n <= WordMod
  PROVE  2 * n \in PowersOfTwo
<1>1. n \in Nat \ {0} /\ \A d \in 2 .. n : n % d = 0 => d % 2 = 0
  BY UnorderedMapAssumption DEF PowersOfTwo
<1>2. ASSUME NEW d \in 2 .. 2 * n, (2 * n) % d = 0, d % 2 # 0
      PROVE  FALSE
  <2>1. PICK q \in Nat : 2 * n = d * q
    <3>1. d \in Nat \ {0} /\ 2 * n \in Nat
      BY <1>1
    <3>2. PICK q \in Nat : q = (2 * n) \div d
      BY <3>1
    <3> QED
      BY <1>2, <3>1, <3>2
  <2>2. PICK e \in Nat : d = 2 * e + 1
    <3>1. d \in Nat
      BY <1>1
    <3>2. d = 2 * (d \div 2) + 1 /\ d \div 2 \in Nat
      BY <1>2, <3>1
    <3> QED
      BY <3>2
  <2>3. PICK r \in Int : r = n - e * q
    BY <1>1
  <2>4. q = 2 * r
    <3>1. 2 * n = 2 * (e * q) + q
      BY <1>1, <2>1, <2>2
    <3> QED
      BY <1>1, <2>3, <3>1
  <2>5. n = d * r
    <3>1. d * q = 2 * (d * r)
      BY <1>1, <2>4
    <3>2. d * r \in Int
      BY <1>1
    <3> QED
      BY <1>1, <2>1, <3>1, <3>2
  <2>6. r > 0
    BY <1>1, <2>1, <2>4
  <2>7. d <= n /\ n % d = 0
    BY <1>1, <2>5, <2>6
  <2> QED
    BY <1>1, <1>2, <2>7
<1> QED
  BY <1>1, <1>2 DEF PowersOfTwo

\* The table is emptied, and its entries wait to be inserted again.
LEMMA ReallocateStep ==
  ASSUME MapInv, NEW n \in PowersOfTwo, 3 * n > 4 * size,
         NEW key \in Keys \cup {None}, NEW rest \in Seq(Pairs),
         4 * (size + Len(rest) - 1) < 3 * n, Reallocate(n, key, rest)
  PROVE  MapInv'
<1>1. n \in Nat \ {0} /\ WordMod # 0
  BY UnorderedMapAssumption DEF PowersOfTwo
<1>2. /\ table' = EmptyTable(n) /\ capacity' = n /\ size' = 0 /\ keyHash' = keyHash
      /\ call' = IF Entries \o rest = <<>> THEN Idle
                 ELSE [Idle EXCEPT !.pc = "next", !.todo = Entries \o rest, !.key = key]
  BY DEF Reallocate
<1>3. ASSUME NEW i \in 0 .. n - 1
      PROVE  table'[i] \in BucketType /\ table'[i].state = "EMPTY"
  BY <1>1, <1>2, EmptyBucketType DEF EmptyTable
<1>4. table' \in [0 .. capacity' - 1 -> BucketType]
  BY <1>2, <1>3 DEF EmptyTable
<1>5. PICK todo \in Seq(Pairs) : todo = Entries \o rest /\ Len(todo) = size + Len(rest)
  <2>1. PICK entries \in Seq(Pairs) : entries = Entries /\ Len(entries) = size
    BY EntriesFacts
  <2>2. entries \o rest \in Seq(Pairs) /\ Len(entries \o rest) = Len(entries) + Len(rest)
    BY ConcatProperties
  <2> QED
    BY <2>1, <2>2
<1>6. call' \in CallType /\ RoomOK' /\ ProbeOK'
  <2>1. CASE todo = <<>>
    <3>1. call' = Idle
      BY <1>2, <1>5, <2>1
    <3> QED
      BY <3>1, IdleType, IdleIsOK
  <2>2. CASE todo # <<>>
    <3>1. call' = [pc |-> "next", kv |-> None, home |-> 0, curr |-> 0,
                   todo |-> todo, key |-> key, ret |-> None]
      BY <1>2, <1>5, <2>2 DEF Idle
    <3>2. call' \in CallType
      BY <3>1 DEF CallType
    <3>3. PICK l \in Nat : l = Len(todo)
      BY LenProperties
    <3>4. l > 0
      BY <2>2, <3>3, EmptySeq
    <3>5. 4 * (0 + l - 1) < 3 * n
      <4>1. PICK s \in Nat : s = size
        BY MapFacts
      <4>2. PICK r \in Nat : r = Len(rest)
        BY LenProperties
      <4>3. l = s + r
        BY <1>5, <3>3, <4>1, <4>2
      <4> QED
        BY <1>1, <4>1, <4>2, <4>3
    <3>6. ~Full'
      BY <1>1, <1>2 DEF Full
    <3>7. RoomOK'
      <4>1. call'.pc = "next" /\ call'.todo = todo
        BY <3>1
      <4>2. capacity' = n /\ size' = 0 /\ n > 0
        BY <1>1, <1>2
      <4>3. Len(call'.todo) = l
        BY <3>3, <4>1
      <4> QED
        BY <3>4, <3>5, <3>6, <4>1, <4>2, <4>3 DEF RoomOK
    <3>8. ProbeOK'
      BY <3>1 DEF ProbeOK
    <3> QED
      BY <3>2, <3>7, <3>8
  <2> QED
    BY <2>1, <2>2
<1>7. capacity' \in Nat /\ CapacityOK'
  BY <1>1, <1>2 DEF CapacityOK
<1>8. \A i \in 0 .. capacity' - 1 : table'[i].state = "EMPTY"
  BY <1>2, <1>3
<1> QED
  BY <1>2, <1>4, <1>6, <1>7, <1>8, NoEntries

LEMMA RehashStep ==
  ASSUME MapInv, NEW n, MayRehash(n), Rehash(n)
  PROVE  MapInv'
<1>1. n \in PowersOfTwo /\ 3 * n > 4 * size /\ n \in Nat
  BY UnorderedMapAssumption DEF MayRehash, PowersOfTwo
<1>2. <<>> \in Seq(Pairs) /\ Len(<<>>) = 0
  BY EmptySeq
<1>3. 4 * (size + 0 - 1) < 3 * n
  BY <1>1, MapFacts
<1>4. 4 * (size + Len(<<>>) - 1) < 3 * n
  BY <1>2, <1>3
<1> QED
  BY <1>1, <1>2, <1>4, ReallocateStep DEF Rehash

LEMMA GrowStep ==
  ASSUME MapInv, Grow
  PROVE  MapInv'
<1>1. /\ Len(call.todo) = 1 /\ 2 * capacity <= MaxCapacity /\ capacity > 0
      /\ call.todo \in Seq(Pairs) /\ call.key \in Keys \cup {None}
  BY MapFacts DEF Grow, MapInv, RoomOK, CallType
<1>2. capacity \in PowersOfTwo /\ capacity \in Nat /\ size \in Nat /\ size <= capacity
  BY <1>1, MapFacts, CapacityFacts
<1>3. 2 * capacity \in PowersOfTwo
  BY <1>1, <1>2, Doubled, UnorderedMapAssumption
<1>4. 3 * (2 * capacity) > 4 * size /\ 4 * (size + 1 - 1) < 3 * (2 * capacity)
  BY <1>1, <1>2
<1> QED
  BY <1>1, <1>3, <1>4, ReallocateStep DEF Grow

-----------------------------------------------------------------------------
(* The invariant is inductive.                                             *)

LEMMA MapInit == Init => MapInv
<1> SUFFICES ASSUME Init PROVE MapInv
  OBVIOUS
<1>1. /\ keyHash \in [Keys -> Hashes] /\ table = EmptyTable(InitCapacity) /\ size = 0
      /\ capacity = InitCapacity /\ call = Idle
  BY DEF Init
<1>2. capacity \in PowersOfTwo /\ capacity \in Nat \ {0} /\ WordMod # 0
  BY <1>1, UnorderedMapAssumption DEF PowersOfTwo
<1>3. EmptyBucket \in BucketType /\ EmptyBucket.state = "EMPTY"
  BY <1>2, UnorderedMapAssumption DEF EmptyBucket, BucketType
<1>4. table \in [BucketIdxs -> BucketType] /\ \A i \in BucketIdxs : table[i].state = "EMPTY"
  BY <1>1, <1>3 DEF EmptyTable, BucketIdxs
<1>5. TypeOK
  <2>1. size \in 0 .. capacity
    BY <1>1, <1>2
  <2> QED
    BY <1>1, <1>2, <1>4, <2>1, TypeOKParts, IdleType
<1>6. Occupied = {}
  BY <1>4 DEF Occupied
<1>7. size = Cardinality(Occupied)
  BY <1>1, <1>6, FS_EmptySet
<1>8. RoomOK /\ ProbeOK
  BY <1>1 DEF Idle, RoomOK, ProbeOK
<1> QED
  BY <1>2, <1>5, <1>6, <1>7, <1>8 DEF MapInv, CapacityOK, BucketsOK, PathsOK

LEMMA MapNext == MapInv /\ [Next \/ \E i \in Occupied : EraseAt(i)]_vars => MapInv'
<1> SUFFICES ASSUME MapInv, [Next \/ \E i \in Occupied : EraseAt(i)]_vars PROVE MapInv'
  OBVIOUS
<1>1. ASSUME NEW k \in Keys, NEW v \in Vals, capacity > 0, Insert(k, v) PROVE MapInv'
  BY <1>1, InsertStep
<1>2. ASSUME NEW n, MayRehash(n), Rehash(n) PROVE MapInv'
  BY <1>2, RehashStep
<1>3. CASE Clear
  BY <1>3, ClearStep
<1>4. CASE MoveFrom
  BY <1>4, MoveFromStep
<1>5. CASE Grow
  BY <1>5, GrowStep
<1>6. CASE Probe
  BY <1>6, ProbeStep
<1>7. CASE KeyExists
  BY <1>7, KeyExistsStep
<1>8. CASE Steal
  BY <1>8, StealStep
<1>9. CASE Advance
  BY <1>9, AdvanceStep
<1>10. CASE Place
  BY <1>10, PlaceStep
<1>11. ASSUME NEW i \in Occupied, EraseAt(i) PROVE MapInv'
  BY <1>11, EraseAtStep
<1>12. CASE UNCHANGED vars
  <2>1. UNCHANGED <<keyHash, table, size, capacity, call>>
    BY <1>12 DEF vars
  <2>2. call' \in CallType /\ RoomOK' /\ ProbeOK'
    BY <2>1, MapFacts
       DEF MapInv, RoomOK, ProbeOK, Full, Home, Passable, DistanceTo, BucketIdxs
  <2> QED
    BY <2>1, <2>2, SameTable
<1> QED
  BY <1>1, <1>2, <1>3, <1>4, <1>5, <1>6, <1>7, <1>8, <1>9, <1>10, <1>11, <1>12 DEF Next, Loop

\* The table is well-formed, and the probe loop has seen no empty bucket on its
\* way, in every state: also of a map entries are erased from.
THEOREM MapInvariant == Spec => []MapInv
<1>1. MapInv /\ [Next]_vars => MapInv'
  BY MapNext
<1> QED
  BY MapInit, <1>1, PTL DEF Spec

\* Every bucket, the counter and the call in progress keep their types: the size
\* never exceeds the capacity, and no index or distance is negative.
THEOREM MapTypeCorrect == Spec => []TypeOK
<1>1. MapInv => TypeOK
  BY DEF MapInv
<1> QED
  BY MapInvariant, <1>1, PTL

LEMMA MapInvProbePath == MapInv => ProbePathUnbroken
<1> SUFFICES ASSUME MapInv, NEW i \in Occupied
             PROVE  \A d \in 0 .. Mod(i - Home(table[i].kv.key), capacity) :
                      table[Mod(Home(table[i].kv.key) + d, capacity)].state # "EMPTY"
  BY DEF ProbePathUnbroken
<1>1. i \in BucketIdxs /\ capacity # 0 /\ table[i].state = "OCCUPIED"
  BY MapFacts DEF Occupied
<1>2. PICK k \in Keys : k = table[i].kv.key /\ Passable(k, DistanceTo(k, i))
  BY DEF MapInv, BucketsOK, PathsOK, Pairs
<1>3. Passable(k, DistanceTo(k, i) + 1)
  BY <1>1, <1>2, PassableFurther
<1>4. PICK n \in Nat : n = DistanceTo(k, i)
  BY <1>1, DistanceType
<1>5. 0 .. (n + 1) - 1 = 0 .. n
  OBVIOUS
<1>6. \A x : Mod(x, capacity) = x % capacity
  BY <1>1, MapFacts, CapacityFacts
<1> QED
  BY <1>2, <1>3, <1>4, <1>5, <1>6 DEF Passable, DistanceTo

\* find() never meets an empty bucket before an entry that is in the table.
THEOREM MapProbePathUnbroken == Spec => []ProbePathUnbroken
BY MapInvariant, MapInvProbePath, PTL

-----------------------------------------------------------------------------
(* The loop never comes back to where it began.  It has passed occupied    *)
(* buckets only, and an entry it takes over has come less far than the one *)
(* it put in its place; if it had come all around, every bucket would be   *)
(* occupied, which the load factor excludes.                               *)

ProbeDistOK == \A i \in Occupied : table[i].probeDist >= DistanceTo(table[i].kv.key, i)

\* n buckets from the home bucket of k on are occupied.
Crowded(k, n) ==
  \A d \in 0 .. n - 1 : table[(Home(k) + d) % capacity].state = "OCCUPIED"

CrowdedOK ==
  call.pc = "probe" => Crowded(call.kv.key, DistanceTo(call.kv.key, call.curr))

RetOK == call.ret # None => call.ret \in BucketIdxs

LoopInv == ProbeDistOK /\ CrowdedOK /\ RetOK

\* What the loop carries on with: an entry that has come no further, so its way
\* is the end of the way the loop has come.
LEMMA CrowdedTakenOver ==
  ASSUME MapInv, CrowdedOK, Probing({"OCCUPIED"}), NEW k \in Keys,
         DistanceTo(k, call.curr) <= DistanceTo(call.kv.key, call.curr)
  PROVE  Crowded(k, DistanceTo(k, call.curr) + 1)
<1>1. PICK c \in Nat \ {0} : c = capacity
  BY ProbingFacts
<1>2. PICK i \in 0 .. c - 1 : i = call.curr
  BY <1>1, ProbingFacts DEF BucketIdxs
<1>3. PICK q \in Keys : q = call.kv.key
  BY ProbingFacts
<1>4. PICK h \in 0 .. c - 1 : h = Home(q)
  BY <1>1, <1>3, ProbingFacts, HomeType, MapFacts DEF BucketIdxs
<1>5. PICK h2 \in 0 .. c - 1 : h2 = Home(k)
  BY <1>1, ProbingFacts, HomeType, MapFacts DEF BucketIdxs
<1>6. PICK D \in 0 .. c - 1 : D = (i - h) % c
  BY ModType
<1>7. PICK D2 \in 0 .. c - 1 : D2 = (i - h2) % c /\ (h2 + D2) % c = i
  <2>1. (i - h2) % c \in 0 .. c - 1 /\ (h2 + ((i - h2) % c)) % c = i
    BY Places
  <2> QED
    BY <2>1
<1>8. D = DistanceTo(q, i) /\ D2 = DistanceTo(k, i) /\ D2 <= D
  BY <1>1, <1>2, <1>3, <1>4, <1>5, <1>6, <1>7 DEF DistanceTo
<1>9. call.pc = "probe" /\ table[i].state = "OCCUPIED"
  BY <1>2, ProbingFacts
<1>10. \A e \in 0 .. D - 1 : table[(h + e) % c].state = "OCCUPIED"
  BY <1>1, <1>2, <1>3, <1>4, <1>8, <1>9 DEF CrowdedOK, Crowded
<1>11. ASSUME NEW d \in 0 .. D2
       PROVE  table[(h2 + d) % c].state = "OCCUPIED"
  <2>1. CASE d = D2
    BY <1>7, <1>9, <2>1
  <2>2. CASE d # D2
    <3>1. d \in 0 .. D2 - 1
      BY <2>2
    <3>2. D2 \in 0 .. D
      BY <1>8
    <3>3. PICK e \in 0 .. D - 1 : e = d + D - D2
      BY <3>1, <3>2
    <3>4. D = (IF i >= h THEN i - h ELSE i - h + c) /\ D2 = (IF i >= h2 THEN i - h2 ELSE i - h2 + c)
      BY <1>6, <1>7, Apart
    <3>5. d \in 0 .. c - 1 /\ e \in 0 .. c - 1
      BY <3>1
    <3>6. (h2 + d) % c = IF h2 + d < c THEN h2 + d ELSE h2 + d - c
      BY <3>5, Further
    <3>7. (h + e) % c = IF h + e < c THEN h + e ELSE h + e - c
      BY <3>5, Further
    <3>8. (h2 + d) % c = (h + e) % c
      BY <3>1, <3>2, <3>3, <3>4, <3>6, <3>7
    <3> QED
      BY <1>10, <3>8
  <2> QED
    BY <2>1, <2>2
<1>12. 0 .. (D2 + 1) - 1 = 0 .. D2
  OBVIOUS
<1>13. Crowded(k, D2 + 1)
  BY <1>1, <1>5, <1>11, <1>12 DEF Crowded
<1> QED
  BY <1>2, <1>8, <1>13

\* There is a bucket that is not occupied, so the way does not lead all around.
LEMMA NotAround ==
  ASSUME MapInv, call.pc = "probe", NEW k \in Keys, Crowded(k, capacity)
  PROVE  FALSE
<1>1. capacity # 0 /\ 4 * (size + Len(call.todo)) < 3 * capacity
  BY MapFacts DEF MapInv, RoomOK
<1>2. PICK c \in Nat \ {0} : c = capacity
  BY <1>1, MapFacts
<1>3. PICK h \in 0 .. c - 1 : h = Home(k)
  BY <1>1, <1>2, HomeType, MapFacts DEF BucketIdxs
<1>4. ASSUME NEW i \in BucketIdxs
      PROVE  i \in Occupied
  <2>1. i \in 0 .. c - 1
    BY <1>2 DEF BucketIdxs
  <2>2. (i - h) % c \in 0 .. c - 1 /\ (h + ((i - h) % c)) % c = i
    BY <2>1, Places, Zenon
  <2>3. PICK d \in 0 .. c - 1 : (h + d) % c = i
    BY <2>2, Zenon
  <2> QED
    BY <1>2, <1>3, <2>3 DEF Crowded, Occupied
<1>5. Occupied = 0 .. c - 1
  BY <1>2, <1>4, MapFacts
<1>6. Cardinality(0 .. c - 1) = c
  BY FS_Interval
<1>7. size = c
  BY <1>5, <1>6, MapFacts
<1>8. PICK n \in Nat : n = Len(call.todo)
  BY MapFacts
<1> QED
  BY <1>1, <1>2, <1>7, <1>8

\* So the loop goes on at the next bucket.
LEMMA GoesOn ==
  ASSUME MapInv, LoopInv, Probing({"OCCUPIED"}), NEW kv \in Pairs,
         DistanceTo(kv.key, call.curr) <= DistanceTo(call.kv.key, call.curr),
         GoOn(kv, Home(kv.key)), UNCHANGED <<keyHash, capacity>>,
         \A i \in BucketIdxs : table'[i].state = table[i].state
  PROVE  /\ \E next \in BucketIdxs :
              /\ next = (call.curr + 1) % capacity /\ next # Home(kv.key)
              /\ DistanceTo(kv.key, next) = DistanceTo(kv.key, call.curr) + 1
              /\ call' = [call EXCEPT !.kv = kv, !.home = Home(kv.key), !.curr = next]
              /\ call'.pc = "probe" /\ call'.kv = kv /\ call'.home = Home(kv.key)
              /\ call'.curr = next /\ call'.todo = call.todo /\ call'.ret = call.ret
         /\ CrowdedOK' /\ RetOK'
<1>1. /\ capacity # 0 /\ capacity \in Nat \ {0} /\ call \in CallType /\ call.curr \in BucketIdxs
      /\ call.pc = "probe" /\ CapacityOK
  BY ProbingFacts, MapFacts
<1>2. kv.key \in Keys
  BY DEF Pairs
<1>3. PICK next \in BucketIdxs : next = (call.curr + 1) % capacity
  BY <1>1, <1>2, NextBucket
<1>4. PICK D \in 0 .. capacity - 1 : D = DistanceTo(kv.key, call.curr)
  BY <1>1, <1>2, DistanceType
<1>5. Crowded(kv.key, D + 1)
  BY <1>2, <1>4, CrowdedTakenOver DEF LoopInv
<1>6. next # Home(kv.key)
  <2> SUFFICES ASSUME next = Home(kv.key) PROVE FALSE
    OBVIOUS
  <2>1. DistanceTo(kv.key, call.curr) = capacity - 1
    <3>1. PICK i \in BucketIdxs : i = call.curr
      BY <1>1
    <3>2. (i + 1) % capacity = Home(kv.key) => DistanceTo(kv.key, i) = capacity - 1
      BY <1>1, <1>2, NextBucket, Zenon
    <3> QED
      BY <1>3, <3>1, <3>2, Zenon
  <2>2. D + 1 = capacity
    BY <1>1, <1>4, <2>1
  <2>3. Crowded(kv.key, capacity)
    BY <1>5, <2>2
  <2> QED
    BY <1>1, <1>2, <2>3, NotAround
<1>7. DistanceTo(kv.key, next) = D + 1
  BY <1>1, <1>2, <1>3, <1>4, <1>6, NextBucket
<1>8. PICK home \in BucketIdxs : home = Home(kv.key)
  BY <1>1, <1>2, HomeType, MapFacts
<1>9. call' = [call EXCEPT !.kv = kv, !.home = home, !.curr = next]
  <2>1. Mod(call.curr + 1, capacity) = next
    BY <1>1, <1>3, CapacityFacts
  <2> QED
    BY <1>6, <1>8, <2>1 DEF GoOn
<1>10. /\ call'.pc = "probe" /\ call'.kv = kv /\ call'.home = home /\ call'.curr = next
       /\ call'.todo = call.todo /\ call'.ret = call.ret
  BY <1>1, <1>9 DEF CallType
<1>11. CrowdedOK'
  <2>1. ASSUME NEW d \in 0 .. (D + 1) - 1
        PROVE  table'[(Home(kv.key) + d) % capacity].state = "OCCUPIED"
    <3>1. d \in 0 .. capacity - 1
      BY <1>1, <1>4
    <3>2. (Home(kv.key) + d) % capacity \in BucketIdxs
      BY <1>1, <1>2, <3>1, DistanceOnWay
    <3> QED
      BY <1>5, <3>2 DEF Crowded
  <2>2. Home(kv.key)' = Home(kv.key) /\ DistanceTo(kv.key, next)' = D + 1
    BY <1>7, SameHomes
  <2>3. Crowded(kv.key, D + 1)'
    BY <2>1, <2>2 DEF Crowded
  <2> QED
    BY <1>10, <2>2, <2>3 DEF CrowdedOK, Crowded, DistanceTo, Home
<1>12. RetOK'
  BY <1>10 DEF LoopInv, RetOK, BucketIdxs
<1> QED
  BY <1>3, <1>4, <1>6, <1>7, <1>8, <1>9, <1>10, <1>11, <1>12

LEMMA LoopEdit ==
  ASSUME MapInv, LoopInv, UNCHANGED <<keyHash, capacity>>, CrowdedOK', RetOK',
         NEW i \in BucketIdxs, NEW b, table' = [table EXCEPT ![i] = b],
         b.state = "OCCUPIED" => b.probeDist >= DistanceTo(b.kv.key, i)
  PROVE  LoopInv'
<1>1. \A j \in BucketIdxs : table'[j] = IF j = i THEN b ELSE table[j]
  BY MapFacts
<1>2. ASSUME NEW j \in Occupied'
      PROVE  table'[j].probeDist >= DistanceTo(table'[j].kv.key, j)
  <2>1. j \in BucketIdxs /\ table'[j].state = "OCCUPIED"
    BY DEF Occupied, BucketIdxs
  <2>2. CASE j = i
    BY <1>1, <2>1, <2>2
  <2>3. CASE j # i
    <3>1. table'[j] = table[j] /\ j \in Occupied
      BY <1>1, <2>1, <2>3 DEF Occupied
    <3> QED
      BY <3>1 DEF LoopInv, ProbeDistOK
  <2> QED
    BY <2>2, <2>3
<1>3. ProbeDistOK'
  BY <1>2 DEF ProbeDistOK, DistanceTo, Home
<1> QED
  BY <1>3 DEF LoopInv

LEMMA LoopSameTable ==
  ASSUME LoopInv, UNCHANGED <<keyHash, table, capacity>>, CrowdedOK', RetOK'
  PROVE  LoopInv'
<1>1. ProbeDistOK'
  BY DEF LoopInv, ProbeDistOK, Occupied, BucketIdxs, DistanceTo, Home
<1> QED
  BY <1>1 DEF LoopInv

LEMMA LoopNoEntries ==
  ASSUME Occupied' = {}, call'.pc # "probe", call'.ret = None
  PROVE  LoopInv'
BY DEF LoopInv, ProbeDistOK, CrowdedOK, RetOK

LEMMA ReturnedRet ==
  ASSUME MapInv, LoopInv, NEW i \in BucketIdxs, call.pc = "probe", capacity' = capacity,
         call' = Returned(i)
  PROVE  CrowdedOK' /\ RetOK'
<1>1. CASE call.todo = <<>>
  <2>1. call'.pc = "idle" /\ call'.ret = i
    BY <1>1 DEF Returned, Idle
  <2> QED
    BY <2>1 DEF CrowdedOK, RetOK, BucketIdxs
<1>2. CASE call.todo # <<>>
  <2>1. call' = [call EXCEPT !.pc = "next", !.kv = None, !.home = 0, !.curr = 0]
    BY <1>2 DEF Returned
  <2>2. call'.pc = "next" /\ call'.ret = call.ret
    BY <2>1, MapFacts DEF CallType
  <2> QED
    BY <2>2 DEF LoopInv, CrowdedOK, RetOK, BucketIdxs
<1> QED
  BY <1>1, <1>2

\* A distance in a wider word is no smaller.
LEMMA WiderWord ==
  ASSUME NEW c \in Nat \ {0}, NEW w \in Nat, c <= w, NEW h \in 0 .. c - 1, NEW i \in 0 .. c - 1
  PROVE  (i - h) % w >= (i - h) % c
<1>1. w \in Nat \ {0} /\ h \in 0 .. w - 1 /\ i \in 0 .. w - 1
  OBVIOUS
<1>2. (i - h) % w = IF i >= h THEN i - h ELSE i - h + w
  BY <1>1, Apart
<1>3. (i - h) % c = IF i >= h THEN i - h ELSE i - h + c
  BY Apart
<1> QED
  BY <1>2, <1>3

LEMMA StealLoop ==
  ASSUME MapInv, LoopInv, Steal
  PROVE  /\ LoopInv'
         /\ \E i \in BucketIdxs, kv \in Pairs, carried \in Pairs, d \in 0 .. capacity - 1,
               next \in BucketIdxs :
              /\ i = call.curr /\ i \in Occupied /\ kv = table[i].kv /\ carried = call.kv
              /\ kv.key # carried.key /\ table[i].probeDist < d
              /\ d = DistanceTo(carried.key, i)
              /\ table' = [table EXCEPT ![i] = [state |-> "OCCUPIED", kv |-> carried,
                                               probeDist |-> d]]
              /\ UNCHANGED <<keyHash, capacity, size>> /\ Occupied' = Occupied
              /\ DistanceTo(kv.key, next) = DistanceTo(kv.key, i) + 1
              /\ call'.pc = "probe" /\ call'.kv = kv /\ call'.curr = next
              /\ call'.todo = call.todo
<1>1. PICK i \in BucketIdxs, kv \in Pairs, carried \in Pairs, d \in 0 .. capacity - 1 :
        /\ i = call.curr /\ table[i].state = "OCCUPIED" /\ i \in Occupied
        /\ kv = table[i].kv /\ carried = call.kv /\ kv.key # carried.key
        /\ d = DistanceTo(carried.key, i) /\ table[i].probeDist < d
        /\ table' = [table EXCEPT ![i] = [state |-> "OCCUPIED", kv |-> carried, probeDist |-> d]]
        /\ UNCHANGED <<keyHash, capacity, size>> /\ GoOn(kv, Home(kv.key))
  BY StealFacts
<1>2. PICK b : b = [state |-> "OCCUPIED", kv |-> carried, probeDist |-> d]
  OBVIOUS
<1>3. b.state = "OCCUPIED" /\ b.kv = carried /\ b.probeDist = d
  BY <1>2
<1>4. table' = [table EXCEPT ![i] = b]
  BY <1>1, <1>2
<1>5. \A j \in BucketIdxs : table'[j].state = table[j].state
  BY <1>1, <1>3, <1>4, MapFacts
<1>6. Occupied' = Occupied
  BY <1>1, <1>5 DEF Occupied, BucketIdxs
<1>7. capacity \in Nat \ {0} /\ kv.key \in Keys /\ Probing({"OCCUPIED"})
  BY ProbingFacts DEF Steal, Pairs
<1>8. DistanceTo(kv.key, i) <= d
  <2>1. PICK x \in 0 .. capacity - 1 : x = DistanceTo(kv.key, i)
    BY <1>7, DistanceType
  <2>2. table[i].probeDist >= x
    BY <1>1, <2>1 DEF LoopInv, ProbeDistOK
  <2>3. PICK p \in Nat : p = table[i].probeDist
    <3>1. table[i].probeDist \in 0 .. WordMod - 1
      BY MapFacts DEF BucketType
    <3> QED
      BY <3>1
  <2> QED
    BY <1>1, <1>7, <2>1, <2>2, <2>3
<1>9. /\ \E next \in BucketIdxs :
           /\ DistanceTo(kv.key, next) = DistanceTo(kv.key, i) + 1
           /\ call'.pc = "probe" /\ call'.kv = kv /\ call'.curr = next
           /\ call'.todo = call.todo
      /\ CrowdedOK' /\ RetOK'
  BY <1>1, <1>5, <1>7, <1>8, GoesOn
<1>10. d >= DistanceTo(b.kv.key, i)
  BY <1>1, <1>3
<1>11. LoopInv'
  BY <1>1, <1>3, <1>4, <1>9, <1>10, LoopEdit
<1> QED
  BY <1>1, <1>6, <1>9, <1>11

LEMMA AdvanceLoop ==
  ASSUME MapInv, LoopInv, Advance
  PROVE  /\ LoopInv' /\ call'.pc = "probe" /\ call'.kv = call.kv /\ call'.todo = call.todo
         /\ \E next \in BucketIdxs :
              /\ call'.curr = next
              /\ DistanceTo(call.kv.key, next) = DistanceTo(call.kv.key, call.curr) + 1
<1>1. /\ Probing({"OCCUPIED"}) /\ GoOn(call.kv, call.home)
      /\ UNCHANGED <<keyHash, table, size, capacity>>
  BY DEF Advance
<1>2. PICK kv \in Pairs : kv = call.kv /\ call.home = Home(kv.key)
  BY <1>1, ProbingFacts
<1>3. DistanceTo(kv.key, call.curr) <= DistanceTo(call.kv.key, call.curr)
  <2>1. PICK x \in Nat : x = DistanceTo(kv.key, call.curr)
    BY <1>1, <1>2, ProbingFacts
  <2> QED
    BY <1>2, <2>1
<1>4. GoOn(kv, Home(kv.key))
  BY <1>1, <1>2
<1>5. /\ \E next \in BucketIdxs :
           /\ DistanceTo(kv.key, next) = DistanceTo(kv.key, call.curr) + 1
           /\ call'.pc = "probe" /\ call'.kv = kv /\ call'.curr = next
           /\ call'.todo = call.todo
      /\ CrowdedOK' /\ RetOK'
  BY <1>1, <1>3, <1>4, GoesOn
<1>6. LoopInv'
  BY <1>1, <1>5, LoopSameTable
<1> QED
  BY <1>2, <1>5, <1>6

\* An empty or deleted bucket takes the entry, and the call returns.
LEMMA PlaceFacts ==
  ASSUME MapInv, Place
  PROVE  \E i \in BucketIdxs, kv \in Pairs, d \in Nat :
           /\ i = call.curr /\ i \notin Occupied /\ kv = call.kv
           /\ d >= DistanceTo(kv.key, i)
           /\ table' = [table EXCEPT ![i] = [state |-> "OCCUPIED", kv |-> kv, probeDist |-> d]]
           /\ UNCHANGED <<keyHash, capacity>> /\ call' = Returned(i)
           /\ Occupied' = Occupied \cup {i}
<1>1. Probing({"EMPTY", "DELETED"})
  BY DEF Place
<1>2. PICK c \in Nat \ {0} : c = capacity
  BY <1>1, ProbingFacts
<1>3. PICK i \in 0 .. c - 1 : i = call.curr
  BY <1>1, <1>2, ProbingFacts DEF BucketIdxs
<1>4. PICK h \in 0 .. c - 1 : h = call.home
  BY <1>1, <1>2, ProbingFacts DEF BucketIdxs
<1>5. PICK kv \in Pairs : kv = call.kv /\ h = Home(kv.key)
  BY <1>1, <1>4, ProbingFacts
<1>6. WordMod \in Nat \ {0} /\ c <= WordMod
  BY <1>2, CapacityFacts, MapFacts, UnorderedMapAssumption
<1>7. PICK d \in Nat : d = (i - h) % WordMod
  <2>1. i - h \in Int
    OBVIOUS
  <2> QED
    BY <1>6, <2>1, ModType
<1>8. d >= DistanceTo(kv.key, i)
  <2>1. (i - h) % WordMod >= (i - h) % c
    BY <1>6, WiderWord
  <2> QED
    BY <1>2, <1>5, <1>7, <2>1 DEF DistanceTo
<1>9. /\ table' = [table EXCEPT ![i] = [state |-> "OCCUPIED", kv |-> kv, probeDist |-> d]]
      /\ UNCHANGED <<keyHash, capacity>> /\ call' = Returned(i)
  BY <1>3, <1>4, <1>5, <1>7 DEF Place
<1>10. i \in BucketIdxs /\ i \notin Occupied
  BY <1>1, <1>2, <1>3 DEF BucketIdxs, Occupied, Probing
<1>11. Occupied' = Occupied \cup {i}
  <2>1. \A j \in BucketIdxs : table'[j].state = IF j = i THEN "OCCUPIED" ELSE table[j].state
    BY <1>9, MapFacts
  <2>2. BucketIdxs' = BucketIdxs
    BY <1>9 DEF BucketIdxs
  <2> QED
    BY <1>10, <2>1, <2>2 DEF Occupied
<1> QED
  BY <1>3, <1>5, <1>8, <1>9, <1>10, <1>11

LEMMA PlaceLoop ==
  ASSUME MapInv, LoopInv, Place
  PROVE  LoopInv'
<1>1. PICK i \in BucketIdxs, kv \in Pairs, d \in Nat :
        /\ d >= DistanceTo(kv.key, i)
        /\ table' = [table EXCEPT ![i] = [state |-> "OCCUPIED", kv |-> kv, probeDist |-> d]]
        /\ UNCHANGED <<keyHash, capacity>> /\ call' = Returned(i)
  BY PlaceFacts
<1>2. PICK b : b = [state |-> "OCCUPIED", kv |-> kv, probeDist |-> d]
  OBVIOUS
<1>3. b.probeDist >= DistanceTo(b.kv.key, i) /\ table' = [table EXCEPT ![i] = b]
  BY <1>1, <1>2
<1>4. CrowdedOK' /\ RetOK'
  BY <1>1, ReturnedRet DEF Place, Probing
<1> QED
  BY <1>1, <1>3, <1>4, LoopEdit

LEMMA ReallocateLoop ==
  ASSUME NEW n, NEW key, NEW rest, Reallocate(n, key, rest)
  PROVE  LoopInv' /\ Occupied' = {} /\ call'.pc # "probe"
<1>1. Occupied' = {}
  BY DEF Reallocate, EmptyTable, EmptyBucket, Occupied, BucketIdxs
<1>2. call'.pc # "probe" /\ call'.ret = None
  BY DEF Reallocate, Idle
<1> QED
  BY <1>1, <1>2, LoopNoEntries

LEMMA ProbeLoop ==
  ASSUME MapInv, LoopInv, Probe
  PROVE  /\ LoopInv' /\ UNCHANGED <<keyHash, table, size, capacity>>
         /\ \E kv \in Pairs, h \in BucketIdxs :
              /\ kv = Head(call.todo) /\ h = Home(kv.key)
              /\ call'.pc = "probe" /\ call'.kv = kv /\ call'.curr = h
              /\ call'.todo = Tail(call.todo)
              /\ DistanceTo(kv.key, h) = 0
<1>1. call \in CallType /\ call.todo \in Seq(Pairs) /\ Len(call.todo) \in Nat /\ call.pc = "next"
  BY MapFacts DEF Probe
<1>2. Len(call.todo) > 0 /\ capacity > 0
  BY <1>1 DEF MapInv, RoomOK
<1>3. call.todo # <<>>
  BY <1>1, <1>2, EmptySeq
<1>4. PICK kv \in Pairs : kv = Head(call.todo)
  BY <1>1, <1>3, HeadTailProperties
<1>5. kv.key \in Keys /\ capacity # 0
  BY <1>2 DEF Pairs
<1>6. PICK h \in BucketIdxs : h = Home(kv.key)
  BY <1>5, MapFacts, HomeType
<1>7. /\ call' = [call EXCEPT !.pc = "probe", !.kv = kv, !.todo = Tail(call.todo),
                              !.home = h, !.curr = h]
      /\ UNCHANGED <<keyHash, table, size, capacity>>
  BY <1>4, <1>6 DEF Probe
<1>8. /\ call'.pc = "probe" /\ call'.kv = kv /\ call'.curr = h /\ call'.ret = call.ret
      /\ call'.todo = Tail(call.todo)
  BY <1>1, <1>7 DEF CallType
<1>9. DistanceTo(kv.key, h) = 0
  BY <1>5, <1>6, AtHome DEF DistanceTo
<1>10. CrowdedOK'
  <2>1. DistanceTo(kv.key, h)' = 0
    BY <1>7, <1>9, SameHomes
  <2>2. Crowded(kv.key, DistanceTo(kv.key, h))'
    BY <2>1 DEF Crowded
  <2> QED
    BY <1>8, <2>2 DEF CrowdedOK
<1>11. RetOK'
  BY <1>7, <1>8 DEF LoopInv, RetOK, BucketIdxs
<1> QED
  BY <1>4, <1>6, <1>7, <1>8, <1>9, <1>10, <1>11, LoopSameTable

LEMMA LoopInit == Init => LoopInv
<1> SUFFICES ASSUME Init PROVE LoopInv
  OBVIOUS
<1>1. Occupied = {}
  BY DEF Init, EmptyTable, EmptyBucket, Occupied, BucketIdxs
<1>2. call.pc = "idle" /\ call.ret = None
  BY DEF Init, Idle
<1> QED
  BY <1>1, <1>2 DEF LoopInv, ProbeDistOK, CrowdedOK, RetOK

LEMMA LoopNext ==
  MapInv /\ LoopInv /\ [Next \/ \E i \in Occupied : EraseAt(i)]_vars => LoopInv'
<1> SUFFICES ASSUME MapInv, LoopInv, [Next \/ \E i \in Occupied : EraseAt(i)]_vars
             PROVE  LoopInv'
  OBVIOUS
<1>1. ASSUME NEW k \in Keys, NEW v \in Vals, Insert(k, v) PROVE LoopInv'
  <2>1. call'.pc = "next" /\ call'.ret = None /\ UNCHANGED <<keyHash, table, size, capacity>>
    BY <1>1 DEF Insert, Idle
  <2>2. CrowdedOK' /\ RetOK'
    BY <2>1 DEF CrowdedOK, RetOK
  <2> QED
    BY <2>1, <2>2, LoopSameTable
<1>2. ASSUME NEW n, Rehash(n) PROVE LoopInv'
  BY <1>2, ReallocateLoop DEF Rehash
<1>3. CASE Clear
  <2>1. WordMod # 0 \/ BucketIdxs = {}
    BY CapacityFacts, MapFacts, UnorderedMapAssumption
  <2>2. /\ BucketIdxs' = BucketIdxs /\ call' = Idle
        /\ \A i \in BucketIdxs : table'[i].state = "EMPTY"
    BY <1>3 DEF Clear, EmptyBucket, BucketIdxs
  <2>3. Occupied' = {} /\ call'.pc # "probe" /\ call'.ret = None
    BY <2>2 DEF Occupied, Idle
  <2> QED
    BY <2>3, LoopNoEntries
<1>4. CASE MoveFrom
  <2>1. Occupied' = {} /\ call'.pc # "probe" /\ call'.ret = None
    BY <1>4 DEF MoveFrom, Occupied, BucketIdxs, Idle
  <2> QED
    BY <2>1, LoopNoEntries
<1>5. CASE Grow
  BY <1>5, ReallocateLoop DEF Grow
<1>6. CASE Probe
  BY <1>6, ProbeLoop
<1>7. CASE KeyExists
  <2>1. /\ call.pc = "probe" /\ call.curr \in BucketIdxs /\ call' = Returned(call.curr)
        /\ UNCHANGED <<keyHash, table, size, capacity>>
    BY <1>7, ProbingFacts DEF KeyExists
  <2> QED
    BY <2>1, ReturnedRet, LoopSameTable
<1>8. CASE Steal
  BY <1>8, StealLoop
<1>9. CASE Advance
  BY <1>9, AdvanceLoop
<1>10. CASE Place
  BY <1>10, PlaceLoop
<1>11. ASSUME NEW i \in Occupied, EraseAt(i) PROVE LoopInv'
  <2>1. i \in BucketIdxs /\ table[i] \in BucketType /\ call' = Idle /\ UNCHANGED <<keyHash, capacity>>
    BY <1>11, MapFacts DEF EraseAt
  <2>2. PICK b : b = [table[i] EXCEPT !.state = "DELETED", !.kv = None]
    OBVIOUS
  <2>3. b.state # "OCCUPIED"
    <3>1. b = [state |-> "DELETED", kv |-> None, probeDist |-> table[i].probeDist]
      BY <2>1, <2>2, Erased
    <3> QED
      BY <3>1
  <2>4. table' = [table EXCEPT ![i] = b]
    BY <1>11, <2>1, <2>2, MapFacts DEF EraseAt
  <2>5. CrowdedOK' /\ RetOK'
    BY <2>1 DEF CrowdedOK, RetOK, Idle
  <2> QED
    BY <2>1, <2>3, <2>4, <2>5, LoopEdit
<1>12. CASE UNCHANGED vars
  <2>1. UNCHANGED <<keyHash, table, size, capacity, call>>
    BY <1>12 DEF vars
  <2>2. CrowdedOK' /\ RetOK'
    BY <2>1 DEF LoopInv, CrowdedOK, RetOK, Crowded, DistanceTo, Home, BucketIdxs
  <2> QED
    BY <2>1, <2>2, LoopSameTable
<1> QED
  BY <1>1, <1>2, <1>3, <1>4, <1>5, <1>6, <1>7, <1>8, <1>9, <1>10, <1>11, <1>12 DEF Next, Loop

\* The loop has passed occupied buckets only, in every state.
THEOREM MapLoopInvariant == Spec => [](MapInv /\ LoopInv)
<1>1. MapInv /\ LoopInv /\ [Next]_vars => (MapInv /\ LoopInv)'
  BY MapNext, LoopNext
<1>2. Init => MapInv /\ LoopInv
  BY MapInit, LoopInit
<1> QED
  BY <1>1, <1>2, PTL DEF Spec

\* insert() never comes back to where it began to probe, as a comment in
\* insertUtil() says of the load factor.
THEOREM MapNeverWraps == Spec => []NeverWraps
<1>1. MapInv /\ LoopInv => NeverWraps
  <2> SUFFICES ASSUME MapInv, LoopInv PROVE call.ret # capacity
    BY DEF NeverWraps
  <2>1. capacity \in Nat /\ capacity # None
    BY MapFacts, UnorderedMapAssumption
  <2>2. call.ret # None => call.ret \in 0 .. capacity - 1
    BY DEF LoopInv, RetOK, BucketIdxs
  <2> QED
    BY <2>1, <2>2
<1> QED
  BY MapLoopInvariant, <1>1, PTL

-----------------------------------------------------------------------------
(* What find() relies on.  Without erasures, the entries on the way to     *)
(* another have come at least as far as they are there: so insert() finds  *)
(* a key that is in the table before it can place or steal.                *)

NoTombstones == \A i \in BucketIdxs : table[i].state # "DELETED"

\* The n buckets from the home of k on are not to be stolen by k.
Robin(k, n) ==
  \A d \in 0 .. n - 1 : table[(Home(k) + d) % capacity].probeDist >= d

RobinOK ==
  \A i \in Occupied : Robin(table[i].kv.key, DistanceTo(table[i].kv.key, i))

CallRobinOK ==
  call.pc = "probe" => Robin(call.kv.key, DistanceTo(call.kv.key, call.curr))

\* The loop has not passed the key it carries.
NotPassed ==
  call.pc = "probe" =>
    \A i \in Occupied : table[i].kv.key = call.kv.key =>
      DistanceTo(call.kv.key, i) >= DistanceTo(call.kv.key, call.curr)

LookupInv == NoTombstones /\ RobinOK /\ CallRobinOK /\ NotPassed /\ KeysUnique

LEMMA OccupiedFacts ==
  ASSUME MapInv, NEW i \in Occupied
  PROVE  /\ i \in BucketIdxs /\ capacity # 0 /\ table[i].state = "OCCUPIED"
         /\ table[i].kv \in Pairs /\ table[i].kv.key \in Keys
         /\ table[i].probeDist \in Nat
         /\ Passable(table[i].kv.key, DistanceTo(table[i].kv.key, i))
         /\ DistanceTo(table[i].kv.key, i) \in 0 .. capacity - 1
<1>1. i \in BucketIdxs /\ capacity # 0 /\ table[i].state = "OCCUPIED"
  BY MapFacts DEF Occupied
<1>2. table[i].kv \in Pairs /\ table[i].kv.key \in Keys
  BY DEF MapInv, BucketsOK, Pairs
<1>3. table[i].probeDist \in Nat
  <2>1. table[i].probeDist \in 0 .. WordMod - 1
    BY <1>1, MapFacts DEF BucketType
  <2> QED
    BY <2>1
<1> QED
  BY <1>1, <1>2, <1>3, DistanceType DEF MapInv, PathsOK

\* An earlier bucket on the way to i.
LEMMA OnTheWay ==
  ASSUME MapInv, RobinOK, NEW i \in Occupied, NEW j \in BucketIdxs,
         DistanceTo(table[i].kv.key, j) < DistanceTo(table[i].kv.key, i)
  PROVE  table[j].state # "EMPTY" /\ table[j].probeDist >= DistanceTo(table[i].kv.key, j)
<1>1. PICK k \in Keys : k = table[i].kv.key
  BY OccupiedFacts
<1>2. capacity # 0 /\ i \in BucketIdxs
  BY OccupiedFacts
<1>3. PICK D \in 0 .. capacity - 1 : D = DistanceTo(k, i)
  BY <1>2, DistanceType
<1>4. PICK d \in 0 .. capacity - 1 : d = DistanceTo(k, j) /\ (Home(k) + d) % capacity = j
  BY <1>2, DistanceType
<1>5. d \in 0 .. D - 1
  BY <1>1, <1>3, <1>4, MapFacts
<1>6. Passable(k, D) /\ Robin(k, D)
  BY <1>1, <1>3, OccupiedFacts DEF RobinOK
<1> QED
  BY <1>1, <1>4, <1>5, <1>6 DEF Passable, Robin

\* Different buckets are at different distances.
LEMMA DistanceInjective ==
  ASSUME MapInv, NEW i \in BucketIdxs, NEW j \in BucketIdxs, NEW k \in Keys,
         DistanceTo(k, i) = DistanceTo(k, j)
  PROVE  i = j
<1>1. capacity # 0
  BY MapFacts
<1> QED
  BY <1>1, DistanceType

\* No bucket has the key of the loop's entry, if the loop may place or steal.
LEMMA NotStored ==
  ASSUME MapInv, LookupInv, Probing({"EMPTY", "OCCUPIED", "DELETED"}),
         \/ table[call.curr].state # "OCCUPIED"
         \/ /\ table[call.curr].kv.key # call.kv.key
            /\ table[call.curr].probeDist < DistanceTo(call.kv.key, call.curr)
  PROVE  \A i \in Occupied : table[i].kv.key # call.kv.key
<1> SUFFICES ASSUME NEW i \in Occupied, table[i].kv.key = call.kv.key
             PROVE  FALSE
  OBVIOUS
<1>1. PICK j \in BucketIdxs : j = call.curr
  BY ProbingFacts
<1>2. PICK k \in Keys : k = call.kv.key
  BY ProbingFacts
<1>3. capacity # 0 /\ capacity \in Nat /\ i \in BucketIdxs /\ call.pc = "probe"
  BY OccupiedFacts, ProbingFacts
<1>4. i # j
  BY <1>1 DEF Occupied
<1>5. PICK D \in 0 .. capacity - 1 : D = DistanceTo(k, i)
  BY <1>3, DistanceType
<1>6. PICK d \in 0 .. capacity - 1 : d = DistanceTo(k, j)
  BY <1>3, DistanceType
<1>7. D >= d
  BY <1>1, <1>2, <1>3, <1>5, <1>6 DEF LookupInv, NotPassed
<1>8. D # d
  BY <1>4, <1>3, <1>5, <1>6, DistanceInjective
<1>9. d < D
  BY <1>3, <1>7, <1>8
<1>10. table[j].state # "EMPTY" /\ table[j].probeDist >= d
  BY <1>2, <1>5, <1>6, <1>9, OnTheWay DEF LookupInv
<1>11. CASE table[j].state # "OCCUPIED"
  <2>1. table[j].state = "DELETED"
    BY <1>10, <1>11, MapFacts DEF BucketType
  <2> QED
    BY <2>1 DEF LookupInv, NoTombstones
<1>12. CASE table[j].state = "OCCUPIED"
  <2>1. table[j].probeDist < d
    BY <1>1, <1>2, <1>6, <1>12
  <2>2. j \in Occupied
    BY <1>12 DEF Occupied
  <2>3. PICK p \in Nat : p = table[j].probeDist
    BY <2>2, OccupiedFacts
  <2> QED
    BY <1>3, <1>6, <1>10, <2>1, <2>3
<1> QED
  BY <1>11, <1>12

\* No entry becomes easier to steal.
LEMMA RobinKept ==
  ASSUME MapInv, capacity # 0, UNCHANGED <<keyHash, capacity>>,
         \A i \in BucketIdxs : table[i].state # "EMPTY" =>
           table'[i].probeDist \in Nat /\ table'[i].probeDist >= table[i].probeDist,
         NEW k \in Keys, NEW n \in 0 .. capacity, Passable(k, n), Robin(k, n)
  PROVE  Robin(k, n)'
<1>1. ASSUME NEW d \in 0 .. n - 1
      PROVE  table'[(Home(k) + d) % capacity].probeDist >= d
  <2>1. d \in 0 .. capacity - 1
    BY MapFacts
  <2>2. PICK i \in BucketIdxs : i = (Home(k) + d) % capacity
    BY <2>1, DistanceOnWay
  <2>3. table[i].state # "EMPTY" /\ table[i].probeDist >= d
    BY <2>2 DEF Passable, Robin
  <2>4. table[i].probeDist \in 0 .. WordMod - 1
    BY MapFacts DEF BucketType
  <2>5. PICK p \in Nat : p = table[i].probeDist
    BY <2>4
  <2>6. PICK q \in Nat : q = table'[i].probeDist
    BY <2>3
  <2>7. q >= p /\ p >= d
    BY <2>3, <2>5, <2>6
  <2> QED
    BY <2>2, <2>6, <2>7
<1> QED
  BY <1>1 DEF Robin, Home

LEMMA StealLookup ==
  ASSUME MapInv, LoopInv, LookupInv, Steal
  PROVE  LookupInv'
<1>1. PICK i \in BucketIdxs, kv \in Pairs, carried \in Pairs, d \in 0 .. capacity - 1,
           next \in BucketIdxs :
        /\ i = call.curr /\ i \in Occupied /\ kv = table[i].kv /\ carried = call.kv
        /\ kv.key # carried.key /\ table[i].probeDist < d /\ d = DistanceTo(carried.key, i)
        /\ table' = [table EXCEPT ![i] = [state |-> "OCCUPIED", kv |-> carried, probeDist |-> d]]
        /\ UNCHANGED <<keyHash, capacity, size>> /\ Occupied' = Occupied
        /\ DistanceTo(kv.key, next) = DistanceTo(kv.key, i) + 1
        /\ call'.pc = "probe" /\ call'.kv = kv /\ call'.curr = next
  BY StealLoop
<1>2. /\ Probing({"OCCUPIED"}) /\ Probing({"EMPTY", "OCCUPIED", "DELETED"}) /\ call.pc = "probe"
  BY DEF Steal, Probing
<1>3. capacity \in Nat \ {0} /\ capacity # 0 /\ kv.key \in Keys /\ carried.key \in Keys
  BY <1>2, ProbingFacts DEF Pairs
<1>4. \A j \in Occupied : table[j].kv.key # carried.key
  BY <1>1, <1>2, NotStored
<1>5. PICK p \in Nat : p = table[i].probeDist
  BY <1>1, OccupiedFacts
<1>6. d \in Nat /\ p < d
  BY <1>1, <1>3, <1>5
<1>7. /\ table'[i].kv = carried /\ table'[i].probeDist = d /\ table'[i].state = "OCCUPIED"
      /\ \A j \in BucketIdxs : j # i => table'[j] = table[j]
  BY <1>1, MapFacts
<1>8. NoTombstones'
  BY <1>1, <1>7 DEF LookupInv, NoTombstones, BucketIdxs
<1>9. \A j \in BucketIdxs : table'[j].probeDist \in Nat /\ table'[j].probeDist >= table[j].probeDist
  <2> SUFFICES ASSUME NEW j \in BucketIdxs
               PROVE  table'[j].probeDist \in Nat /\ table'[j].probeDist >= table[j].probeDist
    OBVIOUS
  <2>1. CASE j = i
    BY <1>5, <1>6, <1>7, <2>1
  <2>2. CASE j # i
    <3>1. table[j].probeDist \in 0 .. WordMod - 1
      BY MapFacts DEF BucketType
    <3>2. PICK q \in Nat : q = table[j].probeDist
      BY <3>1
    <3> QED
      BY <1>7, <2>2, <3>2
  <2> QED
    BY <2>1, <2>2
<1>10. \A k \in Keys, n \in 0 .. capacity : Passable(k, n) /\ Robin(k, n) => Robin(k, n)'
  BY <1>1, <1>3, <1>9, RobinKept
<1>11. RobinOK'
  <2> SUFFICES ASSUME NEW j \in Occupied
               PROVE  Robin(table[j].kv.key, DistanceTo(table[j].kv.key, j))'
    BY <1>1 DEF RobinOK
  <2>1. PICK k \in Keys : /\ k = table'[j].kv.key
                          /\ Passable(k, DistanceTo(k, j)) /\ Robin(k, DistanceTo(k, j))
    <3>1. CASE j = i
      BY <1>1, <1>2, <1>3, <1>7, <3>1, ProbingFacts DEF LookupInv, CallRobinOK
    <3>2. CASE j # i
      BY <1>7, <3>2, OccupiedFacts DEF LookupInv, RobinOK
    <3> QED
      BY <3>1, <3>2
  <2>2. PICK n \in 0 .. capacity - 1 : n = DistanceTo(k, j)
    BY <1>3, OccupiedFacts, DistanceType
  <2>3. n \in 0 .. capacity
    BY <1>3
  <2>4. Robin(k, n)'
    BY <1>10, <2>1, <2>2, <2>3
  <2>5. n = DistanceTo(k, j)'
    BY <1>1, <2>2, SameHomes
  <2> QED
    BY <2>1, <2>4, <2>5 DEF Robin, DistanceTo, Home
<1>12. CallRobinOK'
  <2>1. PICK n \in 0 .. capacity - 1 : n = DistanceTo(kv.key, i) /\ (Home(kv.key) + n) % capacity = i
    BY <1>3, DistanceType
  <2>2. n \in 0 .. capacity /\ n \in Nat
    BY <1>3
  <2>3. Passable(kv.key, n) /\ Robin(kv.key, n)
    BY <1>1, <2>1, OccupiedFacts DEF LookupInv, RobinOK
  <2>4. Robin(kv.key, n)'
    BY <1>3, <1>10, <2>2, <2>3
  <2>5. p >= n
    BY <1>1, <1>5, <2>1 DEF LoopInv, ProbeDistOK
  <2>6. Home(kv.key)' = Home(kv.key) /\ capacity' = capacity /\ DistanceTo(kv.key, next)' = n + 1
    BY <1>1, <2>1, SameHomes
  <2>7. ASSUME NEW x \in 0 .. (n + 1) - 1
        PROVE  table'[(Home(kv.key) + x) % capacity].probeDist >= x
    <3>1. CASE x = n
      BY <1>6, <1>7, <2>1, <2>2, <2>5, <3>1
    <3>2. CASE x # n
      <4>1. x \in 0 .. n - 1
        BY <2>2, <3>2
      <4> QED
        BY <2>4, <2>6, <4>1 DEF Robin
    <3> QED
      BY <3>1, <3>2
  <2>8. Robin(kv.key, n + 1)'
    BY <2>6, <2>7 DEF Robin
  <2> QED
    BY <1>1, <2>6, <2>8 DEF CallRobinOK, Robin, DistanceTo, Home
<1>13. \A j \in Occupied : table'[j].kv.key # kv.key
  <2> SUFFICES ASSUME NEW j \in Occupied, table'[j].kv.key = kv.key
               PROVE  FALSE
    OBVIOUS
  <2>1. j # i
    BY <1>1, <1>7
  <2>2. table[j].kv.key = table[i].kv.key
    BY <1>1, <1>7, <2>1, OccupiedFacts
  <2> QED
    BY <1>1, <2>1, <2>2 DEF LookupInv, KeysUnique
<1>14. NotPassed'
  BY <1>1, <1>13 DEF NotPassed
<1>15. KeysUnique'
  <2> SUFFICES ASSUME NEW a \in Occupied, NEW b \in Occupied, table'[a].kv.key = table'[b].kv.key
               PROVE  a = b
    BY <1>1 DEF KeysUnique
  <2>1. a \in BucketIdxs /\ b \in BucketIdxs
    BY OccupiedFacts
  <2>2. CASE a # i /\ b # i
    BY <1>7, <2>1, <2>2 DEF LookupInv, KeysUnique
  <2>3. CASE a = i \/ b = i
    BY <1>4, <1>7, <2>1, <2>3
  <2> QED
    BY <2>2, <2>3
<1> QED
  BY <1>8, <1>11, <1>12, <1>14, <1>15 DEF LookupInv

LEMMA LookupSameTable ==
  ASSUME LookupInv, UNCHANGED <<keyHash, table, capacity>>, CallRobinOK', NotPassed'
  PROVE  LookupInv'
<1>1. Occupied' = Occupied
  BY DEF Occupied, BucketIdxs
<1>2. NoTombstones' /\ KeysUnique'
  BY <1>1 DEF LookupInv, NoTombstones, KeysUnique, BucketIdxs
<1>3. RobinOK'
  BY <1>1 DEF LookupInv, RobinOK, Robin, DistanceTo, Home
<1> QED
  BY <1>2, <1>3 DEF LookupInv

LEMMA NotProbing == call'.pc # "probe" => CallRobinOK' /\ NotPassed'
BY DEF CallRobinOK, NotPassed

LEMMA AdvanceLookup ==
  ASSUME MapInv, LoopInv, LookupInv, Advance
  PROVE  LookupInv'
<1>1. PICK next \in BucketIdxs :
        /\ call'.pc = "probe" /\ call'.kv = call.kv /\ call'.curr = next
        /\ DistanceTo(call.kv.key, next) = DistanceTo(call.kv.key, call.curr) + 1
  BY AdvanceLoop
<1>2. UNCHANGED <<keyHash, table, size, capacity>> /\ Probing({"OCCUPIED"}) /\ call.pc = "probe"
  BY DEF Advance, Probing
<1>3. PICK i \in BucketIdxs : i = call.curr
  BY <1>2, ProbingFacts
<1>4. PICK k \in Keys : k = call.kv.key
  BY <1>2, ProbingFacts
<1>5. capacity # 0 /\ capacity \in Nat
  BY <1>2, ProbingFacts
<1>6. PICK n \in 0 .. capacity - 1 : n = DistanceTo(k, i) /\ (Home(k) + n) % capacity = i
  BY <1>5, DistanceType
<1>7. Distance = n /\ table[i].probeDist >= n /\ table[i].kv.key # k /\ n \in Nat
  BY <1>2, <1>3, <1>4, <1>6, ProbingFacts DEF Advance
<1>8. DistanceTo(k, next) = n + 1
  BY <1>1, <1>3, <1>4, <1>6
<1>9. CallRobinOK'
  <2>1. Robin(k, n)
    BY <1>2, <1>3, <1>4, <1>6 DEF LookupInv, CallRobinOK
  <2>2. ASSUME NEW x \in 0 .. (n + 1) - 1
        PROVE  table[(Home(k) + x) % capacity].probeDist >= x
    <3>1. CASE x = n
      BY <1>6, <1>7, <3>1
    <3>2. CASE x # n
      <4>1. x \in 0 .. n - 1
        BY <1>7, <3>2
      <4> QED
        BY <2>1, <4>1 DEF Robin
    <3> QED
      BY <3>1, <3>2
  <2>3. Robin(k, n + 1)
    BY <2>2 DEF Robin
  <2> QED
    BY <1>1, <1>2, <1>4, <1>8, <2>3 DEF CallRobinOK, Robin, DistanceTo, Home
<1>10. NotPassed'
  <2>1. ASSUME NEW j \in Occupied, table[j].kv.key = k
        PROVE  DistanceTo(k, j) >= n + 1
    <3>1. j # i /\ j \in BucketIdxs
      BY <1>7, <2>1, OccupiedFacts
    <3>2. PICK D \in 0 .. capacity - 1 : D = DistanceTo(k, j)
      BY <1>5, <3>1, DistanceType
    <3>3. D >= n
      BY <1>2, <1>3, <1>4, <1>6, <2>1, <3>2 DEF LookupInv, NotPassed
    <3>4. D # n
      BY <1>6, <3>1, <3>2, DistanceInjective
    <3> QED
      BY <1>7, <3>2, <3>3, <3>4
  <2>2. Occupied' = Occupied
    BY <1>2 DEF Occupied, BucketIdxs
  <2> QED
    BY <1>1, <1>2, <1>4, <1>8, <2>1, <2>2 DEF NotPassed, DistanceTo, Home
<1> QED
  BY <1>2, <1>9, <1>10, LookupSameTable

LEMMA ReturnedIdle == \A i : call' = Returned(i) /\ MapInv => call'.pc # "probe"
<1> SUFFICES ASSUME NEW i, call' = Returned(i), MapInv PROVE call'.pc # "probe"
  OBVIOUS
<1>1. CASE call.todo = <<>>
  BY <1>1 DEF Returned, Idle
<1>2. CASE call.todo # <<>>
  <2>1. call' = [call EXCEPT !.pc = "next", !.kv = None, !.home = 0, !.curr = 0]
    BY <1>2 DEF Returned
  <2> QED
    BY <2>1, MapFacts DEF CallType
<1> QED
  BY <1>1, <1>2

LEMMA PlaceLookup ==
  ASSUME MapInv, LookupInv, Place
  PROVE  LookupInv'
<1>1. PICK i \in BucketIdxs, kv \in Pairs, d \in Nat :
        /\ i = call.curr /\ i \notin Occupied /\ kv = call.kv
        /\ table' = [table EXCEPT ![i] = [state |-> "OCCUPIED", kv |-> kv, probeDist |-> d]]
        /\ UNCHANGED <<keyHash, capacity>> /\ call' = Returned(i)
        /\ Occupied' = Occupied \cup {i}
  BY PlaceFacts
<1>2. /\ Probing({"EMPTY", "DELETED"}) /\ Probing({"EMPTY", "OCCUPIED", "DELETED"})
      /\ call.pc = "probe" /\ table[i].state # "OCCUPIED"
  BY <1>1 DEF Place, Probing, Occupied
<1>3. capacity \in Nat \ {0} /\ capacity # 0 /\ kv.key \in Keys
  BY <1>2, ProbingFacts DEF Pairs
<1>4. \A j \in Occupied : table[j].kv.key # kv.key
  BY <1>1, <1>2, NotStored
<1>5. table[i].state = "EMPTY"
  BY <1>2, MapFacts DEF LookupInv, NoTombstones, BucketType
<1>6. /\ table'[i].kv = kv /\ table'[i].state = "OCCUPIED"
      /\ \A j \in BucketIdxs : j # i => table'[j] = table[j]
  BY <1>1, MapFacts
<1>7. NoTombstones'
  BY <1>1, <1>6 DEF LookupInv, NoTombstones, BucketIdxs
<1>8. \A j \in BucketIdxs : table[j].state # "EMPTY" =>
        table'[j].probeDist \in Nat /\ table'[j].probeDist >= table[j].probeDist
  <2> SUFFICES ASSUME NEW j \in BucketIdxs, table[j].state # "EMPTY"
               PROVE  table'[j].probeDist \in Nat /\ table'[j].probeDist >= table[j].probeDist
    OBVIOUS
  <2>1. table'[j] = table[j]
    BY <1>5, <1>6
  <2>2. table[j].probeDist \in 0 .. WordMod - 1
    BY MapFacts DEF BucketType
  <2>3. PICK q \in Nat : q = table[j].probeDist
    BY <2>2
  <2> QED
    BY <2>1, <2>3
<1>9. \A k \in Keys, n \in 0 .. capacity : Passable(k, n) /\ Robin(k, n) => Robin(k, n)'
  BY <1>1, <1>3, <1>8, RobinKept
<1>10. RobinOK'
  <2> SUFFICES ASSUME NEW j \in Occupied \cup {i}
               PROVE  Robin(table[j].kv.key, DistanceTo(table[j].kv.key, j))'
    BY <1>1 DEF RobinOK
  <2>1. PICK k \in Keys : /\ k = table'[j].kv.key
                          /\ Passable(k, DistanceTo(k, j)) /\ Robin(k, DistanceTo(k, j))
    <3>1. CASE j = i
      BY <1>1, <1>2, <1>3, <1>6, <3>1, ProbingFacts DEF LookupInv, CallRobinOK
    <3>2. CASE j # i
      BY <1>6, <3>2, OccupiedFacts DEF LookupInv, RobinOK
    <3> QED
      BY <3>1, <3>2
  <2>2. PICK n \in 0 .. capacity - 1 : n = DistanceTo(k, j)
    BY <1>3, OccupiedFacts, DistanceType
  <2>3. n \in 0 .. capacity
    BY <1>3
  <2>4. Robin(k, n)'
    BY <1>9, <2>1, <2>2, <2>3
  <2>5. n = DistanceTo(k, j)'
    BY <1>1, <2>2, SameHomes
  <2> QED
    BY <2>1, <2>4, <2>5 DEF Robin, DistanceTo, Home
<1>11. CallRobinOK' /\ NotPassed'
  BY <1>1, ReturnedIdle, NotProbing
<1>12. KeysUnique'
  <2> SUFFICES ASSUME NEW a \in Occupied \cup {i}, NEW b \in Occupied \cup {i},
                      table'[a].kv.key = table'[b].kv.key
               PROVE  a = b
    BY <1>1 DEF KeysUnique
  <2>1. a \in BucketIdxs /\ b \in BucketIdxs
    BY OccupiedFacts
  <2>2. CASE a # i /\ b # i
    BY <1>6, <2>1, <2>2 DEF LookupInv, KeysUnique
  <2>3. CASE a = i \/ b = i
    BY <1>4, <1>6, <2>1, <2>3
  <2> QED
    BY <2>2, <2>3
<1> QED
  BY <1>7, <1>10, <1>11, <1>12 DEF LookupInv

LEMMA LookupNoEntries ==
  ASSUME \A i \in BucketIdxs' : table'[i].state = "EMPTY", call'.pc # "probe"
  PROVE  LookupInv'
<1>1. Occupied' = {}
  BY DEF Occupied
<1> QED
  BY <1>1, NotProbing DEF LookupInv, NoTombstones, RobinOK, KeysUnique

LEMMA ReallocateLookup ==
  ASSUME NEW n, NEW key, NEW rest, Reallocate(n, key, rest)
  PROVE  LookupInv'
<1>1. \A i \in BucketIdxs' : table'[i].state = "EMPTY"
  BY DEF Reallocate, EmptyTable, EmptyBucket, BucketIdxs
<1>2. call'.pc # "probe"
  BY DEF Reallocate, Idle
<1> QED
  BY <1>1, <1>2, LookupNoEntries

LEMMA LookupInit == Init => LookupInv
<1> SUFFICES ASSUME Init PROVE LookupInv
  OBVIOUS
<1>1. \A i \in BucketIdxs : table[i].state = "EMPTY"
  BY DEF Init, EmptyTable, EmptyBucket, BucketIdxs
<1>2. Occupied = {} /\ call.pc = "idle"
  BY <1>1 DEF Init, Idle, Occupied
<1> QED
  BY <1>1, <1>2 DEF LookupInv, NoTombstones, RobinOK, CallRobinOK, NotPassed, KeysUnique

LEMMA LookupNext == MapInv /\ LoopInv /\ LookupInv /\ [Next]_vars => LookupInv'
<1> SUFFICES ASSUME MapInv, LoopInv, LookupInv, [Next]_vars PROVE LookupInv'
  OBVIOUS
<1>1. ASSUME NEW k \in Keys, NEW v \in Vals, Insert(k, v) PROVE LookupInv'
  <2>1. call'.pc = "next" /\ UNCHANGED <<keyHash, table, size, capacity>>
    BY <1>1 DEF Insert, Idle
  <2> QED
    BY <2>1, NotProbing, LookupSameTable
<1>2. ASSUME NEW n, Rehash(n) PROVE LookupInv'
  BY <1>2, ReallocateLookup DEF Rehash
<1>3. CASE Clear
  <2>1. \A i \in BucketIdxs' : table'[i].state = "EMPTY"
    BY <1>3 DEF Clear, EmptyBucket, BucketIdxs
  <2>2. call'.pc # "probe"
    BY <1>3 DEF Clear, Idle
  <2> QED
    BY <2>1, <2>2, LookupNoEntries
<1>4. CASE MoveFrom
  <2>1. BucketIdxs' = {} /\ call'.pc # "probe"
    BY <1>4 DEF MoveFrom, BucketIdxs, Idle
  <2> QED
    BY <2>1, LookupNoEntries
<1>5. CASE Grow
  BY <1>5, ReallocateLookup DEF Grow
<1>6. CASE Probe
  <2>1. PICK kv \in Pairs, h \in BucketIdxs :
          call'.pc = "probe" /\ call'.kv = kv /\ call'.curr = h /\ DistanceTo(kv.key, h) = 0
    BY <1>6, ProbeLoop
  <2>2. UNCHANGED <<keyHash, table, size, capacity>>
    BY <1>6, ProbeLoop
  <2>3. DistanceTo(kv.key, h)' = 0
    BY <2>1, <2>2, SameHomes
  <2>4. CallRobinOK'
    <3>1. Robin(kv.key, DistanceTo(kv.key, h))'
      BY <2>3 DEF Robin
    <3> QED
      BY <2>1, <3>1 DEF CallRobinOK
  <2>5. NotPassed'
    <3>1. kv.key \in Keys /\ Occupied' = Occupied
      BY <2>2 DEF Pairs, Occupied, BucketIdxs
    <3>2. ASSUME NEW i \in Occupied PROVE DistanceTo(kv.key, i)' >= 0
      <4>1. PICK D \in 0 .. capacity - 1 : D = DistanceTo(kv.key, i)
        BY <3>1, OccupiedFacts, DistanceType
      <4>2. D \in Nat
        BY MapFacts
      <4> QED
        BY <2>2, <4>1, <4>2, SameHomes
    <3>3. \A i \in Occupied : DistanceTo(kv.key, i)' >= DistanceTo(kv.key, h)'
      BY <2>3, <3>2
    <3> QED
      BY <2>1, <3>1, <3>3 DEF NotPassed, DistanceTo, Home
  <2> QED
    BY <2>2, <2>4, <2>5, LookupSameTable
<1>7. CASE KeyExists
  <2>1. call' = Returned(call.curr) /\ UNCHANGED <<keyHash, table, size, capacity>>
    BY <1>7 DEF KeyExists
  <2> QED
    BY <2>1, ReturnedIdle, NotProbing, LookupSameTable
<1>8. CASE Steal
  BY <1>8, StealLookup
<1>9. CASE Advance
  BY <1>9, AdvanceLookup
<1>10. CASE Place
  BY <1>10, PlaceLookup
<1>11. CASE UNCHANGED vars
  <2>1. UNCHANGED <<keyHash, table, size, capacity, call>>
    BY <1>11 DEF vars
  <2>2. Occupied' = Occupied
    BY <2>1 DEF Occupied, BucketIdxs
  <2>3. CallRobinOK' /\ NotPassed'
    BY <2>1, <2>2 DEF LookupInv, CallRobinOK, NotPassed, Robin, DistanceTo, Home
  <2> QED
    BY <2>1, <2>3, LookupSameTable
<1> QED
  BY <1>1, <1>2, <1>3, <1>4, <1>5, <1>6, <1>7, <1>8, <1>9, <1>10, <1>11 DEF Next, Loop

-----------------------------------------------------------------------------
(* find() finds what is there.                                             *)

LEMMA FindsEntry ==
  ASSUME MapInv, LookupInv, NEW i \in Occupied
  PROVE  Find(table[i].kv.key) = i
<1>1. PICK k \in Keys : k = table[i].kv.key
  BY OccupiedFacts
<1>2. capacity # 0 /\ i \in BucketIdxs /\ capacity \in Nat
  BY OccupiedFacts, MapFacts
<1>3. PICK D \in 0 .. capacity - 1 : D = DistanceTo(k, i) /\ (Home(k) + D) % capacity = i
  BY <1>2, DistanceType
<1>4. Passable(k, D)
  BY <1>1, <1>3, OccupiedFacts
<1> DEFINE at(d) == Mod(Home(k) + d, capacity)
           Holds(j) == j \in Occupied /\ table[j].kv.key = k
           stops == {d \in BucketIdxs : Holds(at(d)) \/ table[at(d)].state = "EMPTY"}
           first == CHOOSE d \in stops : \A e \in stops : d <= e
<1>5. \A x : Mod(x, capacity) = x % capacity
  BY <1>2, MapFacts, CapacityFacts
<1>6. at(D) = i /\ Holds(i) /\ D \in stops
  BY <1>1, <1>2, <1>3, <1>5 DEF BucketIdxs
<1>7. ASSUME NEW d \in stops
      PROVE  D <= d
  <2> SUFFICES ASSUME d < D PROVE FALSE
    BY <1>2 DEF BucketIdxs
  <2>1. d \in 0 .. capacity - 1 /\ d \in 0 .. D - 1
    BY <1>2 DEF BucketIdxs
  <2>2. at(d) = (Home(k) + d) % capacity /\ table[at(d)].state # "EMPTY"
    BY <1>4, <1>5, <2>1 DEF Passable
  <2>3. at(d) \in Occupied /\ table[at(d)].kv.key = table[i].kv.key
    BY <1>1, <2>2
  <2>4. at(d) = i
    BY <2>3 DEF LookupInv, KeysUnique
  <2>5. DistanceTo(k, (Home(k) + d) % capacity) = d
    BY <1>2, <2>1, DistanceOnWay
  <2>6. d = D
    BY <1>3, <2>2, <2>4, <2>5
  <2> QED
    BY <2>1, <2>6
<1>8. stops \subseteq Int
  BY <1>2 DEF BucketIdxs
<1>9. first = D
  <2> HIDE DEF stops
  <2>1. D \in stops /\ \A e \in stops : D <= e
    BY <1>6, <1>7
  <2>2. first \in stops /\ \A e \in stops : first <= e
    BY <2>1
  <2>3. PICK f \in stops : f = first /\ f <= D /\ D <= f
    BY <2>1, <2>2
  <2>4. f \in Int /\ D \in Int
    BY <1>2, <1>8
  <2> QED
    BY <2>3, <2>4
<1>10. Find(k) = IF stops # {} /\ Holds(at(first)) THEN at(first) ELSE None
  BY DEF Find
<1> HIDE DEF stops, first
<1> QED
  BY <1>1, <1>6, <1>9, <1>10

LEMMA InvFindAgrees == MapInv /\ LookupInv => FindAgrees
<1> SUFFICES ASSUME MapInv, LookupInv, capacity > 0 PROVE
      /\ size = Cardinality(Occupied)
      /\ \A i \in Occupied : Find(table[i].kv.key) = i
      /\ \A k \in Keys : Find(k) # None => k \in {table[i].kv.key : i \in Occupied}
  BY DEF FindAgrees
<1>1. ASSUME NEW k \in Keys, Find(k) # None
      PROVE  k \in {table[i].kv.key : i \in Occupied}
  BY <1>1 DEF Find
<1> QED
  BY <1>1, MapFacts, FindsEntry

\* Without erasures, the entries stand in the order in which find() and
\* insert() rely on, in every state.
THEOREM MapLookupInvariant == Spec => [](MapInv /\ LoopInv /\ LookupInv)
<1>1. MapInv /\ LoopInv /\ LookupInv /\ [Next]_vars => (MapInv /\ LoopInv /\ LookupInv)'
  BY MapNext, LoopNext, LookupNext
<1>2. Init => MapInv /\ LoopInv /\ LookupInv
  BY MapInit, LoopInit, LookupInit
<1> QED
  BY <1>1, <1>2, PTL DEF Spec

\* Between calls find() finds every entry in the bucket where it is, and nothing
\* else, and _size counts the entries.
THEOREM MapFindAgrees == Spec => []FindAgrees
BY MapLookupInvariant, InvFindAgrees, PTL

-----------------------------------------------------------------------------
(* The entries in flight.  Of a sequence of entries, the first with a key  *)
(* is the one that counts.                                                 *)

KeysOf(s) == {s[n].key : n \in 1 .. Len(s)}

FirstIs(s, k, v) ==
  \E n \in 1 .. Len(s) :
    s[n] = [key |-> k, val |-> v] /\ \A m \in 1 .. n - 1 : s[m].key # k

LEMMA KeysConcat ==
  ASSUME NEW s \in Seq(Pairs), NEW t \in Seq(Pairs)
  PROVE  KeysOf(s \o t) = KeysOf(s) \cup KeysOf(t)
<1>1. PICK l \in Nat : l = Len(s)
  BY LenProperties
<1>2. PICK r \in Nat : r = Len(t)
  BY LenProperties
<1>3. /\ Len(s \o t) = l + r
      /\ \A n \in 1 .. l + r : (s \o t)[n] = IF n <= l THEN s[n] ELSE t[n - l]
  BY <1>1, <1>2, ConcatProperties
<1>4. ASSUME NEW n \in 1 .. l + r
      PROVE  (s \o t)[n].key \in KeysOf(s) \cup KeysOf(t)
  <2>1. CASE n <= l
    BY <1>1, <1>3, <2>1 DEF KeysOf
  <2>2. CASE ~(n <= l)
    <3>1. n - l \in 1 .. r /\ (s \o t)[n] = t[n - l]
      BY <1>3, <2>2
    <3> QED
      BY <1>2, <3>1 DEF KeysOf
  <2> QED
    BY <2>1, <2>2
<1>5. ASSUME NEW n \in 1 .. l
      PROVE  s[n].key \in KeysOf(s \o t)
  <2>1. n \in 1 .. l + r /\ (s \o t)[n] = s[n]
    BY <1>3
  <2> QED
    BY <1>3, <2>1 DEF KeysOf
<1>6. ASSUME NEW n \in 1 .. r
      PROVE  t[n].key \in KeysOf(s \o t)
  <2>1. PICK m \in 1 .. l + r : m = l + n /\ m - l = n /\ ~(m <= l)
    OBVIOUS
  <2>2. (s \o t)[m] = t[n]
    BY <1>3, <2>1
  <2> QED
    BY <1>3, <2>2 DEF KeysOf
<1>7. /\ \A x \in KeysOf(s \o t) : \E n \in 1 .. l + r : x = (s \o t)[n].key
      /\ \A x \in KeysOf(s) : \E n \in 1 .. l : x = s[n].key
      /\ \A x \in KeysOf(t) : \E n \in 1 .. r : x = t[n].key
  BY <1>1, <1>2, <1>3 DEF KeysOf
<1>8. ASSUME NEW x PROVE x \in KeysOf(s \o t) <=> x \in KeysOf(s) \cup KeysOf(t)
  BY <1>4, <1>5, <1>6, <1>7, Zenon
<1> QED
  BY <1>8, Zenon

LEMMA FirstConcat ==
  ASSUME NEW s \in Seq(Pairs), NEW t \in Seq(Pairs), NEW k, NEW v
  PROVE  FirstIs(s \o t, k, v) <=> FirstIs(s, k, v) \/ (k \notin KeysOf(s) /\ FirstIs(t, k, v))
<1>1. PICK l \in Nat : l = Len(s)
  BY LenProperties
<1>2. PICK r \in Nat : r = Len(t)
  BY LenProperties
<1>3. /\ Len(s \o t) = l + r
      /\ \A n \in 1 .. l + r : (s \o t)[n] = IF n <= l THEN s[n] ELSE t[n - l]
  BY <1>1, <1>2, ConcatProperties
<1>4. PICK e : e = [key |-> k, val |-> v]
  OBVIOUS
<1>5. ASSUME FirstIs(s \o t, k, v)
      PROVE  FirstIs(s, k, v) \/ (k \notin KeysOf(s) /\ FirstIs(t, k, v))
  <2>1. PICK n \in 1 .. l + r : (s \o t)[n] = e /\ \A m \in 1 .. n - 1 : (s \o t)[m].key # k
    BY <1>3, <1>4, <1>5 DEF FirstIs
  <2>2. CASE n <= l
    <3>1. n \in 1 .. l /\ s[n] = e
      BY <1>3, <2>1, <2>2
    <3>2. ASSUME NEW m \in 1 .. n - 1 PROVE s[m].key # k
      <4>1. m \in 1 .. l + r /\ m <= l
        BY <2>2
      <4> QED
        BY <1>3, <2>1, <4>1
    <3> QED
      BY <1>1, <1>4, <3>1, <3>2 DEF FirstIs
  <2>3. CASE n > l
    <3>1. PICK p \in 1 .. r : p = n - l
      BY <2>3
    <3>2. t[p] = e
      BY <1>3, <2>1, <2>3, <3>1
    <3>3. ASSUME NEW m \in 1 .. p - 1 PROVE t[m].key # k
      <4>1. PICK q \in 1 .. n - 1 : q = l + m /\ q - l = m /\ q \in 1 .. l + r /\ ~(q <= l)
        BY <3>1
      <4> QED
        BY <1>3, <2>1, <4>1
    <3>4. ASSUME NEW m \in 1 .. l PROVE s[m].key # k
      <4>1. m \in 1 .. n - 1 /\ m \in 1 .. l + r /\ m <= l
        BY <2>3
      <4> QED
        BY <1>3, <2>1, <4>1
    <3>5. k \notin KeysOf(s)
      BY <1>1, <3>4 DEF KeysOf
    <3> QED
      BY <1>2, <1>4, <3>2, <3>3, <3>5 DEF FirstIs
  <2> QED
    BY <2>2, <2>3
<1>6. ASSUME FirstIs(s, k, v)
      PROVE  FirstIs(s \o t, k, v)
  <2>1. PICK n \in 1 .. l : s[n] = e /\ \A m \in 1 .. n - 1 : s[m].key # k
    BY <1>1, <1>4, <1>6 DEF FirstIs
  <2>2. n \in 1 .. l + r /\ (s \o t)[n] = e
    BY <1>3, <2>1
  <2>3. ASSUME NEW m \in 1 .. n - 1 PROVE (s \o t)[m].key # k
    <3>1. m \in 1 .. l + r /\ m <= l
      OBVIOUS
    <3> QED
      BY <1>3, <2>1, <3>1
  <2> QED
    BY <1>3, <1>4, <2>2, <2>3 DEF FirstIs
<1>7. ASSUME k \notin KeysOf(s), FirstIs(t, k, v)
      PROVE  FirstIs(s \o t, k, v)
  <2>1. PICK p \in 1 .. r : t[p] = e /\ \A m \in 1 .. p - 1 : t[m].key # k
    BY <1>2, <1>4, <1>7 DEF FirstIs
  <2>2. PICK n \in 1 .. l + r : n = l + p /\ n - l = p /\ ~(n <= l)
    OBVIOUS
  <2>3. (s \o t)[n] = e
    BY <1>3, <2>1, <2>2
  <2>4. ASSUME NEW m \in 1 .. n - 1 PROVE (s \o t)[m].key # k
    <3>1. CASE m <= l
      <4>1. m \in 1 .. l /\ m \in 1 .. l + r
        BY <3>1
      <4> QED
        BY <1>1, <1>3, <1>7, <3>1, <4>1 DEF KeysOf
    <3>2. CASE ~(m <= l)
      <4>1. PICK q \in 1 .. p - 1 : q = m - l
        BY <2>2, <3>2
      <4>2. m \in 1 .. l + r /\ ~(m <= l)
        BY <3>2
      <4> QED
        BY <1>3, <2>1, <4>1, <4>2
    <3> QED
      BY <3>1, <3>2
  <2> QED
    BY <1>3, <1>4, <2>3, <2>4 DEF FirstIs
<1> QED
  BY <1>5, <1>6, <1>7

LEMMA OneEntry ==
  ASSUME NEW x \in Pairs
  PROVE  /\ <<x>> \in Seq(Pairs) /\ KeysOf(<<x>>) = {x.key}
         /\ \A k, v : FirstIs(<<x>>, k, v) <=> x = [key |-> k, val |-> v]
<1>1. Len(<<x>>) = 1 /\ <<x>>[1] = x /\ 1 .. 1 = {1} /\ 1 .. 0 = {} /\ 1 - 1 = 0
  OBVIOUS
<1> QED
  BY <1>1 DEF KeysOf, FirstIs

LEMMA NoEntry ==
  <<>> \in Seq(Pairs) /\ KeysOf(<<>>) = {} /\ \A k, v : ~FirstIs(<<>>, k, v)
<1>1. Len(<<>>) = 0 /\ 1 .. 0 = {}
  OBVIOUS
<1> QED
  BY <1>1 DEF KeysOf, FirstIs

LEMMA FirstExists ==
  ASSUME NEW s \in Seq(Pairs), NEW k
  PROVE  /\ k \in KeysOf(s) => \E v \in Vals : FirstIs(s, k, v)
         /\ \A v : FirstIs(s, k, v) => k \in KeysOf(s) /\ k \in Keys /\ v \in Vals
<1>1. PICK l \in Nat : l = Len(s)
  BY LenProperties
<1>2. \A n \in 1 .. l : s[n] \in Pairs
  BY <1>1, ElementOfSeq
<1>3. ASSUME k \in KeysOf(s)
      PROVE  \E v \in Vals : FirstIs(s, k, v)
  <2> DEFINE S == {n \in 1 .. l : s[n].key = k}
  <2>1. S # {} /\ S \subseteq Nat
    BY <1>1, <1>3 DEF KeysOf
  <2>2. PICK n \in S : \A m \in S : n <= m
    <3> HIDE DEF S
    <3> QED
      BY <2>1, Least
  <2>3. n \in 1 .. l /\ s[n].key = k /\ s[n] \in Pairs
    BY <1>2
  <2>4. PICK v \in Vals : s[n] = [key |-> k, val |-> v]
    BY <2>3 DEF Pairs
  <2>5. ASSUME NEW m \in 1 .. n - 1 PROVE s[m].key # k
    <3>1. m \in 1 .. l /\ ~(n <= m)
      BY <2>3
    <3> QED
      BY <2>2, <3>1
  <2> QED
    BY <1>1, <2>3, <2>4, <2>5 DEF FirstIs
<1>4. ASSUME NEW v, FirstIs(s, k, v)
      PROVE  k \in KeysOf(s) /\ k \in Keys /\ v \in Vals
  <2>1. PICK n \in 1 .. l : s[n] = [key |-> k, val |-> v]
    BY <1>1, <1>4 DEF FirstIs
  <2>2. [key |-> k, val |-> v] \in Pairs /\ s[n].key = k
    BY <1>2, <2>1
  <2>3. k \in Keys /\ v \in Vals
    BY <2>2 DEF Pairs
  <2> QED
    BY <1>1, <2>2, <2>3 DEF KeysOf
<1> QED
  BY <1>3, <1>4

LEMMA FirstUnique ==
  ASSUME NEW s, NEW k, NEW v, NEW w, FirstIs(s, k, v), FirstIs(s, k, w), Len(s) \in Nat
  PROVE  v = w
<1>1. PICK n \in 1 .. Len(s) : s[n] = [key |-> k, val |-> v] /\ \A m \in 1 .. n - 1 : s[m].key # k
  BY DEF FirstIs
<1>2. PICK p \in 1 .. Len(s) : s[p] = [key |-> k, val |-> w] /\ \A m \in 1 .. p - 1 : s[m].key # k
  BY DEF FirstIs
<1>3. s[n].key = k /\ s[p].key = k
  BY <1>1, <1>2
<1>4. ~(n < p) /\ ~(p < n)
  BY <1>1, <1>2, <1>3
<1>5. n = p
  BY <1>4
<1>6. [key |-> k, val |-> v].val = [key |-> k, val |-> w].val
  BY <1>1, <1>2, <1>5
<1> QED
  BY <1>6

StoredKeys == {table[i].kv.key : i \in Occupied}

\* Bucket by bucket, every entry of the table is met once.
LEMMA EntriesKeys ==
  ASSUME MapInv
  PROVE  /\ KeysOf(Entries) = StoredKeys
         /\ \A n \in 1 .. Len(Entries) : \E i \in Occupied : Entries[n] = table[i].kv
         /\ \A i \in Occupied : \E n \in 1 .. Len(Entries) : Entries[n] = table[i].kv
         /\ KeysUnique =>
              \A n, m \in 1 .. Len(Entries) : Entries[n].key = Entries[m].key => n = m
<1>1. PICK n \in Nat : n = Cardinality(Occupied) /\ n = size
  BY MapFacts
<1>2. PICK nth \in [1 .. n -> Occupied] :
        /\ \A i, j \in 1 .. n : i < j => nth[i] < nth[j]
        /\ Entries = [i \in 1 .. n |-> table[nth[i]].kv]
  BY <1>1, EntriesInOrder
<1>5. \A i \in Occupied : i \in Nat
  BY OccupiedFacts DEF BucketIdxs
<1>6. \A i, j \in 1 .. n : nth[i] = nth[j] => i = j
  <2> SUFFICES ASSUME NEW i \in 1 .. n, NEW j \in 1 .. n, nth[i] = nth[j]
               PROVE  i = j
    OBVIOUS
  <2>1. nth[i] \in Nat /\ nth[j] \in Nat
    BY <1>5
  <2>2. ~(i < j) /\ ~(j < i)
    BY <1>2, <2>1
  <2> QED
    BY <2>2
<1> DEFINE R == {nth[i] : i \in 1 .. n}
<1>7. R = Occupied
  <2>1. R \subseteq Occupied
    OBVIOUS
  <2>2. nth \in [1 .. n -> R]
    OBVIOUS
  <2>3. \A r \in R : \E i \in 1 .. n : nth[i] = r
    OBVIOUS
  <2> HIDE DEF R
  <2>4. nth \in Bijection(1 .. n, R)
    BY <1>6, <2>2, <2>3 DEF Bijection, Injection, Surjection, IsInjective
  <2>5. ExistsBijection(1 .. n, R)
    BY <2>4 DEF ExistsBijection
  <2>6. IsFiniteSet(1 .. n) /\ Cardinality(1 .. n) = n
    BY FS_Interval
  <2>7. Cardinality(R) = n
    BY <2>5, <2>6, FS_Bijection
  <2> QED
    BY <1>1, <2>1, <2>7, MapFacts, FS_Subset
<1>8. Len(Entries) = n /\ \A i \in 1 .. n : nth[i] \in Occupied /\ Entries[i] = table[nth[i]].kv
  BY <1>2
<1>9. \A i \in Occupied : \E m \in 1 .. n : Entries[m] = table[i].kv
  BY <1>7, <1>8
<1>10. ASSUME KeysUnique
       PROVE  \A i, m \in 1 .. n : Entries[i].key = Entries[m].key => i = m
  BY <1>6, <1>8, <1>10 DEF KeysUnique
<1>11. KeysOf(Entries) = StoredKeys
  BY <1>8, <1>9 DEF KeysOf, StoredKeys
<1> QED
  BY <1>8, <1>9, <1>10, <1>11

InFlightOK ==
  /\ InFlight \in Seq(Pairs) /\ call.todo \in Seq(Pairs)
  /\ call.pc = "probe" => /\ call.kv \in Pairs
                          /\ InFlight = <<call.kv>> \o call.todo
                          /\ KeysOf(InFlight) = {call.kv.key} \cup KeysOf(call.todo)
  /\ call.pc # "probe" => InFlight = call.todo
  /\ HeldKeys = StoredKeys \cup KeysOf(InFlight)

LEMMA InFlightFacts == MapInv => InFlightOK
<1> SUFFICES ASSUME MapInv PROVE InFlightOK
  OBVIOUS
<1>1. call.todo \in Seq(Pairs)
  BY MapFacts
<1>2. CASE call.pc = "probe"
  <2>1. call.kv \in Pairs /\ InFlight = <<call.kv>> \o call.todo
    BY <1>2 DEF InFlight, MapInv, ProbeOK
  <2>2. PICK one \in Seq(Pairs) : one = <<call.kv>> /\ KeysOf(one) = {call.kv.key}
    BY <2>1, OneEntry
  <2>3. InFlight \in Seq(Pairs)
    BY <1>1, <2>1, <2>2, ConcatProperties
  <2>4. KeysOf(InFlight) = {call.kv.key} \cup KeysOf(call.todo)
    BY <1>1, <2>1, <2>2, KeysConcat
  <2>5. HeldKeys = StoredKeys \cup KeysOf(InFlight)
    BY <2>3 DEF HeldKeys, Held, StoredKeys, KeysOf
  <2> QED
    BY <1>1, <1>2, <2>1, <2>3, <2>4, <2>5 DEF InFlightOK
<1>3. CASE call.pc # "probe"
  <2>1. InFlight = <<>> \o call.todo
    BY <1>3 DEF InFlight
  <2>2. InFlight = call.todo
    BY <1>1, <2>1
  <2>3. HeldKeys = StoredKeys \cup KeysOf(InFlight)
    BY <1>1, <2>2 DEF HeldKeys, Held, StoredKeys, KeysOf
  <2> QED
    BY <1>1, <1>3, <2>2, <2>3 DEF InFlightOK
<1> QED
  BY <1>2, <1>3

LEMMA InFlightNext == MapInv' => InFlightOK'
BY InFlightFacts, PTL

LEMMA ReturnedTodo ==
  ASSUME MapInv, NEW i, call' = Returned(i)
  PROVE  /\ call'.todo = call.todo /\ call'.pc # "probe"
         /\ call'.pc = "idle" => call.todo = <<>>
         /\ call'.pc \in {"idle", "next"}
<1>1. CASE call.todo = <<>>
  BY <1>1 DEF Returned, Idle
<1>2. CASE call.todo # <<>>
  <2>1. call' = [call EXCEPT !.pc = "next", !.kv = None, !.home = 0, !.curr = 0]
    BY <1>2 DEF Returned
  <2> QED
    BY <2>1, MapFacts DEF CallType
<1> QED
  BY <1>1, <1>2

LEMMA SameStored ==
  ASSUME UNCHANGED <<table, capacity>>
  PROVE  Occupied' = Occupied /\ StoredKeys' = StoredKeys
BY DEF Occupied, BucketIdxs, StoredKeys

\* What a step of the loop does to the entries.
LEMMA StealEntries ==
  ASSUME MapInv, LoopInv, Steal
  PROVE  \E i \in Occupied, kv \in Pairs, carried \in Pairs :
           /\ call.pc = "probe" /\ kv = table[i].kv /\ carried = call.kv /\ kv.key # carried.key
           /\ call'.pc = "probe" /\ call'.kv = kv /\ call'.todo = call.todo
           /\ Occupied' = Occupied /\ table'[i].kv = carried
           /\ \A j \in Occupied : j # i => table'[j].kv = table[j].kv
<1>1. PICK i \in BucketIdxs, kv \in Pairs, carried \in Pairs, d \in 0 .. capacity - 1 :
        /\ i = call.curr /\ i \in Occupied /\ kv = table[i].kv /\ carried = call.kv
        /\ kv.key # carried.key
        /\ table' = [table EXCEPT ![i] = [state |-> "OCCUPIED", kv |-> carried, probeDist |-> d]]
        /\ Occupied' = Occupied
        /\ call'.pc = "probe" /\ call'.kv = kv /\ call'.todo = call.todo
  BY StealLoop
<1>2. table'[i].kv = carried /\ \A j \in Occupied : j # i => table'[j].kv = table[j].kv
  BY <1>1, MapFacts
<1>3. call.pc = "probe"
  BY DEF Steal, Probing
<1> QED
  BY <1>1, <1>2, <1>3

LEMMA PlaceEntries ==
  ASSUME MapInv, Place
  PROVE  \E i \in BucketIdxs, kv \in Pairs :
           /\ call.pc = "probe" /\ i \notin Occupied /\ kv = call.kv
           /\ call'.pc \in {"idle", "next"} /\ call'.todo = call.todo
           /\ Occupied' = Occupied \cup {i} /\ table'[i].kv = kv
           /\ \A j \in Occupied : table'[j].kv = table[j].kv
<1>1. PICK i \in BucketIdxs, kv \in Pairs, d \in Nat :
        /\ i \notin Occupied /\ kv = call.kv
        /\ table' = [table EXCEPT ![i] = [state |-> "OCCUPIED", kv |-> kv, probeDist |-> d]]
        /\ call' = Returned(i) /\ Occupied' = Occupied \cup {i}
  BY PlaceFacts
<1>2. table'[i].kv = kv /\ \A j \in Occupied : table'[j].kv = table[j].kv
  BY <1>1, MapFacts
<1>3. call.pc = "probe"
  BY DEF Place, Probing
<1> QED
  BY <1>1, <1>2, <1>3, ReturnedTodo

LEMMA ReallocateEntries ==
  ASSUME MapInv, NEW n, NEW key, NEW rest \in Seq(Pairs), Reallocate(n, key, rest)
  PROVE  /\ Occupied' = {} /\ call'.pc \in {"idle", "next"} /\ call'.todo = Entries \o rest
         /\ call'.pc = "idle" => Entries \o rest = <<>>
<1>1. Occupied' = {}
  BY ReallocateLoop
<1>2. call' = IF Entries \o rest = <<>> THEN Idle
              ELSE [Idle EXCEPT !.pc = "next", !.todo = Entries \o rest, !.key = key]
  BY DEF Reallocate
<1> QED
  BY <1>1, <1>2 DEF Idle

LEMMA LoopKeepsKeys ==
  ASSUME MapInv, LoopInv, MapInv', Loop
  PROVE  HeldKeys \subseteq HeldKeys'
<1>1. InFlightOK /\ InFlightOK'
  BY InFlightFacts, InFlightNext
<1>2. /\ HeldKeys = StoredKeys \cup KeysOf(InFlight)
      /\ HeldKeys' = StoredKeys' \cup KeysOf(InFlight)'
      /\ call.todo \in Seq(Pairs)
      /\ call.pc = "probe" => KeysOf(InFlight) = {call.kv.key} \cup KeysOf(call.todo)
      /\ call'.pc = "probe" => KeysOf(InFlight)' = {call'.kv.key} \cup KeysOf(call'.todo)
      /\ call.pc # "probe" => KeysOf(InFlight) = KeysOf(call.todo)
      /\ call'.pc # "probe" => KeysOf(InFlight)' = KeysOf(call'.todo)
  BY <1>1 DEF InFlightOK, KeysOf
<1>3. CASE Grow
  <2>1. call.pc = "next" /\ Reallocate(2 * capacity, call.key, call.todo)
    BY <1>3 DEF Grow
  <2>2. call'.pc # "probe" /\ call'.todo = Entries \o call.todo
    BY <1>2, <2>1, ReallocateEntries
  <2>3. KeysOf(Entries \o call.todo) = StoredKeys \cup KeysOf(call.todo)
    BY <1>2, EntriesFacts, EntriesKeys, KeysConcat
  <2> QED
    BY <1>2, <2>1, <2>2, <2>3
<1>4. CASE Probe
  <2>1. PICK kv \in Pairs : /\ kv = Head(call.todo) /\ call'.pc = "probe" /\ call'.kv = kv
                            /\ call'.todo = Tail(call.todo)
    BY <1>4, ProbeLoop
  <2>2. call.pc = "next" /\ call.todo # <<>>
    BY <1>4, EmptySeq DEF Probe, MapInv, RoomOK
  <2>3. PICK rest \in Seq(Pairs) : rest = Tail(call.todo) /\ call.todo = <<kv>> \o rest
    <3>1. call.todo = <<Head(call.todo)>> \o Tail(call.todo)
      BY <1>2, <2>2
    <3> QED
      BY <1>2, <2>1, <2>2, <3>1, HeadTailProperties
  <2>4. PICK one \in Seq(Pairs) : one = <<kv>> /\ KeysOf(one) = {kv.key}
    BY OneEntry
  <2>5. KeysOf(call.todo) = {kv.key} \cup KeysOf(rest)
    BY <2>3, <2>4, KeysConcat
  <2>6. StoredKeys' = StoredKeys
    BY <1>4, SameStored DEF Probe
  <2> QED
    BY <1>2, <2>1, <2>2, <2>3, <2>5, <2>6
<1>5. CASE KeyExists
  <2>1. call'.todo = call.todo /\ call'.pc # "probe" /\ call.pc = "probe"
    BY <1>5, ReturnedTodo DEF KeyExists, Probing
  <2>2. StoredKeys' = StoredKeys
    BY <1>5, SameStored DEF KeyExists
  <2>3. call.kv.key \in StoredKeys
    <3>1. Probing({"OCCUPIED"}) /\ table[call.curr].kv.key = call.kv.key
      BY <1>5 DEF KeyExists
    <3>2. call.curr \in Occupied
      BY <3>1, ProbingFacts DEF Occupied
    <3> QED
      BY <3>1, <3>2 DEF StoredKeys
  <2> QED
    BY <1>2, <2>1, <2>2, <2>3
<1>6. CASE Steal
  <2>1. PICK i \in Occupied, kv \in Pairs, carried \in Pairs :
          /\ call.pc = "probe" /\ kv = table[i].kv /\ carried = call.kv
          /\ call'.pc = "probe" /\ call'.kv = kv /\ call'.todo = call.todo
          /\ Occupied' = Occupied /\ table'[i].kv = carried
          /\ \A j \in Occupied : j # i => table'[j].kv = table[j].kv
    BY <1>6, StealEntries
  <2>2. carried.key \in StoredKeys'
    BY <2>1 DEF StoredKeys
  <2>3. StoredKeys \subseteq StoredKeys' \cup {kv.key}
    BY <2>1 DEF StoredKeys
  <2> QED
    BY <1>2, <2>1, <2>2, <2>3
<1>7. CASE Advance
  <2>1. call'.pc = "probe" /\ call.pc = "probe" /\ call'.kv = call.kv /\ call'.todo = call.todo
    BY <1>7, AdvanceLoop DEF Advance, Probing
  <2>2. StoredKeys' = StoredKeys
    BY <1>7, SameStored DEF Advance
  <2> QED
    BY <1>2, <2>1, <2>2
<1>8. CASE Place
  <2>1. PICK i \in BucketIdxs, kv \in Pairs :
          /\ call.pc = "probe" /\ kv = call.kv
          /\ call'.pc \in {"idle", "next"} /\ call'.todo = call.todo
          /\ Occupied' = Occupied \cup {i} /\ table'[i].kv = kv
          /\ \A j \in Occupied : table'[j].kv = table[j].kv
    BY <1>8, PlaceEntries
  <2>2. StoredKeys \cup {kv.key} \subseteq StoredKeys'
    BY <2>1 DEF StoredKeys
  <2> QED
    BY <1>2, <2>1, <2>2
<1> QED
  BY <1>3, <1>4, <1>5, <1>6, <1>7, <1>8 DEF Loop

LEMMA CallKeepsKeys ==
  MapInv /\ LoopInv /\ MapInv' /\ [Next]_vars => [call.pc # "idle" => HeldKeys \subseteq HeldKeys']_vars
<1> SUFFICES ASSUME MapInv, LoopInv, MapInv', Next, call.pc # "idle"
             PROVE  HeldKeys \subseteq HeldKeys'
  OBVIOUS
<1>1. Loop
  BY DEF Next, Insert, Rehash, Clear, MoveFrom
<1> QED
  BY <1>1, LoopKeepsKeys

\* A call of insert() or rehash() loses no key, whatever it displaces and
\* rebuilds.
THEOREM MapNothingLost == Spec => NothingLost
<1>1. MapInv /\ [Next]_vars => MapInv'
  BY MapNext
<1> QED
  BY MapLoopInvariant, CallKeepsKeys, <1>1, PTL DEF Spec, NothingLost

-----------------------------------------------------------------------------
(* The refinement: what the table promises is a dictionary.  Has(k, v)     *)
(* says where the value of a key is, in the table or waiting.              *)

Stored(k, v) == \E i \in Occupied : table[i].kv = [key |-> k, val |-> v]

Has(k, v) == Stored(k, v) \/ (k \notin StoredKeys /\ FirstIs(InFlight, k, v))

ContentsOK ==
  /\ HeldKeys \subseteq Keys
  /\ Contents = [k \in HeldKeys |-> Contents[k]]
  /\ \A k \in HeldKeys : Contents[k] \in Vals /\ Has(k, Contents[k])
  /\ \A k, v : Has(k, v) => k \in HeldKeys /\ v = Contents[k]

LEMMA StoredFacts ==
  ASSUME MapInv
  PROVE  /\ \A k, v : Stored(k, v) => k \in StoredKeys /\ k \in Keys /\ v \in Vals
         /\ \A k \in StoredKeys : k \in Keys /\ \E v \in Vals : Stored(k, v)
         /\ KeysUnique => \A k, v, w : Stored(k, v) /\ Stored(k, w) => v = w
<1>1. ASSUME NEW k, NEW v, Stored(k, v)
      PROVE  k \in StoredKeys /\ k \in Keys /\ v \in Vals
  <2>1. PICK i \in Occupied : table[i].kv = [key |-> k, val |-> v]
    BY <1>1 DEF Stored
  <2>2. [key |-> k, val |-> v] \in Pairs /\ table[i].kv.key = k
    BY <2>1, OccupiedFacts
  <2>3. k \in Keys /\ v \in Vals
    BY <2>2 DEF Pairs
  <2> QED
    BY <2>2, <2>3 DEF StoredKeys
<1>2. ASSUME NEW k \in StoredKeys
      PROVE  k \in Keys /\ \E v \in Vals : Stored(k, v)
  <2>1. PICK i \in Occupied : table[i].kv.key = k
    BY DEF StoredKeys
  <2>2. table[i].kv \in Pairs
    BY OccupiedFacts
  <2>3. PICK v \in Vals : table[i].kv = [key |-> k, val |-> v]
    BY <2>1, <2>2 DEF Pairs
  <2> QED
    BY <2>1, <2>2, <2>3 DEF Stored, Pairs
<1>3. ASSUME KeysUnique, NEW k, NEW v, NEW w, Stored(k, v), Stored(k, w)
      PROVE  v = w
  <2>1. PICK i \in Occupied : table[i].kv = [key |-> k, val |-> v]
    BY <1>3 DEF Stored
  <2>2. PICK j \in Occupied : table[j].kv = [key |-> k, val |-> w]
    BY <1>3 DEF Stored
  <2>3. table[i].kv.key = k /\ table[j].kv.key = k
    BY <2>1, <2>2
  <2>4. i = j
    BY <1>3, <2>3 DEF KeysUnique
  <2>5. [key |-> k, val |-> v].val = [key |-> k, val |-> w].val
    BY <2>1, <2>2, <2>4
  <2> QED
    BY <2>5
<1> QED
  BY <1>1, <1>2, <1>3

LEMMA HasFacts ==
  ASSUME MapInv, KeysUnique
  PROVE  /\ HeldKeys \subseteq Keys
         /\ \A k \in HeldKeys : \E v \in Vals : Has(k, v)
         /\ \A k, v : Has(k, v) => k \in HeldKeys
         /\ \A k, v, w : Has(k, v) /\ Has(k, w) => v = w
<1>1. InFlight \in Seq(Pairs) /\ HeldKeys = StoredKeys \cup KeysOf(InFlight)
  BY InFlightFacts DEF InFlightOK
<1>2. Len(InFlight) \in Nat
  BY <1>1, LenProperties
<1>3. \A k \in KeysOf(InFlight) : k \in Keys /\ \E v \in Vals : FirstIs(InFlight, k, v)
  BY <1>1, FirstExists
<1>4. \A k, v : FirstIs(InFlight, k, v) => k \in KeysOf(InFlight)
  BY <1>1, FirstExists
<1>5. \A k, v, w : FirstIs(InFlight, k, v) /\ FirstIs(InFlight, k, w) => v = w
  BY <1>2, FirstUnique
<1>6. HeldKeys \subseteq Keys
  BY <1>1, <1>3, StoredFacts
<1>7. ASSUME NEW k \in HeldKeys PROVE \E v \in Vals : Has(k, v)
  <2>1. CASE k \in StoredKeys
    BY <2>1, StoredFacts DEF Has
  <2>2. CASE k \notin StoredKeys
    BY <1>1, <1>3, <2>2 DEF Has
  <2> QED
    BY <2>1, <2>2
<1>8. \A k, v : Has(k, v) => k \in HeldKeys
  BY <1>1, <1>4, StoredFacts DEF Has
<1>9. ASSUME NEW k, NEW v, NEW w, Has(k, v), Has(k, w) PROVE v = w
  <2>1. CASE k \in StoredKeys
    BY <1>9, <2>1, StoredFacts DEF Has
  <2>2. CASE k \notin StoredKeys
    BY <1>5, <1>9, <2>2, StoredFacts DEF Has
  <2> QED
    BY <2>1, <2>2
<1> QED
  BY <1>6, <1>7, <1>8, <1>9

LEMMA ContentsFacts == MapInv /\ KeysUnique => ContentsOK
<1> SUFFICES ASSUME MapInv, KeysUnique PROVE ContentsOK
  OBVIOUS
<1> DEFINE stored(k) == {i \in Occupied : table[i].kv.key = k}
           waiting(k) == {n \in DOMAIN InFlight : InFlight[n].key = k}
           value(k) == IF stored(k) # {} THEN table[CHOOSE i \in stored(k) : TRUE].kv.val
                       ELSE InFlight[CHOOSE n \in waiting(k) : \A m \in waiting(k) : n <= m].val
<1>1. Contents = [k \in HeldKeys |-> value(k)]
  BY DEF Contents
<1>2. InFlight \in Seq(Pairs) /\ HeldKeys = StoredKeys \cup KeysOf(InFlight)
  BY InFlightFacts DEF InFlightOK
<1>3. PICK l \in Nat : l = Len(InFlight) /\ DOMAIN InFlight = 1 .. l
  BY <1>2, LenProperties
<1>4. ASSUME NEW k \in HeldKeys
      PROVE  Has(k, value(k))
  <2>1. CASE stored(k) # {}
    <3>1. PICK i \in stored(k) : i = CHOOSE j \in stored(k) : TRUE
      BY <2>1
    <3>2. i \in Occupied /\ table[i].kv.key = k /\ table[i].kv \in Pairs
      BY OccupiedFacts
    <3>3. table[i].kv = [key |-> k, val |-> table[i].kv.val]
      BY <3>2 DEF Pairs
    <3>4. value(k) = table[i].kv.val
      BY <2>1, <3>1
    <3> HIDE DEF value
    <3>5. table[i].kv = [key |-> k, val |-> value(k)]
      BY <3>3, <3>4
    <3> QED
      BY <3>2, <3>5 DEF Has, Stored
  <2>2. CASE stored(k) = {}
    <3>1. k \notin StoredKeys /\ k \in KeysOf(InFlight)
      BY <1>2, <2>2 DEF StoredKeys
    <3>2. waiting(k) # {} /\ waiting(k) \subseteq Nat
      BY <1>3, <3>1 DEF KeysOf
    <3>3. \E n \in waiting(k) : \A m \in waiting(k) : n <= m
      <4> HIDE DEF waiting
      <4> QED
        BY <3>2, Least
    <3>4. PICK n \in waiting(k) : /\ n = CHOOSE x \in waiting(k) : \A m \in waiting(k) : x <= m
                                  /\ \A m \in waiting(k) : n <= m
      <4> HIDE DEF waiting
      <4> QED
        BY <3>3
    <3>5. n \in 1 .. l /\ InFlight[n].key = k /\ InFlight[n] \in Pairs
      BY <1>2, <1>3, ElementOfSeq
    <3>6. InFlight[n] = [key |-> k, val |-> InFlight[n].val]
      BY <3>5 DEF Pairs
    <3>7. value(k) = InFlight[n].val
      BY <2>2, <3>4
    <3>8. ASSUME NEW m \in 1 .. n - 1 PROVE InFlight[m].key # k
      <4>1. m \in 1 .. l /\ ~(n <= m)
        BY <3>5
      <4> QED
        BY <1>3, <3>4, <4>1
    <3> HIDE DEF value
    <3>9. FirstIs(InFlight, k, value(k))
      BY <1>3, <3>5, <3>6, <3>7, <3>8 DEF FirstIs
    <3> QED
      BY <3>1, <3>9 DEF Has
  <2> QED
    BY <2>1, <2>2
<1> HIDE DEF value
<1>5. \A k \in HeldKeys : Contents[k] = value(k)
  BY <1>1
<1>6. Contents = [k \in HeldKeys |-> Contents[k]]
  BY <1>1
<1>7. \A k \in HeldKeys : Contents[k] \in Vals /\ Has(k, Contents[k])
  <2> SUFFICES ASSUME NEW k \in HeldKeys PROVE Contents[k] \in Vals /\ Has(k, Contents[k])
    OBVIOUS
  <2>1. Has(k, Contents[k])
    BY <1>4, <1>5
  <2>2. PICK v \in Vals : Has(k, v)
    BY HasFacts
  <2>3. v = Contents[k]
    BY <2>1, <2>2, HasFacts
  <2> QED
    BY <2>1, <2>3
<1>8. \A k, v : Has(k, v) => k \in HeldKeys /\ v = Contents[k]
  BY <1>7, HasFacts
<1> QED
  BY <1>6, <1>7, <1>8, HasFacts DEF ContentsOK

LEMMA ContentsNext == MapInv' /\ KeysUnique' => ContentsOK'
BY ContentsFacts, PTL

LEMMA SameContents ==
  ASSUME ContentsOK, ContentsOK', \A k, v : Has(k, v)' <=> Has(k, v)
  PROVE  Contents' = Contents
<1>1. HeldKeys' = HeldKeys
  BY DEF ContentsOK
<1>2. \A k \in HeldKeys : Contents'[k] = Contents[k]
  BY <1>1 DEF ContentsOK
<1>3. /\ Contents = [k \in HeldKeys |-> Contents[k]]
      /\ Contents' = [k \in HeldKeys' |-> Contents'[k]]
  BY DEF ContentsOK
<1> QED
  BY <1>1, <1>2, <1>3

\* Where the first entry in flight is, in the middle of the loop.
LEMMA FirstInFlight ==
  ASSUME MapInv
  PROVE  /\ call.pc = "probe" =>
              \A k, v : FirstIs(InFlight, k, v) <=>
                          \/ call.kv = [key |-> k, val |-> v]
                          \/ k # call.kv.key /\ FirstIs(call.todo, k, v)
         /\ call.pc # "probe" =>
              \A k, v : FirstIs(InFlight, k, v) <=> FirstIs(call.todo, k, v)
<1>1. CASE call.pc = "probe"
  <2>1. call.todo \in Seq(Pairs) /\ call.kv \in Pairs /\ InFlight = <<call.kv>> \o call.todo
    BY <1>1, InFlightFacts DEF InFlightOK
  <2>2. PICK one \in Seq(Pairs) :
          /\ one = <<call.kv>> /\ KeysOf(one) = {call.kv.key}
          /\ \A k, v : FirstIs(one, k, v) <=> call.kv = [key |-> k, val |-> v]
    BY <2>1, OneEntry
  <2>3. \A k, v : FirstIs(one \o call.todo, k, v) <=>
                    FirstIs(one, k, v) \/ (k \notin KeysOf(one) /\ FirstIs(call.todo, k, v))
    BY <2>1, FirstConcat
  <2> QED
    BY <1>1, <2>1, <2>2, <2>3
<1>2. CASE call.pc # "probe"
  BY <1>2, InFlightFacts DEF InFlightOK
<1> QED
  BY <1>1, <1>2

FirstOK ==
  /\ call.pc = "probe" =>
       \A k, v : FirstIs(InFlight, k, v) <=>
                   \/ call.kv = [key |-> k, val |-> v]
                   \/ k # call.kv.key /\ FirstIs(call.todo, k, v)
  /\ call.pc # "probe" =>
       \A k, v : FirstIs(InFlight, k, v) <=> FirstIs(call.todo, k, v)

LEMMA FirstFacts == MapInv => FirstOK
BY FirstInFlight DEF FirstOK

LEMMA FirstNext == MapInv' => FirstOK'
BY FirstFacts, PTL

\* In the entries of the table, every key has its value.
LEMMA EntriesFirst ==
  ASSUME MapInv, KeysUnique
  PROVE  \A k, v : FirstIs(Entries, k, v) <=> Stored(k, v)
<1>1. PICK l \in Nat : l = Len(Entries)
  BY EntriesFacts, MapFacts
<1>2. /\ \A n \in 1 .. l : \E i \in Occupied : Entries[n] = table[i].kv
      /\ \A i \in Occupied : \E n \in 1 .. l : Entries[n] = table[i].kv
      /\ \A n, m \in 1 .. l : Entries[n].key = Entries[m].key => n = m
  BY <1>1, EntriesKeys
<1>3. ASSUME NEW k, NEW v, FirstIs(Entries, k, v) PROVE Stored(k, v)
  <2>1. PICK n \in 1 .. l : Entries[n] = [key |-> k, val |-> v]
    BY <1>1, <1>3 DEF FirstIs
  <2> QED
    BY <1>2, <2>1 DEF Stored
<1>4. ASSUME NEW k, NEW v, Stored(k, v) PROVE FirstIs(Entries, k, v)
  <2>1. PICK i \in Occupied : table[i].kv = [key |-> k, val |-> v]
    BY <1>4 DEF Stored
  <2>2. PICK n \in 1 .. l : Entries[n] = [key |-> k, val |-> v]
    BY <1>2, <2>1
  <2>3. ASSUME NEW m \in 1 .. n - 1, Entries[m].key = k PROVE FALSE
    <3>1. m \in 1 .. l /\ m # n
      OBVIOUS
    <3>2. Entries[n].key = k
      BY <2>2
    <3> QED
      BY <1>2, <2>3, <3>1, <3>2
  <2> QED
    BY <1>1, <2>2, <2>3 DEF FirstIs
<1> QED
  BY <1>3, <1>4

\* rehash() turns the entries of the table into the first that wait.
LEMMA ReallocateContents ==
  ASSUME MapInv, KeysUnique, MapInv', KeysUnique', call.pc # "probe",
         NEW n, NEW key, Reallocate(n, key, call.todo)
  PROVE  Contents' = Contents
<1>1. call.todo \in Seq(Pairs) /\ Entries \in Seq(Pairs)
  BY InFlightFacts, EntriesFacts DEF InFlightOK
<1>2. Occupied' = {} /\ call'.pc # "probe" /\ call'.todo = Entries \o call.todo
  BY <1>1, ReallocateEntries
<1>3. StoredKeys' = {} /\ \A k, v : ~Stored(k, v)'
  BY <1>2 DEF StoredKeys, Stored
<1>4. FirstOK /\ FirstOK'
  BY FirstFacts, FirstNext
<1>5. \A k, v : FirstIs(Entries \o call.todo, k, v) <=>
                  Stored(k, v) \/ (k \notin StoredKeys /\ FirstIs(call.todo, k, v))
  <2>1. \A k, v : FirstIs(Entries \o call.todo, k, v) <=>
                    FirstIs(Entries, k, v) \/ (k \notin KeysOf(Entries) /\ FirstIs(call.todo, k, v))
    BY <1>1, FirstConcat
  <2> QED
    BY <2>1, EntriesFirst, EntriesKeys
<1>6. \A k, v : FirstIs(InFlight, k, v)' <=> FirstIs(Entries \o call.todo, k, v)
  <2>1. call'.pc # "probe" => \A k, v : FirstIs(InFlight', k, v) <=> FirstIs(call'.todo, k, v)
    BY <1>4 DEF FirstOK
  <2> QED
    BY <1>2, <2>1
<1>7. \A k, v : Has(k, v)' <=> Has(k, v)
  BY <1>3, <1>4, <1>5, <1>6 DEF FirstOK, Has
<1> QED
  BY <1>7, ContentsFacts, ContentsNext, SameContents

LEMMA SameHas ==
  ASSUME UNCHANGED <<table, capacity>>
  PROVE  Occupied' = Occupied /\ StoredKeys' = StoredKeys /\ \A k, v : Stored(k, v)' <=> Stored(k, v)
BY DEF Occupied, BucketIdxs, StoredKeys, Stored

LEMMA LoopKeepsContents ==
  ASSUME MapInv, LoopInv, LookupInv, MapInv', KeysUnique', Loop
  PROVE  Contents' = Contents
<1>1. KeysUnique /\ FirstOK /\ FirstOK' /\ ContentsOK /\ ContentsOK'
  BY FirstFacts, FirstNext, ContentsFacts, ContentsNext DEF LookupInv
<1>2. /\ call.pc = "probe" =>
           \A k, v : FirstIs(InFlight, k, v) <=>
                       \/ call.kv = [key |-> k, val |-> v]
                       \/ k # call.kv.key /\ FirstIs(call.todo, k, v)
      /\ call.pc # "probe" => \A k, v : FirstIs(InFlight, k, v) <=> FirstIs(call.todo, k, v)
      /\ call'.pc = "probe" =>
           \A k, v : FirstIs(InFlight', k, v) <=>
                       \/ call'.kv = [key |-> k, val |-> v]
                       \/ k # call'.kv.key /\ FirstIs(call'.todo, k, v)
      /\ call'.pc # "probe" => \A k, v : FirstIs(InFlight', k, v) <=> FirstIs(call'.todo, k, v)
  BY <1>1 DEF FirstOK
<1>3. (\A k, v : Has(k, v)' <=> Has(k, v)) => Contents' = Contents
  BY <1>1, SameContents
<1>4. CASE Grow
  <2>1. call.pc # "probe" /\ Reallocate(2 * capacity, call.key, call.todo)
    BY <1>4 DEF Grow
  <2> QED
    BY <1>1, <2>1, ReallocateContents
<1>5. CASE Probe
  <2>1. PICK kv \in Pairs : /\ kv = Head(call.todo) /\ call'.pc = "probe" /\ call'.kv = kv
                            /\ call'.todo = Tail(call.todo)
    BY <1>5, ProbeLoop
  <2>2. call.pc = "next" /\ call.todo # <<>> /\ call.todo \in Seq(Pairs)
    BY <1>5, MapFacts, EmptySeq DEF Probe, MapInv, RoomOK
  <2>3. PICK rest \in Seq(Pairs) : rest = Tail(call.todo) /\ call.todo = <<kv>> \o rest
    <3>1. call.todo = <<Head(call.todo)>> \o Tail(call.todo)
      BY <2>2
    <3> QED
      BY <2>1, <2>2, <3>1, HeadTailProperties
  <2>4. InFlight = call.todo
    BY <2>2, InFlightFacts DEF InFlightOK
  <2>5. InFlight' = <<kv>> \o rest
    BY <2>1, <2>3, InFlightNext DEF InFlightOK
  <2> QED
    BY <1>3, <1>5, <2>3, <2>4, <2>5, SameHas DEF Probe, Has
<1>6. CASE KeyExists
  <2>1. call'.todo = call.todo /\ call'.pc # "probe" /\ call.pc = "probe"
    BY <1>6, ReturnedTodo DEF KeyExists, Probing
  <2>2. call.kv.key \in StoredKeys
    <3>1. Probing({"OCCUPIED"}) /\ table[call.curr].kv.key = call.kv.key
      BY <1>6 DEF KeyExists
    <3>2. call.curr \in Occupied
      BY <3>1, ProbingFacts DEF Occupied
    <3> QED
      BY <3>1, <3>2 DEF StoredKeys
  <2>3. \A k, v : k \notin StoredKeys => (FirstIs(InFlight, k, v) <=> FirstIs(InFlight', k, v))
    <3> SUFFICES ASSUME NEW k, NEW v, k \notin StoredKeys
                 PROVE  FirstIs(InFlight, k, v) <=> FirstIs(InFlight', k, v)
      OBVIOUS
    <3>1. k # call.kv.key
      BY <2>2
    <3>2. call.kv # [key |-> k, val |-> v]
      BY <3>1
    <3> QED
      BY <1>2, <2>1, <3>1, <3>2
  <2> QED
    BY <1>3, <1>6, <2>3, SameHas DEF KeyExists, Has
<1>7. CASE Steal
  <2>1. PICK i \in Occupied, kv \in Pairs, carried \in Pairs :
          /\ call.pc = "probe" /\ kv = table[i].kv /\ carried = call.kv /\ kv.key # carried.key
          /\ call'.pc = "probe" /\ call'.kv = kv /\ call'.todo = call.todo
          /\ Occupied' = Occupied /\ table'[i].kv = carried
          /\ \A j \in Occupied : j # i => table'[j].kv = table[j].kv
    BY <1>7, StealEntries
  <2>2. \A j \in Occupied : table[j].kv.key # carried.key
    <3>1. /\ Probing({"EMPTY", "OCCUPIED", "DELETED"})
          /\ table[call.curr].kv.key # call.kv.key
          /\ table[call.curr].probeDist < DistanceTo(call.kv.key, call.curr)
      BY <1>7, ProbingFacts DEF Steal, Probing
    <3> QED
      BY <2>1, <3>1, NotStored
  <2>3. \A j \in Occupied : j # i => table[j].kv.key # kv.key
    BY <1>1, <2>1 DEF KeysUnique
  <2> SUFFICES ASSUME NEW k, NEW v PROVE Has(k, v)' <=> Has(k, v)
    BY <1>3
  <2>4. PICK e : e = [key |-> k, val |-> v]
    OBVIOUS
  <2>5. k \in StoredKeys' <=> (k \in StoredKeys /\ k # kv.key) \/ k = carried.key
    BY <2>1, <2>3 DEF StoredKeys
  <2>6. kv.key \in StoredKeys /\ carried.key \notin StoredKeys
    BY <2>1, <2>2 DEF StoredKeys
  <2>7. Stored(k, v)' <=> (Stored(k, v) /\ k # kv.key) \/ carried = e
    BY <2>1, <2>3, <2>4 DEF Stored
  <2>8. k = kv.key => (Stored(k, v) <=> kv = e)
    BY <2>1, <2>3, <2>4 DEF Stored
  <2>9. Stored(k, v) => k \in StoredKeys
    BY StoredFacts
  <2>10. FirstIs(InFlight, k, v) <=> carried = e \/ (k # carried.key /\ FirstIs(call.todo, k, v))
    BY <1>2, <2>1, <2>4
  <2>11. FirstIs(InFlight', k, v) <=> kv = e \/ (k # kv.key /\ FirstIs(call.todo, k, v))
    BY <1>2, <2>1, <2>4
  <2> HIDE DEF Stored, StoredKeys, FirstIs
  <2>12. CASE k = kv.key
    BY <2>1, <2>4, <2>5, <2>6, <2>7, <2>8, <2>11, <2>12 DEF Has
  <2>13. CASE k = carried.key
    BY <2>1, <2>4, <2>5, <2>6, <2>7, <2>9, <2>10, <2>13 DEF Has
  <2>14. CASE k # kv.key /\ k # carried.key
    BY <2>4, <2>5, <2>7, <2>10, <2>11, <2>14 DEF Has
  <2> QED
    BY <2>12, <2>13, <2>14
<1>8. CASE Advance
  <2>1. call'.pc = "probe" /\ call.pc = "probe" /\ call'.kv = call.kv /\ call'.todo = call.todo
    BY <1>8, AdvanceLoop DEF Advance, Probing
  <2>2. StoredKeys' = StoredKeys /\ \A k, v : Stored(k, v)' <=> Stored(k, v)
    BY <1>8, SameHas DEF Advance
  <2>3. \A k, v : FirstIs(InFlight', k, v) <=> FirstIs(InFlight, k, v)
    BY <1>2, <2>1
  <2> QED
    BY <1>3, <2>2, <2>3 DEF Has
<1>9. CASE Place
  <2>1. PICK i \in BucketIdxs, kv \in Pairs :
          /\ call.pc = "probe" /\ i \notin Occupied /\ kv = call.kv
          /\ call'.pc \in {"idle", "next"} /\ call'.todo = call.todo
          /\ Occupied' = Occupied \cup {i} /\ table'[i].kv = kv
          /\ \A j \in Occupied : table'[j].kv = table[j].kv
    BY <1>9, PlaceEntries
  <2>2. \A j \in Occupied : table[j].kv.key # kv.key
    <3>1. /\ Probing({"EMPTY", "OCCUPIED", "DELETED"})
          /\ table[call.curr].state # "OCCUPIED"
      BY <1>9 DEF Place, Probing
    <3> QED
      BY <2>1, <3>1, NotStored
  <2> SUFFICES ASSUME NEW k, NEW v PROVE Has(k, v)' <=> Has(k, v)
    BY <1>3
  <2>3. PICK e : e = [key |-> k, val |-> v]
    OBVIOUS
  <2>4. k \in StoredKeys' <=> k \in StoredKeys \/ k = kv.key
    BY <2>1 DEF StoredKeys
  <2>5. kv.key \notin StoredKeys
    BY <2>2 DEF StoredKeys
  <2>6. Stored(k, v)' <=> Stored(k, v) \/ kv = e
    BY <2>1, <2>3 DEF Stored
  <2>7. Stored(k, v) => k \in StoredKeys
    BY StoredFacts
  <2>8. FirstIs(InFlight, k, v) <=> kv = e \/ (k # kv.key /\ FirstIs(call.todo, k, v))
    BY <1>2, <2>1, <2>3
  <2>9. FirstIs(InFlight', k, v) <=> FirstIs(call.todo, k, v)
    BY <1>2, <2>1
  <2> QED
    BY <2>3, <2>4, <2>5, <2>6, <2>7, <2>8, <2>9 DEF Has
<1> QED
  BY <1>4, <1>5, <1>6, <1>7, <1>8, <1>9 DEF Loop

IdleOK == call.pc = "idle" => call.todo = <<>>

DictInv == MapInv /\ LoopInv /\ LookupInv /\ IdleOK

LEMMA IdleNext == MapInv /\ LoopInv /\ IdleOK /\ [Next]_vars => IdleOK'
<1> SUFFICES ASSUME MapInv, LoopInv, IdleOK, [Next]_vars PROVE IdleOK'
  OBVIOUS
<1>1. ASSUME NEW k \in Keys, NEW v \in Vals, Insert(k, v) PROVE IdleOK'
  BY <1>1 DEF Insert, Idle, IdleOK
<1>2. ASSUME NEW n, NEW key, NEW rest \in Seq(Pairs), Reallocate(n, key, rest) PROVE IdleOK'
  BY <1>2, ReallocateEntries DEF IdleOK
<1>3. ASSUME NEW n, Rehash(n) PROVE IdleOK'
  BY <1>2, <1>3, NoEntry DEF Rehash
<1>4. CASE Clear \/ MoveFrom
  BY <1>4 DEF Clear, MoveFrom, Idle, IdleOK
<1>5. CASE Grow
  BY <1>2, <1>5, MapFacts DEF Grow
<1>6. CASE Probe
  BY <1>6, ProbeLoop DEF IdleOK
<1>7. CASE KeyExists \/ Place
  <2>1. PICK i : call' = Returned(i)
    BY <1>7 DEF KeyExists, Place
  <2> QED
    BY <2>1, ReturnedTodo DEF IdleOK
<1>8. CASE Steal
  BY <1>8, StealEntries DEF IdleOK
<1>9. CASE Advance
  BY <1>9, AdvanceLoop DEF IdleOK
<1>10. CASE UNCHANGED vars
  BY <1>10 DEF vars, IdleOK
<1> QED
  BY <1>1, <1>3, <1>4, <1>5, <1>6, <1>7, <1>8, <1>9, <1>10 DEF Next, Loop

LEMMA NoContents ==
  ASSUME ContentsOK, HeldKeys = {}
  PROVE  Contents = AsDictionary!Empty
BY DEF ContentsOK, AsDictionary!Empty

LEMMA DictionaryInit == Init => AsDictionary!Init
<1> SUFFICES ASSUME Init PROVE AsDictionary!Init
  OBVIOUS
<1>1. Occupied = {} /\ call = Idle
  BY DEF Init, EmptyTable, EmptyBucket, Occupied, BucketIdxs
<1>2. call.pc = "idle" /\ call.todo = <<>>
  BY <1>1 DEF Idle
<1>3. MapInv /\ KeysUnique
  BY MapInit, LookupInit DEF LookupInv
<1>4. InFlight = <<>> /\ HeldKeys = StoredKeys \cup KeysOf(InFlight)
  BY <1>2, <1>3, InFlightFacts DEF InFlightOK
<1>5. HeldKeys = {}
  BY <1>1, <1>4, NoEntry DEF StoredKeys
<1> QED
  BY <1>2, <1>3, <1>5, ContentsFacts, NoContents DEF AsDictionary!Init

\* insert() puts its entry after those of the table.
LEMMA InsertRefines ==
  ASSUME DictInv, DictInv', NEW k \in Keys, NEW v \in Vals, Insert(k, v)
  PROVE  AsDictionary!Insert(k, v) \/ AsDictionary!BeginOrEnd
<1>1. /\ call.pc = "idle" /\ call'.pc = "next" /\ call'.todo = <<[key |-> k, val |-> v]>>
      /\ UNCHANGED <<keyHash, table, size, capacity>>
  BY DEF Insert, Idle
<1>2. /\ ContentsOK /\ ContentsOK' /\ InFlightOK /\ InFlightOK'
  BY ContentsFacts, ContentsNext, InFlightFacts, InFlightNext DEF DictInv, LookupInv
<1>3. PICK e \in Pairs : e = [key |-> k, val |-> v] /\ e.key = k
  <2>1. [key |-> k, val |-> v] \in Pairs /\ [key |-> k, val |-> v].key = k
    BY DEF Pairs
  <2> QED
    BY <2>1
<1>4. InFlight = <<>> /\ InFlight' = <<e>>
  BY <1>1, <1>2, <1>3 DEF InFlightOK, DictInv, IdleOK
<1>5. KeysOf(InFlight) = {} /\ \A x, w : ~FirstIs(InFlight, x, w)
  BY <1>4, NoEntry
<1>6. KeysOf(InFlight') = {k} /\ \A x, w : FirstIs(InFlight', x, w) <=> e = [key |-> x, val |-> w]
  BY <1>3, <1>4, OneEntry
<1>7. /\ StoredKeys' = StoredKeys /\ \A x, w : Stored(x, w)' <=> Stored(x, w)
  BY <1>1, SameHas
<1>8. HeldKeys = StoredKeys /\ HeldKeys' = StoredKeys \cup {k}
  <2>1. HeldKeys = StoredKeys \cup KeysOf(InFlight) /\ HeldKeys' = StoredKeys' \cup KeysOf(InFlight')
    BY <1>2 DEF InFlightOK
  <2> QED
    BY <1>5, <1>6, <1>7, <2>1
<1>9. \A x, w : Stored(x, w) => x \in StoredKeys
  BY StoredFacts DEF DictInv
<1>10. CASE k \in StoredKeys
  <2>1. \A x, w : Has(x, w)' <=> Has(x, w)
    <3> SUFFICES ASSUME NEW x, NEW w PROVE Has(x, w)' <=> Has(x, w)
      OBVIOUS
    <3>1. e = [key |-> x, val |-> w] => x = k
      BY <1>3
    <3> QED
      BY <1>5, <1>6, <1>7, <1>10, <3>1 DEF Has
  <2>2. Contents' = Contents
    BY <1>2, <2>1, SameContents
  <2> QED
    BY <1>1, <2>2 DEF AsDictionary!BeginOrEnd
<1>11. CASE k \notin StoredKeys
  <2>1. \A x \in StoredKeys : Contents'[x] = Contents[x]
    <3> SUFFICES ASSUME NEW x \in StoredKeys PROVE Contents'[x] = Contents[x]
      OBVIOUS
    <3>1. Has(x, Contents[x])
      BY <1>2, <1>8 DEF ContentsOK
    <3>2. Stored(x, Contents[x])
      BY <3>1 DEF Has
    <3>3. PICK w : w = Contents[x]
      OBVIOUS
    <3>4. Stored(x, w)'
      BY <1>7, <3>2, <3>3
    <3>5. Has(x, w)'
      BY <3>4 DEF Has
    <3> QED
      BY <1>2, <3>3, <3>5 DEF ContentsOK
  <2>2. Contents'[k] = v
    <3>1. Has(k, v)'
      BY <1>3, <1>6, <1>7, <1>11 DEF Has
    <3> QED
      BY <1>2, <3>1 DEF ContentsOK
  <2>3. /\ Contents = [x \in StoredKeys |-> Contents[x]]
        /\ Contents' = [x \in StoredKeys \cup {k} |-> Contents'[x]]
    BY <1>2, <1>8 DEF ContentsOK
  <2>4. DOMAIN Contents = StoredKeys
    BY <2>3
  <2>5. Contents' = [x \in StoredKeys \cup {k} |-> IF x = k THEN v ELSE Contents[x]]
    BY <1>11, <2>1, <2>2, <2>3
  <2> QED
    BY <1>1, <1>11, <2>4, <2>5 DEF AsDictionary!Insert
<1> QED
  BY <1>10, <1>11

LEMMA DictionaryNext ==
  DictInv /\ DictInv' /\ [Next]_vars => [AsDictionary!Next]_<<Contents, call.pc # "idle">>
<1> SUFFICES ASSUME DictInv, DictInv', [Next]_vars
             PROVE  AsDictionary!Next \/ (Contents' = Contents /\ (call.pc # "idle")' = (call.pc # "idle"))
  OBVIOUS
<1>1. /\ MapInv /\ LoopInv /\ LookupInv /\ IdleOK /\ KeysUnique
      /\ MapInv' /\ LookupInv' /\ KeysUnique' /\ ContentsOK' /\ InFlightOK'
  BY ContentsNext, InFlightNext DEF DictInv, LookupInv
<1>2. ASSUME NEW k \in Keys, NEW v \in Vals, Insert(k, v) PROVE AsDictionary!Next
  BY <1>2, InsertRefines DEF AsDictionary!Next
<1>3. ASSUME Contents' = Contents
      PROVE  AsDictionary!Next \/ (Contents' = Contents /\ (call.pc # "idle")' = (call.pc # "idle"))
  BY <1>3 DEF AsDictionary!Next, AsDictionary!BeginOrEnd
<1>4. ASSUME NEW n, Rehash(n) PROVE Contents' = Contents
  <2>1. call.pc # "probe" /\ Reallocate(n, None, call.todo)
    BY <1>1, <1>4 DEF Rehash, IdleOK
  <2> QED
    BY <1>1, <2>1, ReallocateContents
<1>5. CASE Clear \/ MoveFrom
  <2>1. call.pc = "idle" /\ call' = Idle
    BY <1>5 DEF Clear, MoveFrom
  <2>2. call'.pc = "idle" /\ call'.todo = <<>>
    BY <2>1 DEF Idle
  <2>3. Occupied' = {}
    <3>1. CASE Clear
      <4>1. BucketIdxs' = BucketIdxs /\ \A i \in BucketIdxs : table'[i].state = "EMPTY"
        BY <3>1 DEF Clear, EmptyBucket, BucketIdxs
      <4> QED
        BY <4>1 DEF Occupied
    <3>2. CASE MoveFrom
      BY <3>2 DEF MoveFrom, Occupied, BucketIdxs
    <3> QED
      BY <1>5, <3>1, <3>2
  <2>4. HeldKeys' = StoredKeys' \cup KeysOf(InFlight') /\ InFlight' = <<>>
    BY <1>1, <2>2 DEF InFlightOK
  <2>5. HeldKeys' = {}
    BY <2>3, <2>4, NoEntry DEF StoredKeys
  <2>6. Contents' = AsDictionary!Empty
    BY <1>1, <2>5 DEF ContentsOK, AsDictionary!Empty
  <2> QED
    BY <2>1, <2>2, <2>6 DEF AsDictionary!Next, AsDictionary!Clear
<1>6. CASE Loop
  BY <1>1, <1>3, <1>6, LoopKeepsContents
<1>7. CASE UNCHANGED vars
  <2>1. UNCHANGED <<keyHash, table, size, capacity, call>>
    BY <1>7 DEF vars
  <2>2. \A k, v : Has(k, v)' <=> Has(k, v)
    BY <2>1, SameHas DEF Has, InFlight
  <2>3. Contents' = Contents
    BY <1>1, <2>2, ContentsFacts, SameContents
  <2> QED
    BY <1>3, <2>3
<1> QED
  BY <1>2, <1>3, <1>4, <1>5, <1>6, <1>7 DEF Next

\* The table is a dictionary: displacing, growing and rehashing change nothing a
\* client can see, and an insertion takes effect when the call begins.
THEOREM MapRefinement == Spec => ImplementsDictionary
<1>1. Init => DictInv
  BY MapInit, LoopInit, LookupInit DEF DictInv, IdleOK, Init, Idle
<1>2. DictInv /\ [Next]_vars => DictInv'
  BY MapNext, LoopNext, LookupNext, IdleNext DEF DictInv
<1> QED
  BY <1>1, <1>2, DictionaryInit, DictionaryNext, PTL DEF Spec, ImplementsDictionary, AsDictionary!Spec

-----------------------------------------------------------------------------
(* The set, from the invariants of the map that also hold when entries are *)
(* erased: a tombstone breaks no way through the table, and an iterator    *)
(* that the client may use never stands on one.                            *)

\* An iterator may be used between calls only.
ItOK == it # None => call.pc = "idle" /\ it \in Occupied \cup {capacity}

SetInv == MapInv /\ LoopInv /\ capacity > 0 /\ ItOK

LEMMA SetInit_SetInv == SetInit => SetInv
<1> SUFFICES ASSUME SetInit PROVE SetInv
  OBVIOUS
<1>1. Init /\ it = None
  BY DEF SetInit
<1>2. MapInv /\ LoopInv
  BY <1>1, MapInit, LoopInit
<1>3. capacity > 0
  BY <1>1, UnorderedMapAssumption DEF Init, PowersOfTwo
<1> QED
  BY <1>1, <1>2, <1>3 DEF SetInv, ItOK

\* The set's calls are calls of the map, and of erase().
LEMMA MapStep ==
  ASSUME SetInv, [SetNext]_setVars
  PROVE  [Next \/ \E i \in Occupied : EraseAt(i)]_vars
<1>1. ASSUME NEW k \in Keys, SetInsert(k) PROVE Next
  <2>1. PICK dummy \in Vals : Insert(k, dummy)
    BY <1>1 DEF SetInsert
  <2>2. capacity > 0
    BY DEF SetInv
  <2> QED
    BY <2>1, <2>2 DEF Next
<1>2. ASSUME NEW n \in {capacity \div 2, capacity}, SetRehash(n) PROVE Next
  BY <1>2 DEF SetRehash, Next
<1>3. CASE SetClear
  BY <1>3 DEF SetClear, Next
<1>4. CASE SetLoop
  BY <1>4 DEF SetLoop, Next
<1>5. CASE EraseIt
  BY <1>5 DEF EraseIt
<1>6. ASSUME UNCHANGED vars \/ UNCHANGED setVars PROVE UNCHANGED vars
  BY <1>6 DEF setVars
<1> QED
  BY <1>1, <1>2, <1>3, <1>4, <1>5, <1>6 DEF SetNext, Begin, Increment, FindIt

\* ++ stops at an element or at the end, behind where it began.
LEMMA NextOccupiedFacts ==
  ASSUME SetInv, NEW i \in -1 .. capacity - 1
  PROVE  NextOccupied(i) \in Occupied \cup {capacity} /\ NextOccupied(i) # i
<1>1. PICK c \in Nat \ {0} : c = capacity /\ Occupied \subseteq 0 .. c - 1
  BY MapFacts DEF SetInv, BucketIdxs
<1> DEFINE S == {o \in Occupied \cup {c} : o > i}
<1>2. S # {} /\ S \subseteq Nat
  <2>1. i \in Int /\ i < c /\ c \in Occupied \cup {c}
    BY <1>1
  <2>2. c \in S
    BY <1>1, <2>1
  <2>3. 0 .. c - 1 \subseteq Nat
    BY <1>1
  <2>4. S \subseteq Nat
    BY <1>1, <2>3
  <2> QED
    BY <2>2, <2>4
<1>3. PICK j \in S : \A m \in S : j <= m
  <2> HIDE DEF S
  <2> QED
    BY <1>2, Least
<1>4. j \in i + 1 .. c /\ j \in Occupied \cup {c}
  BY <1>1
<1>5. ASSUME NEW o \in Occupied PROVE o <= i \/ j <= o
  <2>1. o \in Int /\ (o \in S \/ ~(o > i))
    BY <1>1
  <2> QED
    BY <1>3, <2>1
<1>6. NextOccupied(i) \in i + 1 .. c /\ NextOccupied(i) \in Occupied \cup {c}
  <2>1. \E n \in i + 1 .. capacity :
          n \in Occupied \cup {capacity} /\ \A o \in Occupied : o <= i \/ n <= o
    BY <1>1, <1>4, <1>5
  <2> QED
    BY <1>1, <2>1 DEF NextOccupied
<1> QED
  BY <1>1, <1>6

LEMMA CapacityKept ==
  ASSUME SetInv, [SetNext]_setVars
  PROVE  capacity' > 0
<1>1. capacity \in Nat /\ capacity > 0
  BY MapFacts DEF SetInv
<1>2. ASSUME NEW n, SetRehash(n) PROVE capacity' > 0
  <2>1. n \in PowersOfTwo /\ 3 * n > 4 * size /\ Reallocate(n, None, <<>>)
    BY <1>2 DEF SetRehash, MayRehash, Rehash
  <2>2. capacity' = n
    BY <2>1 DEF Reallocate
  <2> QED
    BY <2>1, <2>2, UnorderedMapAssumption DEF PowersOfTwo
<1>3. CASE Grow
  <2>1. 3 * (2 * capacity) > 4 * size
    BY <1>1, MapFacts DEF SetInv
  <2>2. capacity' = 2 * capacity
    BY <1>3, <2>1 DEF Grow, Reallocate
  <2> QED
    BY <1>1, <2>2
<1>4. ASSUME ~Grow, \A n : ~SetRehash(n) PROVE capacity' = capacity
  BY <1>4
     DEF SetNext, SetInsert, Insert, SetClear, Clear, Begin, Increment, FindIt, EraseIt, EraseAt,
         SetLoop, Loop, Probe, KeyExists, Steal, Advance, Place, setVars, vars
<1> QED
  BY <1>1, <1>2, <1>3, <1>4

LEMMA ItKept ==
  ASSUME SetInv, [SetNext]_setVars
  PROVE  ItOK'
<1>1. PICK c \in Nat \ {0} : c = capacity /\ Occupied \subseteq 0 .. c - 1
  BY MapFacts DEF SetInv, BucketIdxs
<1>2. CASE (\E k \in Keys : SetInsert(k)) \/ (\E n : SetRehash(n)) \/ SetClear
  BY <1>2 DEF SetInsert, SetRehash, SetClear, ItOK
<1>3. ASSUME UNCHANGED vars PROVE call' = call /\ Occupied' = Occupied /\ capacity' = capacity
  BY <1>3 DEF vars, Occupied, BucketIdxs
<1>4. CASE Begin
  <2>1. NextOccupied(-1) \in Occupied \cup {capacity}
    BY <1>1, NextOccupiedFacts
  <2> QED
    BY <1>3, <1>4, <2>1 DEF Begin, ItOK
<1>5. CASE Increment
  <2>1. it \in -1 .. capacity - 1
    BY <1>1, <1>5 DEF Increment
  <2>2. NextOccupied(it) \in Occupied \cup {capacity}
    BY <2>1, NextOccupiedFacts
  <2> QED
    BY <1>3, <1>5, <2>2 DEF Increment, ItOK
<1>6. ASSUME NEW k \in Keys, FindIt(k) PROVE ItOK'
  <2>1. Find(k) # None
    BY <1>6 DEF FindIt
  <2>2. Find(k) \in Occupied
    BY <2>1 DEF Find
  <2> QED
    BY <1>3, <1>6, <2>2 DEF FindIt, ItOK
<1>7. CASE EraseIt
  <2>1. PICK i \in Occupied : i = it /\ EraseAt(i) /\ it' = NextOccupied(i)
    BY <1>7 DEF EraseIt
  <2>2. i \in -1 .. capacity - 1
    BY <1>1
  <2>3. NextOccupied(i) \in Occupied \cup {capacity} /\ NextOccupied(i) # i
    BY <2>2, NextOccupiedFacts
  <2>4. Occupied \ {i} \subseteq Occupied'
    <3>1. table \in [BucketIdxs -> BucketType] /\ BucketIdxs' = BucketIdxs
      BY <2>1, MapFacts DEF SetInv, EraseAt, BucketIdxs
    <3>2. ASSUME NEW j \in BucketIdxs, j # i PROVE table'[j] = table[j]
      BY <2>1, <3>1, <3>2 DEF EraseAt
    <3> QED
      BY <3>1, <3>2 DEF Occupied
  <2>5. call'.pc = "idle" /\ capacity' = capacity
    BY <2>1 DEF EraseAt, Idle
  <2> QED
    BY <2>1, <2>3, <2>4, <2>5 DEF ItOK
<1>8. CASE SetLoop
  <2>1. call.pc # "idle" /\ it' = it
    BY <1>8
       DEF SetLoop, Loop, Grow, Probe, KeyExists, Steal, Advance, Place, Probing
  <2> QED
    BY <2>1 DEF SetInv, ItOK
<1>9. CASE UNCHANGED setVars
  BY <1>3, <1>9 DEF setVars, SetInv, ItOK
<1> QED
  BY <1>2, <1>4, <1>5, <1>6, <1>7, <1>8, <1>9 DEF SetNext

\* Whatever is inserted, erased and rebuilt, the table stays well-formed, and a
\* usable iterator stays at an element or at the end.
THEOREM SetInvariant == SetSpec => []SetInv
<1>1. SetInv /\ [SetNext]_setVars => SetInv'
  <2> SUFFICES ASSUME SetInv, [SetNext]_setVars PROVE SetInv'
    OBVIOUS
  <2>1. MapInv /\ LoopInv /\ [Next \/ \E i \in Occupied : EraseAt(i)]_vars
    BY MapStep DEF SetInv
  <2>2. MapInv' /\ LoopInv'
    BY <2>1, MapNext, LoopNext
  <2> QED
    BY <2>2, CapacityKept, ItKept DEF SetInv
<1> QED
  BY <1>1, SetInit_SetInv, PTL DEF SetSpec

\* An iterator a client may use is at an element or at the end, also the one
\* erase() returns.
THEOREM SetIteratorAtElement == SetSpec => []IteratorAtElement
<1>1. SetInv => IteratorAtElement
  BY DEF SetInv, ItOK, IteratorAtElement
<1> QED
  BY SetInvariant, <1>1, PTL

\* Erasing leaves no hole on the way to another element.
THEOREM SetProbePathUnbroken == SetSpec => []ProbePathUnbroken
<1>1. SetInv => ProbePathUnbroken
  BY MapInvProbePath DEF SetInv
<1> QED
  BY SetInvariant, <1>1, PTL

\* No call loses an element, also among tombstones.
THEOREM SetNothingLost == SetSpec => NothingLost
<1>1. SetInv /\ SetInv' /\ [SetNext]_setVars => [call.pc # "idle" => HeldKeys \subseteq HeldKeys']_vars
  <2> SUFFICES ASSUME SetInv, SetInv', SetNext, call.pc # "idle", ~UNCHANGED vars
               PROVE  HeldKeys \subseteq HeldKeys'
    BY DEF setVars
  <2>1. Loop
    BY DEF SetNext, SetInsert, Insert, SetRehash, Rehash, SetClear, Clear, Begin, Increment,
           FindIt, EraseIt, EraseAt, SetLoop
  <2> QED
    BY <2>1, LoopKeepsKeys DEF SetInv
<1> QED
  BY SetInvariant, <1>1, PTL DEF SetSpec, NothingLost
=============================================================================
