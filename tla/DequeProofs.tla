------------------------------ MODULE DequeProofs ------------------------------
(***************************************************************************)
(* Proofs about Deque, for any values, chunk lengths and bounds, and       *)
(* whatever is read behind the end of a chunk map: unless the deque is     *)
(* astray the elements are in place between calls; each call edits them as *)
(* a sequence, where it was asked to, or goes astray for one of three      *)
(* reasons; and the arithmetic of iterators goes by distance.              *)
(***************************************************************************)
EXTENDS Deque, FiniteSetTheorems, SequenceTheorems, TLAPS

-----------------------------------------------------------------------------
(* Division.                                                               *)

LEMMA DivMod ==
  \A k \in Nat \ {0} : \A x \in Int :
    x \div k \in Int /\ x % k \in 0 .. k - 1 /\ x = (x \div k) * k + (x % k)
OBVIOUS

LEMMA Multiple ==
  ASSUME NEW k \in Nat \ {0}, NEW d \in Int, d >= 1
  PROVE  d * k >= k
OBVIOUS

\* x is r behind the beginning of chunk a.
Splits(k, x, a, r) ==
  k \in Nat \ {0} /\ x \in Int /\ a \in Int /\ r \in 0 .. k - 1 /\ x = a * k + r

\* There is one way only to divide with a remainder.
LEMMA DivUnique ==
  ASSUME NEW k, NEW x, NEW a, NEW r, Splits(k, x, a, r)
  PROVE  x \div k = a /\ x % k = r
<1> USE DEF Splits
<1>1. x = (x \div k) * k + (x % k) /\ x % k \in 0 .. k - 1 /\ x \div k \in Int
  BY DivMod
<1>2. PICK b \in Int : b = x \div k
  BY <1>1
<1>3. PICK s \in 0 .. k - 1 : s = x % k
  BY <1>1
<1>4. a * k + r = b * k + s
  BY <1>1, <1>2, <1>3
<1>5. (a - b) * k = s - r
  BY <1>4
<1>6. a - b < 1
  BY <1>5, Multiple
<1>7. (b - a) * k = r - s
  BY <1>4
<1>8. b - a < 1
  BY <1>7, Multiple
<1>9. a = b
  BY <1>6, <1>8
<1> QED
  BY <1>2, <1>3, <1>4, <1>9

LEMMA Divided ==
  \A k \in Nat \ {0} : \A x \in Int :
    Splits(k, x, x \div k, x % k) /\ x \div k \in Int /\ x % k \in 0 .. k - 1
BY DivMod DEF Splits

LEMMA Distribute ==
  \A a, b, k \in Int : (a + b) * k = a * k + b * k /\ (a - b) * k = a * k - b * k
OBVIOUS

\* Positions are added and subtracted by chunks and offsets.
LEMMA SplitSum ==
  ASSUME NEW k, NEW x, NEW a, NEW r, NEW y, NEW b, NEW t, Splits(k, x, a, r), Splits(k, y, b, t)
  PROVE  y - x = (b - a) * k + (t - r) /\ x + y = (a + b) * k + (r + t)
<1>1. /\ x \in Int /\ y \in Int /\ k \in Int /\ a \in Int /\ b \in Int /\ r \in Int /\ t \in Int
      /\ x = a * k + r /\ y = b * k + t
  BY DEF Splits
<1>2. (a + b) * k = a * k + b * k /\ (b - a) * k = b * k - a * k
  BY <1>1, Distribute
<1>3. PICK ak \in Int, bk \in Int : ak = a * k /\ bk = b * k
  BY <1>1
<1> QED
  BY <1>1, <1>2, <1>3

\* Positions d chunks further on.
LEMMA DivShift ==
  ASSUME NEW k \in Nat \ {0}, NEW x \in Int, NEW d \in Int
  PROVE  (x + d * k) \div k = (x \div k) + d /\ (x + d * k) % k = x % k
<1>1. PICK a \in Int : a = x \div k
  BY DivMod
<1>2. PICK r \in 0 .. k - 1 : r = x % k
  BY DivMod
<1>3. x = a * k + r
  BY <1>1, <1>2, DivMod
<1>4. PICK m \in Int : m = d * k
  OBVIOUS
<1>5. x + m = (a + d) * k + r
  BY <1>3, <1>4
<1>6. Splits(k, x + m, a + d, r)
  BY <1>5 DEF Splits
<1> QED
  BY <1>1, <1>2, <1>4, <1>6, DivUnique

\* The positions in n chunks.
LEMMA DivRange ==
  ASSUME NEW k \in Nat \ {0}, NEW x \in Int, NEW n \in Int
  PROVE  x \div k \in 0 .. n - 1 <=> 0 <= x /\ x < n * k
<1>1. PICK a \in Int : a = x \div k
  BY DivMod
<1>2. PICK r \in 0 .. k - 1 : r = x % k
  BY DivMod
<1>3. x = a * k + r
  BY <1>1, <1>2, DivMod
<1>4. ASSUME a \in 0 .. n - 1 PROVE 0 <= x /\ x < n * k
  <2>1. a * k >= 0 /\ (n - a) * k >= k
    BY <1>4, Multiple
  <2> QED
    BY <1>3, <2>1
<1>5. ASSUME 0 <= x, x < n * k PROVE a \in 0 .. n - 1
  <2>1. a >= 0
    <3> SUFFICES ASSUME -a >= 1 PROVE FALSE
      OBVIOUS
    <3>1. (-a) * k >= k
      BY Multiple
    <3> QED
      BY <1>3, <1>5, <3>1
  <2>2. a < n
    <3> SUFFICES ASSUME a - n + 1 >= 1 PROVE FALSE
      OBVIOUS
    <3>1. (a - n + 1) * k >= k
      BY Multiple
    <3>2. (a - n) * k >= 0
      BY <3>1
    <3> QED
      BY <1>3, <1>5, <3>2
  <2> QED
    BY <2>1, <2>2
<1> QED
  BY <1>1, <1>4, <1>5

-----------------------------------------------------------------------------
(* The arithmetic of iterators.                                            *)

LEMMA IteratorPlus ==
  ASSUME chunkSize \in Nat \ {0}, NEW p \in Int, NEW q \in Int
  PROVE  Plus(Iterator(p), q - p) = Iterator(q)
<1>1. PICK k \in Nat \ {0} : k = chunkSize
  OBVIOUS
<1>2. PICK a \in Int, r \in 0 .. k - 1 : a = p \div k /\ r = p % k /\ Splits(k, p, a, r)
  <2>1. Splits(k, p, p \div k, p % k) /\ p \div k \in Int /\ p % k \in 0 .. k - 1
    BY Divided
  <2> QED
    BY <2>1
<1>3. PICK b \in Int, t \in 0 .. k - 1 : b = q \div k /\ t = q % k /\ Splits(k, q, b, t)
  <2>1. Splits(k, q, q \div k, q % k) /\ q \div k \in Int /\ q % k \in 0 .. k - 1
    BY Divided
  <2> QED
    BY <2>1
<1>4. Iterator(p) = [chunk |-> a, off |-> r] /\ Iterator(q) = [chunk |-> b, off |-> t]
  BY <1>1, <1>2, <1>3 DEF Iterator
<1>5. PICK new \in Int : new = r + (q - p)
  OBVIOUS
<1>6. new = (b - a) * k + t
  <2>1. q - p = (b - a) * k + (t - r)
    BY <1>2, <1>3, SplitSum
  <2>2. PICK m \in Int : m = (b - a) * k
    OBVIOUS
  <2> QED
    BY <1>5, <2>1, <2>2
<1>7. new \div k = b - a
  <2>1. Splits(k, new, b - a, t)
    BY <1>6 DEF Splits
  <2> QED
    BY <2>1, DivUnique
<1>8. (-(new + 1)) \div k = a - b - 1
  <2>1. -(new + 1) = (a - b - 1) * k + (k - 1 - t)
    BY <1>6
  <2>2. Splits(k, -(new + 1), a - b - 1, k - 1 - t)
    BY <2>1 DEF Splits
  <2> QED
    BY <2>2, DivUnique
<1>9. PICK jump : jump = IF new >= 0 THEN new \div k ELSE -((-(new + 1)) \div k) - 1
  OBVIOUS
<1>10. jump = b - a /\ new - jump * k = t /\ a + jump = b
  BY <1>6, <1>7, <1>8, <1>9
<1>11. Plus([chunk |-> a, off |-> r], q - p) =
         IF new \in 0 .. k - 1 THEN [chunk |-> a, off |-> new]
         ELSE [chunk |-> a + jump, off |-> new - jump * k]
  BY <1>1, <1>5, <1>9 DEF Plus
<1>12. new \in 0 .. k - 1 => new = t /\ a = b
  <2> SUFFICES ASSUME new \in 0 .. k - 1 PROVE new = t /\ a = b
    OBVIOUS
  <2>1. Splits(k, new, 0, new)
    BY DEF Splits
  <2>2. b - a = 0
    BY <1>7, <2>1, DivUnique
  <2> QED
    BY <1>6, <2>2
<1> QED
  BY <1>4, <1>10, <1>11, <1>12

LEMMA IteratorOrder ==
  ASSUME chunkSize \in Nat \ {0}, NEW p \in Int, NEW q \in Int
  PROVE  /\ Difference(Iterator(q), Iterator(p)) = q - p
         /\ Less(Iterator(p), Iterator(q)) <=> p < q
<1>1. PICK k \in Nat \ {0} : k = chunkSize
  OBVIOUS
<1>2. PICK a \in Int, r \in 0 .. k - 1 : a = p \div k /\ r = p % k /\ Splits(k, p, a, r)
  <2>1. Splits(k, p, p \div k, p % k) /\ p \div k \in Int /\ p % k \in 0 .. k - 1
    BY Divided
  <2> QED
    BY <2>1
<1>3. PICK b \in Int, t \in 0 .. k - 1 : b = q \div k /\ t = q % k /\ Splits(k, q, b, t)
  <2>1. Splits(k, q, q \div k, q % k) /\ q \div k \in Int /\ q % k \in 0 .. k - 1
    BY Divided
  <2> QED
    BY <2>1
<1>4. Iterator(p) = [chunk |-> a, off |-> r] /\ Iterator(q) = [chunk |-> b, off |-> t]
  BY <1>1, <1>2, <1>3 DEF Iterator
<1>5. Difference(Iterator(q), Iterator(p)) = (b - a) * k + (t - r)
  BY <1>1, <1>4 DEF Difference
<1>6. q - p = (b - a) * k + (t - r)
  BY <1>2, <1>3, SplitSum
<1>7. (a < b \/ (a = b /\ r < t)) <=> p < q
  <2>1. ASSUME a < b PROVE p < q
    <3>1. (b - a) * k >= k
      BY <2>1, Multiple
    <3> QED
      BY <1>6, <3>1
  <2>2. ASSUME b < a PROVE ~(p < q)
    <3>1. (a - b) * k >= k
      BY <2>2, Multiple
    <3> QED
      BY <1>6, <3>1
  <2>3. a = b => (p < q <=> r < t)
    BY <1>6
  <2> QED
    BY <2>1, <2>2, <2>3
<1> QED
  BY <1>4, <1>5, <1>6, <1>7 DEF Less

LEMMA IteratorStep ==
  ASSUME chunkSize \in Nat \ {0}, NEW p \in Int
  PROVE  /\ Increment(Iterator(p)) = Iterator(p + 1)
         /\ Decrement(Iterator(p + 1)) = Iterator(p)
<1>1. PICK k \in Nat \ {0} : k = chunkSize
  OBVIOUS
<1>2. PICK a \in Int, r \in 0 .. k - 1 : a = p \div k /\ r = p % k /\ Splits(k, p, a, r)
  <2>1. Splits(k, p, p \div k, p % k) /\ p \div k \in Int /\ p % k \in 0 .. k - 1
    BY Divided
  <2> QED
    BY <2>1
<1>3. Iterator(p) = [chunk |-> a, off |-> r]
  BY <1>1, <1>2 DEF Iterator
<1>4. CASE r = k - 1
  <2>1. Splits(k, p + 1, a + 1, 0)
    BY <1>1, <1>2, <1>4 DEF Splits
  <2>2. (p + 1) \div k = a + 1 /\ (p + 1) % k = 0
    BY <2>1, DivUnique
  <2>3. Iterator(p + 1) = [chunk |-> a + 1, off |-> 0]
    BY <1>1, <2>2 DEF Iterator
  <2> QED
    BY <1>1, <1>3, <1>4, <2>3 DEF Increment, Decrement
<1>5. CASE r # k - 1
  <2>1. Splits(k, p + 1, a, r + 1)
    BY <1>2, <1>5 DEF Splits
  <2>2. (p + 1) \div k = a /\ (p + 1) % k = r + 1
    BY <2>1, DivUnique
  <2>3. Iterator(p + 1) = [chunk |-> a, off |-> r + 1]
    BY <1>1, <2>2 DEF Iterator
  <2> QED
    BY <1>1, <1>3, <1>5, <2>3 DEF Increment, Decrement
<1> QED
  BY <1>4, <1>5

\* operator[] counts chunks and offsets separately, and carries.
LEMMA IndexAt ==
  ASSUME chunkSize \in Nat \ {0}, deque.front \in Int, NEW i \in Int
  PROVE  Index(i) = Iterator(deque.front + i)
<1>1. PICK k \in Nat \ {0} : k = chunkSize
  OBVIOUS
<1>2. PICK p \in Int : p = deque.front
  OBVIOUS
<1>3. PICK a \in Int, r \in 0 .. k - 1 : a = p \div k /\ r = p % k /\ Splits(k, p, a, r)
  <2>1. Splits(k, p, p \div k, p % k) /\ p \div k \in Int /\ p % k \in 0 .. k - 1
    BY Divided
  <2> QED
    BY <2>1
<1>4. PICK b \in Int, t \in 0 .. k - 1 : b = i \div k /\ t = i % k /\ Splits(k, i, b, t)
  <2>1. Splits(k, i, i \div k, i % k) /\ i \div k \in Int /\ i % k \in 0 .. k - 1
    BY Divided
  <2> QED
    BY <2>1
<1>5. Index(i) = [chunk |-> a + (b + IF r + t >= k THEN 1 ELSE 0), off |-> (r + t) % k]
  BY <1>1, <1>2, <1>3, <1>4 DEF Index, Iterator
<1>6. CASE r + t >= k
  <2>1. p + i = (a + b) * k + (r + t)
    BY <1>3, <1>4, SplitSum
  <2>2. (a + b + 1) * k = (a + b) * k + k /\ r + t - k \in 0 .. k - 1
    BY <1>6
  <2>3. p + i = (a + b + 1) * k + (r + t - k)
    <3>1. PICK m \in Int : m = (a + b) * k
      OBVIOUS
    <3> QED
      BY <2>1, <2>2, <3>1
  <2>4. Splits(k, p + i, a + b + 1, r + t - k) /\ Splits(k, r + t, 1, r + t - k)
    BY <2>2, <2>3 DEF Splits
  <2>5. (p + i) \div k = a + b + 1 /\ (p + i) % k = r + t - k
    BY <2>4, DivUnique
  <2>6. (r + t) % k = r + t - k
    BY <2>4, DivUnique
  <2>7. Iterator(p + i) = [chunk |-> a + b + 1, off |-> r + t - k]
    BY <1>1, <2>5 DEF Iterator
  <2>8. Index(i) = [chunk |-> a + b + 1, off |-> r + t - k]
    BY <1>5, <1>6, <2>6
  <2> QED
    BY <1>2, <2>7, <2>8
<1>7. CASE ~(r + t >= k)
  <2>1. Splits(k, p + i, a + b, r + t) /\ Splits(k, r + t, 0, r + t)
    <3>1. p + i = (a + b) * k + (r + t)
      BY <1>3, <1>4, SplitSum
    <3>2. r + t \in 0 .. k - 1
      BY <1>7
    <3> QED
      BY <3>1, <3>2 DEF Splits
  <2>2. (p + i) \div k = a + b /\ (p + i) % k = r + t
    BY <2>1, DivUnique
  <2>3. (r + t) % k = r + t
    BY <2>1, DivUnique
  <2>4. Iterator(p + i) = [chunk |-> a + b, off |-> r + t]
    BY <1>1, <2>2 DEF Iterator
  <2>5. Index(i) = [chunk |-> a + b, off |-> r + t]
    BY <1>5, <1>7, <2>3
  <2> QED
    BY <1>2, <2>4, <2>5
<1> QED
  BY <1>6, <1>7

-----------------------------------------------------------------------------
(* The inductive invariant.  Everything in it is said of a deque and a     *)
(* chunk length k, so that it can be said of the deques within a call.     *)

ChunkType(k) == [0 .. k - 1 -> Vals \cup {Vacant}]

MapType(k, n) == [0 .. n - 1 -> ChunkType(k) \cup {Null, Wild}]

DequeType(k) ==
  [chunkMap : UNION {MapType(k, n) : n \in Nat \ {0}},
   front : Int, back : Int, size : Int, live : Int, astray : BOOLEAN]

\* The chunks that are allocated.
Chunks(s) == {c \in DOMAIN s.chunkMap : s.chunkMap[c] \notin {Null, Wild}}

Wilds(s) == {c \in DOMAIN s.chunkMap : s.chunkMap[c] = Wild}

Covers(k, s, p) == p \div k \in Chunks(s)

Slot(k, s, p) == IF Covers(k, s, p) THEN s.chunkMap[p \div k][p % k] ELSE Vacant

WellFormed(k, s) == s \in DequeType(k) /\ s.live = Cardinality(Chunks(s))

\* The ends are where the size says, and there are elements between them.
Ends(k, s) ==
  /\ s.size \in Nat /\ s.back - s.front = IF s.size = 0 THEN 0 ELSE s.size - 1
  /\ Covers(k, s, s.front) /\ Covers(k, s, s.back)
  /\ s.size > 0 => \A p \in s.front .. s.back : Slot(k, s, p) \in Vals

Good(k, s) == WellFormed(k, s) /\ Ends(k, s)

IInv ==
  /\ chunkSize \in ChunkSizes /\ deque \in DequeType(chunkSize) /\ deque.size \in Nat
  /\ NChunks(deque) <= MaxChunks /\ deque.size <= MaxSize
  /\ ~deque.astray => Good(chunkSize, deque)

-----------------------------------------------------------------------------
(* The chunk map.                                                          *)

LEMMA MapLength ==
  ASSUME NEW s, NEW k, NEW n \in Nat, s.chunkMap \in MapType(k, n)
  PROVE  NChunks(s) = n /\ DOMAIN s.chunkMap = 0 .. n - 1
<1>1. DOMAIN s.chunkMap = 0 .. n - 1
  BY DEF MapType
<1>2. Cardinality(0 .. n - 1) = n
  <2>1. 0 \in Int /\ n - 1 \in Int /\ (0 > n - 1 <=> n = 0) /\ (n - 1) - 0 + 1 = n
    OBVIOUS
  <2> QED
    BY <2>1, FS_Interval
<1> QED
  BY <1>1, <1>2 DEF NChunks

LEMMA MapFacts ==
  ASSUME NEW k, NEW s \in DequeType(k)
  PROVE  /\ NChunks(s) \in Nat \ {0} /\ DOMAIN s.chunkMap = 0 .. NChunks(s) - 1
         /\ s.chunkMap \in MapType(k, NChunks(s)) /\ IsFiniteSet(Chunks(s))
         /\ s.front \in Int /\ s.back \in Int /\ s.size \in Int /\ s.live \in Int
         /\ s.astray \in BOOLEAN
<1>1. /\ s.chunkMap \in UNION {MapType(k, n) : n \in Nat \ {0}}
      /\ s.front \in Int /\ s.back \in Int /\ s.size \in Int /\ s.live \in Int
      /\ s.astray \in BOOLEAN
  BY DEF DequeType
<1>2. PICK n \in Nat \ {0} : s.chunkMap \in MapType(k, n)
  BY <1>1
<1>3. NChunks(s) = n /\ DOMAIN s.chunkMap = 0 .. n - 1
  BY <1>2, MapLength
<1>4. IsFiniteSet(0 .. n - 1)
  BY FS_Interval, n - 1 \in Int, 0 \in Int
<1>5. Chunks(s) \subseteq 0 .. n - 1
  BY <1>3 DEF Chunks
<1>6. IsFiniteSet(Chunks(s))
  BY <1>4, <1>5, FS_Subset
<1> QED
  BY <1>1, <1>2, <1>3, <1>6

LEMMA ChunkSizeType == chunkSize \in ChunkSizes => chunkSize \in Nat \ {0}
BY DequeAssumption

\* A deque with another chunk map.
LEMMA NewMap ==
  ASSUME NEW k, NEW s \in DequeType(k), NEW n \in Nat \ {0}, NEW m \in MapType(k, n)
  PROVE  [s EXCEPT !.chunkMap = m] \in DequeType(k)
<1>1. m \in UNION {MapType(k, i) : i \in Nat \ {0}}
  OBVIOUS
<1> QED
  BY <1>1 DEF DequeType

\* The operators of the module see the chunks that are allocated.
LEMMA Seen ==
  ASSUME NEW s
  PROVE  /\ \A c : IsChunk(s, c) <=> c \in Chunks(s)
         /\ \A p : InChunk(s, p) <=> Covers(chunkSize, s, p)
         /\ \A p : At(s, p) = Slot(chunkSize, s, p)
BY DEF IsChunk, Chunks, InChunk, Covers, At, Slot

LEMMA ChunkFacts ==
  ASSUME NEW k, NEW s \in DequeType(k), NEW c \in Chunks(s)
  PROVE  c \in 0 .. NChunks(s) - 1 /\ s.chunkMap[c] \in ChunkType(k)
<1>1. s.chunkMap \in MapType(k, NChunks(s)) /\ DOMAIN s.chunkMap = 0 .. NChunks(s) - 1
  BY MapFacts
<1> QED
  BY <1>1 DEF MapType, Chunks

LEMMA SlotType ==
  ASSUME NEW k \in Nat \ {0}, NEW s \in DequeType(k), NEW p \in Int
  PROVE  Slot(k, s, p) \in Vals \cup {Vacant}
<1>1. CASE Covers(k, s, p)
  <2>1. s.chunkMap[p \div k] \in ChunkType(k)
    BY <1>1, ChunkFacts DEF Covers
  <2>2. p % k \in 0 .. k - 1
    BY DivMod
  <2> QED
    BY <1>1, <2>1, <2>2 DEF Slot, ChunkType
<1> QED
  BY <1>1 DEF Slot

\* A position that is covered is within the map.
LEMMA CoversRange ==
  ASSUME NEW k \in Nat \ {0}, NEW s \in DequeType(k), NEW p \in Int, Covers(k, s, p)
  PROVE  0 <= p /\ p < NChunks(s) * k
<1>1. p \div k \in 0 .. NChunks(s) - 1 /\ NChunks(s) \in Int
  BY MapFacts, ChunkFacts DEF Covers
<1> QED
  BY <1>1, DivRange

-----------------------------------------------------------------------------
(* Writing to the slots.                                                   *)

\* The slots of s with the values of f.
Filled(s, f) ==
  [s EXCEPT !.chunkMap =
     [c \in DOMAIN s.chunkMap |->
        IF IsChunk(s, c) THEN [o \in 0 .. chunkSize - 1 |-> f[c * chunkSize + o]]
        ELSE s.chunkMap[c]]]

\* t has the chunks and the ends of s.
SameShape(s, t) ==
  /\ t \in DequeType(chunkSize) /\ Chunks(t) = Chunks(s) /\ NChunks(t) = NChunks(s)
  /\ Wilds(t) = Wilds(s)
  /\ t.front = s.front /\ t.back = s.back /\ t.size = s.size /\ t.live = s.live

LEMMA FilledFacts ==
  ASSUME chunkSize \in ChunkSizes, NEW s \in DequeType(chunkSize),
         NEW f \in [Int -> Vals \cup {Vacant}]
  PROVE  /\ SameShape(s, Filled(s, f)) /\ Filled(s, f).astray = s.astray
         /\ \A p \in Int : Covers(chunkSize, s, p) => Slot(chunkSize, Filled(s, f), p) = f[p]
<1>1. PICK k \in Nat \ {0} : k = chunkSize
  BY ChunkSizeType
<1>2. PICK n \in Nat \ {0} : n = NChunks(s)
  BY MapFacts
<1> DEFINE m == [c \in DOMAIN s.chunkMap |->
                   IF IsChunk(s, c) THEN [o \in 0 .. chunkSize - 1 |-> f[c * chunkSize + o]]
                   ELSE s.chunkMap[c]]
           t == Filled(s, f)
<1>3. DOMAIN s.chunkMap = 0 .. n - 1 /\ \A c : IsChunk(s, c) <=> c \in Chunks(s)
  BY <1>2, MapFacts, Seen
<1>4. DOMAIN m = 0 .. n - 1
  BY <1>3
<1>5. ASSUME NEW c \in Chunks(s)
      PROVE  c \in 0 .. n - 1 /\ m[c] = [o \in 0 .. k - 1 |-> f[c * k + o]] /\ m[c] \in ChunkType(k)
  <2>1. c \in 0 .. n - 1
    BY <1>2, ChunkFacts
  <2>2. m[c] = [o \in 0 .. k - 1 |-> f[c * k + o]]
    BY <1>1, <1>3, <2>1
  <2>3. \A o \in 0 .. k - 1 : c * k + o \in Int
    BY <2>1
  <2> QED
    BY <2>1, <2>2, <2>3 DEF ChunkType
<1>6. ASSUME NEW c \in 0 .. n - 1, c \notin Chunks(s)
      PROVE  m[c] = s.chunkMap[c] /\ m[c] \in {Null, Wild}
  BY <1>3, <1>6 DEF Chunks
<1>7. t = [s EXCEPT !.chunkMap = m]
  BY DEF Filled
<1>8. m \in MapType(k, n)
  <2>1. \A c \in 0 .. n - 1 : m[c] \in ChunkType(k) \cup {Null, Wild}
    BY <1>5, <1>6
  <2>2. m = [c \in 0 .. n - 1 |-> m[c]]
    BY <1>4
  <2> HIDE DEF m
  <2> QED
    BY <2>1, <2>2 DEF MapType
<1> HIDE DEF m, t
<1>9. t \in DequeType(k) /\ t.chunkMap = m
  <2>1. s \in DequeType(k)
    BY <1>1
  <2>2. t.chunkMap = m
    BY <1>7, <2>1 DEF DequeType
  <2> QED
    BY <1>7, <1>8, <2>1, <2>2, NewMap
<1>10. /\ t.front = s.front /\ t.back = s.back /\ t.size = s.size /\ t.live = s.live
       /\ t.astray = s.astray
  BY <1>7 DEF DequeType
<1>11. NChunks(t) = NChunks(s)
  BY <1>2, <1>8, <1>9, MapLength
<1>12. Chunks(t) = Chunks(s) /\ Wilds(t) = Wilds(s)
  <2>1. ChunkType(k) \cap {Null, Wild} = {}
    BY <1>1, DequeAssumption DEF ChunkType
  <2>2. \A c \in 0 .. n - 1 : m[c] \in {Null, Wild} <=> c \notin Chunks(s)
    BY <1>5, <1>6, <2>1
  <2>3. Chunks(t) = Chunks(s)
    BY <1>3, <1>4, <1>9, <2>2 DEF Chunks
  <2>4. \A c \in 0 .. n - 1 : m[c] = Wild <=> s.chunkMap[c] = Wild
    BY <1>3, <1>6, <2>2 DEF Chunks
  <2> QED
    BY <1>3, <1>4, <1>9, <2>3, <2>4 DEF Wilds
<1>13. ASSUME NEW p \in Int, Covers(k, s, p) PROVE Slot(k, t, p) = f[p]
  <2>1. PICK c \in Chunks(s) : c = p \div k
    BY <1>13 DEF Covers
  <2>2. PICK o \in 0 .. k - 1 : o = p % k
    BY DivMod
  <2>3. p = c * k + o
    BY <2>1, <2>2, DivMod
  <2>4. Slot(k, t, p) = m[c][o]
    BY <1>9, <1>12, <2>1, <2>2 DEF Slot, Covers
  <2> QED
    BY <1>5, <2>3, <2>4
<1> QED
  BY <1>1, <1>9, <1>10, <1>11, <1>12, <1>13 DEF SameShape, t

LEMMA Strayed ==
  ASSUME NEW s \in DequeType(chunkSize), NEW b \in BOOLEAN, NEW t, t = [s EXCEPT !.astray = b]
  PROVE  SameShape(s, t) /\ t.astray = b /\ \A p : Slot(chunkSize, t, p) = Slot(chunkSize, s, p)
<1>1. /\ t \in DequeType(chunkSize) /\ t.chunkMap = s.chunkMap /\ t.live = s.live
      /\ t.front = s.front /\ t.back = s.back /\ t.size = s.size /\ t.astray = b
  BY DEF DequeType
<1>2. Chunks(t) = Chunks(s) /\ NChunks(t) = NChunks(s) /\ Wilds(t) = Wilds(s)
  BY <1>1 DEF Chunks, NChunks, Wilds
<1> QED
  BY <1>1, <1>2 DEF SameShape, Slot, Covers

LEMMA ShapeTransitive ==
  ASSUME NEW r, NEW s, NEW t, SameShape(r, s), SameShape(s, t)
  PROVE  SameShape(r, t)
BY DEF SameShape

\* A write to one slot.
LEMMA AssignedFacts ==
  ASSUME chunkSize \in ChunkSizes, NEW s \in DequeType(chunkSize),
         NEW p, NEW x \in Vals \cup {Vacant}
  PROVE  /\ SameShape(s, Assigned(s, p, x))
         /\ \A q \in Int : Covers(chunkSize, s, q) =>
              Slot(chunkSize, Assigned(s, p, x), q) = IF q = p THEN x ELSE Slot(chunkSize, s, q)
         /\ Assigned(s, p, x).astray = (s.astray \/ ~Covers(chunkSize, s, p))
<1> DEFINE f == [q \in Int |-> IF q = p THEN x ELSE At(s, q)]
<1>1. PICK k \in Nat \ {0} : k = chunkSize
  BY ChunkSizeType
<1>2. \A q \in Int : At(s, q) = Slot(k, s, q) /\ At(s, q) \in Vals \cup {Vacant}
  BY <1>1, Seen, SlotType
<1>3. f \in [Int -> Vals \cup {Vacant}]
  BY <1>2
<1>4. Rewritten(s, LAMBDA q : IF q = p THEN x ELSE At(s, q)) = Filled(s, f)
  <2>1. \A c \in DOMAIN s.chunkMap, o \in 0 .. chunkSize - 1 : c * chunkSize + o \in Int
    <3>1. DOMAIN s.chunkMap = 0 .. NChunks(s) - 1 /\ NChunks(s) \in Int
      BY MapFacts
    <3>2. \A c \in 0 .. NChunks(s) - 1 : \A o \in 0 .. k - 1 : c * k + o \in Int
      BY <3>1
    <3> QED
      BY <1>1, <3>1, <3>2
  <2> QED
    BY <2>1 DEF Rewritten, Filled
<1> HIDE DEF f
<1>5. PICK v : v = Filled(s, f)
  OBVIOUS
<1>6. /\ SameShape(s, v) /\ v.astray = s.astray
      /\ \A q \in Int : Covers(chunkSize, s, q) => Slot(chunkSize, v, q) = f[q]
  BY <1>3, <1>5, FilledFacts
<1>7. \A q \in Int : f[q] = IF q = p THEN x ELSE Slot(chunkSize, s, q)
  BY <1>1, <1>2 DEF f
<1>8. PICK b \in BOOLEAN : b = (s.astray \/ ~Covers(chunkSize, s, p))
  OBVIOUS
<1>9. Uses(s, {p}) = ~Covers(chunkSize, s, p)
  BY Seen DEF Uses
<1>10. PICK t : t = [v EXCEPT !.astray = b]
  OBVIOUS
<1>11. Assigned(s, p, x) = t
  BY <1>4, <1>5, <1>6, <1>8, <1>9, <1>10 DEF Assigned
<1>12. v \in DequeType(chunkSize)
  BY <1>6 DEF SameShape
<1>13. SameShape(v, t) /\ t.astray = b /\ \A q : Slot(chunkSize, t, q) = Slot(chunkSize, v, q)
  BY <1>10, <1>12, Strayed
<1> QED
  BY <1>6, <1>7, <1>8, <1>11, <1>13, ShapeTransitive

-----------------------------------------------------------------------------
(* A chunk more, and a larger map.                                         *)

\* t has what s has, and perhaps more chunks.
Extends(s, t) ==
  /\ WellFormed(chunkSize, t) /\ NChunks(t) = NChunks(s)
  /\ t.front = s.front /\ t.back = s.back /\ t.size = s.size
  /\ Wilds(t) = Wilds(s) /\ t.astray = s.astray
  /\ \A q \in Int : /\ Covers(chunkSize, s, q) => Covers(chunkSize, t, q)
                    /\ Slot(chunkSize, t, q) = Slot(chunkSize, s, q)

LEMMA AllocatedFacts ==
  ASSUME chunkSize \in ChunkSizes, NEW s, WellFormed(chunkSize, s), NEW c \in DOMAIN s.chunkMap,
         s.chunkMap[c] = Null,
         NEW t, t = [s EXCEPT !.chunkMap[c] = [o \in 0 .. chunkSize - 1 |-> Vacant], !.live = @ + 1]
  PROVE  Extends(s, t) /\ Chunks(t) = Chunks(s) \cup {c}
<1>1. PICK k \in Nat \ {0} : k = chunkSize
  BY ChunkSizeType
<1>2. PICK n \in Nat \ {0} : n = NChunks(s) /\ DOMAIN s.chunkMap = 0 .. n - 1 /\ s.chunkMap \in MapType(k, n)
  BY <1>1, MapFacts DEF WellFormed
<1> DEFINE new == [o \in 0 .. k - 1 |-> Vacant]
           m == [s.chunkMap EXCEPT ![c] = new]
<1>3. new \in ChunkType(k) /\ ChunkType(k) \cap {Null, Wild} = {} /\ Null # Wild
  BY <1>1, DequeAssumption DEF ChunkType
<1>4. m \in MapType(k, n) /\ DOMAIN m = 0 .. n - 1
  BY <1>2, <1>3 DEF MapType
<1>5. s \in DequeType(k) /\ s.live = Cardinality(Chunks(s)) /\ s.live \in Int /\ IsFiniteSet(Chunks(s))
  BY <1>1, MapFacts DEF WellFormed
<1>6. t = [[s EXCEPT !.chunkMap = m] EXCEPT !.live = s.live + 1]
  BY <1>1, <1>5 DEF DequeType
<1>7. m[c] = new /\ \A i \in 0 .. n - 1 : i # c => m[i] = s.chunkMap[i]
  BY <1>2 DEF MapType
<1> HIDE DEF m, new
<1>8. [s EXCEPT !.chunkMap = m] \in DequeType(k)
  BY <1>4, <1>5, NewMap
<1>9. /\ t \in DequeType(k) /\ t.chunkMap = m /\ t.live = s.live + 1
      /\ t.front = s.front /\ t.back = s.back /\ t.size = s.size /\ t.astray = s.astray
  <2>1. PICK v \in DequeType(k) : v = [s EXCEPT !.chunkMap = m]
    BY <1>8
  <2>2. /\ v.chunkMap = m /\ v.front = s.front /\ v.back = s.back /\ v.size = s.size
        /\ v.astray = s.astray
    BY <1>5, <2>1 DEF DequeType
  <2>3. t = [v EXCEPT !.live = s.live + 1] /\ s.live + 1 \in Int
    BY <1>5, <1>6, <2>1
  <2> QED
    BY <2>2, <2>3 DEF DequeType
<1>10. NChunks(t) = n
  BY <1>4, <1>9, MapLength
<1>11. Chunks(t) = Chunks(s) \cup {c} /\ c \notin Chunks(s) /\ Wilds(t) = Wilds(s)
  <2>1. m[c] \notin {Null, Wild}
    BY <1>3, <1>7
  <2>2. Chunks(t) = Chunks(s) \cup {c} /\ c \notin Chunks(s)
    BY <1>2, <1>4, <1>7, <1>9, <2>1 DEF Chunks
  <2>3. Wilds(t) = Wilds(s)
    BY <1>2, <1>3, <1>4, <1>7, <1>9, <2>1 DEF Wilds
  <2> QED
    BY <2>2, <2>3
<1>12. Cardinality(Chunks(t)) = s.live + 1
  BY <1>5, <1>11, FS_AddElement
<1>13. ASSUME NEW q \in Int
       PROVE  /\ Covers(k, s, q) => Covers(k, t, q)
              /\ Slot(k, t, q) = Slot(k, s, q)
  <2>1. PICK o \in 0 .. k - 1 : o = q % k
    BY DivMod
  <2>2. CASE q \div k = c
    <3>1. Slot(k, t, q) = new[o]
      BY <1>7, <1>9, <1>11, <2>1, <2>2 DEF Slot, Covers
    <3>2. Slot(k, s, q) = Vacant
      BY <1>11, <2>2 DEF Slot, Covers
    <3> QED
      BY <1>11, <2>2, <3>1, <3>2 DEF new, Covers
  <2>3. CASE q \div k # c
    <3>1. Covers(k, t, q) <=> Covers(k, s, q)
      BY <1>11, <2>3 DEF Covers
    <3>2. Covers(k, s, q) => q \div k \in 0 .. n - 1
      BY <1>2 DEF Covers, Chunks
    <3> QED
      BY <1>7, <1>9, <2>3, <3>1, <3>2 DEF Slot
  <2> QED
    BY <2>2, <2>3
<1> QED
  BY <1>1, <1>2, <1>9, <1>10, <1>11, <1>12, <1>13 DEF Extends, WellFormed

\* The end of inc() and dec() loses nothing, and finds a chunk if it is within
\* the map.
LEMMA ReachedFacts ==
  ASSUME chunkSize \in ChunkSizes, NEW s, WellFormed(chunkSize, s), NEW p \in Int
  PROVE  /\ Extends(s, Reached(s, p))
         /\ p \div chunkSize \in (0 .. NChunks(s) - 1) \ Wilds(s) => Covers(chunkSize, Reached(s, p), p)
<1> DEFINE c == p \div chunkSize
<1>1. DOMAIN s.chunkMap = 0 .. NChunks(s) - 1
  BY MapFacts DEF WellFormed
<1>2. CASE c \in DOMAIN s.chunkMap /\ s.chunkMap[c] = Null
  <2>1. Reached(s, p) =
          [s EXCEPT !.chunkMap[c] = [o \in 0 .. chunkSize - 1 |-> Vacant], !.live = @ + 1]
    BY <1>2 DEF Reached
  <2> HIDE DEF c
  <2>2. Extends(s, Reached(s, p)) /\ Chunks(Reached(s, p)) = Chunks(s) \cup {c}
    BY <1>2, <2>1, AllocatedFacts
  <2> QED
    BY <2>2 DEF Covers, c
<1>3. CASE ~(c \in DOMAIN s.chunkMap /\ s.chunkMap[c] = Null)
  <2>1. Reached(s, p) = s
    BY <1>3 DEF Reached
  <2> QED
    BY <1>1, <1>3, <2>1 DEF Extends, Covers, Chunks, Wilds
<1> QED
  BY <1>2, <1>3

\* The elements between first and last move to the left ...
LEMMA ShiftedLeftFacts ==
  ASSUME chunkSize \in ChunkSizes, NEW s, WellFormed(chunkSize, s), NEW first \in Int, NEW last \in Int
  PROVE  LET t == Reached(s, first - 1)
             u == ShiftedLeft(s, first, last)
         IN
         /\ Extends(s, t) /\ SameShape(t, u) /\ WellFormed(chunkSize, u)
         /\ (first - 1) \div chunkSize \in (0 .. NChunks(s) - 1) \ Wilds(s) => Covers(chunkSize, u, first - 1)
         /\ u.astray = (s.astray \/ \E q \in first - 1 .. last : ~Covers(chunkSize, t, q))
         /\ \A q \in Int : Covers(chunkSize, u, q) =>
              Slot(chunkSize, u, q) = IF q = last THEN Vacant
                                      ELSE IF q \in first - 1 .. last - 1 THEN Slot(chunkSize, s, q + 1)
                                      ELSE Slot(chunkSize, s, q)
<1>1. PICK k \in Nat \ {0} : k = chunkSize
  BY ChunkSizeType
<1> DEFINE t == Reached(s, first - 1)
<1>3. /\ Extends(s, t)
      /\ (first - 1) \div chunkSize \in (0 .. NChunks(s) - 1) \ Wilds(s) => Covers(chunkSize, t, first - 1)
  BY ReachedFacts
<1> HIDE DEF t
<1>4. t \in DequeType(chunkSize) /\ t.live = Cardinality(Chunks(t))
  BY <1>3 DEF Extends, WellFormed
<1> DEFINE f == [p \in Int |-> IF p = last THEN Vacant
                               ELSE IF p \in first - 1 .. last - 1 THEN At(t, p + 1) ELSE At(t, p)]
<1>5. \A q \in Int : At(t, q) = Slot(k, s, q) /\ At(t, q) \in Vals \cup {Vacant}
  BY <1>1, <1>3, <1>4, Seen, SlotType DEF Extends
<1>6. f \in [Int -> Vals \cup {Vacant}]
  BY <1>5
<1>7. Rewritten(t, LAMBDA p : IF p = last THEN Vacant
                             ELSE IF p \in first - 1 .. last - 1 THEN At(t, p + 1) ELSE At(t, p)) = Filled(t, f)
  <2>1. \A c \in DOMAIN t.chunkMap, o \in 0 .. chunkSize - 1 : c * chunkSize + o \in Int
    <3>1. DOMAIN t.chunkMap = 0 .. NChunks(t) - 1 /\ NChunks(t) \in Int
      BY <1>4, MapFacts
    <3>2. \A c \in 0 .. NChunks(t) - 1 : \A o \in 0 .. k - 1 : c * k + o \in Int
      BY <3>1
    <3> QED
      BY <1>1, <3>1, <3>2
  <2> QED
    BY <2>1 DEF Rewritten, Filled
<1>8. \A q \in Int : f[q] = IF q = last THEN Vacant
                            ELSE IF q \in first - 1 .. last - 1 THEN Slot(k, s, q + 1)
                            ELSE Slot(k, s, q)
  BY <1>5
<1> HIDE DEF f
<1>9. PICK v : v = Filled(t, f)
  OBVIOUS
<1>10. /\ SameShape(t, v) /\ v.astray = s.astray
       /\ \A q \in Int : Covers(chunkSize, t, q) => Slot(chunkSize, v, q) = f[q]
  BY <1>3, <1>4, <1>6, <1>9, FilledFacts DEF Extends
<1>11. PICK b \in BOOLEAN : b = (s.astray \/ \E q \in first - 1 .. last : ~Covers(chunkSize, t, q))
  OBVIOUS
<1>12. Uses(t, first - 1 .. last) = \E q \in first - 1 .. last : ~Covers(chunkSize, t, q)
  BY Seen DEF Uses
<1>13. PICK u : u = [v EXCEPT !.astray = b]
  OBVIOUS
<1>14. ShiftedLeft(s, first, last) = u
  <2>1. ShiftedLeft(s, first, last) = [v EXCEPT !.astray = @ \/ Uses(t, first - 1 .. last)]
    BY <1>7, <1>9 DEF ShiftedLeft, t
  <2> QED
    BY <1>10, <1>11, <1>12, <1>13, <2>1
<1>15. SameShape(v, u) /\ u.astray = b /\ \A q : Slot(chunkSize, u, q) = Slot(chunkSize, v, q)
  <2>1. v \in DequeType(chunkSize)
    BY <1>10 DEF SameShape
  <2> QED
    BY <1>13, <2>1, Strayed
<1>16. SameShape(t, u)
  BY <1>10, <1>15, ShapeTransitive
<1>17. WellFormed(chunkSize, u) /\ \A q : Covers(chunkSize, u, q) <=> Covers(chunkSize, t, q)
  BY <1>4, <1>16 DEF SameShape, WellFormed, Covers
<1>18. \A q \in Int : Covers(chunkSize, u, q) => Slot(chunkSize, u, q) = f[q]
  BY <1>10, <1>15, <1>17
<1> QED
  BY <1>1, <1>3, <1>8, <1>11, <1>14, <1>15, <1>16, <1>17, <1>18 DEF t

\* ... and to the right.
LEMMA ShiftedRightFacts ==
  ASSUME chunkSize \in ChunkSizes, NEW s, WellFormed(chunkSize, s), NEW first \in Int, NEW last \in Int
  PROVE  LET t == Reached(s, last + 1)
             u == ShiftedRight(s, first, last)
         IN
         /\ Extends(s, t) /\ SameShape(t, u) /\ WellFormed(chunkSize, u)
         /\ (last + 1) \div chunkSize \in (0 .. NChunks(s) - 1) \ Wilds(s) => Covers(chunkSize, u, last + 1)
         /\ u.astray = (s.astray \/ \E q \in first .. last + 1 : ~Covers(chunkSize, t, q))
         /\ \A q \in Int : Covers(chunkSize, u, q) =>
              Slot(chunkSize, u, q) = IF q = first THEN Vacant
                                      ELSE IF q \in first + 1 .. last + 1 THEN Slot(chunkSize, s, q - 1)
                                      ELSE Slot(chunkSize, s, q)
<1>1. PICK k \in Nat \ {0} : k = chunkSize
  BY ChunkSizeType
<1> DEFINE t == Reached(s, last + 1)
<1>3. /\ Extends(s, t)
      /\ (last + 1) \div chunkSize \in (0 .. NChunks(s) - 1) \ Wilds(s) => Covers(chunkSize, t, last + 1)
  BY ReachedFacts
<1> HIDE DEF t
<1>4. t \in DequeType(chunkSize) /\ t.live = Cardinality(Chunks(t))
  BY <1>3 DEF Extends, WellFormed
<1> DEFINE f == [p \in Int |-> IF p = first THEN Vacant
                               ELSE IF p \in first + 1 .. last + 1 THEN At(t, p - 1) ELSE At(t, p)]
<1>5. \A q \in Int : At(t, q) = Slot(k, s, q) /\ At(t, q) \in Vals \cup {Vacant}
  BY <1>1, <1>3, <1>4, Seen, SlotType DEF Extends
<1>6. f \in [Int -> Vals \cup {Vacant}]
  BY <1>5
<1>7. Rewritten(t, LAMBDA p : IF p = first THEN Vacant
                             ELSE IF p \in first + 1 .. last + 1 THEN At(t, p - 1) ELSE At(t, p)) = Filled(t, f)
  <2>1. \A c \in DOMAIN t.chunkMap, o \in 0 .. chunkSize - 1 : c * chunkSize + o \in Int
    <3>1. DOMAIN t.chunkMap = 0 .. NChunks(t) - 1 /\ NChunks(t) \in Int
      BY <1>4, MapFacts
    <3>2. \A c \in 0 .. NChunks(t) - 1 : \A o \in 0 .. k - 1 : c * k + o \in Int
      BY <3>1
    <3> QED
      BY <1>1, <3>1, <3>2
  <2> QED
    BY <2>1 DEF Rewritten, Filled
<1>8. \A q \in Int : f[q] = IF q = first THEN Vacant
                            ELSE IF q \in first + 1 .. last + 1 THEN Slot(k, s, q - 1)
                            ELSE Slot(k, s, q)
  BY <1>5
<1> HIDE DEF f
<1>9. PICK v : v = Filled(t, f)
  OBVIOUS
<1>10. /\ SameShape(t, v) /\ v.astray = s.astray
       /\ \A q \in Int : Covers(chunkSize, t, q) => Slot(chunkSize, v, q) = f[q]
  BY <1>3, <1>4, <1>6, <1>9, FilledFacts DEF Extends
<1>11. PICK b \in BOOLEAN : b = (s.astray \/ \E q \in first .. last + 1 : ~Covers(chunkSize, t, q))
  OBVIOUS
<1>12. Uses(t, first .. last + 1) = \E q \in first .. last + 1 : ~Covers(chunkSize, t, q)
  BY Seen DEF Uses
<1>13. PICK u : u = [v EXCEPT !.astray = b]
  OBVIOUS
<1>14. ShiftedRight(s, first, last) = u
  <2>1. ShiftedRight(s, first, last) = [v EXCEPT !.astray = @ \/ Uses(t, first .. last + 1)]
    BY <1>7, <1>9 DEF ShiftedRight, t
  <2> QED
    BY <1>10, <1>11, <1>12, <1>13, <2>1
<1>15. SameShape(v, u) /\ u.astray = b /\ \A q : Slot(chunkSize, u, q) = Slot(chunkSize, v, q)
  <2>1. v \in DequeType(chunkSize)
    BY <1>10 DEF SameShape
  <2> QED
    BY <1>13, <2>1, Strayed
<1>16. SameShape(t, u)
  BY <1>10, <1>15, ShapeTransitive
<1>17. WellFormed(chunkSize, u) /\ \A q : Covers(chunkSize, u, q) <=> Covers(chunkSize, t, q)
  BY <1>4, <1>16 DEF SameShape, WellFormed, Covers
<1>18. \A q \in Int : Covers(chunkSize, u, q) => Slot(chunkSize, u, q) = f[q]
  BY <1>10, <1>15, <1>17
<1> QED
  BY <1>1, <1>3, <1>8, <1>11, <1>14, <1>15, <1>16, <1>17, <1>18 DEF t

\* t is s with e positions more on the left, and room behind the back.
MovedBy(s, t, e) ==
  /\ e \in Nat /\ WellFormed(chunkSize, t)
  /\ t.front = s.front + e /\ t.back = s.back + e /\ t.size = s.size /\ t.astray = s.astray
  /\ \A q \in Int : Covers(chunkSize, s, q) =>
       /\ Covers(chunkSize, t, q + e)
       /\ Slot(chunkSize, t, q + e) = Slot(chunkSize, s, q)

\* grow() puts the chunks in the middle of a map of twice the length.
LEMMA GrownFacts ==
  ASSUME chunkSize \in ChunkSizes, NEW s, WellFormed(chunkSize, s),
         NEW past \in Behind,
         NEW n \in Nat \ {0}, n = NChunks(s), NEW d \in Nat, d = (2 * n) \div 4
  PROVE  MovedBy(s, Grown(s, past), d * chunkSize) /\ NChunks(Grown(s, past)) = 2 * n
<1>1. PICK k \in Nat \ {0} : k = chunkSize
  BY ChunkSizeType
<1>2. DOMAIN s.chunkMap = 0 .. n - 1 /\ s.chunkMap \in MapType(k, n)
  BY <1>1, MapFacts DEF WellFormed
<1>3. s \in DequeType(k) /\ IsFiniteSet(Chunks(s)) /\ s.live = Cardinality(Chunks(s))
  BY <1>1, MapFacts DEF WellFormed
<1>4. /\ s.front \in Int /\ s.back \in Int
  BY <1>1, MapFacts DEF WellFormed
<1>5. d + n <= 2 * n - d
  OBVIOUS
<1> DEFINE entry(i) == IF i < n THEN s.chunkMap[i] ELSE past
           m == [i \in 0 .. 2 * n - 1 |->
                   IF i \in d .. 2 * n - d - 1 THEN entry(i - d) ELSE Null]
           t == Grown(s, past)
<1>6. t = [s EXCEPT !.chunkMap = m, !.front = @ + d * k, !.back = @ + d * k]
  BY <1>1 DEF Grown
<1>7. ASSUME NEW c \in 0 .. n - 1 PROVE c + d \in 0 .. 2 * n - 1 /\ m[c + d] = s.chunkMap[c]
  <2>1. c + d \in 0 .. 2 * n - 1 /\ c + d \in d .. 2 * n - d - 1 /\ (c + d) - d = c /\ c < n
    BY <1>5
  <2> QED
    BY <2>1
<1>8. ASSUME NEW i \in 0 .. 2 * n - 1, i - d \notin 0 .. n - 1 PROVE m[i] \in {Null, Wild}
  <2>1. CASE i \in d .. 2 * n - d - 1
    <3>1. m[i] = entry(i - d) /\ ~(i - d < n)
      BY <1>8, <2>1
    <3> QED
      BY <3>1 DEF Behind
  <2> QED
    BY <2>1
<1>9. m \in MapType(k, 2 * n)
  <2>1. \A i \in 0 .. 2 * n - 1 : i - d \in 0 .. n - 1 => m[i] = s.chunkMap[i - d]
    OBVIOUS
  <2>2. \A i \in 0 .. 2 * n - 1 : m[i] \in ChunkType(k) \cup {Null, Wild}
    BY <1>2, <1>8, <2>1 DEF MapType
  <2>3. m = [i \in 0 .. 2 * n - 1 |-> m[i]]
    OBVIOUS
  <2> HIDE DEF m
  <2> QED
    BY <2>2, <2>3 DEF MapType
<1>10. DOMAIN m = 0 .. 2 * n - 1
  OBVIOUS
<1> HIDE DEF m, t
<1>11. PICK e \in Nat : e = d * k
  OBVIOUS
<1>12. /\ t \in DequeType(k) /\ t.chunkMap = m /\ t.live = s.live
       /\ t.front = s.front + e /\ t.back = s.back + e /\ t.size = s.size /\ t.astray = s.astray
  <2>1. PICK v \in DequeType(k) : v = [s EXCEPT !.chunkMap = m]
    BY <1>3, <1>9, NewMap, 2 * n \in Nat \ {0}
  <2>2. /\ v.chunkMap = m /\ v.front = s.front /\ v.back = s.back /\ v.size = s.size
        /\ v.live = s.live /\ v.astray = s.astray
    BY <1>3, <2>1 DEF DequeType
  <2>3. /\ t = [[v EXCEPT !.front = s.front + e] EXCEPT !.back = s.back + e]
        /\ s.front + e \in Int /\ s.back + e \in Int
    BY <1>3, <1>4, <1>6, <1>11, <2>1 DEF DequeType
  <2> QED
    BY <2>2, <2>3 DEF DequeType
<1>13. NChunks(t) = 2 * n
  BY <1>9, <1>12, MapLength, 2 * n \in Nat
<1>14. Chunks(t) = {c + d : c \in Chunks(s)}
  <2>1. ASSUME NEW i \in Chunks(t) PROVE i \in {c + d : c \in Chunks(s)}
    <3>1. i \in 0 .. 2 * n - 1 /\ m[i] \notin {Null, Wild}
      BY <1>10, <1>12 DEF Chunks
    <3>2. i - d \in 0 .. n - 1
      BY <1>8, <3>1
    <3>3. PICK c \in 0 .. n - 1 : c = i - d
      BY <3>2
    <3>4. c + d = i
      BY <3>1, <3>3
    <3>5. c \in Chunks(s)
      BY <1>2, <1>7, <3>1, <3>4 DEF Chunks
    <3> QED
      BY <3>4, <3>5
  <2>2. ASSUME NEW c \in Chunks(s) PROVE c + d \in Chunks(t)
    BY <1>2, <1>7, <1>10, <1>12 DEF Chunks
  <2> QED
    BY <2>1, <2>2
<1>15. Cardinality(Chunks(t)) = Cardinality(Chunks(s))
  <2> DEFINE f == [c \in Chunks(s) |-> c + d]
  <2>1. \A c \in Chunks(s) : c \in Int
    BY <1>2 DEF Chunks
  <2>2. f \in [Chunks(s) -> Chunks(t)]
    BY <1>14
  <2>3. \A a, b \in Chunks(s) : f[a] = f[b] => a = b
    BY <2>1
  <2>4. \A i \in Chunks(t) : \E c \in Chunks(s) : f[c] = i
    BY <1>14
  <2>5. f \in Bijection(Chunks(s), Chunks(t))
    <3> HIDE DEF f
    <3> QED
      BY <2>2, <2>3, <2>4 DEF Bijection, Injection, Surjection, IsInjective
  <2>6. ExistsBijection(Chunks(s), Chunks(t))
    BY <2>5 DEF ExistsBijection
  <2> QED
    BY <1>3, <2>6, FS_Bijection
<1>16. ASSUME NEW q \in Int, Covers(k, s, q)
       PROVE  Covers(k, t, q + e) /\ Slot(k, t, q + e) = Slot(k, s, q)
  <2>1. PICK c \in Chunks(s) : c = q \div k
    BY <1>16 DEF Covers
  <2>2. (q + e) \div k = c + d /\ (q + e) % k = q % k
    BY <1>11, <2>1, DivShift
  <2>3. c \in 0 .. n - 1 /\ c + d \in Chunks(t)
    BY <1>2, <1>14 DEF Chunks
  <2> QED
    BY <1>7, <1>12, <1>16, <2>1, <2>2, <2>3 DEF Slot, Covers
<1> QED
  BY <1>1, <1>3, <1>11, <1>12, <1>13, <1>15, <1>16 DEF MovedBy, WellFormed, t

LEMMA Unmoved ==
  ASSUME NEW s, WellFormed(chunkSize, s)
  PROVE  MovedBy(s, s, 0)
<1>1. s.front \in Int /\ s.back \in Int
  BY MapFacts DEF WellFormed
<1> QED
  BY <1>1 DEF MovedBy

LEMMA RoomMoves ==
  ASSUME chunkSize \in ChunkSizes, NEW s, Good(chunkSize, s), NEW p, NEW limit,
         NEW past \in Behind
  PROVE  \E e \in Nat : MovedBy(s, WithRoom(s, p, limit, past), e)
<1>1. PICK k \in Nat \ {0} : k = chunkSize
  BY ChunkSizeType
<1>2. PICK n \in Nat \ {0} : n = NChunks(s)
  BY <1>1, MapFacts DEF Good, WellFormed
<1>3. PICK d \in Nat : d = (2 * n) \div 4
  OBVIOUS
<1>4. PICK e \in Nat : e = d * chunkSize
  BY <1>1
<1>5. MovedBy(s, Grown(s, past), e)
  BY <1>2, <1>3, <1>4, GrownFacts DEF Good
<1>6. MovedBy(s, s, 0)
  BY Unmoved DEF Good
<1> QED
  BY <1>5, <1>6 DEF WithRoom

\* The ends of a deque are within the map, and so is the position behind the
\* back, or before the front, once there is room.
LEMMA RoomBehind ==
  ASSUME chunkSize \in ChunkSizes, NEW s, Good(chunkSize, s), NEW past \in Behind
  PROVE  LET t == WithRoom(s, s.back, Limit(s), past) IN
         /\ \E e \in Nat : MovedBy(s, t, e)
         /\ (t.back + 1) \div chunkSize \in 0 .. NChunks(t) - 1
<1>1. PICK k \in Nat \ {0} : k = chunkSize
  BY ChunkSizeType
<1>2. PICK n \in Nat \ {0} : n = NChunks(s)
  BY <1>1, MapFacts DEF Good, WellFormed
<1>3. s \in DequeType(k) /\ s.back \in Int /\ Covers(k, s, s.back)
  BY <1>1, MapFacts DEF Good, WellFormed, Ends
<1>4. 0 <= s.back /\ s.back < n * k
  BY <1>1, <1>2, <1>3, CoversRange
<1>5. PICK t : t = WithRoom(s, s.back, Limit(s), past)
  OBVIOUS
<1>6. PICK nk \in Nat : nk = n * k
  OBVIOUS
<1>7. Limit(s) = nk - 1
  BY <1>1, <1>2, <1>6 DEF Limit
<1>8. CASE s.back = nk - 1
  <2>1. t = Grown(s, past)
    BY <1>5, <1>7, <1>8 DEF WithRoom
  <2>2. PICK d \in Nat : d = (2 * n) \div 4
    OBVIOUS
  <2>3. MovedBy(s, t, d * chunkSize) /\ NChunks(t) = 2 * n
    BY <1>2, <2>1, <2>2, GrownFacts DEF Good
  <2>4. PICK e \in Nat : e = d * k
    OBVIOUS
  <2>5. t.back + 1 = nk + e
    BY <1>1, <1>8, <2>3, <2>4 DEF MovedBy
  <2>6. d + 1 <= n
    BY <2>2
  <2>7. nk + e < (2 * n) * k
    <3>1. (n - d) * k >= k
      BY <2>6, Multiple
    <3>2. (n - d) * k = nk - e /\ (2 * n) * k = nk + nk
      BY <1>6, <2>4
    <3> QED
      BY <3>1, <3>2
  <2>8. (nk + e) \div k \in 0 .. 2 * n - 1
    <3>1. PICK x \in Int, l \in Int : x = nk + e /\ l = 2 * n
      OBVIOUS
    <3>2. 0 <= x /\ x < l * k
      BY <2>7, <3>1
    <3>3. x \div k \in 0 .. l - 1
      BY <3>2, DivRange
    <3> QED
      BY <3>1, <3>3
  <2> QED
    BY <1>1, <1>5, <2>3, <2>4, <2>5, <2>8
<1>9. CASE s.back # nk - 1
  <2>1. t = s
    BY <1>5, <1>7, <1>9 DEF WithRoom
  <2>2. 0 <= s.back + 1 /\ s.back + 1 < n * k
    BY <1>3, <1>4, <1>6, <1>9
  <2>3. PICK p \in Int : p = s.back + 1
    BY <1>3
  <2>4. p \div k \in 0 .. n - 1
    BY <2>2, <2>3, DivRange
  <2>5. MovedBy(s, t, 0)
    BY <2>1, Unmoved DEF Good
  <2> QED
    BY <1>1, <1>2, <1>5, <2>1, <2>3, <2>4, <2>5
<1> QED
  BY <1>8, <1>9

LEMMA RoomBefore ==
  ASSUME chunkSize \in ChunkSizes, NEW s, Good(chunkSize, s), NEW past \in Behind,
         NChunks(s) > 1 \/ s.front > 0
  PROVE  LET t == WithRoom(s, s.front, 0, past) IN
         /\ \E e \in Nat : MovedBy(s, t, e)
         /\ (t.front - 1) \div chunkSize \in 0 .. NChunks(t) - 1
<1>1. PICK k \in Nat \ {0} : k = chunkSize
  BY ChunkSizeType
<1>2. PICK n \in Nat \ {0} : n = NChunks(s)
  BY <1>1, MapFacts DEF Good, WellFormed
<1>3. s \in DequeType(k) /\ s.front \in Int /\ Covers(k, s, s.front)
  BY <1>1, MapFacts DEF Good, WellFormed, Ends
<1>4. 0 <= s.front /\ s.front < n * k
  BY <1>1, <1>2, <1>3, CoversRange
<1>5. PICK t : t = WithRoom(s, s.front, 0, past)
  OBVIOUS
<1>6. CASE s.front = 0
  <2>1. t = Grown(s, past) /\ n > 1
    BY <1>2, <1>5, <1>6 DEF WithRoom
  <2>2. PICK d \in Nat : d = (2 * n) \div 4
    OBVIOUS
  <2>3. MovedBy(s, t, d * chunkSize) /\ NChunks(t) = 2 * n
    BY <1>2, <2>1, <2>2, GrownFacts DEF Good
  <2>4. PICK e \in Nat : e = d * k
    OBVIOUS
  <2>5. t.front = e
    BY <1>1, <1>6, <2>3, <2>4 DEF MovedBy
  <2>6. d >= 1 /\ 2 * n - d >= 1
    BY <2>1, <2>2
  <2>7. 0 <= e - 1 /\ e - 1 < (2 * n) * k
    <3>1. d * k >= k /\ (2 * n - d) * k >= k
      BY <2>6, Multiple
    <3>2. PICK m \in Nat : m = (2 * n) * k
      OBVIOUS
    <3>3. (2 * n - d) * k = m - e
      BY <2>4, <3>2
    <3> QED
      BY <2>4, <3>1, <3>2, <3>3
  <2>8. (e - 1) \div k \in 0 .. 2 * n - 1
    <3>1. PICK x \in Int, l \in Int : x = e - 1 /\ l = 2 * n
      OBVIOUS
    <3>2. 0 <= x /\ x < l * k
      BY <2>7, <3>1
    <3>3. x \div k \in 0 .. l - 1
      BY <3>2, DivRange
    <3> QED
      BY <3>1, <3>3
  <2> QED
    BY <1>1, <1>5, <2>3, <2>4, <2>5, <2>8
<1>7. CASE s.front # 0
  <2>1. t = s
    BY <1>5, <1>7 DEF WithRoom
  <2>2. 0 <= s.front - 1 /\ s.front - 1 < n * k
    BY <1>3, <1>4, <1>7
  <2>3. PICK p \in Int : p = s.front - 1
    BY <1>3
  <2>4. p \div k \in 0 .. n - 1
    BY <2>2, <2>3, DivRange
  <2>5. MovedBy(s, t, 0)
    BY <2>1, Unmoved DEF Good
  <2> QED
    BY <1>1, <1>2, <1>5, <2>1, <2>3, <2>4, <2>5
<1> QED
  BY <1>6, <1>7

-----------------------------------------------------------------------------
(* Calls.  t is s with x in front of its j-th element, or without it.      *)

InsertedAt(s, t, j, x) ==
  /\ Good(chunkSize, t) /\ t.size = s.size + 1
  /\ \A i \in 1 .. t.size :
       Slot(chunkSize, t, t.front + i - 1) =
         IF i < j THEN Slot(chunkSize, s, s.front + i - 1)
         ELSE IF i = j THEN x ELSE Slot(chunkSize, s, s.front + i - 2)

RemovedAt(s, t, j) ==
  /\ Good(chunkSize, t) /\ t.size = s.size - 1
  /\ \A i \in 1 .. t.size :
       Slot(chunkSize, t, t.front + i - 1) =
         IF i < j THEN Slot(chunkSize, s, s.front + i - 1) ELSE Slot(chunkSize, s, s.front + i)

\* Members other than the chunk map are changed.
SameChunks(k, s, t) ==
  /\ WellFormed(k, t) /\ NChunks(t) = NChunks(s) /\ Wilds(t) = Wilds(s) /\ t.astray = s.astray
  /\ \A q : Covers(k, t, q) = Covers(k, s, q) /\ Slot(k, t, q) = Slot(k, s, q)

LEMMA MapKept ==
  ASSUME NEW k, NEW s, WellFormed(k, s), NEW t \in DequeType(k),
         t.chunkMap = s.chunkMap, t.live = s.live, t.astray = s.astray
  PROVE  SameChunks(k, s, t)
<1>1. Chunks(t) = Chunks(s) /\ NChunks(t) = NChunks(s) /\ Wilds(t) = Wilds(s)
  BY DEF Chunks, NChunks, Wilds
<1> QED
  BY <1>1 DEF SameChunks, WellFormed, Covers, Slot

LEMMA FrontSet ==
  ASSUME NEW k, NEW s, WellFormed(k, s), NEW f \in Int, NEW t, t = [s EXCEPT !.front = f]
  PROVE  SameChunks(k, s, t) /\ t.front = f /\ t.back = s.back /\ t.size = s.size
<1>1. /\ t \in DequeType(k) /\ t.chunkMap = s.chunkMap /\ t.live = s.live
      /\ t.astray = s.astray
  BY DEF WellFormed, DequeType
<1>2. t.front = f /\ t.back = s.back /\ t.size = s.size
  BY DEF WellFormed, DequeType
<1> QED
  BY <1>1, <1>2, MapKept

LEMMA BackSet ==
  ASSUME NEW k, NEW s, WellFormed(k, s), NEW b \in Int, NEW t, t = [s EXCEPT !.back = b]
  PROVE  SameChunks(k, s, t) /\ t.front = s.front /\ t.back = b /\ t.size = s.size
<1>1. /\ t \in DequeType(k) /\ t.chunkMap = s.chunkMap /\ t.live = s.live
      /\ t.astray = s.astray
  BY DEF WellFormed, DequeType
<1>2. t.front = s.front /\ t.back = b /\ t.size = s.size
  BY DEF WellFormed, DequeType
<1> QED
  BY <1>1, <1>2, MapKept

LEMMA SizeSet ==
  ASSUME NEW k, NEW s, WellFormed(k, s), NEW n \in Int, NEW t, t = [s EXCEPT !.size = n]
  PROVE  SameChunks(k, s, t) /\ t.front = s.front /\ t.back = s.back /\ t.size = n
<1>1. /\ t \in DequeType(k) /\ t.chunkMap = s.chunkMap /\ t.live = s.live
      /\ t.astray = s.astray
  BY DEF WellFormed, DequeType
<1>2. t.front = s.front /\ t.back = s.back /\ t.size = n
  BY DEF WellFormed, DequeType
<1> QED
  BY <1>1, <1>2, MapKept

\* The elements of a deque that is in order.
LEMMA ElementFacts ==
  ASSUME chunkSize \in ChunkSizes, NEW s, Good(chunkSize, s)
  PROVE  /\ s.front \in Int /\ s.back \in Int /\ s.size \in Nat
         /\ s.size > 0 => s.back = s.front + s.size - 1
         /\ s.size = 0 => s.back = s.front
         /\ Covers(chunkSize, s, s.front) /\ Covers(chunkSize, s, s.back)
         /\ \A i \in 1 .. s.size :
              /\ Slot(chunkSize, s, s.front + i - 1) \in Vals
              /\ Covers(chunkSize, s, s.front + i - 1)
<1>1. s.front \in Int /\ s.back \in Int /\ s.size \in Nat
  BY MapFacts DEF Good, WellFormed, Ends
<1>2. s.back - s.front = IF s.size = 0 THEN 0 ELSE s.size - 1
  BY DEF Good, Ends
<1>3. (s.size > 0 => s.back = s.front + s.size - 1) /\ (s.size = 0 => s.back = s.front)
  BY <1>1, <1>2
<1>4. ASSUME NEW i \in 1 .. s.size
      PROVE  Slot(chunkSize, s, s.front + i - 1) \in Vals /\ Covers(chunkSize, s, s.front + i - 1)
  <2>1. s.front + i - 1 \in s.front .. s.back /\ s.size > 0
    BY <1>1, <1>3
  <2>2. Slot(chunkSize, s, s.front + i - 1) \in Vals
    BY <2>1 DEF Good, Ends
  <2> QED
    BY <2>2, DequeAssumption DEF Slot
<1> QED
  BY <1>1, <1>3, <1>4 DEF Good, Ends

\* It is in order if each of its slots has an element.
LEMMA InOrder ==
  ASSUME NEW k, NEW t, WellFormed(k, t), t.size \in Nat,
         t.back - t.front = IF t.size = 0 THEN 0 ELSE t.size - 1,
         Covers(k, t, t.front), Covers(k, t, t.back),
         \A i \in 1 .. t.size : Slot(k, t, t.front + i - 1) \in Vals
  PROVE  Good(k, t)
<1>1. t.front \in Int /\ t.back \in Int
  BY MapFacts DEF WellFormed
<1>2. ASSUME t.size > 0, NEW p \in t.front .. t.back PROVE Slot(k, t, p) \in Vals
  <2>1. PICK i \in 1 .. t.size : i = p - t.front + 1
    BY <1>1, <1>2
  <2>2. t.front + i - 1 = p
    BY <1>1, <2>1
  <2>3. Slot(k, t, t.front + i - 1) \in Vals
    OBVIOUS
  <2> QED
    BY <2>2, <2>3
<1> QED
  BY <1>2 DEF Good, Ends

\* One element more, or less, is counted.
Counted(s, t, d) == t = [s EXCEPT !.size = @ + d]

LEMMA CountedFacts ==
  ASSUME NEW s, WellFormed(chunkSize, s), NEW d \in Int, NEW t, Counted(s, t, d)
  PROVE  /\ SameChunks(chunkSize, s, t) /\ t.front = s.front /\ t.back = s.back
         /\ t.size = s.size + d
<1>1. s.size \in Int
  BY MapFacts DEF WellFormed
<1>2. PICK n \in Int : n = s.size + d
  BY <1>1
<1>3. t = [s EXCEPT !.size = n]
  BY <1>2 DEF Counted
<1> QED
  BY <1>2, <1>3, SizeSet

\* An element is constructed, in a chunk or outside of them.
LEMMA ConstructedType ==
  ASSUME chunkSize \in ChunkSizes, NEW u, WellFormed(chunkSize, u), NEW at, NEW x \in Vals,
         NEW t, Counted(Assigned(u, at, x), t, 1)
  PROVE  /\ t \in DequeType(chunkSize) /\ t.size = u.size + 1 /\ Wilds(t) = Wilds(u)
         /\ t.astray = (u.astray \/ ~Covers(chunkSize, u, at))
<1>1. u \in DequeType(chunkSize) /\ u.size \in Int /\ u.live = Cardinality(Chunks(u))
  BY MapFacts DEF WellFormed
<1>2. PICK a : a = Assigned(u, at, x)
  OBVIOUS
<1>3. SameShape(u, a) /\ a.astray = (u.astray \/ ~Covers(chunkSize, u, at))
  BY <1>1, <1>2, AssignedFacts
<1>4. WellFormed(chunkSize, a) /\ a.size = u.size /\ Wilds(a) = Wilds(u)
  BY <1>1, <1>3 DEF SameShape, WellFormed
<1>5. SameChunks(chunkSize, a, t) /\ t.size = a.size + 1
  BY <1>2, <1>4, CountedFacts
<1> QED
  BY <1>3, <1>4, <1>5 DEF SameChunks, WellFormed

\* The elements before the j-th and behind it are where they belong, and x is
\* constructed in between.
Gap(s, u, j, at) ==
  /\ WellFormed(chunkSize, u) /\ u.size = s.size /\ u.back = u.front + s.size
  /\ Covers(chunkSize, u, u.front) /\ Covers(chunkSize, u, u.back)
  /\ at \in Int /\ at = u.front + j - 1 /\ Covers(chunkSize, u, at)
  /\ \A i \in 1 .. s.size + 1 : i # j =>
       /\ Covers(chunkSize, u, u.front + i - 1)
       /\ Slot(chunkSize, u, u.front + i - 1) =
            IF i < j THEN Slot(chunkSize, s, s.front + i - 1)
            ELSE Slot(chunkSize, s, s.front + i - 2)

LEMMA ConstructedFacts ==
  ASSUME chunkSize \in ChunkSizes, NEW s, Good(chunkSize, s), NEW x \in Vals,
         NEW j \in 1 .. s.size + 1, NEW u, NEW at, Gap(s, u, j, at),
         NEW t, Counted(Assigned(u, at, x), t, 1)
  PROVE  InsertedAt(s, t, j, x)
<1> USE DEF Gap
<1>1. u \in DequeType(chunkSize) /\ u.front \in Int /\ s.size \in Nat
  BY MapFacts, ElementFacts DEF WellFormed
<1>2. PICK a : a = Assigned(u, at, x)
  OBVIOUS
<1>3. /\ SameShape(u, a)
      /\ \A q \in Int : Covers(chunkSize, u, q) =>
           Slot(chunkSize, a, q) = IF q = at THEN x ELSE Slot(chunkSize, u, q)
  BY <1>1, <1>2, AssignedFacts
<1>4. /\ WellFormed(chunkSize, a) /\ a.front = u.front /\ a.back = u.back /\ a.size = s.size
      /\ \A q : Covers(chunkSize, a, q) <=> Covers(chunkSize, u, q)
  BY <1>3 DEF SameShape, WellFormed, Covers
<1>6. SameChunks(chunkSize, a, t) /\ t.front = u.front /\ t.back = u.back /\ t.size = s.size + 1
  <2>1. WellFormed(chunkSize, a) /\ Counted(a, t, 1)
    BY <1>2, <1>4
  <2>2. /\ SameChunks(chunkSize, a, t) /\ t.front = a.front /\ t.back = a.back
        /\ t.size = a.size + 1
    BY <2>1, CountedFacts
  <2> QED
    BY <1>4, <2>2
<1>7. ASSUME NEW i \in 1 .. s.size + 1
      PROVE  Slot(chunkSize, t, u.front + i - 1) =
               IF i < j THEN Slot(chunkSize, s, s.front + i - 1)
               ELSE IF i = j THEN x ELSE Slot(chunkSize, s, s.front + i - 2)
  <2>1. PICK q \in Int : q = u.front + i - 1
    BY <1>1
  <2>2. Covers(chunkSize, u, q) /\ (q = at <=> i = j)
    BY <1>1, <2>1
  <2>3. Slot(chunkSize, t, q) = IF i = j THEN x ELSE Slot(chunkSize, u, q)
    BY <1>3, <1>6, <2>2 DEF SameChunks
  <2> QED
    BY <2>1, <2>3
<1>8. \A i \in 1 .. s.size + 1 : Slot(chunkSize, t, u.front + i - 1) \in Vals
  <2> SUFFICES ASSUME NEW i \in 1 .. s.size + 1
               PROVE  Slot(chunkSize, t, u.front + i - 1) \in Vals
    OBVIOUS
  <2>1. CASE i < j
    <3>1. i \in 1 .. s.size
      BY <1>1, <2>1
    <3> QED
      BY <1>7, <2>1, <3>1, ElementFacts
  <2>2. CASE i = j
    BY <1>7, <2>2
  <2>3. CASE ~(i < j) /\ i # j
    <3>1. i - 1 \in 1 .. s.size /\ s.front + (i - 1) - 1 = s.front + i - 2
      BY <1>1, <2>3, ElementFacts
    <3>2. Slot(chunkSize, s, s.front + (i - 1) - 1) \in Vals
      BY <3>1, ElementFacts
    <3> QED
      BY <1>7, <2>3, <3>1, <3>2
  <2> QED
    BY <2>1, <2>2, <2>3
<1>9. Good(chunkSize, t)
  <2>1. WellFormed(chunkSize, t) /\ Covers(chunkSize, t, t.front) /\ Covers(chunkSize, t, t.back)
    BY <1>4, <1>6 DEF SameChunks
  <2>2. t.back - t.front = t.size - 1 /\ t.size # 0 /\ t.size \in Nat
    BY <1>1, <1>6
  <2>3. \A i \in 1 .. t.size : Slot(chunkSize, t, t.front + i - 1) \in Vals
    BY <1>6, <1>8
  <2> QED
    BY <2>1, <2>2, <2>3, InOrder
<1> QED
  BY <1>6, <1>7, <1>9 DEF InsertedAt

\* t has the elements of s.
Same(s, t) ==
  /\ Good(chunkSize, t) /\ t.size = s.size
  /\ \A i \in 1 .. s.size :
       Slot(chunkSize, t, t.front + i - 1) = Slot(chunkSize, s, s.front + i - 1)

LEMMA MovedSame ==
  ASSUME chunkSize \in ChunkSizes, NEW s, Good(chunkSize, s), NEW e \in Nat, NEW t, MovedBy(s, t, e)
  PROVE  Same(s, t)
<1>1. /\ s.front \in Int /\ s.back \in Int /\ s.size \in Nat
      /\ s.back - s.front = IF s.size = 0 THEN 0 ELSE s.size - 1
  BY ElementFacts DEF Good, Ends
<1>2. t.front = s.front + e /\ t.back = s.back + e /\ t.size = s.size /\ WellFormed(chunkSize, t)
  BY DEF MovedBy
<1>3. Covers(chunkSize, t, t.front) /\ Covers(chunkSize, t, t.back)
  BY <1>1, <1>2, ElementFacts DEF MovedBy
<1>4. ASSUME NEW i \in 1 .. s.size
      PROVE  /\ Slot(chunkSize, t, t.front + i - 1) = Slot(chunkSize, s, s.front + i - 1)
             /\ Slot(chunkSize, t, t.front + i - 1) \in Vals
  <2>1. PICK q \in Int : q = s.front + i - 1
    BY <1>1
  <2>2. t.front + i - 1 = q + e
    BY <1>1, <1>2, <2>1
  <2>3. Covers(chunkSize, s, q) /\ Slot(chunkSize, s, q) \in Vals
    BY <2>1, ElementFacts
  <2>4. Slot(chunkSize, t, q + e) = Slot(chunkSize, s, q)
    BY <2>3 DEF MovedBy
  <2> QED
    BY <2>1, <2>2, <2>3, <2>4
<1>5. t.back - t.front = IF t.size = 0 THEN 0 ELSE t.size - 1
  BY <1>1, <1>2
<1>6. Good(chunkSize, t)
  BY <1>1, <1>2, <1>3, <1>4, <1>5, InOrder
<1> QED
  BY <1>2, <1>4, <1>6 DEF Same

LEMMA SameInserted ==
  ASSUME chunkSize \in ChunkSizes, NEW s, Good(chunkSize, s), NEW r, Same(s, r),
         NEW j \in 1 .. s.size + 1, NEW x, NEW t, InsertedAt(r, t, j, x)
  PROVE  InsertedAt(s, t, j, x)
<1>1. s.size \in Nat /\ s.front \in Int /\ r.front \in Int /\ r.size = s.size
  BY ElementFacts DEF Same
<1>2. Good(chunkSize, t) /\ t.size = s.size + 1
  BY <1>1 DEF InsertedAt
<1>3. ASSUME NEW i \in 1 .. t.size
      PROVE  Slot(chunkSize, t, t.front + i - 1) =
               IF i < j THEN Slot(chunkSize, s, s.front + i - 1)
               ELSE IF i = j THEN x ELSE Slot(chunkSize, s, s.front + i - 2)
  <2>1. Slot(chunkSize, t, t.front + i - 1) =
          IF i < j THEN Slot(chunkSize, r, r.front + i - 1)
          ELSE IF i = j THEN x ELSE Slot(chunkSize, r, r.front + i - 2)
    BY DEF InsertedAt
  <2>2. CASE i < j
    <3>1. i \in 1 .. s.size
      BY <1>1, <1>2, <2>2
    <3> QED
      BY <2>1, <2>2, <3>1 DEF Same
  <2>3. CASE i = j
    BY <2>1, <2>3
  <2>4. CASE ~(i < j) /\ i # j
    <3>1. PICK h \in 1 .. s.size : h = i - 1
      BY <1>1, <1>2, <2>4
    <3>2. s.front + i - 2 = s.front + h - 1 /\ r.front + i - 2 = r.front + h - 1
      BY <1>1, <3>1
    <3>3. Slot(chunkSize, r, r.front + h - 1) = Slot(chunkSize, s, s.front + h - 1)
      BY DEF Same
    <3> QED
      BY <2>1, <2>4, <3>2, <3>3
  <2> QED
    BY <2>2, <2>3, <2>4
<1> QED
  BY <1>2, <1>3 DEF InsertedAt

\* An element is gone, and no other.
Closed(s, u, j) ==
  /\ WellFormed(chunkSize, u) /\ u.size = s.size
  /\ u.back = u.front + (IF s.size = 1 THEN 0 ELSE s.size - 2)
  /\ Covers(chunkSize, u, u.front) /\ Covers(chunkSize, u, u.back)
  /\ \A i \in 1 .. s.size - 1 :
       Slot(chunkSize, u, u.front + i - 1) =
         IF i < j THEN Slot(chunkSize, s, s.front + i - 1) ELSE Slot(chunkSize, s, s.front + i)

LEMMA RemainFacts ==
  ASSUME chunkSize \in ChunkSizes, NEW s, Good(chunkSize, s), s.size > 0,
         NEW j \in 1 .. s.size, NEW u, Closed(s, u, j), NEW t, Counted(u, t, -1)
  PROVE  RemovedAt(s, t, j) /\ t.astray = u.astray
<1> USE DEF Closed
<1>1. u \in DequeType(chunkSize) /\ u.front \in Int /\ s.size \in Nat /\ s.front \in Int
  BY MapFacts, ElementFacts DEF WellFormed
<1>2. PICK n \in Nat : n = s.size - 1
  BY <1>1
<1>3. SameChunks(chunkSize, u, t) /\ t.front = u.front /\ t.back = u.back /\ t.size = u.size + (-1)
  BY CountedFacts, -1 \in Int
<1>4. SameChunks(chunkSize, u, t) /\ t.front = u.front /\ t.back = u.back /\ t.size = n
  BY <1>1, <1>2, <1>3
<1>5. ASSUME NEW i \in 1 .. n
      PROVE  /\ Slot(chunkSize, t, t.front + i - 1) =
                  IF i < j THEN Slot(chunkSize, s, s.front + i - 1)
                  ELSE Slot(chunkSize, s, s.front + i)
             /\ Slot(chunkSize, t, t.front + i - 1) \in Vals
  <2>1. i \in 1 .. s.size - 1 /\ i \in 1 .. s.size
    BY <1>1, <1>2
  <2>2. Slot(chunkSize, t, t.front + i - 1) = Slot(chunkSize, u, u.front + i - 1)
    BY <1>4 DEF SameChunks
  <2>3. PICK h \in 1 .. s.size : h = i + 1
    BY <1>1, <1>2
  <2>4. s.front + h - 1 = s.front + i
    BY <1>1, <2>3
  <2>5. Slot(chunkSize, s, s.front + i - 1) \in Vals /\ Slot(chunkSize, s, s.front + h - 1) \in Vals
    BY <2>1, ElementFacts
  <2> QED
    BY <2>1, <2>2, <2>4, <2>5
<1>6. t.back - t.front = IF t.size = 0 THEN 0 ELSE t.size - 1
  BY <1>1, <1>2, <1>4
<1>7. WellFormed(chunkSize, t) /\ Covers(chunkSize, t, t.front) /\ Covers(chunkSize, t, t.back)
  BY <1>4 DEF SameChunks
<1>8. t.size = s.size - 1 /\ 1 .. t.size = 1 .. n
  BY <1>2, <1>4
<1>9. Good(chunkSize, t)
  <2>1. \A i \in 1 .. t.size : Slot(chunkSize, t, t.front + i - 1) \in Vals
    BY <1>5, <1>8
  <2>2. t.size \in Nat
    BY <1>4
  <2> QED
    BY <1>6, <1>7, <2>1, <2>2, InOrder
<1> QED
  BY <1>4, <1>5, <1>8, <1>9 DEF RemovedAt, SameChunks

LEMMA ExtendsSame ==
  ASSUME chunkSize \in ChunkSizes, NEW s, Good(chunkSize, s), NEW t, Extends(s, t)
  PROVE  Same(s, t)
<1>1. s.front \in Int /\ s.back \in Int
  BY ElementFacts
<1>2. ASSUME NEW q \in Int, Covers(chunkSize, s, q)
      PROVE  /\ Covers(chunkSize, t, q + 0)
             /\ Slot(chunkSize, t, q + 0) = Slot(chunkSize, s, q)
  BY <1>2, q + 0 = q DEF Extends
<1>3. MovedBy(s, t, 0)
  BY <1>1, <1>2 DEF MovedBy, Extends
<1> QED
  BY <1>3, MovedSame, 0 \in Nat

-----------------------------------------------------------------------------
(* The operations.                                                         *)

LEMMA PushedFrontFacts ==
  ASSUME chunkSize \in ChunkSizes, NEW s, Good(chunkSize, s), ~s.astray, NEW x \in Vals,
         NEW past \in Behind, NEW t, t = PushedFront(s, x, past)
  PROVE  /\ t \in DequeType(chunkSize) /\ t.size = s.size + 1
         /\ t.astray => Wilds(t) # {} \/ Tight(s)
         /\ ~t.astray => InsertedAt(s, t, 1, x)
<1>1. s.size \in Nat /\ 1 \in 1 .. s.size + 1
  BY ElementFacts
<1>2. PICK r : r = WithRoom(s, s.front, 0, past)
  OBVIOUS
<1>3. PICK e \in Nat : MovedBy(s, r, e)
  BY <1>2, RoomMoves
<1>4. Good(chunkSize, r) /\ Same(s, r) /\ r.size = s.size /\ ~r.astray
  BY <1>3, MovedSame DEF Same, MovedBy
<1>5. r.front \in Int /\ WellFormed(chunkSize, r) /\ Covers(chunkSize, r, r.front)
  BY <1>4, ElementFacts DEF Good
<1>6. CASE s.size = 0
  <2>1. Counted(Assigned(r, r.front, x), t, 1)
    BY <1>1, <1>2, <1>6 DEF PushedFront, Counted
  <2>2. r.back = r.front + r.size /\ Covers(chunkSize, r, r.back)
    BY <1>4, <1>6, ElementFacts
  <2>3. Gap(r, r, 1, r.front)
    BY <1>4, <1>5, <1>6, <2>2 DEF Gap
  <2>4. InsertedAt(r, t, 1, x)
    BY <1>1, <1>4, <2>1, <2>3, ConstructedFacts
  <2>5. t \in DequeType(chunkSize) /\ t.size = r.size + 1 /\ ~t.astray
    BY <1>4, <1>5, <2>1, ConstructedType
  <2> QED
    BY <1>1, <1>4, <2>4, <2>5, SameInserted
<1>7. CASE s.size > 0
  <2>1. PICK f \in Int : f = r.front - 1
    BY <1>5
  <2>2. PICK v : v = Reached(r, f)
    OBVIOUS
  <2>3. /\ Extends(r, v)
        /\ f \div chunkSize \in (0 .. NChunks(r) - 1) \ Wilds(r) => Covers(chunkSize, v, f)
    BY <1>5, <2>2, ReachedFacts
  <2>4. PICK u : u = [v EXCEPT !.front = f]
    OBVIOUS
  <2>5. /\ WellFormed(chunkSize, v) /\ v.front = r.front /\ v.back = r.back /\ v.size = r.size
    BY <2>3 DEF Extends
  <2>6. SameChunks(chunkSize, v, u) /\ u.front = f /\ u.back = v.back /\ u.size = v.size
    BY <2>4, <2>5, FrontSet
  <2>7. Counted(Assigned(u, u.front, x), t, 1)
    <3>1. [v EXCEPT !.front = @ - 1] = u
      BY <2>1, <2>4, <2>5
    <3>2. t = [Assigned(u, u.front, x) EXCEPT !.size = @ + 1]
      BY <1>2, <1>7, <2>1, <2>2, <3>1 DEF PushedFront
    <3> QED
      BY <3>2 DEF Counted
  <2>14. /\ t \in DequeType(chunkSize) /\ t.size = r.size + 1 /\ Wilds(t) = Wilds(r)
         /\ t.astray = ~Covers(chunkSize, v, f)
    <3>1. WellFormed(chunkSize, u) /\ Wilds(u) = Wilds(r) /\ ~u.astray
      BY <1>4, <2>3, <2>6 DEF SameChunks, Extends
    <3>2. /\ t \in DequeType(chunkSize) /\ t.size = u.size + 1 /\ Wilds(t) = Wilds(u)
          /\ t.astray = (u.astray \/ ~Covers(chunkSize, u, u.front))
      BY <2>7, <3>1, ConstructedType
    <3> QED
      BY <2>5, <2>6, <3>1, <3>2 DEF SameChunks
  <2>15. ASSUME t.astray PROVE Wilds(t) # {} \/ Tight(s)
    <3>1. CASE NChunks(s) > 1 \/ s.front > 0
      <4>1. f \div chunkSize \in 0 .. NChunks(r) - 1
        BY <1>2, <2>1, <3>1, RoomBefore
      <4> QED
        BY <2>3, <2>14, <2>15, <4>1
    <3>2. CASE ~(NChunks(s) > 1 \/ s.front > 0)
      <4>1. NChunks(s) \in Nat \ {0} /\ 0 <= s.front /\ s.front \in Int
        BY ChunkSizeType, MapFacts, ElementFacts, CoversRange DEF Good, WellFormed
      <4> QED
        BY <3>2, <4>1 DEF Tight
    <3> QED
      BY <3>1, <3>2
  <2> SUFFICES ASSUME ~t.astray PROVE InsertedAt(s, t, 1, x)
    BY <1>1, <1>4, <2>14, <2>15
  <2>16. Covers(chunkSize, v, f)
    BY <2>14
  <2>8. u.back = u.front + r.size
    BY <1>4, <1>5, <1>7, <2>1, <2>5, <2>6, ElementFacts
  <2>9. ASSUME NEW q \in Int
        PROVE  /\ Covers(chunkSize, r, q) => Covers(chunkSize, u, q)
               /\ Slot(chunkSize, u, q) = Slot(chunkSize, r, q)
    BY <2>3, <2>6 DEF Extends, SameChunks
  <2>10. ASSUME NEW i \in 1 .. r.size + 1, i # 1
         PROVE  /\ Covers(chunkSize, u, u.front + i - 1)
                /\ Slot(chunkSize, u, u.front + i - 1) = Slot(chunkSize, r, r.front + i - 2)
    <3>1. PICK h \in 1 .. r.size : h = i - 1
      BY <1>1, <1>4, <2>10
    <3>2. PICK q \in Int : q = r.front + h - 1
      BY <1>5
    <3>3. u.front + i - 1 = q /\ r.front + i - 2 = q
      BY <1>5, <2>1, <2>6, <3>1, <3>2
    <3>4. Covers(chunkSize, r, q)
      BY <1>4, <3>2, ElementFacts
    <3> QED
      BY <2>9, <3>3, <3>4
  <2>11. Covers(chunkSize, u, u.front) /\ Covers(chunkSize, u, u.back)
    <3>1. Covers(chunkSize, r, r.back) /\ r.back \in Int
      BY <1>4, ElementFacts
    <3> QED
      BY <2>5, <2>6, <2>9, <2>16, <3>1 DEF SameChunks
  <2>12. Gap(r, u, 1, u.front)
    <3>1. \A i \in 1 .. r.size + 1 : ~(i < 1)
      BY <1>1, <1>4
    <3>2. u.front \in Int /\ u.front = u.front + 1 - 1 /\ WellFormed(chunkSize, u) /\ u.size = r.size
      BY <2>5, <2>6 DEF SameChunks
    <3> QED
      BY <2>8, <2>10, <2>11, <3>1, <3>2 DEF Gap
  <2>13. InsertedAt(r, t, 1, x)
    BY <1>1, <1>4, <2>7, <2>12, ConstructedFacts
  <2> QED
    BY <1>1, <1>4, <2>13, SameInserted
<1> QED
  BY <1>1, <1>6, <1>7

LEMMA PushedBackFacts ==
  ASSUME chunkSize \in ChunkSizes, NEW s, Good(chunkSize, s), ~s.astray, NEW x \in Vals,
         NEW past \in Behind, NEW t, t = PushedBack(s, x, past)
  PROVE  /\ t \in DequeType(chunkSize) /\ t.size = s.size + 1
         /\ t.astray => Wilds(t) # {}
         /\ ~t.astray => InsertedAt(s, t, s.size + 1, x)
<1>1. s.size \in Nat /\ s.size + 1 \in 1 .. s.size + 1
  BY ElementFacts
<1>2. PICK r : r = WithRoom(s, s.back, Limit(s), past)
  OBVIOUS
<1>3. PICK e \in Nat : MovedBy(s, r, e)
  BY <1>2, RoomMoves
<1>4. Good(chunkSize, r) /\ Same(s, r) /\ r.size = s.size /\ ~r.astray
  BY <1>3, MovedSame DEF Same, MovedBy
<1>5. /\ r.front \in Int /\ r.back \in Int /\ WellFormed(chunkSize, r)
      /\ Covers(chunkSize, r, r.front) /\ Covers(chunkSize, r, r.back)
  BY <1>4, ElementFacts DEF Good
<1>6. CASE s.size = 0
  <2>1. Counted(Assigned(r, r.back, x), t, 1)
    BY <1>1, <1>2, <1>6 DEF PushedBack, Counted
  <2>2. r.back = r.front
    BY <1>4, <1>6, ElementFacts
  <2>3. Gap(r, r, 1, r.back)
    BY <1>4, <1>5, <1>6, <2>2 DEF Gap
  <2>4. 1 \in 1 .. r.size + 1 /\ s.size + 1 = 1
    BY <1>4, <1>6
  <2>5. InsertedAt(r, t, 1, x)
    BY <1>4, <2>1, <2>3, <2>4, ConstructedFacts
  <2>6. InsertedAt(s, t, 1, x)
    BY <1>4, <2>4, <2>5, SameInserted
  <2>7. t \in DequeType(chunkSize) /\ t.size = r.size + 1 /\ ~t.astray
    BY <1>4, <1>5, <2>1, ConstructedType
  <2> QED
    BY <1>4, <2>4, <2>6, <2>7
<1>7. CASE s.size > 0
  <2>1. PICK b \in Int : b = r.back + 1
    BY <1>5
  <2>2. PICK v : v = Reached(r, b)
    OBVIOUS
  <2>3. Extends(r, v) /\ (Wilds(r) = {} => Covers(chunkSize, v, b))
    <3>1. b \div chunkSize \in 0 .. NChunks(r) - 1
      BY <1>2, <2>1, RoomBehind
    <3> QED
      BY <1>5, <2>2, <3>1, ReachedFacts
  <2>4. PICK u : u = [v EXCEPT !.back = b]
    OBVIOUS
  <2>5. /\ WellFormed(chunkSize, v) /\ v.front = r.front /\ v.back = r.back /\ v.size = r.size
    BY <2>3 DEF Extends
  <2>6. SameChunks(chunkSize, v, u) /\ u.front = v.front /\ u.back = b /\ u.size = v.size
    BY <2>4, <2>5, BackSet
  <2>7. Counted(Assigned(u, u.back, x), t, 1)
    <3>1. [v EXCEPT !.back = @ + 1] = u
      BY <2>1, <2>4, <2>5
    <3>2. t = [Assigned(u, u.back, x) EXCEPT !.size = @ + 1]
      BY <1>2, <1>7, <2>1, <2>2, <3>1 DEF PushedBack
    <3> QED
      BY <3>2 DEF Counted
  <2>17. /\ t \in DequeType(chunkSize) /\ t.size = r.size + 1 /\ Wilds(t) = Wilds(r)
         /\ t.astray = ~Covers(chunkSize, v, b)
    <3>1. WellFormed(chunkSize, u) /\ Wilds(u) = Wilds(r) /\ ~u.astray
      BY <1>4, <2>3, <2>6 DEF SameChunks, Extends
    <3>2. /\ t \in DequeType(chunkSize) /\ t.size = u.size + 1 /\ Wilds(t) = Wilds(u)
          /\ t.astray = (u.astray \/ ~Covers(chunkSize, u, u.back))
      BY <2>7, <3>1, ConstructedType
    <3> QED
      BY <2>5, <2>6, <3>1, <3>2 DEF SameChunks
  <2> SUFFICES ASSUME ~t.astray PROVE InsertedAt(s, t, s.size + 1, x)
    BY <1>4, <2>3, <2>17
  <2>18. Covers(chunkSize, v, b)
    BY <2>17
  <2>8. PICK j \in 1 .. r.size + 1 : j = r.size + 1
    BY <1>1, <1>4
  <2>9. u.back = u.front + r.size /\ u.back = u.front + j - 1
    BY <1>1, <1>4, <1>5, <1>7, <2>1, <2>5, <2>6, <2>8, ElementFacts
  <2>10. ASSUME NEW q \in Int
         PROVE  /\ Covers(chunkSize, r, q) => Covers(chunkSize, u, q)
                /\ Slot(chunkSize, u, q) = Slot(chunkSize, r, q)
    BY <2>3, <2>6 DEF Extends, SameChunks
  <2>11. ASSUME NEW i \in 1 .. r.size + 1, i # j
         PROVE  /\ i < j
                /\ Covers(chunkSize, u, u.front + i - 1)
                /\ Slot(chunkSize, u, u.front + i - 1) = Slot(chunkSize, r, r.front + i - 1)
    <3>1. i \in 1 .. r.size /\ i < j
      BY <1>1, <1>4, <2>8, <2>11
    <3>2. PICK q \in Int : q = r.front + i - 1
      BY <1>5
    <3>3. u.front + i - 1 = q
      BY <2>5, <2>6, <3>2
    <3>4. Covers(chunkSize, r, q)
      BY <1>4, <3>1, <3>2, ElementFacts
    <3> QED
      BY <2>10, <3>1, <3>2, <3>3, <3>4
  <2>12. Covers(chunkSize, u, u.front) /\ Covers(chunkSize, u, u.back)
    BY <1>5, <2>5, <2>6, <2>10, <2>18 DEF SameChunks
  <2>13. Gap(r, u, j, u.back)
    <3>1. u.back \in Int /\ WellFormed(chunkSize, u) /\ u.size = r.size
      BY <2>5, <2>6 DEF SameChunks
    <3> QED
      BY <2>9, <2>11, <2>12, <3>1 DEF Gap
  <2>14. InsertedAt(r, t, j, x)
    BY <1>4, <2>7, <2>13, ConstructedFacts
  <2>15. j \in 1 .. s.size + 1 /\ j = s.size + 1
    BY <1>4, <2>8
  <2>16. InsertedAt(s, t, j, x)
    BY <1>4, <2>14, <2>15, SameInserted
  <2> QED
    BY <2>15, <2>16
<1> QED
  BY <1>1, <1>6, <1>7

LEMMA InsertedBetweenFacts ==
  ASSUME chunkSize \in ChunkSizes, NEW s, Good(chunkSize, s), ~s.astray, NEW x \in Vals,
         NEW loc \in s.front + 1 .. s.back,
         NEW j \in Int, j = loc - s.front + 1,
         NEW past \in Behind, NEW t, t = InsertedBetween(s, loc, x, past)
  PROVE  /\ t \in DequeType(chunkSize) /\ t.size = s.size + 1
         /\ t.astray => Wilds(t) # {} \/ Tight(s)
         /\ ~t.astray => InsertedAt(s, t, j, x)
<1>1. s.size \in Nat /\ s.front \in Int /\ s.back \in Int
  BY ElementFacts
<1>2. s.size > 0 /\ s.back = s.front + s.size - 1
  BY <1>1, ElementFacts
<1>3. j \in 2 .. s.size /\ j \in 1 .. s.size + 1
  BY <1>1, <1>2
<1>4. CASE ShiftsLeft(s, loc)
  <2>1. PICK r : r = WithRoom(s, s.front, 0, past)
    OBVIOUS
  <2>2. PICK e \in Nat : MovedBy(s, r, e)
    BY <2>1, RoomMoves
  <2>3. Good(chunkSize, r) /\ Same(s, r) /\ r.size = s.size /\ ~r.astray
    BY <2>2, MovedSame DEF Same, MovedBy
  <2>4. /\ r.front \in Int /\ r.back \in Int /\ WellFormed(chunkSize, r)
        /\ r.back = r.front + r.size - 1 /\ r.size \in Nat
        /\ Covers(chunkSize, r, r.front) /\ Covers(chunkSize, r, r.back)
    BY <1>2, <2>3, ElementFacts DEF Good
  <2>5. PICK f \in Int, at \in Int, last \in Int :
          f = r.front - 1 /\ at = f + j - 1 /\ last = at
    BY <2>4
  <2>6. PICK w : w = ShiftedLeft(r, r.front, last)
    OBVIOUS
  <2>7. loc + (r.front - s.front) - 1 = at
    BY <1>1, <2>4, <2>5
  <2>8. PICK v : v = Reached(r, f)
    OBVIOUS
  <2>9. /\ Extends(r, v) /\ SameShape(v, w) /\ WellFormed(chunkSize, w)
        /\ f \div chunkSize \in (0 .. NChunks(r) - 1) \ Wilds(r) => Covers(chunkSize, w, f)
        /\ w.astray = (r.astray \/ \E q \in f .. last : ~Covers(chunkSize, v, q))
        /\ \A q \in Int : Covers(chunkSize, w, q) =>
             Slot(chunkSize, w, q) = IF q = last THEN Vacant
                                     ELSE IF q \in f .. last - 1 THEN Slot(chunkSize, r, q + 1)
                                     ELSE Slot(chunkSize, r, q)
    BY <2>4, <2>5, <2>6, <2>8, ShiftedLeftFacts
  <2>10. PICK u : u = [w EXCEPT !.front = f]
    OBVIOUS
  <2>11. w.front = r.front /\ w.back = r.back /\ w.size = r.size
    BY <2>9 DEF Extends, SameShape
  <2>12. SameChunks(chunkSize, w, u) /\ u.front = f /\ u.back = w.back /\ u.size = w.size
    BY <2>9, <2>10, FrontSet
  <2>13. Counted(Assigned(u, at, x), t, 1)
    <3>1. [w EXCEPT !.front = @ - 1] = u
      BY <2>5, <2>10, <2>11
    <3>2. PICK g \in Int : g = loc + (r.front - s.front)
      BY <1>1, <2>4
    <3>3. t = [Assigned([ShiftedLeft(r, r.front, g - 1) EXCEPT !.front = @ - 1], g - 1, x)
                 EXCEPT !.size = @ + 1]
      BY <1>4, <2>1, <3>2 DEF InsertedBetween
    <3>4. g - 1 = at
      BY <1>1, <2>4, <2>5, <3>2
    <3>5. t = [Assigned(u, at, x) EXCEPT !.size = @ + 1]
      BY <2>5, <2>6, <3>1, <3>3, <3>4
    <3> QED
      BY <3>5 DEF Counted
  <2>14. ASSUME NEW q \in Int, Covers(chunkSize, r, q) PROVE Covers(chunkSize, u, q)
    <3>1. Covers(chunkSize, v, q)
      BY <2>9, <2>14 DEF Extends
    <3>2. Covers(chunkSize, w, q)
      BY <2>9, <3>1 DEF SameShape, Covers
    <3> QED
      BY <2>12, <3>2 DEF SameChunks
  <2>21. ASSUME NEW q \in f .. last, q # f
         PROVE  Covers(chunkSize, r, q) /\ Covers(chunkSize, v, q)
    <3>1. PICK i \in 1 .. r.size : i = q - r.front + 1
      BY <1>3, <2>3, <2>4, <2>5, <2>21
    <3>2. q = r.front + i - 1 /\ q \in Int
      BY <2>4, <2>5, <3>1
    <3>3. Covers(chunkSize, r, q)
      BY <2>3, <3>2, ElementFacts
    <3> QED
      BY <2>9, <3>2, <3>3 DEF Extends
  <2>22. /\ t \in DequeType(chunkSize) /\ t.size = r.size + 1 /\ Wilds(t) = Wilds(r)
         /\ t.astray = ~Covers(chunkSize, w, f)
    <3>1. WellFormed(chunkSize, u) /\ Wilds(u) = Wilds(r) /\ u.size = r.size /\ u.astray = w.astray
      BY <2>9, <2>11, <2>12 DEF SameChunks, SameShape, Extends
    <3>2. /\ t \in DequeType(chunkSize) /\ t.size = u.size + 1 /\ Wilds(t) = Wilds(u)
          /\ t.astray = (u.astray \/ ~Covers(chunkSize, u, at))
      BY <2>13, <3>1, ConstructedType
    <3>3. at \in f .. last /\ f \in f .. last /\ at # f
      BY <1>3, <2>3, <2>4, <2>5
    <3>4. Covers(chunkSize, u, at)
      BY <2>14, <2>21, <3>3
    <3>5. w.astray = ~Covers(chunkSize, v, f)
      BY <2>3, <2>9, <2>21, <3>3
    <3>6. Covers(chunkSize, w, f) <=> Covers(chunkSize, v, f)
      BY <2>9 DEF SameShape, Covers
    <3>7. t.astray \in BOOLEAN /\ w.astray \in BOOLEAN
      BY <2>9, <3>2, MapFacts DEF WellFormed
    <3> QED
      BY <3>1, <3>2, <3>4, <3>5, <3>6, <3>7
  <2>23. ASSUME t.astray PROVE Wilds(t) # {} \/ Tight(s)
    <3>1. CASE NChunks(s) > 1 \/ s.front > 0
      <4>1. f \div chunkSize \in 0 .. NChunks(r) - 1
        BY <2>1, <2>5, <3>1, RoomBefore
      <4> QED
        BY <2>9, <2>22, <2>23, <4>1
    <3>2. CASE ~(NChunks(s) > 1 \/ s.front > 0)
      <4>1. NChunks(s) \in Nat \ {0} /\ 0 <= s.front /\ s.front \in Int
        BY ChunkSizeType, MapFacts, ElementFacts, CoversRange DEF Good, WellFormed
      <4> QED
        BY <3>2, <4>1 DEF Tight
    <3> QED
      BY <3>1, <3>2
  <2> SUFFICES ASSUME ~t.astray PROVE InsertedAt(s, t, j, x)
    BY <2>3, <2>22, <2>23
  <2>24. Covers(chunkSize, w, f)
    BY <2>22
  <2>15. ASSUME NEW q \in Int, Covers(chunkSize, u, q)
         PROVE  Slot(chunkSize, u, q) = IF q = last THEN Vacant
                                        ELSE IF q \in f .. last - 1 THEN Slot(chunkSize, r, q + 1)
                                        ELSE Slot(chunkSize, r, q)
    BY <2>9, <2>12, <2>15 DEF SameChunks
  <2>16. Covers(chunkSize, u, f)
    BY <2>12, <2>24 DEF SameChunks
  <2>17. ASSUME NEW i \in 1 .. r.size + 1
         PROVE  Covers(chunkSize, u, f + i - 1)
    <3>1. PICK h \in 0 .. r.size : h = i - 1
      BY <2>4
    <3>2. PICK q \in Int : q = f + i - 1
      BY <2>5
    <3>3. CASE h = 0
      <4>1. q = f
        BY <2>5, <3>1, <3>2, <3>3
      <4> QED
        BY <2>16, <3>2, <4>1
    <3>4. CASE h # 0
      <4>1. h \in 1 .. r.size /\ q = r.front + h - 1
        BY <2>4, <2>5, <3>1, <3>2, <3>4
      <4>2. Covers(chunkSize, r, q)
        BY <2>3, <4>1, ElementFacts
      <4> QED
        BY <2>14, <3>2, <4>2
    <3> QED
      BY <3>3, <3>4
  <2>18. ASSUME NEW i \in 1 .. r.size + 1, i # j
         PROVE  Slot(chunkSize, u, f + i - 1) =
                  IF i < j THEN Slot(chunkSize, r, r.front + i - 1)
                  ELSE Slot(chunkSize, r, r.front + i - 2)
    <3>1. PICK q \in Int : q = f + i - 1
      BY <2>5
    <3>2. Covers(chunkSize, u, q)
      BY <2>17, <3>1
    <3>3. q # last /\ (i < j <=> q \in f .. last - 1)
      <4>1. i \in Int /\ i >= 1 /\ i # j
        BY <2>4, <2>18
      <4>2. last = f + j - 1
        BY <2>5
      <4> QED
        BY <3>1, <4>1, <4>2
    <3>4. q + 1 = r.front + i - 1 /\ q = r.front + i - 2
      BY <2>4, <2>5, <3>1
    <3> QED
      BY <2>15, <3>1, <3>2, <3>3, <3>4
  <2>19. Gap(r, u, j, at)
    <3>1. WellFormed(chunkSize, u) /\ u.size = r.size /\ u.front = f
      BY <2>11, <2>12 DEF SameChunks
    <3>2. u.back = u.front + r.size /\ at = u.front + j - 1 /\ at \in Int
      BY <2>4, <2>5, <2>11, <2>12
    <3>3. Covers(chunkSize, u, u.front) /\ Covers(chunkSize, u, u.back)
      BY <2>4, <2>11, <2>12, <2>14, <2>16
    <3>4. Covers(chunkSize, u, at)
      <4>1. j \in 1 .. r.size + 1 /\ at = f + j - 1
        BY <1>3, <2>3, <2>5
      <4> QED
        BY <2>17, <4>1
    <3> QED
      BY <2>17, <2>18, <3>1, <3>2, <3>3, <3>4 DEF Gap
  <2>20. InsertedAt(r, t, j, x)
    BY <1>3, <2>3, <2>13, <2>19, ConstructedFacts
  <2> QED
    BY <1>3, <2>3, <2>20, SameInserted
<1>5. CASE ~ShiftsLeft(s, loc)
  <2>1. PICK r : r = WithRoom(s, s.back, Limit(s), past)
    OBVIOUS
  <2>2. PICK e \in Nat : MovedBy(s, r, e)
    BY <2>1, RoomMoves
  <2>3. Good(chunkSize, r) /\ Same(s, r) /\ r.size = s.size /\ ~r.astray
    BY <2>2, MovedSame DEF Same, MovedBy
  <2>4. /\ r.front \in Int /\ r.back \in Int /\ WellFormed(chunkSize, r)
        /\ r.back = r.front + r.size - 1 /\ r.size \in Nat
        /\ Covers(chunkSize, r, r.front) /\ Covers(chunkSize, r, r.back)
    BY <1>2, <2>3, ElementFacts DEF Good
  <2>5. PICK b \in Int, at \in Int, f \in Int :
          b = r.back + 1 /\ at = r.front + j - 1 /\ f = r.front
    BY <2>4
  <2>6. PICK w : w = ShiftedRight(r, at, r.back)
    OBVIOUS
  <2>7. loc + (r.front - s.front) = at
    BY <1>1, <2>4, <2>5
  <2>8. PICK v : v = Reached(r, b)
    OBVIOUS
  <2>9. /\ Extends(r, v) /\ SameShape(v, w) /\ WellFormed(chunkSize, w)
        /\ b \div chunkSize \in (0 .. NChunks(r) - 1) \ Wilds(r) => Covers(chunkSize, w, b)
        /\ w.astray = (r.astray \/ \E q \in at .. b : ~Covers(chunkSize, v, q))
        /\ \A q \in Int : Covers(chunkSize, w, q) =>
             Slot(chunkSize, w, q) = IF q = at THEN Vacant
                                     ELSE IF q \in at + 1 .. b THEN Slot(chunkSize, r, q - 1)
                                     ELSE Slot(chunkSize, r, q)
    BY <2>4, <2>5, <2>6, <2>8, ShiftedRightFacts
  <2>10. PICK u : u = [w EXCEPT !.back = b]
    OBVIOUS
  <2>11. w.front = r.front /\ w.back = r.back /\ w.size = r.size
    BY <2>9 DEF Extends, SameShape
  <2>12. SameChunks(chunkSize, w, u) /\ u.front = w.front /\ u.back = b /\ u.size = w.size
    BY <2>9, <2>10, BackSet
  <2>13. Counted(Assigned(u, at, x), t, 1)
    <3>1. [w EXCEPT !.back = @ + 1] = u
      BY <2>5, <2>10, <2>11
    <3>2. t = [Assigned(u, at, x) EXCEPT !.size = @ + 1]
      BY <1>5, <2>1, <2>5, <2>6, <2>7, <3>1 DEF InsertedBetween
    <3> QED
      BY <3>2 DEF Counted
  <2>14. ASSUME NEW q \in Int, Covers(chunkSize, r, q) PROVE Covers(chunkSize, u, q)
    <3>1. Covers(chunkSize, v, q)
      BY <2>9, <2>14 DEF Extends
    <3>2. Covers(chunkSize, w, q)
      BY <2>9, <3>1 DEF SameShape, Covers
    <3> QED
      BY <2>12, <3>2 DEF SameChunks
  <2>21. ASSUME NEW q \in at .. b, q # b
         PROVE  Covers(chunkSize, r, q) /\ Covers(chunkSize, v, q)
    <3>1. PICK i \in 1 .. r.size : i = q - r.front + 1
      BY <1>3, <2>3, <2>4, <2>5, <2>21
    <3>2. q = r.front + i - 1 /\ q \in Int
      BY <2>4, <2>5, <3>1
    <3>3. Covers(chunkSize, r, q)
      BY <2>3, <3>2, ElementFacts
    <3> QED
      BY <2>9, <3>2, <3>3 DEF Extends
  <2>22. /\ t \in DequeType(chunkSize) /\ t.size = r.size + 1 /\ Wilds(t) = Wilds(r)
         /\ t.astray = ~Covers(chunkSize, w, b)
    <3>1. WellFormed(chunkSize, u) /\ Wilds(u) = Wilds(r) /\ u.size = r.size /\ u.astray = w.astray
      BY <2>9, <2>11, <2>12 DEF SameChunks, SameShape, Extends
    <3>2. /\ t \in DequeType(chunkSize) /\ t.size = u.size + 1 /\ Wilds(t) = Wilds(u)
          /\ t.astray = (u.astray \/ ~Covers(chunkSize, u, at))
      BY <2>13, <3>1, ConstructedType
    <3>3. at \in at .. b /\ b \in at .. b /\ at # b
      BY <1>3, <2>3, <2>4, <2>5
    <3>4. Covers(chunkSize, u, at)
      BY <2>14, <2>21, <3>3
    <3>5. w.astray = ~Covers(chunkSize, v, b)
      BY <2>3, <2>9, <2>21, <3>3
    <3>6. Covers(chunkSize, w, b) <=> Covers(chunkSize, v, b)
      BY <2>9 DEF SameShape, Covers
    <3>7. t.astray \in BOOLEAN /\ w.astray \in BOOLEAN
      BY <2>9, <3>2, MapFacts DEF WellFormed
    <3> QED
      BY <3>1, <3>2, <3>4, <3>5, <3>6, <3>7
  <2>23. ASSUME t.astray PROVE Wilds(t) # {} \/ Tight(s)
    <3>1. b \div chunkSize \in 0 .. NChunks(r) - 1
      BY <2>1, <2>5, RoomBehind
    <3> QED
      BY <2>9, <2>22, <2>23, <3>1
  <2> SUFFICES ASSUME ~t.astray PROVE InsertedAt(s, t, j, x)
    BY <2>3, <2>22, <2>23
  <2>24. Covers(chunkSize, w, b)
    BY <2>22
  <2>15. ASSUME NEW q \in Int, Covers(chunkSize, u, q)
         PROVE  Slot(chunkSize, u, q) = IF q = at THEN Vacant
                                        ELSE IF q \in at + 1 .. b THEN Slot(chunkSize, r, q - 1)
                                        ELSE Slot(chunkSize, r, q)
    BY <2>9, <2>12, <2>15 DEF SameChunks
  <2>16. Covers(chunkSize, u, b)
    BY <2>12, <2>24 DEF SameChunks
  <2>17. ASSUME NEW i \in 1 .. r.size + 1
         PROVE  Covers(chunkSize, u, f + i - 1)
    <3>1. PICK q \in Int : q = f + i - 1
      BY <2>5
    <3>2. CASE i = r.size + 1
      <4>1. q = b
        BY <2>4, <2>5, <3>1, <3>2
      <4> QED
        BY <2>16, <3>1, <4>1
    <3>3. CASE i # r.size + 1
      <4>1. i \in 1 .. r.size /\ q = r.front + i - 1
        BY <2>4, <2>5, <3>1, <3>3
      <4>2. Covers(chunkSize, r, q)
        BY <2>3, <4>1, ElementFacts
      <4> QED
        BY <2>14, <3>1, <4>2
    <3> QED
      BY <3>2, <3>3
  <2>18. ASSUME NEW i \in 1 .. r.size + 1, i # j
         PROVE  Slot(chunkSize, u, f + i - 1) =
                  IF i < j THEN Slot(chunkSize, r, r.front + i - 1)
                  ELSE Slot(chunkSize, r, r.front + i - 2)
    <3>1. PICK q \in Int : q = f + i - 1
      BY <2>5
    <3>2. Covers(chunkSize, u, q)
      BY <2>17, <3>1
    <3>3. q # at /\ (i < j <=> ~(q \in at + 1 .. b))
      BY <2>4, <2>5, <2>18, <3>1
    <3>4. q = r.front + i - 1 /\ q - 1 = r.front + i - 2
      BY <2>4, <2>5, <3>1
    <3> QED
      BY <2>15, <3>1, <3>2, <3>3, <3>4
  <2>19. Gap(r, u, j, at)
    <3>1. WellFormed(chunkSize, u) /\ u.size = r.size /\ u.front = f
      BY <2>5, <2>11, <2>12 DEF SameChunks
    <3>2. u.back = u.front + r.size /\ at = u.front + j - 1 /\ at \in Int
      BY <2>4, <2>5, <2>11, <2>12
    <3>3. Covers(chunkSize, u, u.front) /\ Covers(chunkSize, u, u.back)
      BY <2>4, <2>11, <2>12, <2>14, <2>16
    <3>4. Covers(chunkSize, u, at)
      <4>1. j \in 1 .. r.size + 1 /\ at = f + j - 1
        BY <1>3, <2>3, <2>5
      <4> QED
        BY <2>17, <4>1
    <3> QED
      BY <2>17, <2>18, <3>1, <3>2, <3>3, <3>4 DEF Gap
  <2>20. InsertedAt(r, t, j, x)
    BY <1>3, <2>3, <2>13, <2>19, ConstructedFacts
  <2> QED
    BY <1>3, <2>3, <2>20, SameInserted
<1> QED
  BY <1>4, <1>5

LEMMA PoppedFrontFacts ==
  ASSUME chunkSize \in ChunkSizes, NEW s, Good(chunkSize, s), ~s.astray, s.size > 0,
         NEW t, t = PoppedFront(s)
  PROVE  ~t.astray /\ RemovedAt(s, t, 1)
<1>1. s.size \in Nat /\ s.front \in Int /\ s.back \in Int /\ 1 \in 1 .. s.size
  BY ElementFacts
<1>2. s.back = s.front + s.size - 1 /\ WellFormed(chunkSize, s) /\ s \in DequeType(chunkSize)
  BY ElementFacts DEF Good, WellFormed
<1>3. PICK f \in Int : f = IF s.size = 1 THEN s.front ELSE s.front + 1
  BY <1>1
<1>4. (IF s.size = 1 \/ s.front = Limit(s) THEN s.front ELSE s.front + 1) = f
  <2>1. CASE s.size = 1
    BY <1>3, <2>1
  <2>2. CASE s.size # 1
    <3>1. PICK lim \in Int : lim = Limit(s)
      <4>1. chunkSize \in Nat /\ NChunks(s) \in Nat
        BY <1>2, ChunkSizeType, MapFacts
      <4> QED
        BY <4>1 DEF Limit
    <3>2. s.back <= lim
      <4>1. Covers(chunkSize, s, s.back)
        BY ElementFacts
      <4>2. s.back < NChunks(s) * chunkSize /\ NChunks(s) * chunkSize \in Int
        <5>1. chunkSize \in Nat \ {0} /\ NChunks(s) \in Nat
          BY <1>2, ChunkSizeType, MapFacts
        <5> QED
          BY <1>1, <1>2, <4>1, <5>1, CoversRange
      <4> QED
        BY <1>1, <3>1, <4>2 DEF Limit
    <3>3. s.front # lim
      BY <1>1, <1>2, <2>2, <3>2
    <3> QED
      BY <1>3, <2>2, <3>1, <3>3
  <2> QED
    BY <2>1, <2>2
<1>5. PICK a : a = Assigned(s, s.front, Vacant)
  OBVIOUS
<1>6. /\ SameShape(s, a) /\ ~a.astray
      /\ \A q \in Int : Covers(chunkSize, s, q) =>
           Slot(chunkSize, a, q) = IF q = s.front THEN Vacant ELSE Slot(chunkSize, s, q)
  <2>1. Covers(chunkSize, s, s.front)
    BY ElementFacts
  <2>2. /\ SameShape(s, a) /\ a.astray = (s.astray \/ ~Covers(chunkSize, s, s.front))
        /\ \A q \in Int : Covers(chunkSize, s, q) =>
             Slot(chunkSize, a, q) = IF q = s.front THEN Vacant ELSE Slot(chunkSize, s, q)
    BY <1>2, <1>5, AssignedFacts
  <2> QED
    BY <2>1, <2>2
<1>7. /\ WellFormed(chunkSize, a) /\ a.size = s.size /\ a.back = s.back
      /\ \A q : Covers(chunkSize, a, q) <=> Covers(chunkSize, s, q)
  BY <1>2, <1>6 DEF SameShape, WellFormed, Covers
<1>8. PICK v : v = Reached(a, f)
  OBVIOUS
<1>9. Extends(a, v)
  BY <1>7, <1>8, ReachedFacts
<1>10. WellFormed(chunkSize, v) /\ v.size = s.size /\ v.back = s.back /\ ~v.astray
  BY <1>6, <1>7, <1>9 DEF Extends
<1>11. PICK u : u = [v EXCEPT !.front = f]
  OBVIOUS
<1>12. SameChunks(chunkSize, v, u) /\ u.front = f /\ u.back = v.back /\ u.size = v.size
  BY <1>10, <1>11, FrontSet
<1>13. ASSUME NEW q \in Int, Covers(chunkSize, s, q)
       PROVE  /\ Covers(chunkSize, u, q)
              /\ Slot(chunkSize, u, q) = IF q = s.front THEN Vacant ELSE Slot(chunkSize, s, q)
  <2>1. Covers(chunkSize, v, q) /\ Slot(chunkSize, v, q) = Slot(chunkSize, a, q)
    BY <1>7, <1>9, <1>13 DEF Extends
  <2> QED
    BY <1>6, <1>12, <1>13, <2>1 DEF SameChunks
<1>14. Counted(u, t, -1)
  <2>1. t = [[v EXCEPT !.front = f] EXCEPT !.size = @ - 1]
    BY <1>4, <1>5, <1>8, <1>10 DEF PoppedFront, WellFormed, DequeType
  <2>2. u.size \in Int
    BY <1>1, <1>10, <1>12
  <2> QED
    BY <1>11, <2>1, <2>2 DEF Counted
<1>15. ASSUME NEW i \in 1 .. s.size - 1
       PROVE  /\ Slot(chunkSize, u, u.front + i - 1) = Slot(chunkSize, s, s.front + i)
              /\ Covers(chunkSize, u, u.front + i - 1)
  <2>1. PICK h \in 1 .. s.size : h = i + 1
    BY <1>1
  <2>2. PICK q \in Int : q = s.front + h - 1
    BY <1>1
  <2>3. u.front + i - 1 = q /\ s.front + i = q /\ q # s.front
    BY <1>1, <1>3, <1>12, <2>1, <2>2
  <2>4. Covers(chunkSize, s, q)
    BY <2>2, ElementFacts
  <2> QED
    BY <1>13, <2>3, <2>4
<1>16. Covers(chunkSize, u, u.front) /\ Covers(chunkSize, u, u.back)
  <2>1. Covers(chunkSize, s, s.front) /\ Covers(chunkSize, s, s.back)
    BY ElementFacts
  <2>2. Covers(chunkSize, s, f)
    <3>1. CASE s.size = 1
      BY <1>3, <2>1, <3>1
    <3>2. CASE s.size # 1
      <4>1. PICK h \in 1 .. s.size : h = 2
        BY <1>1, <3>2
      <4>2. f = s.front + h - 1
        BY <1>1, <1>3, <3>2, <4>1
      <4> QED
        BY <4>2, ElementFacts
    <3> QED
      BY <3>1, <3>2
  <2> QED
    BY <1>1, <1>10, <1>12, <1>13, <2>1, <2>2
<1>17. Closed(s, u, 1)
  <2>1. WellFormed(chunkSize, u) /\ u.size = s.size
    BY <1>10, <1>12 DEF SameChunks
  <2>2. u.back = u.front + (IF s.size = 1 THEN 0 ELSE s.size - 2)
    BY <1>1, <1>2, <1>3, <1>10, <1>12
  <2>3. \A i \in 1 .. s.size - 1 : ~(i < 1)
    BY <1>1
  <2> QED
    BY <1>15, <1>16, <2>1, <2>2, <2>3 DEF Closed
<1> QED
  BY <1>1, <1>10, <1>12, <1>14, <1>17, RemainFacts DEF SameChunks

LEMMA PoppedBackFacts ==
  ASSUME chunkSize \in ChunkSizes, NEW s, Good(chunkSize, s), ~s.astray, s.size > 0,
         NEW t, t = PoppedBack(s)
  PROVE  ~t.astray /\ RemovedAt(s, t, s.size)
<1>1. s.size \in Nat /\ s.front \in Int /\ s.back \in Int /\ s.size \in 1 .. s.size
  BY ElementFacts
<1>2. s.back = s.front + s.size - 1 /\ WellFormed(chunkSize, s) /\ s \in DequeType(chunkSize)
  BY ElementFacts DEF Good, WellFormed
<1>3. PICK b \in Int : b = IF s.size = 1 THEN s.back ELSE s.back - 1
  BY <1>1
<1>4. (IF s.size = 1 \/ s.back = 0 THEN s.back ELSE s.back - 1) = b
  <2>1. CASE s.size = 1
    BY <1>3, <2>1
  <2>2. CASE s.size # 1
    <3>1. 0 <= s.front
      <4>1. Covers(chunkSize, s, s.front) /\ chunkSize \in Nat \ {0}
        BY ElementFacts, ChunkSizeType
      <4> QED
        BY <1>1, <1>2, <4>1, CoversRange
    <3>2. s.back # 0
      BY <1>1, <1>2, <2>2, <3>1
    <3> QED
      BY <1>3, <2>2, <3>2
  <2> QED
    BY <2>1, <2>2
<1>5. PICK a : a = Assigned(s, s.back, Vacant)
  OBVIOUS
<1>6. /\ SameShape(s, a) /\ ~a.astray
      /\ \A q \in Int : Covers(chunkSize, s, q) =>
           Slot(chunkSize, a, q) = IF q = s.back THEN Vacant ELSE Slot(chunkSize, s, q)
  <2>1. Covers(chunkSize, s, s.back)
    BY ElementFacts
  <2>2. /\ SameShape(s, a) /\ a.astray = (s.astray \/ ~Covers(chunkSize, s, s.back))
        /\ \A q \in Int : Covers(chunkSize, s, q) =>
             Slot(chunkSize, a, q) = IF q = s.back THEN Vacant ELSE Slot(chunkSize, s, q)
    BY <1>2, <1>5, AssignedFacts
  <2> QED
    BY <2>1, <2>2
<1>7. /\ WellFormed(chunkSize, a) /\ a.size = s.size /\ a.front = s.front
      /\ \A q : Covers(chunkSize, a, q) <=> Covers(chunkSize, s, q)
  BY <1>2, <1>6 DEF SameShape, WellFormed, Covers
<1>8. PICK v : v = Reached(a, b)
  OBVIOUS
<1>9. Extends(a, v)
  BY <1>7, <1>8, ReachedFacts
<1>10. WellFormed(chunkSize, v) /\ v.size = s.size /\ v.front = s.front /\ ~v.astray
  BY <1>6, <1>7, <1>9 DEF Extends
<1>11. PICK u : u = [v EXCEPT !.back = b]
  OBVIOUS
<1>12. SameChunks(chunkSize, v, u) /\ u.front = v.front /\ u.back = b /\ u.size = v.size
  BY <1>10, <1>11, BackSet
<1>13. ASSUME NEW q \in Int, Covers(chunkSize, s, q)
       PROVE  /\ Covers(chunkSize, u, q)
              /\ Slot(chunkSize, u, q) = IF q = s.back THEN Vacant ELSE Slot(chunkSize, s, q)
  <2>1. Covers(chunkSize, v, q) /\ Slot(chunkSize, v, q) = Slot(chunkSize, a, q)
    BY <1>7, <1>9, <1>13 DEF Extends
  <2> QED
    BY <1>6, <1>12, <1>13, <2>1 DEF SameChunks
<1>14. Counted(u, t, -1)
  <2>1. t = [[v EXCEPT !.back = b] EXCEPT !.size = @ - 1]
    BY <1>4, <1>5, <1>8, <1>10 DEF PoppedBack, WellFormed, DequeType
  <2>2. u.size \in Int
    BY <1>1, <1>10, <1>12
  <2> QED
    BY <1>11, <2>1, <2>2 DEF Counted
<1>15. ASSUME NEW i \in 1 .. s.size - 1
       PROVE  Slot(chunkSize, u, u.front + i - 1) = Slot(chunkSize, s, s.front + i - 1)
  <2>1. i \in 1 .. s.size
    BY <1>1
  <2>2. PICK q \in Int : q = s.front + i - 1
    BY <1>1
  <2>3. u.front + i - 1 = q /\ q # s.back
    BY <1>1, <1>2, <1>10, <1>12, <2>1, <2>2
  <2>4. Covers(chunkSize, s, q)
    BY <2>1, <2>2, ElementFacts
  <2> QED
    BY <1>13, <2>2, <2>3, <2>4
<1>16. Covers(chunkSize, u, u.front) /\ Covers(chunkSize, u, u.back)
  <2>1. Covers(chunkSize, s, s.front) /\ Covers(chunkSize, s, s.back)
    BY ElementFacts
  <2>2. Covers(chunkSize, s, b)
    <3>1. CASE s.size = 1
      BY <1>3, <2>1, <3>1
    <3>2. CASE s.size # 1
      <4>1. PICK h \in 1 .. s.size : h = s.size - 1
        BY <1>1, <3>2
      <4>2. b = s.front + h - 1
        BY <1>1, <1>2, <1>3, <3>2, <4>1
      <4> QED
        BY <4>2, ElementFacts
    <3> QED
      BY <3>1, <3>2
  <2> QED
    BY <1>1, <1>10, <1>12, <1>13, <2>1, <2>2
<1>17. Closed(s, u, s.size)
  <2>1. WellFormed(chunkSize, u) /\ u.size = s.size
    BY <1>10, <1>12 DEF SameChunks
  <2>2. u.back = u.front + (IF s.size = 1 THEN 0 ELSE s.size - 2)
    BY <1>1, <1>2, <1>3, <1>10, <1>12
  <2>3. \A i \in 1 .. s.size - 1 : i < s.size
    BY <1>1
  <2> QED
    BY <1>15, <1>16, <2>1, <2>2, <2>3 DEF Closed
<1> QED
  BY <1>1, <1>10, <1>12, <1>14, <1>17, RemainFacts DEF SameChunks

\* With more than one element, erase() of an end is pop.
LEMMA ErasedEnds ==
  ASSUME chunkSize \in ChunkSizes, NEW s, Good(chunkSize, s), s.size > 1
  PROVE  ErasedFront(s) = PoppedFront(s) /\ ErasedBack(s) = PoppedBack(s)
<1>1. s.size \in Nat /\ s.front \in Int /\ s.back \in Int /\ s.back = s.front + s.size - 1
  BY ElementFacts
<1>2. /\ s \in DequeType(chunkSize) /\ chunkSize \in Nat \ {0}
      /\ Covers(chunkSize, s, s.front) /\ Covers(chunkSize, s, s.back)
  BY ChunkSizeType, ElementFacts DEF Good, WellFormed
<1>3. PICK n \in Nat : n = NChunks(s)
  BY <1>2, MapFacts
<1>4. 0 <= s.front /\ s.back < n * chunkSize /\ n * chunkSize \in Int
  BY <1>1, <1>2, <1>3, CoversRange
<1>5. s.front # Limit(s) /\ s.back # 0 /\ s.size # 1
  <2>1. PICK m \in Int : m = n * chunkSize
    BY <1>4
  <2>2. Limit(s) = m - 1
    BY <1>3, <2>1 DEF Limit
  <2> QED
    BY <1>1, <1>4, <2>1, <2>2
<1>6. ErasedFront(s) = PoppedFront(s)
  <2>1. PICK p : p = IF s.size = 1 \/ s.front = Limit(s) THEN s.front ELSE s.front + 1
    OBVIOUS
  <2>2. p = s.front + 1
    BY <1>5, <2>1
  <2>3. PICK a : a = Reached(Assigned(s, s.front, Vacant), p)
    OBVIOUS
  <2>4. PoppedFront(s) = [a EXCEPT !.front = p, !.size = @ - 1]
    BY <2>1, <2>3, Zenon DEF PoppedFront
  <2>5. a.front = s.front
    <3>1. SameShape(s, Assigned(s, s.front, Vacant))
      BY <1>2, AssignedFacts
    <3>2. /\ WellFormed(chunkSize, Assigned(s, s.front, Vacant))
          /\ Assigned(s, s.front, Vacant).front = s.front
      BY <3>1 DEF SameShape, WellFormed, Good
    <3>3. p \in Int
      BY <1>1, <2>2
    <3> QED
      BY <2>3, <3>2, <3>3, ReachedFacts DEF Extends
  <2>6. ErasedFront(s) = [a EXCEPT !.front = @ + 1, !.size = @ - 1, !.astray = @ \/ s.size = 1]
    BY <2>2, <2>3, Zenon DEF ErasedFront
  <2>7. a \in DequeType(chunkSize) /\ (a.astray \/ s.size = 1) = a.astray
    <3>1. SameShape(s, Assigned(s, s.front, Vacant))
      BY <1>2, AssignedFacts
    <3>2. WellFormed(chunkSize, Assigned(s, s.front, Vacant))
      BY <3>1 DEF SameShape, WellFormed, Good
    <3>3. p \in Int
      BY <1>1, <2>2
    <3>4. a \in DequeType(chunkSize)
      BY <2>3, <3>2, <3>3, ReachedFacts DEF Extends, WellFormed
    <3>5. a.astray \in BOOLEAN
      BY <3>4, MapFacts
    <3> QED
      BY <1>5, <3>4, <3>5
  <2>8. PICK y : y = [a EXCEPT !.front = p]
    OBVIOUS
  <2>9. y \in DequeType(chunkSize) /\ y.astray = a.astray /\ y.size = a.size
    <3>1. p \in Int /\ a \in DequeType(chunkSize)
      BY <1>1, <2>2, <2>7
    <3> QED
      BY <2>8, <3>1 DEF DequeType
  <2>10. PoppedFront(s) = [y EXCEPT !.size = @ - 1]
    BY <2>4, <2>8
  <2>11. ErasedFront(s) = [[y EXCEPT !.size = @ - 1] EXCEPT !.astray = a.astray]
    BY <2>2, <2>5, <2>6, <2>7, <2>8, <2>9
  <2> QED
    BY <2>9, <2>10, <2>11 DEF DequeType
<1>7. ErasedBack(s) = PoppedBack(s)
  <2>1. PICK p : p = IF s.size = 1 \/ s.back = 0 THEN s.back ELSE s.back - 1
    OBVIOUS
  <2>2. p = s.back - 1
    BY <1>5, <2>1
  <2>3. PICK a : a = Reached(Assigned(s, s.back, Vacant), p)
    OBVIOUS
  <2>4. PoppedBack(s) = [a EXCEPT !.back = p, !.size = @ - 1]
    BY <2>1, <2>3, Zenon DEF PoppedBack
  <2>5. a.back = s.back
    <3>1. SameShape(s, Assigned(s, s.back, Vacant))
      BY <1>2, AssignedFacts
    <3>2. /\ WellFormed(chunkSize, Assigned(s, s.back, Vacant))
          /\ Assigned(s, s.back, Vacant).back = s.back
      BY <3>1 DEF SameShape, WellFormed, Good
    <3>3. p \in Int
      BY <1>1, <2>2
    <3> QED
      BY <2>3, <3>2, <3>3, ReachedFacts DEF Extends
  <2>6. ErasedBack(s) = [a EXCEPT !.back = @ - 1, !.size = @ - 1]
    BY <2>2, <2>3, Zenon DEF ErasedBack
  <2> QED
    BY <2>2, <2>4, <2>5, <2>6
<1> QED
  BY <1>6, <1>7

LEMMA ErasedLast ==
  ASSUME chunkSize \in ChunkSizes, NEW s, Good(chunkSize, s), s.size = 1, NEW t, t = ErasedFront(s)
  PROVE  t \in DequeType(chunkSize) /\ t.size = 0 /\ t.astray
<1>1. s \in DequeType(chunkSize) /\ s.front \in Int /\ s.live = Cardinality(Chunks(s))
  BY ElementFacts DEF Good, WellFormed
<1>2. SameShape(s, Assigned(s, s.front, Vacant))
  BY <1>1, AssignedFacts
<1>3. /\ WellFormed(chunkSize, Assigned(s, s.front, Vacant))
      /\ Assigned(s, s.front, Vacant).size = 1
  BY <1>1, <1>2 DEF SameShape, WellFormed
<1>4. PICK p \in Int : p = s.front + 1
  BY <1>1
<1>14. PICK a : a = Reached(Assigned(s, s.front, Vacant), p)
  OBVIOUS
<1>5. WellFormed(chunkSize, a) /\ a.size = 1
  BY <1>3, <1>14, ReachedFacts DEF Extends
<1>6. t = [a EXCEPT !.front = @ + 1, !.size = @ - 1, !.astray = TRUE]
  <2>1. t = [a EXCEPT !.front = @ + 1, !.size = @ - 1, !.astray = @ \/ s.size = 1]
    BY <1>4, <1>14 DEF ErasedFront
  <2> QED
    BY <2>1
<1>7. PICK f \in Int : f = a.front + 1
  BY <1>5, MapFacts DEF WellFormed
<1>8. PICK u : u = [a EXCEPT !.front = f]
  OBVIOUS
<1>9. SameChunks(chunkSize, a, u) /\ u.size = 1
  BY <1>5, <1>8, FrontSet
<1>10. PICK v : v = [u EXCEPT !.size = 0]
  OBVIOUS
<1>11. SameChunks(chunkSize, u, v) /\ v.size = 0
  BY <1>9, <1>10, SizeSet DEF SameChunks
<1>12. t = [v EXCEPT !.astray = TRUE]
  BY <1>5, <1>6, <1>7, <1>8, <1>9, <1>10
<1>13. SameShape(v, t) /\ t.astray
  BY <1>11, <1>12, Strayed DEF SameChunks, WellFormed
<1> QED
  BY <1>11, <1>13 DEF SameShape

LEMMA ErasedBetweenFacts ==
  ASSUME chunkSize \in ChunkSizes, NEW s, Good(chunkSize, s), ~s.astray,
         NEW loc \in s.front + 1 .. s.back - 1,
         NEW j \in Int, j = loc - s.front + 1,
         NEW t, t = ErasedBetween(s, loc)
  PROVE  ~t.astray /\ RemovedAt(s, t, j)
<1>1. s.size \in Nat /\ s.front \in Int /\ s.back \in Int
  BY ElementFacts
<1>2. /\ s.size > 2 /\ s.back = s.front + s.size - 1 /\ WellFormed(chunkSize, s)
      /\ Covers(chunkSize, s, s.front) /\ Covers(chunkSize, s, s.back)
  BY <1>1, ElementFacts DEF Good
<1>3. j \in 2 .. s.size - 1 /\ j \in 1 .. s.size
  BY <1>1, <1>2
<1>4. ASSUME NEW i \in 1 .. s.size PROVE Covers(chunkSize, s, s.front + i - 1)
  BY ElementFacts
<1>5. s.size > 0
  BY <1>1, <1>2
<1>6. CASE ShiftsLeft(s, loc)
  <2>1. PICK f \in Int, last \in Int : f = s.front + 1 /\ last = loc - 1
    BY <1>1
  <2>2. PICK w : w = ShiftedRight(s, s.front, last)
    OBVIOUS
  <2>3. PICK v : v = Reached(s, last + 1)
    OBVIOUS
  <2>4. /\ Extends(s, v) /\ SameShape(v, w) /\ WellFormed(chunkSize, w)
        /\ w.astray = (s.astray \/ \E q \in s.front .. last + 1 : ~Covers(chunkSize, v, q))
        /\ \A q \in Int : Covers(chunkSize, w, q) =>
             Slot(chunkSize, w, q) = IF q = s.front THEN Vacant
                                     ELSE IF q \in s.front + 1 .. last + 1 THEN Slot(chunkSize, s, q - 1)
                                     ELSE Slot(chunkSize, s, q)
    BY <1>1, <1>2, <2>2, <2>3, ShiftedRightFacts
  <2>5. PICK u : u = [w EXCEPT !.front = f]
    OBVIOUS
  <2>6. w.front = s.front /\ w.back = s.back /\ w.size = s.size
    BY <2>4 DEF Extends, SameShape
  <2>7. SameChunks(chunkSize, w, u) /\ u.front = f /\ u.back = w.back /\ u.size = w.size
    BY <2>4, <2>5, FrontSet
  <2>8. Counted(u, t, -1)
    <3>1. [w EXCEPT !.front = @ + 1] = u
      BY <2>1, <2>5, <2>6
    <3>2. t = [u EXCEPT !.size = @ - 1]
      BY <1>6, <2>1, <2>2, <3>1 DEF ErasedBetween
    <3>3. u.size \in Int
      BY <1>1, <2>6, <2>7
    <3> QED
      BY <3>2, <3>3 DEF Counted
  <2>9. ASSUME NEW q \in Int, Covers(chunkSize, s, q)
        PROVE  /\ Covers(chunkSize, u, q)
               /\ Slot(chunkSize, u, q) = IF q = s.front THEN Vacant
                                          ELSE IF q \in s.front + 1 .. last + 1
                                               THEN Slot(chunkSize, s, q - 1)
                                               ELSE Slot(chunkSize, s, q)
    <3>1. Covers(chunkSize, v, q)
      BY <2>4, <2>9 DEF Extends
    <3>2. Covers(chunkSize, w, q)
      BY <2>4, <3>1 DEF SameShape, Covers
    <3> QED
      BY <2>4, <2>7, <3>2 DEF SameChunks
  <2>10. ASSUME NEW i \in 1 .. s.size - 1
         PROVE  Slot(chunkSize, u, u.front + i - 1) =
                  IF i < j THEN Slot(chunkSize, s, s.front + i - 1) ELSE Slot(chunkSize, s, s.front + i)
    <3>1. PICK h \in 1 .. s.size : h = i + 1
      BY <1>1
    <3>2. PICK q \in Int : q = s.front + h - 1
      BY <1>1
    <3>3. Covers(chunkSize, s, q)
      BY <1>4, <3>2
    <3>4. /\ u.front + i - 1 = q /\ s.front + i = q /\ s.front + i - 1 = q - 1
          /\ q # s.front /\ (i < j <=> q \in s.front + 1 .. last + 1)
      BY <1>1, <2>1, <2>7, <3>1, <3>2
    <3> QED
      BY <2>9, <3>3, <3>4
  <2>11. Closed(s, u, j)
    <3>1. WellFormed(chunkSize, u) /\ u.size = s.size
      BY <2>6, <2>7 DEF SameChunks
    <3>2. u.back = u.front + (IF s.size = 1 THEN 0 ELSE s.size - 2)
      BY <1>1, <1>2, <2>1, <2>6, <2>7
    <3>3. Covers(chunkSize, u, u.back)
      BY <1>1, <1>2, <2>6, <2>7, <2>9
    <3>4. Covers(chunkSize, u, u.front)
      <4>1. PICK h \in 1 .. s.size : h = 2
        BY <1>1, <1>2
      <4>2. f = s.front + h - 1
        BY <1>1, <2>1, <4>1
      <4> QED
        BY <1>4, <2>7, <2>9, <4>2
    <3> QED
      BY <2>10, <3>1, <3>2, <3>3, <3>4 DEF Closed
  <2>12. ASSUME NEW q \in s.front .. last + 1 PROVE Covers(chunkSize, v, q)
    <3>1. PICK i \in 1 .. s.size : i = q - s.front + 1
      BY <1>1, <1>2, <2>1
    <3>2. q = s.front + i - 1 /\ q \in Int
      BY <1>1, <2>1, <3>1
    <3>3. Covers(chunkSize, s, q)
      BY <1>4, <3>2
    <3> QED
      BY <2>4, <3>2, <3>3 DEF Extends
  <2>13. ~u.astray
    BY <2>4, <2>7, <2>12 DEF SameChunks
  <2> QED
    BY <1>3, <1>5, <2>8, <2>11, <2>13, RemainFacts
<1>7. CASE ~ShiftsLeft(s, loc)
  <2>1. PICK b \in Int, first \in Int : b = s.back - 1 /\ first = loc + 1
    BY <1>1
  <2>2. PICK w : w = ShiftedLeft(s, first, s.back)
    OBVIOUS
  <2>3. PICK v : v = Reached(s, first - 1)
    OBVIOUS
  <2>4. /\ Extends(s, v) /\ SameShape(v, w) /\ WellFormed(chunkSize, w)
        /\ w.astray = (s.astray \/ \E q \in first - 1 .. s.back : ~Covers(chunkSize, v, q))
        /\ \A q \in Int : Covers(chunkSize, w, q) =>
             Slot(chunkSize, w, q) = IF q = s.back THEN Vacant
                                     ELSE IF q \in first - 1 .. s.back - 1 THEN Slot(chunkSize, s, q + 1)
                                     ELSE Slot(chunkSize, s, q)
    BY <1>1, <1>2, <2>2, <2>3, ShiftedLeftFacts
  <2>5. PICK u : u = [w EXCEPT !.back = b]
    OBVIOUS
  <2>6. w.front = s.front /\ w.back = s.back /\ w.size = s.size
    BY <2>4 DEF Extends, SameShape
  <2>7. SameChunks(chunkSize, w, u) /\ u.front = w.front /\ u.back = b /\ u.size = w.size
    BY <2>4, <2>5, BackSet
  <2>8. Counted(u, t, -1)
    <3>1. [w EXCEPT !.back = @ - 1] = u
      BY <2>1, <2>5, <2>6
    <3>2. t = [u EXCEPT !.size = @ - 1]
      BY <1>7, <2>1, <2>2, <3>1 DEF ErasedBetween
    <3>3. u.size \in Int
      BY <1>1, <2>6, <2>7
    <3> QED
      BY <3>2, <3>3 DEF Counted
  <2>9. ASSUME NEW q \in Int, Covers(chunkSize, s, q)
        PROVE  /\ Covers(chunkSize, u, q)
               /\ Slot(chunkSize, u, q) = IF q = s.back THEN Vacant
                                          ELSE IF q \in first - 1 .. s.back - 1
                                               THEN Slot(chunkSize, s, q + 1)
                                               ELSE Slot(chunkSize, s, q)
    <3>1. Covers(chunkSize, v, q)
      BY <2>4, <2>9 DEF Extends
    <3>2. Covers(chunkSize, w, q)
      BY <2>4, <3>1 DEF SameShape, Covers
    <3> QED
      BY <2>4, <2>7, <3>2 DEF SameChunks
  <2>10. ASSUME NEW i \in 1 .. s.size - 1
         PROVE  Slot(chunkSize, u, u.front + i - 1) =
                  IF i < j THEN Slot(chunkSize, s, s.front + i - 1) ELSE Slot(chunkSize, s, s.front + i)
    <3>1. i \in 1 .. s.size
      BY <1>1
    <3>2. PICK q \in Int : q = s.front + i - 1
      BY <1>1
    <3>3. Covers(chunkSize, s, q)
      BY <1>4, <3>1, <3>2
    <3>4. /\ u.front + i - 1 = q /\ s.front + i - 1 = q /\ s.front + i = q + 1
          /\ q # s.back /\ (i < j <=> ~(q \in first - 1 .. s.back - 1))
      BY <1>1, <1>2, <2>1, <2>6, <2>7, <3>1, <3>2
    <3> QED
      BY <2>9, <3>3, <3>4
  <2>11. Closed(s, u, j)
    <3>1. WellFormed(chunkSize, u) /\ u.size = s.size
      BY <2>6, <2>7 DEF SameChunks
    <3>2. u.back = u.front + (IF s.size = 1 THEN 0 ELSE s.size - 2)
      BY <1>1, <1>2, <2>1, <2>6, <2>7
    <3>3. Covers(chunkSize, u, u.front)
      BY <1>1, <1>2, <2>6, <2>7, <2>9
    <3>4. Covers(chunkSize, u, u.back)
      <4>1. PICK h \in 1 .. s.size : h = s.size - 1
        BY <1>1, <1>2
      <4>2. b = s.front + h - 1
        BY <1>1, <1>2, <2>1, <4>1
      <4> QED
        BY <1>4, <2>7, <2>9, <4>2
    <3> QED
      BY <2>10, <3>1, <3>2, <3>3, <3>4 DEF Closed
  <2>12. ASSUME NEW q \in first - 1 .. s.back PROVE Covers(chunkSize, v, q)
    <3>1. PICK i \in 1 .. s.size : i = q - s.front + 1
      BY <1>1, <1>2, <2>1
    <3>2. q = s.front + i - 1 /\ q \in Int
      BY <1>1, <2>1, <3>1
    <3>3. Covers(chunkSize, s, q)
      BY <1>4, <3>2
    <3> QED
      BY <2>4, <3>2, <3>3 DEF Extends
  <2>13. ~u.astray
    BY <2>4, <2>7, <2>12 DEF SameChunks
  <2> QED
    BY <1>3, <1>5, <2>8, <2>11, <2>13, RemainFacts
<1> QED
  BY <1>6, <1>7

LEMMA DivMonotone ==
  ASSUME NEW k \in Nat \ {0}, NEW x \in Int, NEW y \in Int, x <= y
  PROVE  x \div k <= y \div k
<1>1. PICK a \in Int, r \in 0 .. k - 1 : a = x \div k /\ r = x % k
  BY DivMod
<1>2. PICK b \in Int, t \in 0 .. k - 1 : b = y \div k /\ t = y % k
  BY DivMod
<1>3. x = a * k + r /\ y = b * k + t
  BY <1>1, <1>2, DivMod
<1>4. CASE a > b
  <2>1. (a - b) * k >= k
    BY <1>4, Multiple
  <2>2. (a - b) * k = a * k - b * k
    BY Distribute
  <2>3. PICK ak \in Int, bk \in Int : ak = a * k /\ bk = b * k
    OBVIOUS
  <2> QED
    BY <1>3, <2>1, <2>2, <2>3
<1> QED
  BY <1>1, <1>2, <1>4

\* shrink_to_fit() keeps the elements, and frees the chunks outside the ends,
\* unless a wild pointer is freed with them.
LEMMA ShrunkFacts ==
  ASSUME chunkSize \in ChunkSizes, NEW s, Good(chunkSize, s), ~s.astray, NEW t, t = Shrunk(s)
  PROVE  /\ t \in DequeType(chunkSize) /\ t.size = s.size
         /\ t.astray => Wilds(s) # {}
         /\ ~t.astray => Same(s, t)
<1>1. PICK k \in Nat \ {0} : k = chunkSize
  BY ChunkSizeType
<1>2. /\ s.size \in Nat /\ s.front \in Int /\ s.back \in Int
      /\ s.back - s.front = IF s.size = 0 THEN 0 ELSE s.size - 1
      /\ Covers(k, s, s.front) /\ Covers(k, s, s.back)
  BY <1>1, ElementFacts DEF Good, Ends
<1>3. PICK n \in Nat \ {0} : n = NChunks(s) /\ DOMAIN s.chunkMap = 0 .. n - 1 /\ s.chunkMap \in MapType(k, n)
  BY <1>1, MapFacts DEF Good, WellFormed
<1>4. s \in DequeType(k) /\ IsFiniteSet(Chunks(s)) /\ s.live = Cardinality(Chunks(s)) /\ s.live \in Int
  BY <1>1, MapFacts DEF Good, WellFormed
<1>5. PICK first \in Int, last \in Int : first = s.front \div k /\ last = s.back \div k
  BY <1>2, DivMod
<1>6. 0 <= first /\ first <= last /\ last < n
  <2>1. first \in Chunks(s) /\ last \in Chunks(s)
    BY <1>2, <1>5 DEF Covers
  <2>2. first \in 0 .. n - 1 /\ last \in 0 .. n - 1
    BY <1>3, <2>1 DEF Chunks
  <2>3. s.front <= s.back
    BY <1>2
  <2> QED
    BY <1>2, <1>5, <2>2, <2>3, DivMonotone
<1>7. PICK e \in Int : e = (-first) * k
  OBVIOUS
<1>8. PICK pf \in Int, pb \in Int : pf = s.front /\ pb = s.back
  BY <1>2
<1>9. PICK xf \in 0 .. k - 1 : xf = pf % k
  BY DivMod
<1>10. PICK xb \in 0 .. k - 1 : xb = pb % k
  BY DivMod
<1>11. PICK f \in Int, b \in Int : f = xf /\ b = (last - first) * k + xb
  OBVIOUS
<1>12. f = s.front % k /\ b = (last - first) * k + (s.back % k)
  BY <1>8, <1>9, <1>10, <1>11
<1>13. f = s.front + e /\ b = s.back + e
  <2>1. PICK fk \in Int, lk \in Int : fk = first * k /\ lk = last * k
    OBVIOUS
  <2>2. pf = fk + xf /\ pb = lk + xb
    BY <1>5, <1>8, <1>9, <1>10, <2>1, DivMod
  <2>3. e = -fk /\ (last - first) * k = lk - fk
    BY <1>7, <2>1
  <2> QED
    BY <1>8, <1>11, <2>2, <2>3
<1> DEFINE m == [i \in 0 .. last - first |-> s.chunkMap[first + i]]
           dropped == {c \in DOMAIN s.chunkMap \ (first .. last) : s.chunkMap[c] # Null}
<1>14. PICK live : live = s.live - Cardinality(dropped)
  OBVIOUS
<1> DEFINE wild == \E c \in dropped : s.chunkMap[c] = Wild
<1>15. t = [s EXCEPT !.chunkMap = m, !.live = live, !.front = f, !.back = b, !.astray = wild]
  <2>1. t = [s EXCEPT !.chunkMap = m, !.live = live, !.front = f, !.back = b,
                      !.astray = s.astray \/ wild]
    BY <1>1, <1>4, <1>5, <1>12, <1>14 DEF Shrunk, DequeType
  <2>2. (s.astray \/ wild) = wild
    OBVIOUS
  <2> QED
    BY <2>1, <2>2
<1>16. PICK l \in Nat \ {0} : l = last - first + 1
  BY <1>6
<1>17. DOMAIN m = 0 .. l - 1
  BY <1>6, <1>16
<1>18. ASSUME NEW i \in 0 .. l - 1 PROVE first + i \in 0 .. n - 1 /\ m[i] = s.chunkMap[first + i]
  BY <1>6, <1>16
<1>19. /\ ~wild => dropped = Chunks(s) \ (first .. last)
       /\ wild => Wilds(s) # {}
       /\ dropped \subseteq 0 .. n - 1
  BY <1>3 DEF Chunks, Wilds
<1> HIDE DEF m, dropped, wild
<1>20. m \in MapType(k, l)
  <2>1. \A i \in 0 .. l - 1 : m[i] \in ChunkType(k) \cup {Null, Wild}
    BY <1>3, <1>18 DEF MapType
  <2>2. m = [i \in 0 .. l - 1 |-> m[i]]
    BY <1>17 DEF m
  <2> QED
    BY <2>1, <2>2 DEF MapType
<1>21. PICK cardinality \in Nat : cardinality = Cardinality(dropped)
  <2>1. IsFiniteSet(0 .. n - 1)
    BY FS_Interval, n - 1 \in Int, 0 \in Int
  <2> QED
    BY <1>19, <2>1, FS_Subset, FS_CardinalityType
<1>22. /\ t \in DequeType(k) /\ t.chunkMap = m /\ t.live = live
       /\ t.front = f /\ t.back = b /\ t.size = s.size /\ t.astray = wild
  <2>1. PICK v \in DequeType(k) : v = [s EXCEPT !.chunkMap = m]
    BY <1>4, <1>20, NewMap
  <2>2. v.chunkMap = m /\ v.size = s.size
    BY <1>4, <2>1 DEF DequeType
  <2>3. PICK w : w = [v EXCEPT !.live = live]
    OBVIOUS
  <2>4. w \in DequeType(k) /\ w.chunkMap = m /\ w.size = s.size /\ w.live = live
    BY <1>4, <1>14, <1>21, <2>2, <2>3 DEF DequeType
  <2>5. PICK y : y = [[w EXCEPT !.front = f] EXCEPT !.back = b]
    OBVIOUS
  <2>6. /\ y \in DequeType(k) /\ y.chunkMap = m /\ y.size = s.size /\ y.live = live
        /\ y.front = f /\ y.back = b
    BY <2>4, <2>5 DEF DequeType
  <2>7. PICK z \in BOOLEAN : z = wild
    BY DEF wild
  <2>8. t = [y EXCEPT !.astray = z]
    BY <1>15, <2>1, <2>3, <2>5, <2>7
  <2> QED
    BY <2>6, <2>7, <2>8 DEF DequeType
<1> SUFFICES ASSUME ~wild PROVE Same(s, t)
  BY <1>1, <1>19, <1>22
<1>31. /\ live = Cardinality(Chunks(s) \cap (first .. last)) /\ live \in Int
       /\ IsFiniteSet(Chunks(s) \cap (first .. last))
  <2>1. IsFiniteSet(first .. last)
    BY FS_Interval
  <2>2. /\ IsFiniteSet(Chunks(s) \cap (first .. last))
        /\ Cardinality(dropped) =
             Cardinality(Chunks(s)) - Cardinality(Chunks(s) \cap (first .. last))
    BY <1>4, <1>19, <2>1, FS_Difference, FS_Intersection
  <2>3. Cardinality(Chunks(s) \cap (first .. last)) \in Nat
    BY <2>2, FS_CardinalityType
  <2>4. PICK x \in Int, y \in Int : x = Cardinality(Chunks(s) \cap (first .. last)) /\ y = s.live
    BY <1>4, <2>3
  <2> QED
    BY <1>4, <1>14, <2>2, <2>4
<1>23. Chunks(t) = {i \in 0 .. l - 1 : first + i \in Chunks(s)}
  BY <1>3, <1>17, <1>18, <1>22 DEF Chunks
<1>24. Cardinality(Chunks(t)) = Cardinality(Chunks(s) \cap (first .. last))
  <2> DEFINE C == Chunks(s) \cap (first .. last)
             g == [c \in C |-> c - first]
  <2>1. g \in [C -> Chunks(t)]
    <3>1. ASSUME NEW c \in C PROVE c - first \in Chunks(t)
      <4>1. c \in Int /\ first <= c /\ c <= last /\ c \in Chunks(s)
        OBVIOUS
      <4>2. c - first \in 0 .. l - 1 /\ first + (c - first) = c
        BY <1>16, <4>1
      <4> QED
        BY <1>23, <4>1, <4>2
    <3> QED
      BY <3>1
  <2>2. \A c, d \in C : g[c] = g[d] => c = d
    OBVIOUS
  <2>3. \A i \in Chunks(t) : \E c \in C : g[c] = i
    <3> SUFFICES ASSUME NEW i \in Chunks(t) PROVE \E c \in C : g[c] = i
      OBVIOUS
    <3>1. i \in 0 .. l - 1 /\ first + i \in Chunks(s)
      BY <1>23
    <3>2. first + i \in first .. last /\ (first + i) - first = i
      BY <1>16, <3>1
    <3>3. first + i \in C
      BY <3>1, <3>2
    <3> QED
      BY <3>2, <3>3
  <2>4. IsFiniteSet(C)
    BY <1>31
  <2> HIDE DEF g, C
  <2>5. g \in Bijection(C, Chunks(t))
    BY <2>1, <2>2, <2>3 DEF Bijection, Injection, Surjection, IsInjective
  <2>6. ExistsBijection(C, Chunks(t))
    BY <2>5 DEF ExistsBijection
  <2>7. Cardinality(C) = Cardinality(Chunks(t))
    BY <2>4, <2>6, FS_Bijection
  <2> QED
    BY <2>7 DEF C
<1>25. WellFormed(k, t)
  BY <1>22, <1>24, <1>31 DEF WellFormed
<1>26. ASSUME NEW q \in Int, s.front <= q, q <= s.back, Covers(k, s, q)
       PROVE  Covers(k, t, q + e) /\ Slot(k, t, q + e) = Slot(k, s, q)
  <2>1. PICK c \in Int : c = q \div k /\ first <= c /\ c <= last
    BY <1>2, <1>5, <1>26, DivMod, DivMonotone
  <2>2. PICK i \in 0 .. l - 1 : i = c - first /\ first + i = c
    BY <1>16, <2>1
  <2>3. (q + e) \div k = i /\ (q + e) % k = q % k
    <3>1. (q + (-first) * k) \div k = c + (-first) /\ (q + (-first) * k) % k = q % k
      BY <2>1, DivShift, -first \in Int
    <3>2. c + (-first) = i
      BY <2>1, <2>2
    <3> QED
      BY <1>7, <3>1, <3>2
  <2>4. i \in Chunks(t)
    BY <1>23, <1>26, <2>1, <2>2 DEF Covers
  <2> QED
    BY <1>18, <1>22, <1>26, <2>1, <2>2, <2>3, <2>4 DEF Slot, Covers
<1>27. ASSUME NEW i \in 1 .. s.size
       PROVE  /\ Slot(k, t, t.front + i - 1) = Slot(k, s, s.front + i - 1)
              /\ Slot(k, t, t.front + i - 1) \in Vals
  <2>1. PICK q \in Int : q = s.front + i - 1
    BY <1>2
  <2>2. Covers(k, s, q) /\ Slot(k, s, q) \in Vals
    BY <1>1, <2>1, ElementFacts
  <2>3. s.front <= q /\ q <= s.back
    BY <1>2, <2>1
  <2>4. t.front + i - 1 = q + e
    BY <1>2, <1>13, <1>22, <2>1
  <2> QED
    BY <1>26, <2>1, <2>2, <2>3, <2>4
<1>28. Covers(k, t, t.front) /\ Covers(k, t, t.back)
  BY <1>2, <1>13, <1>22, <1>26
<1>29. t.size \in Nat /\ t.back - t.front = IF t.size = 0 THEN 0 ELSE t.size - 1
  BY <1>2, <1>13, <1>22
<1>30. Good(k, t)
  <2>1. \A i \in 1 .. t.size : Slot(k, t, t.front + i - 1) \in Vals
    BY <1>22, <1>27
  <2> QED
    BY <1>25, <1>28, <1>29, <2>1, InOrder
<1> QED
  BY <1>1, <1>22, <1>27, <1>30 DEF Same

\* clear() of elements leaves the front behind the back.
LEMMA ClearedFacts ==
  ASSUME chunkSize \in ChunkSizes, NEW s, Good(chunkSize, s), s.size > 0, NEW t, t = Cleared(s)
  PROVE  t \in DequeType(chunkSize) /\ t.size = 0 /\ t.astray
<1>1. /\ s \in DequeType(chunkSize) /\ s.back \in Int /\ s.size # 0
      /\ s.live = Cardinality(Chunks(s))
  BY ElementFacts DEF Good, WellFormed
<1> DEFINE f == [p \in Int |-> IF p \in s.front .. s.back THEN Vacant ELSE At(s, p)]
<1>2. PICK k \in Nat \ {0} : k = chunkSize
  BY ChunkSizeType
<1>3. f \in [Int -> Vals \cup {Vacant}]
  BY <1>1, <1>2, Seen, SlotType
<1>4. Rewritten(s, LAMBDA p : IF p \in s.front .. s.back THEN Vacant ELSE At(s, p)) = Filled(s, f)
  <2>1. \A c \in DOMAIN s.chunkMap, o \in 0 .. chunkSize - 1 : c * chunkSize + o \in Int
    <3>1. DOMAIN s.chunkMap = 0 .. NChunks(s) - 1 /\ NChunks(s) \in Int
      BY <1>1, MapFacts
    <3>2. \A c \in 0 .. NChunks(s) - 1 : \A o \in 0 .. k - 1 : c * k + o \in Int
      BY <3>1
    <3> QED
      BY <1>2, <3>1, <3>2
  <2> QED
    BY <2>1 DEF Rewritten, Filled
<1> HIDE DEF f
<1>5. PICK v : v = Filled(s, f)
  OBVIOUS
<1>6. WellFormed(chunkSize, v)
  <2>1. SameShape(s, v)
    BY <1>1, <1>3, <1>5, FilledFacts
  <2> QED
    BY <1>1, <2>1 DEF SameShape, WellFormed
<1>7. PICK b \in Int : b = s.back + 1
  BY <1>1
<1>8. PICK a : a = Reached(v, b)
  OBVIOUS
<1>9. WellFormed(chunkSize, a)
  BY <1>6, <1>8, ReachedFacts DEF Extends
<1>10. t = [a EXCEPT !.front = b, !.size = 0, !.astray = TRUE]
  BY <1>1, <1>4, <1>5, <1>7, <1>8 DEF Cleared
<1>11. PICK u : u = [a EXCEPT !.front = b]
  OBVIOUS
<1>12. WellFormed(chunkSize, u)
  BY <1>9, <1>11, FrontSet DEF SameChunks
<1>13. PICK w : w = [u EXCEPT !.size = 0]
  OBVIOUS
<1>14. WellFormed(chunkSize, w) /\ w.size = 0
  BY <1>12, <1>13, SizeSet DEF SameChunks
<1>15. t = [w EXCEPT !.astray = TRUE]
  BY <1>10, <1>11, <1>13
<1>16. SameShape(w, t) /\ t.astray
  BY <1>14, <1>15, Strayed DEF WellFormed
<1> QED
  BY <1>14, <1>16 DEF SameShape

\* insert(), at the first element or behind it; end() is out of its range.
LEMMA InsertedFacts ==
  ASSUME chunkSize \in ChunkSizes, NEW s, Good(chunkSize, s), ~s.astray, NEW x \in Vals,
         NEW loc \in s.front .. s.back, NEW past \in Behind, NEW t, t = Inserted(s, loc, x, past)
  PROVE  /\ t \in DequeType(chunkSize) /\ t.size = s.size + 1
         /\ t.astray => Wilds(t) # {} \/ Tight(s)
         /\ ~t.astray => InsertedAt(s, t, loc - s.front + 1, x)
<1>1. s.front \in Int /\ s.back \in Int
  BY ElementFacts
<1>2. PICK j \in Int : j = loc - s.front + 1
  BY <1>1
<1>3. CASE loc = s.front
  <2>1. t = PushedFront(s, x, past)
    BY <1>3 DEF Inserted
  <2>2. j = 1
    BY <1>1, <1>2, <1>3
  <2> QED
    BY <1>2, <2>1, <2>2, PushedFrontFacts
<1>4. CASE loc # s.front
  <2>1. t = InsertedBetween(s, loc, x, past)
    BY <1>4 DEF Inserted
  <2>2. loc \in s.front + 1 .. s.back
    BY <1>1, <1>4
  <2> QED
    BY <1>2, <2>1, <2>2, InsertedBetweenFacts
<1> QED
  BY <1>3, <1>4

LEMMA InsertedAtEnd ==
  ASSUME chunkSize \in ChunkSizes, NEW s, Good(chunkSize, s), NEW x, NEW past
  PROVE  Inserted(s, s.back + 1, x, past) = s
<1>1. s.back + 1 \notin s.front .. s.back
  BY ElementFacts
<1> QED
  BY <1>1 DEF Inserted

\* erase(): the last element takes the deque astray, and no other.
LEMMA ErasedFacts ==
  ASSUME chunkSize \in ChunkSizes, NEW s, Good(chunkSize, s), ~s.astray, s.size > 0,
         NEW loc \in s.front .. s.back, NEW t, t = Erased(s, loc)
  PROVE  /\ s.size = 1 => loc = s.front /\ t \in DequeType(chunkSize) /\ t.size = 0 /\ t.astray
         /\ s.size # 1 => ~t.astray /\ RemovedAt(s, t, loc - s.front + 1)
<1>1. s.front \in Int /\ s.back \in Int /\ s.size \in Nat /\ s.back = s.front + s.size - 1
  BY ElementFacts
<1>2. PICK j \in Int : j = loc - s.front + 1
  BY <1>1
<1>3. CASE s.size = 1
  <2>1. loc = s.front
    BY <1>1, <1>3
  <2>2. t = ErasedFront(s)
    BY <2>1 DEF Erased
  <2> QED
    BY <1>3, <2>1, <2>2, ErasedLast
<1>4. CASE s.size # 1
  <2>1. s.size > 1
    BY <1>1, <1>4
  <2>2. CASE loc = s.front
    <3>1. t = PoppedFront(s)
      BY <2>1, <2>2, ErasedEnds DEF Erased
    <3>2. j = 1
      BY <1>1, <1>2, <2>2
    <3> QED
      BY <1>2, <1>4, <3>1, <3>2, PoppedFrontFacts
  <2>3. CASE loc = s.back
    <3>1. loc # s.front
      BY <1>1, <2>1, <2>3
    <3>2. t = PoppedBack(s)
      BY <2>1, <2>3, <3>1, ErasedEnds DEF Erased
    <3>3. j = s.size
      BY <1>1, <1>2, <2>3
    <3> QED
      BY <1>2, <1>4, <3>2, <3>3, PoppedBackFacts
  <2>4. CASE loc # s.front /\ loc # s.back
    <3>1. t = ErasedBetween(s, loc)
      BY <2>4 DEF Erased
    <3>2. loc \in s.front + 1 .. s.back - 1
      BY <1>1, <2>4
    <3> QED
      BY <1>2, <1>4, <3>1, <3>2, ErasedBetweenFacts
  <2> QED
    BY <2>2, <2>3, <2>4
<1> QED
  BY <1>3, <1>4

-----------------------------------------------------------------------------
(* The invariant, and the effect of each call.                             *)

LEMMA WildSeen == \A s : HasWild(s) <=> Wilds(s) # {}
BY DEF HasWild, Wilds

LEMMA BecomesFacts ==
  ASSUME IInv, NEW t, Becomes(t)
  PROVE  /\ deque' = t /\ chunkSize' = chunkSize /\ ~deque.astray
         /\ chunkSize \in ChunkSizes /\ Good(chunkSize, deque) /\ deque.size \in Nat
         /\ deque.front \in Int /\ deque.back \in Int
         /\ t \in DequeType(chunkSize) /\ t.size \in Nat /\ (~t.astray => Good(chunkSize, t)) => IInv'
<1>1. /\ deque' = t /\ chunkSize' = chunkSize /\ ~deque.astray
      /\ chunkSize \in ChunkSizes /\ Good(chunkSize, deque) /\ deque \in DequeType(chunkSize)
      /\ NChunks(t) <= MaxChunks /\ t.size <= MaxSize
  BY DEF Becomes, IInv
<1> QED
  BY <1>1, ElementFacts DEF IInv

\* A call inserts x as the j-th element, unless it goes astray.
Inserts(j, x) ==
  /\ deque'.size = deque.size + 1
  /\ deque'.astray => HasWild(deque') \/ Tight(deque)
  /\ ~deque'.astray => InsertedAt(deque, deque', j, x)

\* A call removes the j-th element.
Removes(j) == ~deque'.astray /\ RemovedAt(deque, deque', j)

LEMMA InsertsFacts ==
  ASSUME IInv, NEW t, Becomes(t), NEW j, NEW x,
         t \in DequeType(chunkSize), t.size = deque.size + 1,
         t.astray => Wilds(t) # {} \/ Tight(deque),
         ~t.astray => InsertedAt(deque, t, j, x)
  PROVE  IInv' /\ Inserts(j, x)
<1>1. t.size \in Nat /\ (~t.astray => Good(chunkSize, t))
  BY BecomesFacts DEF InsertedAt
<1> QED
  BY <1>1, BecomesFacts, WildSeen DEF Inserts

LEMMA RemovesFacts ==
  ASSUME IInv, NEW t, Becomes(t), NEW j, ~t.astray, RemovedAt(deque, t, j)
  PROVE  IInv' /\ Removes(j)
<1>1. Good(chunkSize, t) /\ t \in DequeType(chunkSize) /\ t.size \in Nat
  BY DEF RemovedAt, Good, WellFormed, Ends
<1> QED
  BY <1>1, BecomesFacts DEF Removes

LEMMA PushFrontEffect ==
  ASSUME IInv, NEW x \in Vals, PushFront(x)
  PROVE  IInv' /\ Inserts(1, x)
<1>1. PICK past \in Behind : Becomes(PushedFront(deque, x, past))
  BY DEF PushFront
<1>2. PICK t : t = PushedFront(deque, x, past)
  OBVIOUS
<1> QED
  BY <1>1, <1>2, BecomesFacts, PushedFrontFacts, InsertsFacts

LEMMA PushBackEffect ==
  ASSUME IInv, NEW x \in Vals, PushBack(x)
  PROVE  IInv' /\ Inserts(deque.size + 1, x)
<1>1. PICK past \in Behind : Becomes(PushedBack(deque, x, past))
  BY DEF PushBack
<1>2. PICK t : t = PushedBack(deque, x, past)
  OBVIOUS
<1> QED
  BY <1>1, <1>2, BecomesFacts, PushedBackFacts, InsertsFacts

LEMMA InsertEffect ==
  ASSUME IInv, NEW loc \in deque.front .. deque.back, NEW x \in Vals, Insert(loc, x)
  PROVE  IInv' /\ Inserts(loc - deque.front + 1, x)
<1>1. PICK past \in Behind : Becomes(Inserted(deque, loc, x, past))
  BY DEF Insert
<1>2. PICK t : t = Inserted(deque, loc, x, past)
  OBVIOUS
<1> QED
  BY <1>1, <1>2, BecomesFacts, InsertedFacts, InsertsFacts

LEMMA InsertEndEffect ==
  ASSUME IInv, NEW x \in Vals, Insert(deque.back + 1, x)
  PROVE  IInv' /\ UNCHANGED <<deque, chunkSize>>
<1>1. PICK past \in Behind : Becomes(Inserted(deque, deque.back + 1, x, past))
  BY DEF Insert
<1>2. Becomes(deque)
  BY <1>1, BecomesFacts, InsertedAtEnd
<1> QED
  BY <1>2, BecomesFacts DEF IInv

LEMMA PopFrontEffect ==
  ASSUME IInv, PopFront
  PROVE  IInv' /\ deque.size > 0 /\ Removes(1)
<1>1. PICK t : t = PoppedFront(deque)
  OBVIOUS
<1>2. deque.size > 0 /\ Becomes(t)
  BY <1>1 DEF PopFront
<1> QED
  BY <1>1, <1>2, BecomesFacts, PoppedFrontFacts, RemovesFacts

LEMMA PopBackEffect ==
  ASSUME IInv, PopBack
  PROVE  IInv' /\ deque.size > 0 /\ Removes(deque.size)
<1>1. PICK t : t = PoppedBack(deque)
  OBVIOUS
<1>2. deque.size > 0 /\ Becomes(t)
  BY <1>1 DEF PopBack
<1> QED
  BY <1>1, <1>2, BecomesFacts, PoppedBackFacts, RemovesFacts

LEMMA EraseEffect ==
  ASSUME IInv, NEW loc \in deque.front .. deque.back, Erase(loc)
  PROVE  /\ IInv' /\ deque.size > 0
         /\ deque.size = 1 => loc = deque.front /\ deque'.astray
         /\ deque.size # 1 => Removes(loc - deque.front + 1)
<1>1. PICK t : t = Erased(deque, loc)
  OBVIOUS
<1>2. deque.size > 0 /\ Becomes(t)
  BY <1>1 DEF Erase
<1>3. /\ deque.size = 1 => /\ loc = deque.front /\ t \in DequeType(chunkSize)
                           /\ t.size = 0 /\ t.astray
      /\ deque.size # 1 => ~t.astray /\ RemovedAt(deque, t, loc - deque.front + 1)
  BY <1>1, <1>2, BecomesFacts, ErasedFacts
<1>4. CASE deque.size = 1
  BY <1>2, <1>3, <1>4, BecomesFacts
<1>5. CASE deque.size # 1
  BY <1>2, <1>3, <1>5, RemovesFacts
<1> QED
  BY <1>4, <1>5

LEMMA EraseEndEffect ==
  ASSUME IInv, Erase(deque.back + 1)
  PROVE  IInv' /\ UNCHANGED <<deque, chunkSize>>
<1>1. Becomes(Erased(deque, deque.back + 1))
  BY DEF Erase
<1>2. deque.back + 1 \notin deque.front .. deque.back
  BY <1>1, BecomesFacts
<1>3. Becomes(deque)
  BY <1>1, <1>2 DEF Erased
<1> QED
  BY <1>3, BecomesFacts DEF IInv

LEMMA ClearEffect ==
  ASSUME IInv, Clear
  PROVE  /\ IInv' /\ chunkSize' = chunkSize
         /\ IF deque.size > 0 THEN deque'.astray ELSE deque' = deque /\ ~deque.astray
<1>1. PICK t : t = Cleared(deque)
  OBVIOUS
<1>2. Becomes(t)
  BY <1>1 DEF Clear
<1>3. CASE deque.size > 0
  <2>1. t \in DequeType(chunkSize) /\ t.size = 0 /\ t.astray
    BY <1>1, <1>2, <1>3, BecomesFacts, ClearedFacts
  <2> QED
    BY <1>2, <1>3, <2>1, BecomesFacts
<1>4. CASE ~(deque.size > 0)
  <2>1. deque.size = 0
    BY <1>2, <1>4, BecomesFacts
  <2>2. t = deque
    BY <1>1, <2>1 DEF Cleared
  <2>3. deque' = deque /\ chunkSize' = chunkSize /\ ~deque.astray
    BY <1>2, <2>2, BecomesFacts
  <2> QED
    BY <1>4, <2>3 DEF IInv
<1> QED
  BY <1>3, <1>4

LEMMA ShrinkEffect ==
  ASSUME IInv, ShrinkToFit
  PROVE  /\ IInv' /\ chunkSize' = chunkSize
         /\ deque'.astray => HasWild(deque)
         /\ ~deque'.astray => Same(deque, deque')
<1>1. PICK t : t = Shrunk(deque)
  OBVIOUS
<1>2. Becomes(t)
  BY <1>1 DEF ShrinkToFit
<1>3. /\ t \in DequeType(chunkSize) /\ t.size = deque.size
      /\ t.astray => Wilds(deque) # {}
      /\ ~t.astray => Same(deque, t)
  BY <1>1, <1>2, BecomesFacts, ShrunkFacts
<1>4. t.size \in Nat /\ (~t.astray => Good(chunkSize, t))
  BY <1>2, <1>3, BecomesFacts DEF Same
<1> QED
  BY <1>2, <1>3, <1>4, BecomesFacts, WildSeen

LEMMA InitialInvariant == Init => IInv
<1> SUFFICES ASSUME Init PROVE IInv
  OBVIOUS
<1>1. chunkSize \in ChunkSizes
  BY DEF Init
<1>2. PICK k \in Nat \ {0} : k = chunkSize
  BY <1>1, ChunkSizeType
<1>3. PICK h \in Nat : h = k \div 2
  OBVIOUS
<1> DEFINE chunk == [o \in 0 .. k - 1 |-> Vacant]
           m == [c \in {0} |-> chunk]
<1>4. deque = [chunkMap |-> m, front |-> h, back |-> h, size |-> 0, live |-> 1, astray |-> FALSE]
  BY <1>2, <1>3 DEF Init
<1>5. chunk \in ChunkType(k) /\ chunk \notin {Null, Wild}
  BY <1>1, <1>2, DequeAssumption DEF ChunkType
<1> HIDE DEF chunk
<1>6. m \in MapType(k, 1) /\ DOMAIN m = {0} /\ m[0] = chunk
  <2>1. 0 .. 1 - 1 = {0}
    OBVIOUS
  <2> QED
    BY <1>5, <2>1 DEF MapType
<1> HIDE DEF m
<1>7. /\ deque \in DequeType(k) /\ deque.chunkMap = m /\ deque.front = h /\ deque.back = h
      /\ deque.size = 0 /\ deque.live = 1
  <2>1. m \in UNION {MapType(k, n) : n \in Nat \ {0}}
    BY <1>6, 1 \in Nat \ {0}
  <2> QED
    BY <1>4, <2>1 DEF DequeType
<1>8. Chunks(deque) = {0}
  BY <1>5, <1>6, <1>7 DEF Chunks
<1>9. WellFormed(k, deque)
  BY <1>7, <1>8, FS_Singleton DEF WellFormed
<1>10. Covers(k, deque, h)
  <2>1. 0 <= h /\ h < 1 * k
    BY <1>3
  <2>2. h \div k \in 0 .. 1 - 1
    BY <2>1, DivRange, 1 \in Int, h \in Int
  <2>3. h \div k = 0
    BY <2>2
  <2> QED
    BY <1>8, <2>3 DEF Covers
<1>11. Good(k, deque)
  BY <1>7, <1>9, <1>10 DEF Good, Ends
<1>12. NChunks(deque) = 1
  BY <1>6, <1>7, MapLength, 1 \in Nat
<1> QED
  BY <1>1, <1>2, <1>7, <1>11, <1>12, DequeAssumption DEF IInv

LEMMA NextInvariant ==
  ASSUME IInv, [Next]_vars
  PROVE  IInv'
<1>1. deque.front \in Int /\ deque.back \in Int
  BY MapFacts DEF IInv
<1>2. ASSUME NEW x \in Vals, PushFront(x) PROVE IInv'
  BY <1>2, PushFrontEffect
<1>3. ASSUME NEW x \in Vals, PushBack(x) PROVE IInv'
  BY <1>3, PushBackEffect
<1>4. ASSUME NEW x \in Vals, NEW loc \in Locs, Insert(loc, x) PROVE IInv'
  <2>1. loc \in deque.front .. deque.back \/ loc = deque.back + 1
    BY <1>1 DEF Locs
  <2> QED
    BY <1>4, <2>1, InsertEffect, InsertEndEffect
<1>5. ASSUME NEW loc \in Locs, Erase(loc) PROVE IInv'
  <2>1. loc \in deque.front .. deque.back \/ loc = deque.back + 1
    BY <1>1 DEF Locs
  <2> QED
    BY <1>5, <2>1, EraseEffect, EraseEndEffect
<1>6. CASE PopFront
  BY <1>6, PopFrontEffect
<1>7. CASE PopBack
  BY <1>7, PopBackEffect
<1>8. CASE Clear
  BY <1>8, ClearEffect
<1>9. CASE ShrinkToFit
  BY <1>9, ShrinkEffect
<1>10. CASE UNCHANGED vars
  BY <1>10 DEF IInv, vars
<1> QED
  BY <1>2, <1>3, <1>4, <1>5, <1>6, <1>7, <1>8, <1>9, <1>10 DEF Next, Lost

\* Whatever is read behind a chunk map: the deque stays within its type, and
\* unless it is astray the ends are where the size says, the chunks between them
\* are allocated and hold elements, and the count of the chunks is right.
THEOREM DequeInductiveInvariant == Spec => []IInv
<1>1. IInv /\ [Next]_vars => IInv'
  BY NextInvariant
<1> QED
  BY <1>1, InitialInvariant, PTL DEF Spec

LEMMA InvariantImpliesTypeOK == IInv => TypeOK
<1> SUFFICES ASSUME IInv PROVE TypeOK
  OBVIOUS
<1>1. /\ chunkSize \in ChunkSizes /\ deque \in DequeType(chunkSize) /\ deque.size \in Nat
      /\ NChunks(deque) <= MaxChunks /\ deque.size <= MaxSize
  BY DEF IInv
<1>2. /\ NChunks(deque) \in Nat \ {0} /\ DOMAIN deque.chunkMap = 0 .. NChunks(deque) - 1
      /\ deque.chunkMap \in MapType(chunkSize, NChunks(deque))
      /\ deque.front \in Int /\ deque.back \in Int /\ deque.live \in Int
      /\ deque.astray \in BOOLEAN
  BY <1>1, MapFacts
<1>3. NChunks(deque) \in 1 .. MaxChunks /\ deque.size \in 0 .. MaxSize
  BY <1>1, <1>2, DequeAssumption
<1>4. \A c \in DOMAIN deque.chunkMap :
        deque.chunkMap[c] \in [0 .. chunkSize - 1 -> Vals \cup {Vacant}] \cup {Null, Wild}
  BY <1>2 DEF MapType, ChunkType
<1> QED
  BY <1>1, <1>2, <1>3, <1>4 DEF TypeOK

\* Astray or not, every entry of the chunk map is a chunk of chunkSize slots, null
\* or wild, and the map and the size stay within their bounds.
THEOREM DequeTypeCorrect == Spec => []TypeOK
<1> QED
  BY InvariantImpliesTypeOK, DequeInductiveInvariant, PTL

LEMMA InvariantImpliesInPlace == IInv => ElementsInPlace
<1> SUFFICES ASSUME IInv, ~deque.astray PROVE ElementsInPlace
  BY DEF ElementsInPlace
<1>1. Ends(chunkSize, deque) /\ deque.live = Cardinality(Chunks(deque))
  BY DEF IInv, Good, WellFormed
<1>2. /\ \A c : IsChunk(deque, c) <=> c \in Chunks(deque)
      /\ \A p : InChunk(deque, p) <=> Covers(chunkSize, deque, p)
      /\ \A p : At(deque, p) = Slot(chunkSize, deque, p)
  BY Seen
<1>3. {c \in DOMAIN deque.chunkMap : IsChunk(deque, c)} = Chunks(deque)
  BY <1>2 DEF Chunks
<1> QED
  BY <1>1, <1>2, <1>3 DEF ElementsInPlace, Ends

\* Unless the deque is astray, between calls every element is in a chunk that is
\* allocated, the ends are as far apart as the size says, and no chunk is lost.
THEOREM ElementsStayInPlace == Spec => []ElementsInPlace
<1> QED
  BY InvariantImpliesInPlace, DequeInductiveInvariant, PTL

LEMMA InvariantImpliesIterators == IInv => IteratorsAgree
<1> SUFFICES ASSUME IInv,
                    NEW p \in deque.front .. deque.back + 1,
                    NEW q \in deque.front .. deque.back + 1
             PROVE  /\ Plus(Iterator(p), q - p) = Iterator(q)
                    /\ Difference(Iterator(q), Iterator(p)) = q - p
                    /\ Less(Iterator(p), Iterator(q)) <=> p < q
                    /\ Increment(Iterator(p)) = Iterator(p + 1)
                    /\ Decrement(Iterator(p + 1)) = Iterator(p)
                    /\ Index(p - deque.front) = Iterator(p)
  BY Zenon DEF IteratorsAgree
<1>1. chunkSize \in Nat \ {0} /\ deque.front \in Int /\ deque.back \in Int
  BY ChunkSizeType, MapFacts DEF IInv
<1>2. p \in Int /\ q \in Int
  BY <1>1
<1>3. Index(p - deque.front) = Iterator(p)
  <2>1. PICK i \in Int : i = p - deque.front
    BY <1>1, <1>2
  <2>2. Index(i) = Iterator(deque.front + i)
    BY <1>1, IndexAt
  <2>3. deque.front + i = p
    BY <1>1, <1>2, <2>1
  <2> QED
    BY <2>1, <2>2, <2>3
<1> QED
  BY <1>1, <1>2, <1>3, IteratorPlus, IteratorOrder, IteratorStep

\* Whatever the chunk length, and also when the deque is astray, iterators go by
\* the distance of elements.
THEOREM IteratorsAlwaysAgree == Spec => []IteratorsAgree
<1> QED
  BY InvariantImpliesIterators, DequeInductiveInvariant, PTL

-----------------------------------------------------------------------------
(* Sequences.                                                              *)

LEMMA SingletonSeq ==
  ASSUME NEW S, NEW x \in S
  PROVE  <<x>> \in Seq(S) /\ Len(<<x>>) = 1 /\ <<x>>[1] = x
OBVIOUS

LEMMA PrefixSeq ==
  ASSUME NEW S, NEW s \in Seq(S), NEW m \in Int, NEW n \in Int, 1 <= m, m <= n + 1, n <= Len(s)
  PROVE  /\ SubSeq(s, m, n) \in Seq(S) /\ Len(SubSeq(s, m, n)) = n - m + 1
         /\ \A i \in 1 .. n - m + 1 : SubSeq(s, m, n)[i] = s[m + i - 1]
<1>1. Len(s) \in Nat /\ \A i \in 1 .. Len(s) : s[i] \in S
  BY LenProperties
<1>2. \A i \in m .. n : s[i] \in S
  BY <1>1
<1>3. /\ SubSeq(s, m, n) \in Seq(S)
      /\ Len(SubSeq(s, m, n)) = IF m <= n THEN n - m + 1 ELSE 0
      /\ \A i \in 1 .. n - m + 1 : SubSeq(s, m, n)[i] = s[m + i - 1]
  BY <1>2, SubSeqProperties
<1> QED
  BY <1>3

\* s with x in front of its k-th element; this is what the operator of the
\* community modules computes that the abstract specification uses.
Longer(s, k, x) ==
  [i \in 1 .. Len(s) + 1 |-> IF i < k THEN s[i] ELSE IF i = k THEN x ELSE s[i - 1]]

LEMMA InsertAtSeq ==
  ASSUME NEW S, NEW s \in Seq(S), NEW k \in 1 .. Len(s) + 1, NEW x \in S
  PROVE  SubSeq(s, 1, k - 1) \o <<x>> \o SubSeq(s, k, Len(s)) = Longer(s, k, x)
<1> DEFINE a == SubSeq(s, 1, k - 1)
           m == <<x>>
           c == SubSeq(s, k, Len(s))
<1>1. Len(s) \in Nat
  BY LenProperties
<1>2. a \in Seq(S) /\ Len(a) = k - 1 /\ \A i \in 1 .. k - 1 : a[i] = s[i]
  <2>1. \A i \in 1 .. k - 1 : 1 + i - 1 = i
    OBVIOUS
  <2>2. (k - 1) - 1 + 1 = k - 1
    OBVIOUS
  <2>3. 1 <= 1 /\ 1 <= (k - 1) + 1 /\ k - 1 <= Len(s) /\ k - 1 \in Int /\ 1 \in Int
    BY <1>1
  <2>4. /\ a \in Seq(S) /\ Len(a) = (k - 1) - 1 + 1
        /\ \A i \in 1 .. (k - 1) - 1 + 1 : a[i] = s[1 + i - 1]
    BY <2>3, PrefixSeq
  <2> HIDE DEF a
  <2> QED
    BY <2>1, <2>2, <2>4
<1>3. /\ c \in Seq(S) /\ Len(c) = Len(s) - k + 1
      /\ \A i \in 1 .. Len(s) - k + 1 : c[i] = s[k + i - 1]
  BY <1>1, PrefixSeq
<1>4. m \in Seq(S) /\ Len(m) = 1 /\ m[1] = x
  BY SingletonSeq
<1> HIDE DEF a, m, c
<1> DEFINE am == a \o m
<1>5. /\ am \in Seq(S) /\ Len(am) = k
      /\ \A i \in 1 .. k : am[i] = IF i < k THEN s[i] ELSE x
  <2>1. /\ am \in Seq(S) /\ Len(am) = Len(a) + Len(m)
        /\ \A i \in 1 .. Len(a) + Len(m) : am[i] = IF i <= Len(a) THEN a[i] ELSE m[i - Len(a)]
    BY <1>2, <1>4, ConcatProperties
  <2>2. Len(a) + Len(m) = k
    BY <1>2, <1>4
  <2>3. \A i \in 1 .. k : i <= Len(a) <=> i < k
    BY <1>2
  <2>4. \A i \in 1 .. k : ~(i < k) => i - Len(a) = 1
    BY <1>2
  <2> HIDE DEF am
  <2> QED
    BY <1>2, <1>4, <2>1, <2>2, <2>3, <2>4
<1> HIDE DEF am
<1> DEFINE t == am \o c
<1>6. /\ t \in Seq(S) /\ Len(t) = Len(am) + Len(c)
      /\ \A i \in 1 .. Len(am) + Len(c) : t[i] = IF i <= Len(am) THEN am[i] ELSE c[i - Len(am)]
  BY <1>3, <1>5, ConcatProperties
<1> HIDE DEF t
<1>7. Len(am) + Len(c) = Len(s) + 1
  BY <1>1, <1>3, <1>5
<1>8. ASSUME NEW i \in 1 .. Len(s) + 1
      PROVE  t[i] = IF i < k THEN s[i] ELSE IF i = k THEN x ELSE s[i - 1]
  <2>1. CASE i <= k
    BY <1>1, <1>5, <1>6, <1>7, <2>1
  <2>2. CASE i > k
    <3>1. t[i] = c[i - k] /\ i - k \in 1 .. Len(s) - k + 1 /\ k + (i - k) - 1 = i - 1
      BY <1>1, <1>5, <1>6, <1>7, <2>2
    <3> QED
      BY <1>3, <2>2, <3>1
  <2> QED
    BY <1>1, <2>1, <2>2
<1>9. t = Longer(s, k, x)
  <2>1. DOMAIN t = 1 .. Len(s) + 1 /\ t = [i \in DOMAIN t |-> t[i]]
    BY <1>1, <1>6, <1>7, LenProperties
  <2> QED
    BY <1>8, <2>1 DEF Longer
<1> QED
  BY <1>9 DEF t, am, a, m, c

LEMMA RemoveAtSeq ==
  ASSUME NEW S, NEW s \in Seq(S), NEW k \in 1 .. Len(s)
  PROVE  LET t == SubSeq(s, 1, k - 1) \o SubSeq(s, k + 1, Len(s)) IN
         /\ t \in Seq(S) /\ Len(t) = Len(s) - 1
         /\ \A i \in 1 .. Len(s) - 1 : t[i] = IF i < k THEN s[i] ELSE s[i + 1]
<1> DEFINE a == SubSeq(s, 1, k - 1)
           c == SubSeq(s, k + 1, Len(s))
<1>1. Len(s) \in Nat
  BY LenProperties
<1>2. a \in Seq(S) /\ Len(a) = k - 1 /\ \A i \in 1 .. k - 1 : a[i] = s[i]
  <2>1. \A i \in 1 .. k - 1 : 1 + i - 1 = i
    OBVIOUS
  <2>2. (k - 1) - 1 + 1 = k - 1
    OBVIOUS
  <2>3. 1 <= 1 /\ 1 <= (k - 1) + 1 /\ k - 1 <= Len(s) /\ k - 1 \in Int /\ 1 \in Int
    BY <1>1
  <2>4. /\ a \in Seq(S) /\ Len(a) = (k - 1) - 1 + 1
        /\ \A i \in 1 .. (k - 1) - 1 + 1 : a[i] = s[1 + i - 1]
    BY <2>3, PrefixSeq
  <2> HIDE DEF a
  <2> QED
    BY <2>1, <2>2, <2>4
<1>3. /\ c \in Seq(S) /\ Len(c) = Len(s) - (k + 1) + 1
      /\ \A i \in 1 .. Len(s) - (k + 1) + 1 : c[i] = s[(k + 1) + i - 1]
  <2>1. 1 <= k + 1 /\ k + 1 <= Len(s) + 1 /\ Len(s) <= Len(s) /\ k + 1 \in Int /\ Len(s) \in Int
    BY <1>1
  <2> QED
    BY <2>1, PrefixSeq
<1> HIDE DEF a, c
<1> DEFINE t == a \o c
<1>4. /\ t \in Seq(S) /\ Len(t) = Len(a) + Len(c)
      /\ \A i \in 1 .. Len(a) + Len(c) : t[i] = IF i <= Len(a) THEN a[i] ELSE c[i - Len(a)]
  BY <1>2, <1>3, ConcatProperties
<1> HIDE DEF t
<1>5. Len(a) + Len(c) = Len(s) - 1
  BY <1>1, <1>2, <1>3
<1>6. ASSUME NEW i \in 1 .. Len(s) - 1
      PROVE  t[i] = IF i < k THEN s[i] ELSE s[i + 1]
  <2>1. CASE i < k
    BY <1>1, <1>2, <1>4, <1>5, <2>1
  <2>2. CASE i >= k
    <3>1. PICK j \in 1 .. Len(s) - (k + 1) + 1 :
            j = i - (k - 1) /\ (k + 1) + j - 1 = i + 1 /\ ~(i <= k - 1) /\ ~(i < k)
      BY <1>1, <2>2
    <3>2. t[i] = c[j]
      BY <1>2, <1>4, <1>5, <3>1
    <3>3. c[j] = s[(k + 1) + j - 1]
      BY <1>3, Zenon
    <3> QED
      BY <3>1, <3>2, <3>3, Zenon
  <2> QED
    BY <2>1, <2>2
<1> QED
  BY <1>4, <1>5, <1>6 DEF t, a, c

-----------------------------------------------------------------------------
(* The contents as a sequence.                                             *)

View(k, s) == [i \in 1 .. s.size |-> Slot(k, s, s.front + i - 1)]

LEMMA ViewSeq ==
  ASSUME chunkSize \in ChunkSizes, NEW s, Good(chunkSize, s)
  PROVE  /\ View(chunkSize, s) \in Seq(Vals) /\ Len(View(chunkSize, s)) = s.size
         /\ \A i \in 1 .. s.size : View(chunkSize, s)[i] = Slot(chunkSize, s, s.front + i - 1)
<1>1. s.size \in Nat /\ \A i \in 1 .. s.size : Slot(chunkSize, s, s.front + i - 1) \in Vals
  BY ElementFacts
<1>2. View(chunkSize, s) \in [1 .. s.size -> Vals]
  BY <1>1 DEF View
<1>3. View(chunkSize, s) \in Seq(Vals)
  BY <1>1, <1>2, SeqDef
<1>4. Len(View(chunkSize, s)) = s.size
  BY <1>1, <1>2, <1>3, LenProperties
<1> QED
  BY <1>3, <1>4 DEF View

ContentsOK == Contents = View(chunkSize, deque)

LEMMA ContentsView == ContentsOK
BY Seen DEF ContentsOK, Contents, View

Insertion(s, j, x) == SubSeq(s, 1, j - 1) \o <<x>> \o SubSeq(s, j, Len(s))

Removal(s, j) == SubSeq(s, 1, j - 1) \o SubSeq(s, j + 1, Len(s))

LEMMA InsertedView ==
  ASSUME chunkSize \in ChunkSizes, NEW s, Good(chunkSize, s), NEW j \in 1 .. s.size + 1,
         NEW x \in Vals, NEW t, InsertedAt(s, t, j, x)
  PROVE  View(chunkSize, t) = Insertion(View(chunkSize, s), j, x)
<1>1. PICK v \in Seq(Vals) : v = View(chunkSize, s)
  BY ViewSeq
<1>2. PICK n \in Nat : n = s.size
  BY ElementFacts
<1>3. Len(v) = n /\ \A i \in 1 .. n : v[i] = Slot(chunkSize, s, s.front + i - 1)
  BY <1>1, <1>2, ViewSeq
<1>4. Good(chunkSize, t) /\ t.size = n + 1
  BY <1>2 DEF InsertedAt
<1>5. PICK w \in Seq(Vals) : w = View(chunkSize, t)
  BY <1>4, ViewSeq
<1>6. Len(w) = n + 1 /\ \A i \in 1 .. n + 1 : w[i] = Slot(chunkSize, t, t.front + i - 1)
  BY <1>4, <1>5, ViewSeq
<1>7. ASSUME NEW i \in 1 .. n + 1
      PROVE  w[i] = IF i < j THEN v[i] ELSE IF i = j THEN x ELSE v[i - 1]
  <2>1. w[i] = IF i < j THEN Slot(chunkSize, s, s.front + i - 1)
               ELSE IF i = j THEN x ELSE Slot(chunkSize, s, s.front + i - 2)
    BY <1>4, <1>6 DEF InsertedAt
  <2>2. CASE i < j
    <3>1. i \in 1 .. n
      BY <1>2, <2>2
    <3> QED
      BY <1>3, <2>1, <2>2, <3>1
  <2>3. CASE i = j
    BY <2>1, <2>3
  <2>4. CASE ~(i < j) /\ i # j
    <3>1. PICK h \in 1 .. n : h = i - 1
      BY <1>2, <2>4
    <3>2. s.front + i - 2 = s.front + h - 1
      BY <3>1, ElementFacts
    <3> QED
      BY <1>3, <2>1, <2>4, <3>1, <3>2
  <2> QED
    BY <2>2, <2>3, <2>4
<1>8. w = Longer(v, j, x)
  <2>1. DOMAIN w = 1 .. n + 1 /\ w = [i \in DOMAIN w |-> w[i]]
    BY <1>6, LenProperties
  <2> QED
    BY <1>3, <1>7, <2>1 DEF Longer
<1>9. j \in 1 .. Len(v) + 1
  BY <1>2, <1>3
<1>10. Insertion(v, j, x) = Longer(v, j, x)
  BY <1>9, InsertAtSeq DEF Insertion
<1> QED
  BY <1>1, <1>5, <1>8, <1>10

LEMMA RemovedView ==
  ASSUME chunkSize \in ChunkSizes, NEW s, Good(chunkSize, s), NEW j \in 1 .. s.size,
         NEW t, RemovedAt(s, t, j)
  PROVE  View(chunkSize, t) = Removal(View(chunkSize, s), j)
<1>1. PICK v \in Seq(Vals) : v = View(chunkSize, s)
  BY ViewSeq
<1>2. PICK n \in Nat : n = s.size
  BY ElementFacts
<1>3. Len(v) = n /\ \A i \in 1 .. n : v[i] = Slot(chunkSize, s, s.front + i - 1)
  BY <1>1, <1>2, ViewSeq
<1>4. Good(chunkSize, t) /\ t.size = n - 1
  BY <1>2 DEF RemovedAt
<1>5. PICK w \in Seq(Vals) : w = View(chunkSize, t)
  BY <1>4, ViewSeq
<1>6. Len(w) = n - 1 /\ \A i \in 1 .. n - 1 : w[i] = Slot(chunkSize, t, t.front + i - 1)
  BY <1>4, <1>5, ViewSeq
<1>7. PICK r : r = Removal(v, j)
  OBVIOUS
<1>8. /\ r \in Seq(Vals) /\ Len(r) = n - 1
      /\ \A i \in 1 .. n - 1 : r[i] = IF i < j THEN v[i] ELSE v[i + 1]
  <2>1. j \in 1 .. Len(v)
    BY <1>2, <1>3
  <2>2. /\ r \in Seq(Vals) /\ Len(r) = Len(v) - 1
        /\ \A i \in 1 .. Len(v) - 1 : r[i] = IF i < j THEN v[i] ELSE v[i + 1]
    BY <1>7, <2>1, RemoveAtSeq DEF Removal
  <2> QED
    BY <1>3, <2>2
<1>9. ASSUME NEW i \in 1 .. n - 1
      PROVE  w[i] = r[i]
  <2>1. w[i] = IF i < j THEN Slot(chunkSize, s, s.front + i - 1) ELSE Slot(chunkSize, s, s.front + i)
    BY <1>4, <1>6 DEF RemovedAt
  <2>2. PICK h \in 1 .. n : h = i + 1
    BY <1>2
  <2>3. s.front + i = s.front + h - 1 /\ i \in 1 .. n
    BY <2>2, ElementFacts
  <2> QED
    BY <1>3, <1>8, <2>1, <2>2, <2>3
<1>10. w = r
  BY <1>5, <1>6, <1>8, <1>9, SeqEqual
<1> QED
  BY <1>1, <1>5, <1>7, <1>10

Seqs == [n \in {"deque"} |-> Contents]

\* The contents before and after a call, and what is inserted or removed.
LEMMA SequenceEdits ==
  ASSUME chunkSize \in ChunkSizes, chunkSize' = chunkSize, Good(chunkSize, deque),
         Contents' = View(chunkSize', deque')
  PROVE  /\ \A j \in 1 .. deque.size + 1, x \in Vals :
              InsertedAt(deque, deque', j, x) => AsSequence!Insert("deque", j, x)
         /\ \A j \in 1 .. deque.size :
              RemovedAt(deque, deque', j) => AsSequence!Erase("deque", j)
         /\ Same(deque, deque') => Contents' = Contents
<1>1. PICK v : v = View(chunkSize, deque)
  OBVIOUS
<1>2. Contents = v /\ Contents' = View(chunkSize, deque')
  BY <1>1, ContentsView DEF ContentsOK
<1>3. Seqs["deque"] = v /\ \A w : Contents' = w => Seqs' = [Seqs EXCEPT !["deque"] = w]
  BY <1>2 DEF Seqs
<1>4. ASSUME NEW j \in 1 .. deque.size + 1, NEW x \in Vals, InsertedAt(deque, deque', j, x)
      PROVE  AsSequence!Insert("deque", j, x)
  <2>1. View(chunkSize, deque') = Insertion(v, j, x)
    BY <1>1, <1>4, InsertedView
  <2>2. Seqs' = [Seqs EXCEPT !["deque"] = Insertion(Seqs["deque"], j, x)]
    BY <1>2, <1>3, <2>1
  <2> QED
    BY <2>2 DEF AsSequence!Insert, AsSequence!InsertAt, Insertion, Seqs
<1>5. ASSUME NEW j \in 1 .. deque.size, RemovedAt(deque, deque', j)
      PROVE  AsSequence!Erase("deque", j)
  <2>1. View(chunkSize, deque') = Removal(v, j)
    BY <1>1, <1>5, RemovedView
  <2>2. Seqs' = [Seqs EXCEPT !["deque"] = Removal(Seqs["deque"], j)]
    BY <1>2, <1>3, <2>1
  <2> QED
    BY <2>2 DEF AsSequence!Erase, AsSequence!RemoveAt, Removal, Seqs
<1>6. ASSUME Same(deque, deque') PROVE Contents' = Contents
  BY <1>1, <1>2, <1>6 DEF View, Same
<1> QED
  BY <1>4, <1>5, <1>6

\* A call that leaves the deque in order edits it where its arguments say.
LEMMA EffectOfCall ==
  ASSUME IInv, chunkSize' = chunkSize, ~deque.astray, ~deque'.astray,
         Contents' = View(chunkSize', deque')
  PROVE  CallsEdit
<1>1. chunkSize \in ChunkSizes /\ Good(chunkSize, deque)
  BY DEF IInv
<1>2. /\ deque.size \in Nat /\ deque.front \in Int /\ deque.back \in Int
      /\ deque.size > 0 => deque.back = deque.front + deque.size - 1
      /\ deque.size = 0 => deque.back = deque.front
  BY <1>1, ElementFacts
<1>3. /\ \A j \in 1 .. deque.size + 1, x \in Vals :
           InsertedAt(deque, deque', j, x) => AsSequence!Insert("deque", j, x)
      /\ \A j \in 1 .. deque.size : RemovedAt(deque, deque', j) => AsSequence!Erase("deque", j)
      /\ Same(deque, deque') => Contents' = Contents
  BY <1>1, SequenceEdits
<1>4. ASSUME NEW x \in Vals, PushFront(x) PROVE AsSequence!Insert("deque", 1, x)
  <2>1. InsertedAt(deque, deque', 1, x) /\ 1 \in 1 .. deque.size + 1
    BY <1>2, <1>4, PushFrontEffect DEF Inserts
  <2> QED
    BY <1>3, <2>1
<1>5. ASSUME NEW x \in Vals, PushBack(x) PROVE AsSequence!Insert("deque", deque.size + 1, x)
  <2>1. InsertedAt(deque, deque', deque.size + 1, x) /\ deque.size + 1 \in 1 .. deque.size + 1
    BY <1>2, <1>5, PushBackEffect DEF Inserts
  <2> QED
    BY <1>3, <2>1
<1>6. ASSUME NEW x \in Vals, NEW loc \in deque.front .. deque.back, Insert(loc, x)
      PROVE  AsSequence!Insert("deque", loc - deque.front + 1, x)
  <2>1. InsertedAt(deque, deque', loc - deque.front + 1, x)
    BY <1>6, InsertEffect DEF Inserts
  <2>2. loc - deque.front + 1 \in 1 .. deque.size + 1
    BY <1>2
  <2> QED
    BY <1>3, <2>1, <2>2
<1>7. ASSUME NEW x \in Vals, Insert(deque.back + 1, x) PROVE UNCHANGED deque
  BY <1>7, InsertEndEffect
<1>8. ASSUME PopFront PROVE AsSequence!Erase("deque", 1)
  <2>1. RemovedAt(deque, deque', 1) /\ 1 \in 1 .. deque.size
    BY <1>2, <1>8, PopFrontEffect DEF Removes
  <2> QED
    BY <1>3, <2>1
<1>9. ASSUME PopBack PROVE AsSequence!Erase("deque", deque.size)
  <2>1. RemovedAt(deque, deque', deque.size) /\ deque.size \in 1 .. deque.size
    BY <1>2, <1>9, PopBackEffect DEF Removes
  <2> QED
    BY <1>3, <2>1
<1>10. ASSUME NEW loc \in deque.front .. deque.back, Erase(loc)
       PROVE  AsSequence!Erase("deque", loc - deque.front + 1)
  <2>1. deque.size > 0 /\ RemovedAt(deque, deque', loc - deque.front + 1)
    BY <1>10, EraseEffect DEF Removes
  <2>2. loc - deque.front + 1 \in 1 .. deque.size
    BY <1>2, <2>1
  <2> QED
    BY <1>3, <2>1, <2>2
<1>11. ASSUME ShrinkToFit PROVE UNCHANGED Contents
  BY <1>3, <1>11, ShrinkEffect
<1> QED
  BY <1>4, <1>5, <1>6, <1>7, <1>8, <1>9, <1>10, <1>11 DEF CallsEdit

\* A step of the specification takes the deque astray for the reasons given only.
LEMMA ReasonOfCall ==
  ASSUME IInv, Next, deque'.astray, ~deque.astray
  PROVE  CallStrays
<1>1. deque.front \in Int /\ deque.back \in Int /\ deque.size \in Nat
  BY MapFacts DEF IInv
<1>2. ASSUME NEW j, NEW x, Inserts(j, x) PROVE CallStrays
  <2>1. deque'.size > deque.size
    BY <1>1, <1>2 DEF Inserts
  <2> QED
    BY <1>2, <2>1 DEF Inserts, CallStrays
<1>3. ASSUME NEW x \in Vals, PushFront(x) PROVE CallStrays
  BY <1>2, <1>3, PushFrontEffect
<1>4. ASSUME NEW x \in Vals, PushBack(x) PROVE CallStrays
  BY <1>2, <1>4, PushBackEffect
<1>5. ASSUME NEW x \in Vals, NEW loc \in Locs, Insert(loc, x) PROVE CallStrays
  <2>1. loc \in deque.front .. deque.back \/ loc = deque.back + 1
    BY <1>1 DEF Locs
  <2>2. CASE loc \in deque.front .. deque.back
    BY <1>2, <1>5, <2>2, InsertEffect
  <2>3. CASE loc = deque.back + 1
    BY <1>5, <2>3, InsertEndEffect
  <2> QED
    BY <2>1, <2>2, <2>3
<1>6. ASSUME NEW loc \in Locs, Erase(loc) PROVE CallStrays
  <2>1. loc \in deque.front .. deque.back \/ loc = deque.back + 1
    BY <1>1 DEF Locs
  <2>2. CASE loc \in deque.front .. deque.back
    BY <1>6, <2>2, EraseEffect DEF Removes, CallStrays
  <2>3. CASE loc = deque.back + 1
    BY <1>6, <2>3, EraseEndEffect
  <2> QED
    BY <2>1, <2>2, <2>3
<1>7. CASE PopFront \/ PopBack
  BY <1>7, PopFrontEffect, PopBackEffect DEF Removes
<1>8. CASE Clear
  BY <1>8, ClearEffect DEF CallStrays
<1>9. CASE ShrinkToFit
  BY <1>9, ShrinkEffect DEF CallStrays
<1> QED
  BY <1>3, <1>4, <1>5, <1>6, <1>7, <1>8, <1>9 DEF Next, Lost

\* The chunk length stays, and a deque that is astray stays so.
LEMMA AstrayForGood ==
  ASSUME IInv, Next
  PROVE  chunkSize' = chunkSize /\ (deque.astray => deque' = deque)
<1>1. ASSUME NEW s, Becomes(s) PROVE chunkSize' = chunkSize /\ ~deque.astray
  BY <1>1 DEF Becomes
<1> QED
  BY <1>1 DEF Next, PushFront, PushBack, Insert, Erase, PopFront, PopBack, Clear, ShrinkToFit,
              Lost, vars

\* Each call edits the contents of the deque at the position its arguments name,
\* whichever side it shifts and whether or not the chunk map grows; or the deque
\* goes astray, for one of the reasons in CallStrays and no other.
THEOREM DequeCallsTakeEffect == Spec => CallsTakeEffect
<1>1. Contents' = View(chunkSize', deque')
  <2>1. ContentsOK'
    BY ContentsView, PTL
  <2> QED
    BY <2>1 DEF ContentsOK
<1>2. ASSUME IInv, Next PROVE CallEffect
  <2>1. chunkSize' = chunkSize /\ (deque.astray => deque' = deque)
    BY <1>2, AstrayForGood
  <2>2. CASE deque'.astray
    BY <1>2, <2>2, ReasonOfCall DEF CallEffect
  <2>3. CASE ~deque'.astray
    BY <1>1, <1>2, <2>1, <2>3, EffectOfCall DEF CallEffect
  <2> QED
    BY <2>2, <2>3
<1>3. IInv /\ [Next]_vars => [CallEffect]_vars
  BY <1>2
<1> QED
  BY <1>3, DequeInductiveInvariant, PTL DEF Spec, CallsTakeEffect
=============================================================================
