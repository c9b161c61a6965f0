----------------------------- MODULE VectorProofs -----------------------------
(***************************************************************************)
(* Proofs about Vector, for any vectors, buffers, values and capacities:   *)
(* the elements of a vector are live and its own at every step of every    *)
(* call, also when a constructor throws, nothing leaks as long as none     *)
(* does, and the contents of a vector are those of a sequence.             *)
(***************************************************************************)
EXTENDS Vector, FiniteSetTheorems, SequenceTheorems, TLAPS

-----------------------------------------------------------------------------
(* The inductive invariant.  Between two steps of a call the new buffer is *)
(* partly filled, or elements are constructed behind the last; how far the *)
(* call has got says which slots are alive.                                *)

\* How many slots of the buffer of v are constructed.
Count(v) ==
  IF call.vec = v /\ call.pc = "construct" /\ call.to = Null THEN call.at ELSE vec[v].mSize

Alive(slots, n) ==
  \A i \in 0 .. n - 1 : slots[i].val # Raw /\ slots[i].lives >= Lifetime

Exact(slots, n) ==
  \A i \in DOMAIN slots : slots[i].lives = IF i < n THEN Lifetime ELSE 0

NonNegative(slots) == \A i \in DOMAIN slots : slots[i].lives >= 0

\* What holds of one vector.
VecOK(v) ==
  LET b == vec[v].buffPtr IN
  /\ vec[v].mSize <= vec[v].mCapacity
  /\ b = Null => vec[v] = NoBuffer
  /\ b # Null =>
       /\ b \in allocated
       /\ DOMAIN heap[b] = 0 .. vec[v].mCapacity - 1
       /\ Alive(heap[b], vec[v].mSize) /\ NonNegative(heap[b])
       /\ ~thrown => Exact(heap[b], Count(v))

Disjoint ==
  \A v, w \in Vecs : vec[v].buffPtr = vec[w].buffPtr => v = w \/ vec[v].buffPtr = Null

\* The call in progress stays within the buffer it is to fill.
CallOK ==
  LET size == vec[call.vec].mSize
      limit == IF call.to = Null THEN vec[call.vec].mCapacity ELSE call.cap
  IN
  /\ call.pc = "idle" => call = Idle
  /\ call.pc # "idle" => call.vec \in Vecs
  /\ call.pc = "return" => call.to # Null /\ size <= limit
  /\ call.pc = "construct" =>
       /\ size <= call.at /\ call.at < call.count /\ call.count <= limit
       /\ call.val \in Vals
       /\ call.to # Null => call.at = size
       /\ call.to = Null =>
            \A i \in size .. call.at - 1 :
              LET s == heap[vec[call.vec].buffPtr][i] IN
              s.val = call.val /\ s.lives >= Lifetime
  /\ call.pc = "insert" =>
       /\ T = "int" /\ call.at <= size /\ call.count = size + 1 /\ call.count <= limit
       /\ call.val \in Vals /\ ~(size = 1 /\ call.at = 0)

\* The buffer that is to replace the old one.
NewBufferOK ==
  IF call.to = Null THEN call.copied = 0 /\ call.cap = 0
  ELSE LET old == heap[vec[call.vec].buffPtr]
           new == heap[call.to]
       IN
       /\ call.to \in allocated /\ \A v \in Vecs : vec[v].buffPtr # call.to
       /\ DOMAIN new = 0 .. call.cap - 1
       /\ call.copied <= vec[call.vec].mSize
       /\ \A i \in 0 .. call.copied - 1 :
            new[i].val = old[i].val /\ new[i].lives >= Lifetime
       /\ NonNegative(new)
       /\ ~thrown => Exact(new, call.copied)

\* A buffer that nobody holds has no elements.
OthersEmpty ==
  ~thrown =>
    \A b \in Buffers :
      b # call.to /\ (\A v \in Vecs : vec[v].buffPtr # b) => DOMAIN heap[b] = {}

IInv ==
  /\ TypeOK /\ DOMAIN heap = Buffers
  /\ \A v \in Vecs : VecOK(v)
  /\ Disjoint /\ CallOK /\ NewBufferOK /\ OthersEmpty

-----------------------------------------------------------------------------
(* Slots.                                                                  *)

LEMMA LifetimeType == Lifetime \in {0, 1} /\ (T = "int" => Lifetime = 0)
BY DEF Lifetime

SlotsOK(slots) ==
  \A i \in DOMAIN slots :
    i \in Capacities /\ slots[i] \in [val : Vals \cup {Raw}, lives : Int]

CallType ==
  [pc : {"idle", "return", "construct", "insert"}, vec : Vecs \cup {Null},
   to : Buffers \cup {Null}, cap : Capacities, copied : Capacities,
   at : Capacities, count : 0 .. MaxCapacity, val : Vals \cup {Raw}]

VecType == [buffPtr : Buffers \cup {Null}, mCapacity : Capacities, mSize : Capacities]

\* The rest of TypeOK.
MembersOK ==
  /\ T \in {"int", "class"}
  /\ vec \in [Vecs -> VecType]
  /\ \A v \in Vecs : vec[v].mSize <= vec[v].mCapacity
  /\ allocated \subseteq Buffers
  /\ call \in CallType
  /\ thrown \in BOOLEAN

LEMMA TypeOKParts ==
  /\ TypeOK <=> MembersOK /\ \A b \in Buffers : SlotsOK(heap[b])
  /\ TypeOK' <=> MembersOK' /\ \A b \in Buffers : SlotsOK(heap'[b])
<1>1. TypeOK <=> MembersOK /\ \A b \in Buffers : SlotsOK(heap[b])
  BY DEF TypeOK, MembersOK, SlotsOK, CallType, VecType
<1>2. TypeOK' <=> MembersOK' /\ \A b \in Buffers : SlotsOK(heap'[b])
  BY DEF TypeOK, MembersOK, SlotsOK, CallType, VecType
<1> QED
  BY <1>1, <1>2

\* What the invariant says of a vector, for the provers.
LEMMA VecFacts ==
  ASSUME IInv, NEW v \in Vecs
  PROVE  /\ vec \in [Vecs -> VecType] /\ vec[v] \in VecType
         /\ vec[v].mSize \in Nat /\ vec[v].mCapacity \in Nat
         /\ vec[v].mSize <= vec[v].mCapacity /\ vec[v].mCapacity <= MaxCapacity
         /\ vec[v].buffPtr = Null => vec[v] = NoBuffer /\ vec[v].mSize = 0 /\ vec[v].mCapacity = 0
         /\ vec[v].buffPtr # Null =>
              /\ vec[v].buffPtr \in Buffers /\ vec[v].buffPtr \in allocated
              /\ DOMAIN heap[vec[v].buffPtr] = 0 .. vec[v].mCapacity - 1
              /\ SlotsOK(heap[vec[v].buffPtr]) /\ NonNegative(heap[vec[v].buffPtr])
              /\ Alive(heap[vec[v].buffPtr], vec[v].mSize)
<1>1. MembersOK /\ VecOK(v) /\ \A b \in Buffers : SlotsOK(heap[b])
  BY TypeOKParts DEF IInv
<1>2. vec \in [Vecs -> VecType] /\ vec[v] \in VecType
  BY <1>1 DEF MembersOK
<1>3. /\ vec[v].mSize \in Nat /\ vec[v].mCapacity \in Nat
      /\ vec[v].mCapacity <= MaxCapacity /\ vec[v].buffPtr \in Buffers \cup {Null}
  BY <1>2, VectorAssumption DEF VecType, Capacities
<1> QED
  BY <1>1, <1>2, <1>3 DEF VecOK, NoBuffer

LEMMA UninitializedSlots ==
  ASSUME NEW n \in Capacities
  PROVE  /\ DOMAIN Uninitialized(n) = 0 .. n - 1
         /\ SlotsOK(Uninitialized(n)) /\ NonNegative(Uninitialized(n))
         /\ Exact(Uninitialized(n), 0)
BY VectorAssumption DEF Uninitialized, SlotsOK, NonNegative, Exact, Capacities

LEMMA ConstructedSlots ==
  ASSUME NEW slots, SlotsOK(slots), NEW i \in DOMAIN slots, NEW x \in Vals \cup {Raw}
  PROVE  LET new == Constructed(slots, i, x) IN
         /\ DOMAIN new = DOMAIN slots /\ SlotsOK(new)
         /\ new[i].val = x /\ new[i].lives = slots[i].lives + Lifetime
         /\ \A j \in DOMAIN slots \ {i} : new[j] = slots[j]
BY LifetimeType DEF SlotsOK, Constructed

LEMMA DestroyedSlots ==
  ASSUME NEW slots, SlotsOK(slots), NEW S
  PROVE  LET new == Destroyed(slots, S) IN
         /\ DOMAIN new = DOMAIN slots /\ SlotsOK(new)
         /\ \A j \in DOMAIN slots :
              /\ j \in S => new[j].lives = slots[j].lives - Lifetime
              /\ j \notin S => new[j] = slots[j]
BY LifetimeType DEF SlotsOK, Destroyed

\* The elements of a vector are destroyed and its buffer is freed: without an
\* exception nothing is left.
LEMMA FreedHeap ==
  ASSUME IInv, NEW v \in Vecs, vec[v].buffPtr # Null
  PROVE  LET b == vec[v].buffPtr IN
         /\ DOMAIN Freed(v) = Buffers /\ SlotsOK(Freed(v)[b])
         /\ ~thrown /\ Count(v) = vec[v].mSize => DOMAIN Freed(v)[b] = {}
         /\ \A c \in Buffers \ {b} : Freed(v)[c] = heap[c]
<1> DEFINE b == vec[v].buffPtr
           slots == Destroyed(heap[b], 0 .. vec[v].mSize - 1)
           left == {i \in DOMAIN slots : slots[i].lives # 0}
<1>1. b \in Buffers /\ DOMAIN heap = Buffers /\ SlotsOK(heap[b])
  BY VecFacts DEF IInv
<1>2. /\ DOMAIN slots = DOMAIN heap[b] /\ SlotsOK(slots)
      /\ \A j \in DOMAIN heap[b] :
           /\ j \in 0 .. vec[v].mSize - 1 => slots[j].lives = heap[b][j].lives - Lifetime
           /\ j \notin 0 .. vec[v].mSize - 1 => slots[j] = heap[b][j]
  BY <1>1, DestroyedSlots
<1>3. Freed(v) = [heap EXCEPT ![b] = Restrict(slots, left)]
  BY DEF Freed
<1>4. DOMAIN Freed(v) = Buffers /\ Freed(v)[b] = Restrict(slots, left)
      /\ \A c \in Buffers \ {b} : Freed(v)[c] = heap[c]
  BY <1>1, <1>3
<1>5. SlotsOK(Restrict(slots, left)) /\ DOMAIN Restrict(slots, left) = left
  BY <1>2 DEF Restrict, SlotsOK
<1>6. ASSUME ~thrown, Count(v) = vec[v].mSize
      PROVE  left = {}
  <2>1. Exact(heap[b], vec[v].mSize) /\ DOMAIN heap[b] = 0 .. vec[v].mCapacity - 1
    BY <1>6 DEF IInv, VecOK
  <2>2. vec[v].mSize \in Int /\ vec[v].mCapacity \in Int
    BY VecFacts
  <2>3. \A j \in DOMAIN slots : slots[j].lives = 0
    BY <1>2, <2>1, <2>2, LifetimeType, SMTT(20) DEF Exact
  <2> QED
    BY <2>3
<1> QED
  BY <1>4, <1>5, <1>6

-----------------------------------------------------------------------------
(* What a step does to vectors and buffers.                                *)

\* A vector that a step does not touch stays as it should be.
LEMMA Untouched ==
  ASSUME IInv, NEW w \in Vecs, vec'[w] = vec[w], T' = T, thrown => thrown',
         ~thrown' => Count(w)' = Count(w),
         vec[w].buffPtr # Null =>
           /\ vec[w].buffPtr \in allocated'
           /\ heap'[vec[w].buffPtr] = heap[vec[w].buffPtr]
  PROVE  VecOK(w)'
<1>1. VecOK(w) /\ Lifetime' = Lifetime
  BY DEF IInv, Lifetime
<1>2. vec[w].buffPtr # Null => Alive(heap[vec[w].buffPtr], vec[w].mSize)'
  BY <1>1 DEF VecOK, Alive
<1>3. vec[w].buffPtr # Null /\ ~thrown' => Exact(heap[vec[w].buffPtr], Count(w))'
  BY <1>1 DEF VecOK, Exact
<1>4. vec[w].buffPtr # Null => NonNegative(heap[vec[w].buffPtr])'
  BY <1>1 DEF VecOK, NonNegative
<1> QED
  BY <1>1, <1>2, <1>3, <1>4 DEF VecOK, NoBuffer

\* The elements of one vector change, and with them its size.
LEMMA EditBuffer ==
  ASSUME IInv, NEW v \in Vecs, vec[v].buffPtr # Null,
         NEW new, NEW n \in 0 .. vec[v].mCapacity,
         heap' = [heap EXCEPT ![vec[v].buffPtr] = new],
         DOMAIN new = DOMAIN heap[vec[v].buffPtr],
         SlotsOK(new), NonNegative(new), Alive(new, n),
         vec' = [vec EXCEPT ![v].mSize = n],
         UNCHANGED <<T, allocated, thrown>>,
         call.to = Null, call' \in CallType,
         call'.to = Null, call'.copied = 0, call'.cap = 0, CallOK',
         \A w \in Vecs \ {v} : Count(w)' = Count(w),
         ~thrown => Exact(new, Count(v)')
  PROVE  IInv'
<1> DEFINE b == vec[v].buffPtr
<1>1. /\ b \in Buffers /\ b \in allocated /\ MembersOK
      /\ DOMAIN heap = Buffers /\ \A c \in Buffers : SlotsOK(heap[c])
  BY VecFacts, TypeOKParts DEF IInv
<1>2. vec \in [Vecs -> VecType] /\ vec[v] \in VecType
  BY VecFacts
<1>3. vec[v].mCapacity \in Capacities /\ n \in Capacities /\ n <= vec[v].mCapacity
  BY <1>2, VectorAssumption DEF VecType, Capacities
<1>4. /\ heap'[b] = new /\ DOMAIN heap' = Buffers
      /\ \A c \in Buffers \ {b} : heap'[c] = heap[c]
  BY <1>1
<1>5. /\ vec' \in [Vecs -> VecType]
      /\ vec'[v].buffPtr = b /\ vec'[v].mCapacity = vec[v].mCapacity /\ vec'[v].mSize = n
      /\ \A w \in Vecs \ {v} : vec'[w] = vec[w]
  BY <1>2, <1>3 DEF VecType
<1>6. TypeOK'
  <2>1. \A w \in Vecs : vec'[w].mSize <= vec'[w].mCapacity
    BY <1>1, <1>3, <1>5 DEF MembersOK
  <2>2. MembersOK'
    BY <1>1, <1>5, <2>1 DEF MembersOK
  <2> QED
    BY <1>1, <1>4, <2>2, TypeOKParts
<1>7. Lifetime' = Lifetime
  BY DEF Lifetime
<1>8. VecOK(v)'
  <2>1. Alive(heap[vec[v].buffPtr], vec[v].mSize)'
    BY <1>4, <1>5, <1>7 DEF Alive
  <2>2. ~thrown' => Exact(heap[vec[v].buffPtr], Count(v))'
    BY <1>4, <1>5, <1>7 DEF Exact
  <2>3. NonNegative(heap[vec[v].buffPtr])'
    BY <1>4, <1>5 DEF NonNegative
  <2>4. DOMAIN new = 0 .. vec[v].mCapacity - 1
    BY VecFacts
  <2> QED
    BY <1>1, <1>3, <1>4, <1>5, <2>1, <2>2, <2>3, <2>4 DEF VecOK
<1>9. ASSUME NEW w \in Vecs \ {v}
      PROVE  VecOK(w)'
  <2>1. vec[w].buffPtr # Null => vec[w].buffPtr # b /\ vec[w].buffPtr \in allocated /\ vec[w].buffPtr \in Buffers
    BY VecFacts DEF IInv, Disjoint
  <2> QED
    BY <1>4, <1>5, <2>1, Untouched
<1>10. \A w \in Vecs : vec'[w].buffPtr = vec[w].buffPtr
  BY <1>5
<1>11. Disjoint' /\ NewBufferOK'
  BY <1>10 DEF IInv, Disjoint, NewBufferOK
<1>12. OthersEmpty'
  <2>1. ASSUME ~thrown, NEW c \in Buffers, \A w \in Vecs : vec'[w].buffPtr # c
        PROVE  DOMAIN heap'[c] = {}
    <3>1. c # b /\ c # call.to /\ \A w \in Vecs : vec[w].buffPtr # c
      BY <1>5, <1>10, <2>1, VectorAssumption
    <3> QED
      BY <1>4, <2>1, <3>1 DEF IInv, OthersEmpty
  <2> QED
    BY <2>1 DEF OthersEmpty
<1> QED
  BY <1>4, <1>6, <1>8, <1>9, <1>11, <1>12 DEF IInv

-----------------------------------------------------------------------------
(* The beginning of a call.                                                *)

\* The steps to come fit into a buffer of limit slots.
StartOK(v, next, limit) ==
  /\ next \in CallType /\ next.pc # "idle" /\ next.vec = v
  /\ next.to = Null /\ next.cap = 0 /\ next.copied = 0
  /\ vec[v].mSize <= limit
  /\ next.pc = "construct" =>
       next.at = vec[v].mSize /\ next.at < next.count /\ next.count <= limit /\ next.val \in Vals
  /\ next.pc = "insert" =>
       /\ T = "int" /\ next.at <= vec[v].mSize /\ next.count = vec[v].mSize + 1
       /\ next.count <= limit /\ next.val \in Vals /\ ~(vec[v].mSize = 1 /\ next.at = 0)

LEMMA GoingFields ==
  ASSUME NEW v \in Vecs, NEW pc \in {"return", "construct", "insert"}, NEW at \in Capacities,
         NEW count \in Capacities, NEW val \in Vals \cup {Raw}
  PROVE  LET next == Going(v, pc, at, count, val) IN
         /\ next \in CallType
         /\ next.pc = pc /\ next.vec = v /\ next.to = Null /\ next.cap = 0
         /\ next.copied = 0 /\ next.at = at /\ next.count = count /\ next.val = val
<1>1. 0 \in Capacities /\ 0 \in 0 .. MaxCapacity /\ count \in 0 .. MaxCapacity
  BY VectorAssumption DEF Capacities
<1>2. Idle \in CallType /\ Idle.to = Null /\ Idle.cap = 0 /\ Idle.copied = 0
  BY <1>1 DEF Idle, CallType
<1> QED
  BY <1>1, <1>2 DEF Going, CallType

LEMMA IdleCounts ==
  ASSUME IInv, call = Idle
  PROVE  /\ \A w : Count(w) = vec[w].mSize
         /\ call.to = Null /\ call.cap = 0 /\ call.copied = 0 /\ call.pc = "idle" /\ call.vec = Null
BY DEF Count, Idle

LEMMA BeginInPlace ==
  ASSUME IInv, call = Idle, NEW v \in Vecs, NEW next,
         StartOK(v, next, vec[v].mCapacity), next.pc # "return",
         call' = next, UNCHANGED <<T, vec, heap, allocated, thrown>>
  PROVE  IInv'
<1>1. TypeOK'
  BY TypeOKParts DEF IInv, MembersOK, StartOK
<1>2. ASSUME NEW w \in Vecs
      PROVE  VecOK(w)'
  <2>1. Count(w)' = Count(w)
    BY IdleCounts DEF Count, StartOK
  <2> QED
    BY <2>1, Untouched, VecFacts
<1>3. vec[v].mSize \in Nat
  BY VecFacts
<1>4. CallOK'
  BY <1>3 DEF CallOK, StartOK
<1>5. NewBufferOK' /\ OthersEmpty'
  BY IdleCounts DEF IInv, NewBufferOK, OthersEmpty, StartOK
<1> QED
  BY <1>1, <1>2, <1>4, <1>5 DEF IInv, Disjoint

\* A fresh buffer, which no vector has.
LEMMA Fresh ==
  ASSUME IInv, call = Idle, NEW b \in Buffers, NEW n, Allocate(b, n), NEW new,
         heap' = [heap EXCEPT ![b] = new]
  PROVE  /\ b # Null /\ b \notin allocated /\ b \in allocated'
         /\ allocated' \subseteq Buffers
         /\ \A w \in Vecs : vec[w].buffPtr # b
         /\ heap'[b] = new /\ DOMAIN heap' = Buffers
         /\ \A c \in Buffers \ {b} : heap'[c] = heap[c]
         /\ \A w \in Vecs : vec[w].buffPtr # Null =>
              vec[w].buffPtr \in allocated' /\ heap'[vec[w].buffPtr] = heap[vec[w].buffPtr]
<1>1. DOMAIN heap = Buffers /\ allocated \subseteq Buffers
  BY TypeOKParts DEF IInv, MembersOK
<1>2. b \notin allocated /\ allocated' = allocated \cup {b}
  BY DEF Allocate
<1>3. \A w \in Vecs : vec[w].buffPtr # Null => vec[w].buffPtr \in allocated /\ vec[w].buffPtr \in Buffers
  BY VecFacts
<1> QED
  BY <1>1, <1>2, <1>3, VectorAssumption

LEMMA BeginReallocate ==
  ASSUME IInv, call = Idle, NEW v \in Vecs, NEW n \in Nat, NEW next,
         StartOK(v, next, n), Reallocate(v, n, next)
  PROVE  IInv'
<1>1. PICK b \in Buffers :
        /\ Allocate(b, n)
        /\ heap' = [heap EXCEPT ![b] = Uninitialized(n)]
        /\ call' = [next EXCEPT !.to = b, !.cap = n]
        /\ UNCHANGED <<T, vec, thrown>>
  BY DEF Reallocate
<1> DEFINE new == Uninitialized(n)
<1>2. n \in Capacities
  BY <1>1, VectorAssumption DEF Allocate, Capacities
<1>3. /\ b # Null /\ b \in allocated' /\ allocated' \subseteq Buffers
      /\ \A w \in Vecs : vec[w].buffPtr # b
      /\ heap'[b] = new /\ DOMAIN heap' = Buffers
      /\ \A c \in Buffers \ {b} : heap'[c] = heap[c]
      /\ \A w \in Vecs : vec[w].buffPtr # Null =>
           vec[w].buffPtr \in allocated' /\ heap'[vec[w].buffPtr] = heap[vec[w].buffPtr]
  BY <1>1, Fresh
<1>4. DOMAIN new = 0 .. n - 1 /\ SlotsOK(new) /\ NonNegative(new) /\ Exact(new, 0)
  BY <1>2, UninitializedSlots
<1>5. /\ call' \in CallType /\ call'.pc = next.pc /\ call'.vec = v /\ call'.to = b /\ call'.cap = n
      /\ call'.copied = 0 /\ call'.at = next.at /\ call'.count = next.count /\ call'.val = next.val
  BY <1>1, <1>2 DEF StartOK, CallType
<1>6. TypeOK'
  <2>1. MembersOK'
    BY <1>1, <1>3, <1>5, TypeOKParts DEF IInv, MembersOK
  <2>2. \A c \in Buffers : SlotsOK(heap'[c])
    BY <1>3, <1>4, TypeOKParts DEF IInv
  <2> QED
    BY <2>1, <2>2, TypeOKParts
<1>7. ASSUME NEW w \in Vecs
      PROVE  VecOK(w)'
  <2>1. Count(w)' = Count(w)
    BY <1>1, <1>3, <1>5, IdleCounts DEF Count
  <2> QED
    BY <1>1, <1>3, <2>1, Untouched
<1>8. vec[v].mSize \in Nat
  BY VecFacts
<1>9. CallOK'
  BY <1>1, <1>3, <1>5, <1>8 DEF CallOK, StartOK
<1>10. NewBufferOK'
  <2>1. ~thrown' => Exact(new, 0)'
    BY <1>1, <1>4 DEF Exact, Lifetime
  <2>2. NonNegative(new)'
    BY <1>4 DEF NonNegative
  <2> HIDE DEF new
  <2> QED
    BY <1>1, <1>3, <1>4, <1>5, <1>8, <2>1, <2>2 DEF NewBufferOK
<1>11. OthersEmpty'
  BY <1>1, <1>3, <1>5, IdleCounts, VectorAssumption DEF IInv, OthersEmpty
<1> QED
  BY <1>1, <1>3, <1>6, <1>7, <1>9, <1>10, <1>11 DEF IInv, Disjoint

\* emplace_back() and insert() take a first buffer.
LEMMA BeginFirst ==
  ASSUME IInv, call = Idle, NEW v \in Vecs, vec[v].mCapacity = 0, NEW b \in Buffers,
         NEW next, StartOK(v, next, 1), next.pc # "return",
         Allocate(b, 1), heap' = [heap EXCEPT ![b] = Uninitialized(1)],
         vec' = [vec EXCEPT ![v].buffPtr = b, ![v].mCapacity = 1],
         call' = next, UNCHANGED <<T, thrown>>
  PROVE  IInv'
<1> DEFINE new == Uninitialized(1)
<1>1. /\ b # Null /\ b \in allocated' /\ allocated' \subseteq Buffers
      /\ \A w \in Vecs : vec[w].buffPtr # b
      /\ heap'[b] = new /\ DOMAIN heap' = Buffers
      /\ \A c \in Buffers \ {b} : heap'[c] = heap[c]
      /\ \A w \in Vecs : vec[w].buffPtr # Null =>
           vec[w].buffPtr \in allocated' /\ heap'[vec[w].buffPtr] = heap[vec[w].buffPtr]
  BY Fresh
<1>2. 1 \in Capacities
  BY VectorAssumption DEF Allocate, Capacities
<1>3. DOMAIN new = 0 .. 0 /\ SlotsOK(new) /\ NonNegative(new) /\ Exact(new, 0)
  <2>1. 0 .. 1 - 1 = 0 .. 0
    OBVIOUS
  <2> QED
    BY <1>2, <2>1, UninitializedSlots
<1>4. vec[v].mSize = 0 /\ vec \in [Vecs -> VecType] /\ vec[v] \in VecType
  BY VecFacts
<1>5. /\ vec' \in [Vecs -> VecType]
      /\ vec'[v].buffPtr = b /\ vec'[v].mCapacity = 1 /\ vec'[v].mSize = 0
      /\ \A w \in Vecs \ {v} : vec'[w] = vec[w]
  BY <1>2, <1>4 DEF VecType
<1>6. TypeOK'
  <2>1. MembersOK'
    BY <1>1, <1>5, TypeOKParts DEF IInv, MembersOK, StartOK
  <2>2. \A c \in Buffers : SlotsOK(heap'[c])
    BY <1>1, <1>3, TypeOKParts DEF IInv
  <2> QED
    BY <2>1, <2>2, TypeOKParts
<1>7. VecOK(v)'
  <2>1. Count(v)' = 0
    BY <1>4, <1>5 DEF Count, StartOK
  <2> HIDE DEF new
  <2>2. Exact(heap[vec[v].buffPtr], Count(v))'
    BY <1>1, <1>3, <1>5, <2>1 DEF Exact, Lifetime
  <2>3. Alive(heap[vec[v].buffPtr], vec[v].mSize)' /\ NonNegative(heap[vec[v].buffPtr])'
    BY <1>1, <1>3, <1>5 DEF Alive, NonNegative
  <2> QED
    BY <1>1, <1>3, <1>5, <2>2, <2>3 DEF VecOK
<1>8. ASSUME NEW w \in Vecs \ {v}
      PROVE  VecOK(w)'
  <2>1. Count(w)' = Count(w)
    BY <1>5, IdleCounts DEF Count, StartOK
  <2> QED
    BY <1>1, <1>5, <2>1, Untouched
<1>9. CallOK'
  BY <1>4, <1>5 DEF CallOK, StartOK
<1>10. Disjoint'
  BY <1>1, <1>5 DEF IInv, Disjoint
<1>11. NewBufferOK'
  BY DEF NewBufferOK, StartOK
<1>12. OthersEmpty'
  <2>1. ASSUME ~thrown, NEW c \in Buffers, \A w \in Vecs : vec'[w].buffPtr # c
        PROVE  DOMAIN heap'[c] = {}
    <3>1. c # b /\ \A w \in Vecs \ {v} : vec[w].buffPtr # c
      BY <1>5, <2>1
    <3>2. CASE vec[v].buffPtr = c
      <4>1. DOMAIN heap[c] = 0 .. vec[v].mCapacity - 1
        BY <3>2, VectorAssumption, VecFacts
      <4> QED
        BY <1>1, <3>1, <4>1
    <3>3. CASE vec[v].buffPtr # c
      BY <1>1, <2>1, <3>1, <3>3, IdleCounts, VectorAssumption DEF IInv, OthersEmpty
    <3> QED
      BY <3>2, <3>3
  <2> QED
    BY <2>1 DEF OthersEmpty
<1> QED
  BY <1>1, <1>6, <1>7, <1>8, <1>9, <1>10, <1>11, <1>12 DEF IInv

LEMMA MakeRoomStep ==
  ASSUME IInv, call = Idle, NEW v \in Vecs, NEW next, next.pc # "return",
         \A limit \in Capacities : vec[v].mSize < limit => StartOK(v, next, limit),
         MakeRoom(v, next)
  PROVE  IInv'
<1>1. /\ vec[v].mSize \in Nat /\ vec[v].mCapacity \in Nat
      /\ vec[v].mSize <= vec[v].mCapacity /\ vec[v].mCapacity <= MaxCapacity
  BY VecFacts
<1>2. ASSUME vec[v].mCapacity = 0, NEW b \in Buffers, Allocate(b, 1),
             heap' = [heap EXCEPT ![b] = Uninitialized(1)],
             vec' = [vec EXCEPT ![v].buffPtr = b, ![v].mCapacity = 1],
             call' = next, UNCHANGED <<T, thrown>>
      PROVE  IInv'
  <2>1. 1 \in Capacities
    BY <1>2, VectorAssumption DEF Allocate, Capacities
  <2>2. StartOK(v, next, 1)
    BY <1>1, <1>2, <2>1
  <2> QED
    BY <1>2, <2>2, BeginFirst
<1>3. ASSUME vec[v].mCapacity # 0, Full(v), Reallocate(v, 2 * vec[v].mCapacity, next)
      PROVE  IInv'
  <2>1. 2 * vec[v].mCapacity \in Capacities
    BY <1>1, <1>3, VectorAssumption DEF Reallocate, Allocate, Capacities
  <2>2. StartOK(v, next, 2 * vec[v].mCapacity)
    BY <1>1, <1>3, <2>1 DEF Full
  <2> QED
    BY <1>1, <1>3, <2>2, BeginReallocate
<1>4. ASSUME vec[v].mCapacity # 0, ~Full(v), call' = next, UNCHANGED <<T, vec, heap, allocated, thrown>>
      PROVE  IInv'
  <2>1. StartOK(v, next, vec[v].mCapacity)
    BY <1>1, <1>4, VectorAssumption DEF Full, Capacities
  <2> QED
    BY <1>4, <2>1, BeginInPlace
<1> QED
  BY <1>2, <1>3, <1>4 DEF MakeRoom

LEMMA EmplaceBackStep ==
  ASSUME IInv, NEW v \in Vecs, NEW x \in Vals, EmplaceBack(v, x)
  PROVE  IInv'
<1> DEFINE size == vec[v].mSize
           next == Going(v, "construct", size, size + 1, x)
<1>1. size \in Nat /\ size \in Capacities
  BY VecFacts DEF VecType
<1>2. ASSUME NEW limit \in Capacities, size < limit
      PROVE  StartOK(v, next, limit)
  <2>1. size + 1 \in Capacities /\ size + 1 <= limit
    BY <1>1, <1>2, VectorAssumption DEF Capacities
  <2>2. /\ next \in CallType /\ next.pc = "construct" /\ next.vec = v /\ next.to = Null
        /\ next.cap = 0 /\ next.copied = 0
        /\ next.at = size /\ next.count = size + 1 /\ next.val = x
    BY <1>1, <2>1, GoingFields
  <2> HIDE DEF next
  <2> QED
    BY <1>1, <1>2, <2>1, <2>2 DEF StartOK, Capacities
<1>3. next.pc # "return"
  BY DEF Going, Idle
<1> QED
  BY <1>2, <1>3, MakeRoomStep DEF EmplaceBack

LEMMA InsertStep ==
  ASSUME IInv, T = "int", NEW v \in Vecs, NEW pos \in 0 .. vec[v].mSize, NEW x \in Vals,
         ~(vec[v].mSize = 1 /\ pos = 0), Insert(v, pos, x)
  PROVE  IInv'
<1> DEFINE size == vec[v].mSize
           next == Going(v, "insert", pos, size + 1, x)
<1>1. size \in Nat /\ size \in Capacities /\ pos \in Capacities
  BY VecFacts, VectorAssumption DEF VecType, Capacities
<1>2. ASSUME NEW limit \in Capacities, size < limit
      PROVE  StartOK(v, next, limit)
  <2>1. size + 1 \in Capacities /\ size + 1 <= limit
    BY <1>1, <1>2, VectorAssumption DEF Capacities
  <2>2. /\ next \in CallType /\ next.pc = "insert" /\ next.vec = v /\ next.to = Null
        /\ next.cap = 0 /\ next.copied = 0
        /\ next.at = pos /\ next.count = size + 1 /\ next.val = x
    BY <1>1, <2>1, GoingFields
  <2> HIDE DEF next
  <2> QED
    BY <1>1, <1>2, <2>1, <2>2 DEF StartOK, Capacities
<1>3. next.pc # "return"
  BY DEF Going, Idle
<1> QED
  BY <1>2, <1>3, MakeRoomStep DEF Insert

\* reserve() and shrink_to_fit()
LEMMA ReturnStep ==
  ASSUME IInv, call = Idle, NEW v \in Vecs, NEW n \in Nat, vec[v].mSize <= n,
         Reallocate(v, n, Going(v, "return", 0, vec[v].mSize, Raw))
  PROVE  IInv'
<1> DEFINE next == Going(v, "return", 0, vec[v].mSize, Raw)
<1>1. 0 \in Capacities /\ vec[v].mSize \in Capacities
  BY VecFacts, VectorAssumption DEF VecType, Capacities
<1>2. next \in CallType /\ next.pc = "return" /\ next.vec = v /\ next.to = Null /\ next.cap = 0
      /\ next.copied = 0
  BY <1>1, GoingFields
<1> HIDE DEF next
<1>3. StartOK(v, next, n)
  BY <1>2 DEF StartOK
<1> USE DEF next
<1> QED
  BY <1>3, BeginReallocate

LEMMA ReserveStep ==
  ASSUME IInv, NEW v \in Vecs, NEW n \in Capacities, Reserve(v, n)
  PROVE  IInv'
<1>1. n \in Nat /\ vec[v].mSize <= n
  BY VecFacts, VectorAssumption DEF Capacities, Reserve
<1> QED
  BY <1>1, ReturnStep DEF Reserve

LEMMA ShrinkToFitStep ==
  ASSUME IInv, NEW v \in Vecs, ShrinkToFit(v)
  PROVE  IInv'
<1>1. vec[v].mSize \in Nat /\ vec[v].mSize <= vec[v].mSize
  BY VecFacts
<1> QED
  BY <1>1, ReturnStep DEF ShrinkToFit

\* resize() to a larger size
LEMMA ResizeUpStep ==
  ASSUME IInv, call = Idle, NEW v \in Vecs, NEW count \in Capacities, NEW x \in Vals,
         count > vec[v].mSize,
         LET next == Going(v, "construct", vec[v].mSize, count, x) IN
         \/ count > vec[v].mCapacity /\ Reallocate(v, count, next)
         \/ /\ count <= vec[v].mCapacity /\ call' = next
            /\ UNCHANGED <<T, vec, heap, allocated, thrown>>
  PROVE  IInv'
<1> DEFINE size == vec[v].mSize
           next == Going(v, "construct", size, count, x)
<1>1. size \in Nat /\ size \in Capacities /\ count \in Nat
  BY VecFacts, VectorAssumption DEF VecType, Capacities
<1>2. /\ next \in CallType /\ next.pc = "construct" /\ next.vec = v /\ next.to = Null
      /\ next.cap = 0 /\ next.copied = 0
      /\ next.at = size /\ next.count = count /\ next.val = x
  BY <1>1, GoingFields
<1> HIDE DEF next
<1>3. StartOK(v, next, count)
  BY <1>1, <1>2 DEF StartOK
<1>4. count <= vec[v].mCapacity => StartOK(v, next, vec[v].mCapacity)
  BY <1>1, <1>2, VecFacts DEF StartOK
<1>5. next.pc # "return"
  BY <1>2
<1> USE DEF next
<1>6. CASE count > vec[v].mCapacity /\ Reallocate(v, count, next)
  BY <1>1, <1>3, <1>6, BeginReallocate
<1>7. CASE count <= vec[v].mCapacity /\ call' = next /\ UNCHANGED <<T, vec, heap, allocated, thrown>>
  BY <1>4, <1>5, <1>7, BeginInPlace
<1> QED
  BY <1>6, <1>7

-----------------------------------------------------------------------------
(* Calls that change the elements in place.                                *)

LEMMA ResizeDownStep ==
  ASSUME IInv, call = Idle, NEW v \in Vecs, NEW count \in Capacities, count < vec[v].mSize,
         heap' = [heap EXCEPT ![vec[v].buffPtr] = Destroyed(@, count .. vec[v].mSize - 1)],
         vec' = [vec EXCEPT ![v].mSize = count],
         UNCHANGED <<T, allocated, call, thrown>>
  PROVE  IInv'
<1> DEFINE b == vec[v].buffPtr
           size == vec[v].mSize
           new == Destroyed(heap[b], count .. size - 1)
<1>1. /\ size \in Nat /\ count \in Nat /\ vec[v].mCapacity \in Nat
      /\ size <= vec[v].mCapacity /\ b # Null
  BY VecFacts, VectorAssumption DEF Capacities
<1>2. /\ DOMAIN heap[b] = 0 .. vec[v].mCapacity - 1 /\ SlotsOK(heap[b]) /\ NonNegative(heap[b])
      /\ Alive(heap[b], size)
  BY <1>1, VecFacts
<1>3. /\ DOMAIN new = DOMAIN heap[b] /\ SlotsOK(new)
      /\ \A j \in DOMAIN heap[b] :
           /\ j \in count .. size - 1 => new[j].lives = heap[b][j].lives - Lifetime
           /\ j \notin count .. size - 1 => new[j] = heap[b][j]
  BY <1>2, DestroyedSlots
<1>4. ~thrown => Exact(heap[b], size)
  BY <1>1, IdleCounts DEF IInv, VecOK
<1>5. heap' = [heap EXCEPT ![b] = new]
  OBVIOUS
<1> HIDE DEF new
<1>6. Alive(new, count)
  BY <1>1, <1>2, <1>3 DEF Alive
<1>7. NonNegative(new)
  BY <1>1, <1>2, <1>3, LifetimeType, SMTT(20) DEF NonNegative, Alive, SlotsOK
<1>8. ~thrown => Exact(new, count)
  <2>1. ASSUME ~thrown, NEW i \in DOMAIN new
        PROVE  new[i].lives = IF i < count THEN Lifetime ELSE 0
    <3>1. i \in DOMAIN heap[b] /\ i \in Nat
      BY <1>1, <1>2, <1>3
    <3>2. heap[b][i].lives = IF i < size THEN Lifetime ELSE 0
      BY <1>4, <2>1, <3>1 DEF Exact
    <3>3. CASE i \in count .. size - 1
      BY <1>1, <1>3, <3>1, <3>2, <3>3, LifetimeType
    <3>4. CASE i \notin count .. size - 1
      BY <1>1, <1>3, <3>1, <3>2, <3>4
    <3> QED
      BY <3>3, <3>4
  <2> QED
    BY <2>1 DEF Exact
<1>9. call.to = Null /\ call.copied = 0 /\ call.cap = 0 /\ call.pc = "idle" /\ call \in CallType
  BY IdleCounts, TypeOKParts DEF IInv, MembersOK
<1>10. \A w \in Vecs : Count(w)' = vec'[w].mSize /\ Count(w) = vec[w].mSize
  BY <1>9 DEF Count
<1>11. Count(v)' = count /\ \A w \in Vecs \ {v} : Count(w)' = Count(w)
  <2>1. vec'[v].mSize = count /\ \A w \in Vecs \ {v} : vec'[w] = vec[w]
    BY VecFacts DEF VecType
  <2> QED
    BY <1>10, <2>1
<1>12. CallOK'
  BY <1>9 DEF CallOK
<1>13. count \in 0 .. vec[v].mCapacity
  BY <1>1
<1> QED
  BY <1>1, <1>3, <1>5, <1>6, <1>7, <1>8, <1>9, <1>11, <1>12, <1>13, EditBuffer

\* The modifiers for an int need not care about lifetimes.
LEMMA IntSlots ==
  ASSUME T = "int", NEW slots, NEW new, NEW n, NEW m, NonNegative(slots), SlotsOK(slots),
         DOMAIN new = DOMAIN slots, \A i \in DOMAIN slots : new[i].lives = slots[i].lives
  PROVE  NonNegative(new) /\ (Exact(slots, n) => Exact(new, m))
BY LifetimeType DEF NonNegative, Exact

LEMMA ShiftedLeftSlots ==
  ASSUME NEW slots, SlotsOK(slots), NEW first \in Int, NEW last \in Int,
         first .. last \subseteq DOMAIN slots
  PROVE  LET new == ShiftedLeft(slots, first, last) IN
         /\ DOMAIN new = DOMAIN slots /\ SlotsOK(new)
         /\ \A i \in DOMAIN slots :
              /\ new[i].lives = slots[i].lives
              /\ new[i].val = IF i + 1 \in first .. last THEN slots[i + 1].val ELSE slots[i].val
BY DEF SlotsOK, ShiftedLeft

LEMMA ShiftedRightSlots ==
  ASSUME NEW slots, SlotsOK(slots), NEW first \in Int, NEW last \in Int,
         first .. last \subseteq DOMAIN slots
  PROVE  LET new == ShiftedRight(slots, first, last) IN
         /\ DOMAIN new = DOMAIN slots /\ SlotsOK(new)
         /\ \A i \in DOMAIN slots :
              /\ new[i].lives = slots[i].lives
              /\ new[i].val = IF i - 1 \in first .. last THEN slots[i - 1].val ELSE slots[i].val
BY DEF SlotsOK, ShiftedRight

\* What erase() leaves.
ErasedSlots(slots, pos, last) ==
  LET erased == Destroyed(slots, {pos}) IN
  IF last > 0 THEN Destroyed(ShiftedLeft(erased, pos + 1, last), {last}) ELSE erased

LEMMA ErasedSlotsFacts ==
  ASSUME T = "int", NEW slots, SlotsOK(slots), NEW last \in Nat, NEW pos \in 0 .. last,
         0 .. last \subseteq DOMAIN slots
  PROVE  LET new == ErasedSlots(slots, pos, last) IN
         /\ DOMAIN new = DOMAIN slots /\ SlotsOK(new)
         /\ \A i \in DOMAIN slots : new[i].lives = slots[i].lives
         /\ \A i \in 0 .. last - 1 :
              new[i].val = IF i < pos THEN slots[i].val ELSE slots[i + 1].val
<1> DEFINE erased == Destroyed(slots, {pos})
           shifted == ShiftedLeft(erased, pos + 1, last)
           both == Destroyed(shifted, {last})
<1>1. /\ DOMAIN erased = DOMAIN slots /\ SlotsOK(erased)
      /\ \A i \in DOMAIN slots :
           erased[i].lives = slots[i].lives /\ (i # pos => erased[i] = slots[i])
  BY DestroyedSlots, LifetimeType DEF SlotsOK
<1> HIDE DEF erased
<1>2. /\ DOMAIN shifted = DOMAIN slots /\ SlotsOK(shifted)
      /\ \A i \in DOMAIN slots :
           /\ shifted[i].lives = erased[i].lives
           /\ shifted[i].val = IF i + 1 \in pos + 1 .. last THEN erased[i + 1].val ELSE erased[i].val
  <2>1. pos + 1 .. last \subseteq DOMAIN erased
    BY <1>1
  <2> QED
    BY <1>1, <2>1, ShiftedLeftSlots
<1> HIDE DEF shifted
<1>3. /\ DOMAIN both = DOMAIN slots /\ SlotsOK(both)
      /\ \A i \in DOMAIN slots :
           both[i].lives = shifted[i].lives /\ (i # last => both[i] = shifted[i])
  BY <1>2, DestroyedSlots, LifetimeType DEF SlotsOK
<1> HIDE DEF both
<1>4. CASE last > 0
  <2>1. ErasedSlots(slots, pos, last) = both
    BY <1>4 DEF ErasedSlots, both, shifted, erased
  <2>2. ASSUME NEW i \in 0 .. last - 1
        PROVE  both[i].val = IF i < pos THEN slots[i].val ELSE slots[i + 1].val
    <3>1. i \in DOMAIN slots /\ i + 1 \in DOMAIN slots /\ i # last
      OBVIOUS
    <3>2. i + 1 \in pos + 1 .. last <=> ~(i < pos)
      OBVIOUS
    <3> QED
      BY <1>1, <1>2, <1>3, <3>1, <3>2
  <2> QED
    BY <1>1, <1>2, <1>3, <2>1, <2>2
<1>5. CASE last = 0
  <2>1. ErasedSlots(slots, pos, last) = erased
    BY <1>5 DEF ErasedSlots, erased
  <2> QED
    BY <1>1, <1>5, <2>1
<1> QED
  BY <1>4, <1>5

LEMMA EraseStep ==
  ASSUME IInv, T = "int", NEW v \in Vecs, NEW pos \in 0 .. vec[v].mSize - 1, Erase(v, pos)
  PROVE  IInv'
<1> DEFINE b == vec[v].buffPtr
           last == vec[v].mSize - 1
           new == ErasedSlots(heap[b], pos, last)
<1>1. /\ last \in Nat /\ vec[v].mCapacity \in Nat /\ vec[v].mSize = last + 1
      /\ last < vec[v].mCapacity /\ b # Null
  BY VecFacts
<1>2. /\ DOMAIN heap[b] = 0 .. vec[v].mCapacity - 1 /\ SlotsOK(heap[b]) /\ NonNegative(heap[b])
      /\ Alive(heap[b], last + 1)
  BY <1>1, VecFacts
<1>3. /\ DOMAIN new = DOMAIN heap[b] /\ SlotsOK(new)
      /\ \A i \in DOMAIN heap[b] : new[i].lives = heap[b][i].lives
      /\ \A i \in 0 .. last - 1 :
           new[i].val = IF i < pos THEN heap[b][i].val ELSE heap[b][i + 1].val
  <2>1. 0 .. last \subseteq DOMAIN heap[b]
    BY <1>1, <1>2
  <2> QED
    BY <1>1, <1>2, <2>1, ErasedSlotsFacts
<1>4. ~thrown => Exact(heap[b], last + 1)
  BY <1>1, IdleCounts DEF IInv, VecOK, Erase
<1>5. heap' = [heap EXCEPT ![b] = new]
  BY DEF Erase, ErasedSlots
<1> HIDE DEF new
<1>6. Alive(new, last)
  <2>1. ASSUME NEW i \in 0 .. last - 1
        PROVE  new[i].val # Raw /\ new[i].lives >= Lifetime
    <3>1. /\ i \in 0 .. last /\ i + 1 \in 0 .. last
          /\ i \in DOMAIN heap[b]
      BY <1>1, <1>2, SMTT(20)
    <3>2. /\ heap[b][i].val # Raw /\ heap[b][i].lives >= Lifetime
          /\ heap[b][i + 1].val # Raw
      BY <1>1, <1>2, <3>1 DEF Alive
    <3> QED
      BY <1>3, <3>1, <3>2
  <2> QED
    BY <2>1 DEF Alive
<1>7. NonNegative(new) /\ (~thrown => Exact(new, last))
  BY <1>2, <1>3, <1>4, IntSlots, ZenonT(30)
<1>8. /\ vec' = [vec EXCEPT ![v].mSize = last] /\ UNCHANGED <<T, allocated, call, thrown>>
      /\ call = Idle
  BY DEF Erase
<1>9. call.to = Null /\ call.copied = 0 /\ call.cap = 0 /\ call.pc = "idle" /\ call \in CallType
  BY <1>8, IdleCounts, TypeOKParts DEF IInv, MembersOK
<1>10. Count(v)' = last /\ \A w \in Vecs \ {v} : Count(w)' = Count(w)
  <2>1. vec'[v].mSize = last /\ \A w \in Vecs \ {v} : vec'[w] = vec[w]
    BY <1>8, VecFacts DEF VecType
  <2> QED
    BY <1>8, <1>9, <2>1 DEF Count
<1>11. CallOK'
  BY <1>8, <1>9 DEF CallOK
<1>12. last \in 0 .. vec[v].mCapacity
  BY <1>1
<1> QED
  BY <1>1, <1>3, <1>5, <1>6, <1>7, <1>8, <1>9, <1>10, <1>11, <1>12, EditBuffer

LEMMA ClearStep ==
  ASSUME IInv, T = "int", NEW v \in Vecs, Clear(v)
  PROVE  IInv'
<1> DEFINE b == vec[v].buffPtr
           size == vec[v].mSize
           new == [heap[b] EXCEPT ![0] = [val |-> Raw, lives |-> @.lives - size * Lifetime]]
<1>1. size \in Nat /\ size > 0 /\ size <= vec[v].mCapacity /\ vec[v].mCapacity \in Nat /\ b # Null
  BY VecFacts DEF Clear
<1>2. /\ DOMAIN heap[b] = 0 .. vec[v].mCapacity - 1 /\ SlotsOK(heap[b]) /\ NonNegative(heap[b])
      /\ 0 \in DOMAIN heap[b]
  BY <1>1, VecFacts
<1>3. size * Lifetime = 0
  BY <1>1, LifetimeType
<1>4. /\ DOMAIN new = DOMAIN heap[b] /\ SlotsOK(new)
      /\ \A i \in DOMAIN heap[b] : new[i].lives = heap[b][i].lives
  <2>1. heap[b][0].lives \in Int /\ heap[b][0].lives - size * Lifetime = heap[b][0].lives
    BY <1>2, <1>3 DEF SlotsOK
  <2>2. new = [heap[b] EXCEPT ![0] = [val |-> Raw, lives |-> heap[b][0].lives]]
    BY <2>1
  <2> HIDE DEF new
  <2> QED
    BY <1>2, <2>1, <2>2 DEF SlotsOK
<1>5. ~thrown => Exact(heap[b], size)
  BY <1>1, IdleCounts DEF IInv, VecOK, Clear
<1>6. heap' = [heap EXCEPT ![b] = new]
  BY DEF Clear
<1> HIDE DEF new
<1>7. Alive(new, 0)
  BY DEF Alive
<1>8. NonNegative(new) /\ (~thrown => Exact(new, 0))
  BY <1>2, <1>4, <1>5, IntSlots
<1>9. /\ vec' = [vec EXCEPT ![v].mSize = 0] /\ UNCHANGED <<T, allocated, call, thrown>>
      /\ call = Idle
  BY DEF Clear
<1>10. call.to = Null /\ call.copied = 0 /\ call.cap = 0 /\ call.pc = "idle" /\ call \in CallType
  BY <1>9, IdleCounts, TypeOKParts DEF IInv, MembersOK
<1>11. Count(v)' = 0 /\ \A w \in Vecs \ {v} : Count(w)' = Count(w)
  <2>1. vec'[v].mSize = 0 /\ \A w \in Vecs \ {v} : vec'[w] = vec[w]
    BY <1>9, VecFacts DEF VecType
  <2> QED
    BY <1>9, <1>10, <2>1 DEF Count
<1>12. CallOK'
  BY <1>9, <1>10 DEF CallOK
<1>13. 0 \in 0 .. vec[v].mCapacity
  BY <1>1
<1> QED
  BY <1>1, <1>4, <1>6, <1>7, <1>8, <1>9, <1>10, <1>11, <1>12, <1>13, EditBuffer

-----------------------------------------------------------------------------
(* The steps of a call.                                                    *)

\* What the invariant says of the call in progress.
LEMMA CallFacts ==
  ASSUME IInv, call # Idle
  PROVE  /\ call \in CallType /\ call.pc # "idle" /\ call.vec \in Vecs
         /\ call.at \in Nat /\ call.count \in Nat /\ call.copied \in Nat /\ call.cap \in Nat
         /\ call.at \in Capacities /\ call.count \in Capacities /\ call.count <= MaxCapacity
         /\ call.to = Null => call.copied = 0 /\ call.cap = 0
<1>1. call \in CallType /\ CallOK /\ NewBufferOK
  BY TypeOKParts DEF IInv, MembersOK
<1>2. call.pc # "idle"
  BY <1>1 DEF CallOK
<1> QED
  BY <1>1, <1>2, VectorAssumption DEF CallType, CallOK, NewBufferOK, Capacities

LEMMA ConstructElementStep ==
  ASSUME IInv, ConstructElement, NEW v \in Vecs, call.vec = v
  PROVE  IInv'
<1> DEFINE b == vec[v].buffPtr
           size == vec[v].mSize
           at == call.at
           new == Constructed(heap[b], at, call.val)
<1>1. /\ call \in CallType /\ call.pc = "construct" /\ v \in Vecs /\ at \in Nat /\ call.count \in Nat
      /\ call.to = Null /\ call.copied = 0 /\ call.cap = 0 /\ call.count \in Capacities
  BY CallFacts DEF ConstructElement, Idle
<1>2. /\ size <= at /\ at < call.count /\ call.count <= vec[v].mCapacity /\ call.val \in Vals
      /\ \A i \in size .. at - 1 : heap[b][i].val = call.val /\ heap[b][i].lives >= Lifetime
  BY <1>1 DEF IInv, CallOK
<1>3. size \in Nat /\ vec[v].mCapacity \in Nat /\ b # Null
  BY <1>1, <1>2, VecFacts
<1>4. /\ DOMAIN heap[b] = 0 .. vec[v].mCapacity - 1 /\ SlotsOK(heap[b]) /\ NonNegative(heap[b])
      /\ Alive(heap[b], size)
  BY <1>1, <1>3, VecFacts
<1>5. at \in DOMAIN heap[b]
  BY <1>1, <1>2, <1>3, <1>4
<1>6. /\ DOMAIN new = DOMAIN heap[b] /\ SlotsOK(new)
      /\ new[at].val = call.val /\ new[at].lives = heap[b][at].lives + Lifetime
      /\ \A j \in DOMAIN heap[b] \ {at} : new[j] = heap[b][j]
  <2>1. call.val \in Vals \cup {Raw}
    BY <1>2
  <2> QED
    BY <1>4, <1>5, <2>1, ConstructedSlots DEF Constructed
<1>7. ~thrown => Exact(heap[b], at)
  BY <1>1, <1>3 DEF IInv, VecOK, Count
<1>8. heap' = [heap EXCEPT ![b] = new]
  BY DEF ConstructElement, Buffer
<1> HIDE DEF new
<1>9. heap[b][at].lives \in Int /\ heap[b][at].lives >= 0
  BY <1>4, <1>5 DEF SlotsOK, NonNegative
<1>10. NonNegative(new)
  BY <1>4, <1>5, <1>6, <1>9, LifetimeType DEF NonNegative
<1>11. ~thrown => Exact(new, at + 1)
  <2>1. ASSUME ~thrown, NEW i \in DOMAIN new
        PROVE  new[i].lives = IF i < at + 1 THEN Lifetime ELSE 0
    <3>1. i \in DOMAIN heap[b] /\ i \in Nat
      BY <1>3, <1>4, <1>6
    <3>2. heap[b][i].lives = IF i < at THEN Lifetime ELSE 0
      BY <1>7, <2>1, <3>1 DEF Exact
    <3>3. CASE i = at
      BY <1>1, <1>6, <3>2, <3>3, LifetimeType
    <3>4. CASE i # at
      BY <1>1, <1>6, <3>1, <3>2, <3>4
    <3> QED
      BY <3>3, <3>4
  <2> QED
    BY <2>1 DEF Exact
<1>12. Alive(new, at + 1)
  <2>1. ASSUME NEW i \in 0 .. at
        PROVE  new[i].val # Raw /\ new[i].lives >= Lifetime
    <3>1. i \in DOMAIN heap[b] /\ i \in Nat
      BY <1>1, <1>2, <1>3, <1>4
    <3>2. CASE i = at
      BY <1>2, <1>6, <1>9, <3>2, LifetimeType, VectorAssumption
    <3>3. CASE i # at /\ i < size
      <4>1. i \in 0 .. size - 1
        BY <1>3, <3>1, <3>3
      <4>2. new[i] = heap[b][i]
        BY <1>6, <3>1, <3>3
      <4> QED
        BY <1>4, <4>1, <4>2 DEF Alive
    <3>4. CASE i # at /\ i >= size
      <4>1. i \in size .. at - 1
        BY <1>1, <1>3, <3>4
      <4>2. new[i] = heap[b][i]
        BY <1>6, <3>1, <3>4
      <4> QED
        BY <1>2, <4>1, <4>2, VectorAssumption
    <3> QED
      BY <1>3, <3>1, <3>2, <3>3, <3>4
  <2>2. 0 .. (at + 1) - 1 = 0 .. at
    BY <1>1
  <2> QED
    BY <2>1, <2>2 DEF Alive
<1>13. UNCHANGED <<T, allocated, thrown>>
  BY DEF ConstructElement
<1>14. CASE at + 1 = call.count
  <2>1. vec' = [vec EXCEPT ![v].mSize = at + 1] /\ call' = Idle
    BY <1>14 DEF ConstructElement
  <2>2. at + 1 \in 0 .. vec[v].mCapacity
    BY <1>1, <1>2, <1>3
  <2>3. call' \in CallType /\ call'.to = Null /\ call'.copied = 0 /\ call'.cap = 0 /\ call'.pc = "idle"
    BY <2>1, VectorAssumption DEF Idle, CallType, Capacities
  <2>4. CallOK'
    BY <2>1, <2>3 DEF CallOK
  <2>5. vec'[v].mSize = at + 1 /\ \A w \in Vecs \ {v} : vec'[w] = vec[w]
    BY <1>1, <2>1, VecFacts DEF VecType
  <2>6. Count(v)' = at + 1 /\ \A w \in Vecs \ {v} : Count(w)' = Count(w)
    BY <1>1, <2>3, <2>5 DEF Count
  <2> QED
    BY <1>1, <1>3, <1>6, <1>8, <1>10, <1>11, <1>12, <1>13, <2>1, <2>2, <2>3, <2>4, <2>6, EditBuffer
<1>15. CASE at + 1 # call.count
  <2>1. vec' = vec /\ call' = [call EXCEPT !.at = at + 1]
    BY <1>15 DEF ConstructElement
  <2>2. vec' = [vec EXCEPT ![v].mSize = size]
    BY <1>1, <2>1, VecFacts DEF VecType
  <2>3. at + 1 \in Capacities /\ at + 1 < call.count
    BY <1>1, <1>2, <1>15, VectorAssumption DEF Capacities
  <2>4. /\ call' \in CallType /\ call'.to = Null /\ call'.copied = 0 /\ call'.cap = 0
        /\ call'.pc = "construct" /\ call'.vec = v /\ call'.at = at + 1
        /\ call'.count = call.count /\ call'.val = call.val
    BY <1>1, <2>1, <2>3 DEF CallType
  <2>5. heap'[b] = new
    BY <1>1, <1>3, <1>8, VecFacts DEF IInv
  <2>6. Lifetime' = Lifetime
    BY <1>13 DEF Lifetime
  <2>7. \A i \in size .. at : new[i].val = call.val /\ new[i].lives >= Lifetime
    <3>1. ASSUME NEW i \in size .. at
          PROVE  new[i].val = call.val /\ new[i].lives >= Lifetime
      <4>1. CASE i = at
        BY <1>6, <1>9, <4>1, LifetimeType
      <4>2. CASE i # at
        <5>1. i \in size .. at - 1 /\ i \in DOMAIN heap[b] \ {at}
          BY <1>1, <1>2, <1>3, <1>4, <4>2
        <5> QED
          BY <1>2, <1>6, <5>1
      <4> QED
        BY <4>1, <4>2
    <3> QED
      BY <3>1
  <2>8. (at + 1) - 1 = at
    BY <1>1
  <2>9. CallOK'
    BY <1>1, <1>2, <1>3, <2>1, <2>3, <2>4, <2>5, <2>6, <2>7, <2>8 DEF CallOK
  <2>10. Count(v)' = at + 1 /\ \A w \in Vecs \ {v} : Count(w)' = Count(w)
    BY <1>1, <2>1, <2>4 DEF Count
  <2>11. size \in 0 .. vec[v].mCapacity
    BY <1>1, <1>2, <1>3
  <2>12. Alive(new, size)
    BY <1>1, <1>2, <1>3, <1>12 DEF Alive
  <2> QED
    BY <1>1, <1>3, <1>6, <1>8, <1>10, <1>11, <1>13, <2>2, <2>4, <2>9, <2>10, <2>11, <2>12, EditBuffer
<1> QED
  BY <1>14, <1>15

\* What insert() leaves.
InsertedSlots(slots, at, size, x) ==
  Constructed(IF size > 1 THEN ShiftedRight(slots, at, size - 1) ELSE slots, at, x)

LEMMA InsertedSlotsFacts ==
  ASSUME T = "int", NEW slots, SlotsOK(slots), NEW size \in Nat, 0 .. size \subseteq DOMAIN slots,
         NEW at \in 0 .. size, NEW x \in Vals, ~(size = 1 /\ at = 0)
  PROVE  LET new == InsertedSlots(slots, at, size, x) IN
         /\ DOMAIN new = DOMAIN slots /\ SlotsOK(new)
         /\ \A i \in DOMAIN slots : new[i].lives = slots[i].lives
         /\ \A i \in 0 .. size :
              new[i].val = IF i < at THEN slots[i].val
                           ELSE IF i = at THEN x ELSE slots[i - 1].val
<1> DEFINE shifted == IF size > 1 THEN ShiftedRight(slots, at, size - 1) ELSE slots
           new == Constructed(shifted, at, x)
<1>1. /\ DOMAIN shifted = DOMAIN slots /\ SlotsOK(shifted)
      /\ \A i \in DOMAIN slots : shifted[i].lives = slots[i].lives
      /\ \A i \in 0 .. size :
           i # at => shifted[i].val = IF i < at THEN slots[i].val ELSE slots[i - 1].val
  <2>1. CASE size > 1
    <3>1. at .. size - 1 \subseteq DOMAIN slots
      OBVIOUS
    <3>2. shifted = ShiftedRight(slots, at, size - 1)
      BY <2>1
    <3> HIDE DEF shifted
    <3>3. /\ DOMAIN shifted = DOMAIN slots /\ SlotsOK(shifted)
          /\ \A i \in DOMAIN slots :
               /\ shifted[i].lives = slots[i].lives
               /\ shifted[i].val = IF i - 1 \in at .. size - 1 THEN slots[i - 1].val ELSE slots[i].val
      BY <3>1, <3>2, ShiftedRightSlots
    <3>4. ASSUME NEW i \in 0 .. size, i # at
          PROVE  shifted[i].val = IF i < at THEN slots[i].val ELSE slots[i - 1].val
      <4>1. i \in DOMAIN slots
        OBVIOUS
      <4>2. i - 1 \in at .. size - 1 <=> ~(i < at)
        BY <3>4
      <4> QED
        BY <3>3, <4>1, <4>2
    <3> QED
      BY <3>3, <3>4
  <2>2. CASE ~(size > 1)
    <3>1. shifted = slots
      BY <2>2
    <3>2. \A i \in 0 .. size : i # at => i < at
      BY <2>2
    <3> QED
      BY <3>1, <3>2
  <2> QED
    BY <2>1, <2>2
<1> HIDE DEF shifted
<1>2. at \in DOMAIN slots
  OBVIOUS
<1>3. /\ DOMAIN new = DOMAIN slots /\ SlotsOK(new)
      /\ new[at].val = x /\ new[at].lives = shifted[at].lives + Lifetime
      /\ \A j \in DOMAIN slots \ {at} : new[j] = shifted[j]
  BY <1>1, <1>2, ConstructedSlots
<1>4. InsertedSlots(slots, at, size, x) = new
  BY DEF InsertedSlots, shifted
<1> HIDE DEF new
<1>5. \A i \in DOMAIN slots : new[i].lives = slots[i].lives
  BY <1>1, <1>2, <1>3, LifetimeType DEF SlotsOK
<1>6. ASSUME NEW i \in 0 .. size
      PROVE  new[i].val = IF i < at THEN slots[i].val
                          ELSE IF i = at THEN x ELSE slots[i - 1].val
  BY <1>1, <1>3
<1> QED
  BY <1>3, <1>4, <1>5, <1>6

LEMMA InsertElementStep ==
  ASSUME IInv, InsertElement, NEW v \in Vecs, call.vec = v
  PROVE  IInv'
<1> DEFINE b == vec[v].buffPtr
           size == vec[v].mSize
           at == call.at
           new == InsertedSlots(heap[b], at, size, call.val)
<1>1. /\ call \in CallType /\ call.pc = "insert" /\ v \in Vecs /\ at \in Nat /\ call.count \in Nat
      /\ call.to = Null /\ call.copied = 0 /\ call.cap = 0
  BY CallFacts DEF InsertElement, Idle
<1>2. /\ T = "int" /\ at <= size /\ call.count = size + 1 /\ call.count <= vec[v].mCapacity
      /\ call.val \in Vals /\ ~(size = 1 /\ at = 0)
  BY <1>1 DEF IInv, CallOK
<1>3. size \in Nat /\ vec[v].mCapacity \in Nat /\ b # Null
  BY <1>1, <1>2, VecFacts
<1>4. /\ DOMAIN heap[b] = 0 .. vec[v].mCapacity - 1 /\ SlotsOK(heap[b]) /\ NonNegative(heap[b])
      /\ Alive(heap[b], size)
  BY <1>1, <1>3, VecFacts
<1>5. at \in 0 .. size /\ 0 .. size \subseteq DOMAIN heap[b]
  BY <1>1, <1>2, <1>3, <1>4
<1>6. /\ DOMAIN new = DOMAIN heap[b] /\ SlotsOK(new)
      /\ \A i \in DOMAIN heap[b] : new[i].lives = heap[b][i].lives
      /\ \A i \in 0 .. size :
           new[i].val = IF i < at THEN heap[b][i].val
                        ELSE IF i = at THEN call.val ELSE heap[b][i - 1].val
  <2>1. T = "int" /\ call.val \in Vals /\ ~(size = 1 /\ at = 0)
    BY <1>2
  <2> QED
    BY <1>3, <1>4, <1>5, <2>1, InsertedSlotsFacts DEF InsertedSlots, Constructed
<1>7. ~thrown => Exact(heap[b], size)
  BY <1>1, <1>3 DEF IInv, VecOK, Count
<1>8. heap' = [heap EXCEPT ![b] = new]
  BY DEF InsertElement, Buffer, Size, InsertedSlots
<1> HIDE DEF new
<1>9. NonNegative(new) /\ (~thrown => Exact(new, size + 1))
  BY <1>2, <1>4, <1>6, <1>7, IntSlots, ZenonT(30)
<1>10. Alive(new, size + 1)
  <2>1. ASSUME NEW i \in 0 .. size
        PROVE  new[i].val # Raw /\ new[i].lives >= Lifetime
    <3>1. i \in DOMAIN heap[b] /\ heap[b][i].lives \in Int /\ heap[b][i].lives >= 0
      BY <1>4, <1>5 DEF SlotsOK, NonNegative
    <3>2. new[i].lives >= Lifetime
      BY <1>2, <1>6, <3>1, LifetimeType
    <3>3. CASE i < at
      <4>1. i \in 0 .. size - 1
        BY <1>1, <1>2, <1>3, <3>3
      <4>2. new[i].val = heap[b][i].val
        BY <1>6, <3>3
      <4> QED
        BY <1>4, <3>2, <4>1, <4>2 DEF Alive
    <3>4. CASE i = at
      BY <1>2, <1>6, <3>2, <3>4, VectorAssumption
    <3>5. CASE i > at
      <4>1. i - 1 \in 0 .. size - 1
        BY <1>1, <1>3, <3>5
      <4> QED
        BY <1>1, <1>4, <1>6, <3>2, <3>5, <4>1 DEF Alive
    <3> QED
      BY <1>1, <3>3, <3>4, <3>5
  <2>2. 0 .. (size + 1) - 1 = 0 .. size
    BY <1>3
  <2> QED
    BY <2>1, <2>2 DEF Alive
<1>11. /\ vec' = [vec EXCEPT ![v].mSize = size + 1] /\ call' = Idle
       /\ UNCHANGED <<T, allocated, thrown>>
  BY <1>2 DEF InsertElement
<1>12. size + 1 \in 0 .. vec[v].mCapacity
  BY <1>2, <1>3
<1>13. call' \in CallType /\ call'.to = Null /\ call'.copied = 0 /\ call'.cap = 0 /\ call'.pc = "idle"
  BY <1>11, VectorAssumption DEF Idle, CallType, Capacities
<1>14. CallOK'
  BY <1>11, <1>13 DEF CallOK
<1>15. vec'[v].mSize = size + 1 /\ \A w \in Vecs \ {v} : vec'[w] = vec[w]
  BY <1>1, <1>11, VecFacts DEF VecType
<1>16. Count(v)' = size + 1 /\ \A w \in Vecs \ {v} : Count(w)' = Count(w)
  BY <1>1, <1>13, <1>15 DEF Count
<1> QED
  BY <1>1, <1>3, <1>6, <1>8, <1>9, <1>10, <1>11, <1>12, <1>13, <1>14, <1>16, EditBuffer

LEMMA CopyElementStep ==
  ASSUME IInv, CopyElement, NEW v \in Vecs, call.vec = v
  PROVE  IInv'
<1> DEFINE old == heap[vec[v].buffPtr]
           size == vec[v].mSize
           k == call.copied
           new == Constructed(heap[call.to], k, old[k].val)
<1>1. /\ call \in CallType /\ call.pc # "idle" /\ k \in Nat /\ call.cap \in Nat /\ size \in Nat
      /\ call.at \in Nat /\ call.count \in Nat
      /\ call.to # Null /\ call.to \in Buffers /\ k < size
  BY CallFacts, VecFacts DEF CopyElement, Size, CallType, Idle
<1>2. /\ call.to \in allocated /\ \A w \in Vecs : vec[w].buffPtr # call.to
      /\ DOMAIN heap[call.to] = 0 .. call.cap - 1 /\ NonNegative(heap[call.to])
      /\ \A i \in 0 .. k - 1 :
           heap[call.to][i].val = old[i].val /\ heap[call.to][i].lives >= Lifetime
      /\ ~thrown => Exact(heap[call.to], k)
  BY <1>1 DEF IInv, NewBufferOK
<1>3. k < call.cap /\ size <= call.cap
  BY <1>1 DEF IInv, CallOK, CallType
<1>4. DOMAIN heap = Buffers /\ MembersOK /\ \A c \in Buffers : SlotsOK(heap[c])
  BY TypeOKParts DEF IInv
<1>5. k \in DOMAIN heap[call.to] /\ k \in DOMAIN old /\ old[k].val \in Vals \cup {Raw}
  <2>1. vec[v].buffPtr # Null /\ size <= vec[v].mCapacity /\ vec[v].mCapacity \in Nat
    BY <1>1, VecFacts
  <2>2. DOMAIN old = 0 .. vec[v].mCapacity - 1 /\ SlotsOK(old)
    BY <2>1, VecFacts
  <2> HIDE DEF old
  <2>3. k \in DOMAIN old /\ k \in DOMAIN heap[call.to]
    BY <1>1, <1>2, <1>3, <2>1, <2>2
  <2> QED
    BY <2>2, <2>3 DEF SlotsOK
<1>6. /\ DOMAIN new = DOMAIN heap[call.to] /\ SlotsOK(new)
      /\ new[k].val = old[k].val /\ new[k].lives = heap[call.to][k].lives + Lifetime
      /\ \A j \in DOMAIN heap[call.to] \ {k} : new[j] = heap[call.to][j]
  <2>1. SlotsOK(heap[call.to])
    BY <1>1, <1>4
  <2> QED
    BY <1>5, <2>1, ConstructedSlots DEF Constructed
<1>7. /\ heap' = [heap EXCEPT ![call.to] = new] /\ call' = [call EXCEPT !.copied = k + 1]
      /\ UNCHANGED <<T, vec, allocated, thrown>>
  BY DEF CopyElement, Buffer
<1> HIDE DEF new
<1>8. /\ heap'[call.to] = new /\ DOMAIN heap' = Buffers
      /\ \A c \in Buffers \ {call.to} : heap'[c] = heap[c]
  BY <1>1, <1>4, <1>7
<1>9. k + 1 \in Capacities
  BY <1>1, VecFacts, VectorAssumption DEF Capacities
<1>10. /\ call' \in CallType /\ call'.copied = k + 1 /\ call'.pc = call.pc /\ call'.vec = v
       /\ call'.to = call.to /\ call'.cap = call.cap /\ call'.at = call.at
       /\ call'.count = call.count /\ call'.val = call.val
  BY <1>1, <1>7, <1>9 DEF CallType
<1>11. TypeOK'
  <2>1. MembersOK'
    BY <1>4, <1>7, <1>10 DEF MembersOK
  <2> QED
    BY <1>4, <1>6, <1>8, <2>1, TypeOKParts
<1>12. \A w \in Vecs : vec[w].buffPtr # Null =>
         vec[w].buffPtr \in allocated /\ heap'[vec[w].buffPtr] = heap[vec[w].buffPtr]
  BY <1>2, <1>8, VecFacts
<1>13. ASSUME NEW w \in Vecs
       PROVE  VecOK(w)'
  <2>1. Count(w)' = Count(w)
    BY <1>1, <1>7, <1>10 DEF Count
  <2> QED
    BY <1>7, <1>12, <2>1, Untouched
<1>14. CallOK'
  <2>1. CallOK
    BY DEF IInv
  <2> QED
    BY <1>1, <1>7, <1>10, <2>1 DEF CallOK
<1>15. heap[call.to][k].lives \in Int /\ heap[call.to][k].lives >= 0
  BY <1>1, <1>2, <1>4, <1>5 DEF SlotsOK, NonNegative
<1>16. NewBufferOK'
  <2>1. \A i \in 0 .. k : new[i].val = old[i].val /\ new[i].lives >= Lifetime
    <3>1. ASSUME NEW i \in 0 .. k
          PROVE  new[i].val = old[i].val /\ new[i].lives >= Lifetime
      <4>1. CASE i = k
        BY <1>6, <1>15, <4>1, LifetimeType
      <4>2. CASE i # k
        <5>1. i \in 0 .. k - 1 /\ i \in DOMAIN heap[call.to] \ {k}
          BY <1>1, <1>2, <1>3, <4>2
        <5> QED
          BY <1>2, <1>6, <5>1
      <4> QED
        BY <4>1, <4>2
    <3> QED
      BY <3>1
  <2>2. NonNegative(new)
    BY <1>2, <1>5, <1>6, <1>15, LifetimeType DEF NonNegative
  <2>3. ~thrown => Exact(new, k + 1)
    <3>1. ASSUME ~thrown, NEW i \in DOMAIN new
          PROVE  new[i].lives = IF i < k + 1 THEN Lifetime ELSE 0
      <4>1. i \in DOMAIN heap[call.to] /\ i \in Nat
        BY <1>1, <1>2, <1>6
      <4>2. heap[call.to][i].lives = IF i < k THEN Lifetime ELSE 0
        BY <1>2, <3>1, <4>1 DEF Exact
      <4>3. CASE i = k
        BY <1>1, <1>6, <4>2, <4>3, LifetimeType
      <4>4. CASE i # k
        BY <1>1, <1>6, <4>1, <4>2, <4>4
      <4> QED
        BY <4>3, <4>4
    <3> QED
      BY <3>1 DEF Exact
  <2>4. heap'[vec[v].buffPtr] = old
    BY <1>1, <1>12, VecFacts
  <2>5. Lifetime' = Lifetime
    BY <1>7 DEF Lifetime
  <2>6. 0 .. (k + 1) - 1 = 0 .. k /\ k + 1 <= size
    BY <1>1
  <2>7. ~thrown' => Exact(heap[call.to], call.copied)'
    BY <1>7, <1>8, <1>10, <2>3, <2>5 DEF Exact
  <2>8. NonNegative(heap[call.to])'
    BY <1>8, <1>10, <2>2 DEF NonNegative
  <2>9. \A i \in 0 .. k : heap'[call.to][i].val = heap'[vec[v].buffPtr][i].val
                          /\ heap'[call.to][i].lives >= Lifetime'
    BY <1>8, <2>1, <2>4, <2>5
  <2> HIDE DEF old
  <2> QED
    BY <1>1, <1>2, <1>6, <1>7, <1>8, <1>10, <2>6, <2>7, <2>8, <2>9 DEF NewBufferOK
<1>17. OthersEmpty'
  BY <1>7, <1>8, <1>10 DEF IInv, OthersEmpty
<1> QED
  BY <1>7, <1>8, <1>11, <1>13, <1>14, <1>16, <1>17 DEF IInv, Disjoint

LEMMA ThrowStep ==
  ASSUME IInv, Throw
  PROVE  IInv'
<1>1. call' = Idle /\ thrown' = TRUE /\ UNCHANGED <<T, vec, allocated>>
  BY DEF Throw
<1>2. DOMAIN heap = Buffers /\ MembersOK /\ \A c \in Buffers : SlotsOK(heap[c])
  BY TypeOKParts DEF IInv
<1>3. /\ call' \in CallType /\ call'.pc = "idle" /\ call'.to = Null /\ call'.copied = 0
      /\ call'.cap = 0
  BY <1>1, VectorAssumption DEF Idle, CallType, Capacities
<1>4. DOMAIN heap' = Buffers /\ \A c \in Buffers : SlotsOK(heap'[c])
  <2>1. SlotsOK(Uninitialized(0))
    BY UninitializedSlots, VectorAssumption DEF Capacities
  <2>2. CASE call.to = Null
    BY <1>2, <2>2 DEF Throw
  <2>3. CASE call.to # Null
    <3>1. heap' = [heap EXCEPT ![call.to] = Uninitialized(0)]
      BY <2>3 DEF Throw
    <3> QED
      BY <1>2, <2>1, <3>1
  <2> QED
    BY <2>2, <2>3
<1>5. TypeOK'
  <2>1. MembersOK'
    BY <1>1, <1>2, <1>3 DEF MembersOK
  <2> QED
    BY <1>4, <2>1, TypeOKParts
<1>6. ASSUME NEW w \in Vecs
      PROVE  VecOK(w)'
  <2>1. vec[w].buffPtr # Null =>
          vec[w].buffPtr \in allocated /\ heap'[vec[w].buffPtr] = heap[vec[w].buffPtr]
    BY <1>2, VecFacts DEF Throw, IInv, NewBufferOK
  <2> QED
    BY <1>1, <2>1, Untouched
<1>7. CallOK' /\ NewBufferOK' /\ OthersEmpty'
  BY <1>1, <1>3 DEF CallOK, NewBufferOK, OthersEmpty
<1> QED
  BY <1>1, <1>4, <1>5, <1>6, <1>7 DEF IInv, Disjoint

\* The buffer of v, if it has one, is freed with its elements.
LEMMA FreedFacts ==
  ASSUME IInv, NEW v \in Vecs,
         heap' = IF vec[v].buffPtr = Null THEN heap ELSE Freed(v),
         allocated' = allocated \ {vec[v].buffPtr}
  PROVE  /\ DOMAIN heap' = Buffers /\ \A c \in Buffers : SlotsOK(heap'[c])
         /\ allocated' \subseteq Buffers
         /\ \A c \in Buffers : c # vec[v].buffPtr =>
              heap'[c] = heap[c] /\ (c \in allocated => c \in allocated')
         /\ ~thrown /\ Count(v) = vec[v].mSize /\ vec[v].buffPtr # Null =>
              DOMAIN heap'[vec[v].buffPtr] = {}
<1>1. /\ DOMAIN heap = Buffers /\ \A c \in Buffers : SlotsOK(heap[c])
      /\ allocated \subseteq Buffers
  BY TypeOKParts DEF IInv, MembersOK
<1>2. CASE vec[v].buffPtr = Null
  BY <1>1, <1>2
<1>3. CASE vec[v].buffPtr # Null
  <2>1. heap' = Freed(v) /\ vec[v].buffPtr \in Buffers
    BY <1>3, VecFacts
  <2> QED
    BY <1>1, <1>3, <2>1, FreedHeap
<1> QED
  BY <1>2, <1>3

LEMMA ReplaceStep ==
  ASSUME IInv, Replace, NEW v \in Vecs, call.vec = v
  PROVE  IInv'
<1> DEFINE b == vec[v].buffPtr
           size == vec[v].mSize
           to == call.to
<1>1. /\ call \in CallType /\ call.pc # "idle" /\ size \in Nat /\ vec[v].mCapacity \in Nat
      /\ call.cap \in Nat /\ call.cap \in Capacities /\ call.at \in Nat /\ call.count \in Nat
      /\ to # Null /\ to \in Buffers /\ call.copied = size
  BY CallFacts, VecFacts DEF Replace, Size, CallType, Idle
<1>2. /\ to \in allocated /\ \A w \in Vecs : vec[w].buffPtr # to
      /\ DOMAIN heap[to] = 0 .. call.cap - 1 /\ NonNegative(heap[to])
      /\ \A i \in 0 .. size - 1 :
           heap[to][i].val = heap[b][i].val /\ heap[to][i].lives >= Lifetime
      /\ ~thrown => Exact(heap[to], size)
  BY <1>1 DEF IInv, NewBufferOK
<1>3. size <= call.cap
  BY <1>1 DEF IInv, CallOK, CallType
<1>4. DOMAIN heap = Buffers /\ MembersOK /\ \A c \in Buffers : SlotsOK(heap[c])
  BY TypeOKParts DEF IInv
<1>5. \A w : Count(w) = vec[w].mSize
  BY <1>1 DEF Count
<1>6. b # Null => Alive(heap[b], size) /\ b \in Buffers
  BY VecFacts
<1>7. UNCHANGED <<T, thrown>> /\ Lifetime' = Lifetime
  BY DEF Replace, Lifetime
<1>8. /\ DOMAIN heap' = Buffers /\ \A c \in Buffers : SlotsOK(heap'[c])
      /\ allocated' \subseteq Buffers
      /\ \A c \in Buffers : c # b => heap'[c] = heap[c] /\ (c \in allocated => c \in allocated')
      /\ ~thrown /\ b # Null => DOMAIN heap'[b] = {}
  <2>1. CASE vec[v].mCapacity > 0
    <3>1. b # Null
      BY <2>1, VecFacts
    <3>2. heap' = Freed(v) /\ allocated' = allocated \ {b}
      BY <2>1 DEF Replace, Buffer
    <3> QED
      BY <1>5, <3>1, <3>2, FreedFacts
  <2>2. CASE ~(vec[v].mCapacity > 0)
    <3>1. vec[v].mCapacity = 0 /\ UNCHANGED <<heap, allocated>>
      BY <1>1, <2>2 DEF Replace
    <3>2. b # Null => DOMAIN heap[b] = {}
      BY <3>1, VecFacts
    <3> QED
      BY <1>4, <3>1, <3>2 DEF MembersOK
  <2> QED
    BY <2>1, <2>2
<1>9. heap'[to] = heap[to] /\ to \in allocated'
  BY <1>1, <1>2, <1>8
<1>10. /\ vec' \in [Vecs -> VecType]
       /\ vec'[v].buffPtr = to /\ vec'[v].mCapacity = call.cap /\ vec'[v].mSize = size
       /\ \A w \in Vecs \ {v} : vec'[w] = vec[w]
  <2>1. vec' = [vec EXCEPT ![v].buffPtr = to, ![v].mCapacity = call.cap]
    BY DEF Replace
  <2> QED
    BY <1>1, <2>1, VecFacts DEF VecType
<1>11. /\ call' \in CallType /\ call'.to = Null /\ call'.copied = 0 /\ call'.cap = 0
       /\ call.pc = "return" => call' = Idle /\ call'.pc = "idle"
       /\ call.pc # "return" =>
            /\ call'.pc = call.pc /\ call'.vec = v /\ call'.at = call.at
            /\ call'.count = call.count /\ call'.val = call.val
  <2>1. 0 \in Capacities /\ 0 \in 0 .. MaxCapacity
    BY VectorAssumption DEF Capacities
  <2>2. CASE call.pc = "return"
    BY <2>1, <2>2 DEF Replace, Idle, CallType
  <2>3. CASE call.pc # "return"
    <3>1. call' = [call EXCEPT !.to = Null, !.copied = 0, !.cap = 0]
      BY <2>3 DEF Replace
    <3> QED
      BY <1>1, <2>1, <2>3, <3>1 DEF CallType
  <2> QED
    BY <2>2, <2>3
<1>12. TypeOK'
  <2>1. \A w \in Vecs : vec'[w].mSize <= vec'[w].mCapacity
    BY <1>3, <1>4, <1>10 DEF MembersOK
  <2>2. MembersOK'
    BY <1>4, <1>7, <1>8, <1>10, <1>11, <2>1 DEF MembersOK
  <2> QED
    BY <1>8, <2>2, TypeOKParts
<1>13. Count(v)' = size
  <2>1. call.pc = "construct" => call.at = size
    BY <1>1 DEF IInv, CallOK
  <2> QED
    BY <1>1, <1>10, <1>11, <2>1 DEF Count
<1>14. VecOK(v)'
  <2>1. \A i \in 0 .. size - 1 : heap[to][i].val # Raw /\ heap[to][i].lives >= Lifetime
    <3>1. CASE b = Null
      BY <3>1, VecFacts
    <3>2. CASE b # Null
      BY <1>2, <1>6, <3>2 DEF Alive
    <3> QED
      BY <3>1, <3>2
  <2>2. Alive(heap[vec[v].buffPtr], vec[v].mSize)'
    BY <1>7, <1>9, <1>10, <2>1 DEF Alive
  <2>3. NonNegative(heap[vec[v].buffPtr])'
    BY <1>2, <1>9, <1>10 DEF NonNegative
  <2>4. ~thrown' => Exact(heap[vec[v].buffPtr], Count(v))'
    <3>1. heap'[vec'[v].buffPtr] = heap[to] /\ thrown' = thrown
      BY <1>7, <1>9, <1>10
    <3>2. Exact(heap[to], size) => Exact(heap[vec[v].buffPtr], Count(v))'
      BY <1>7, <1>13, <3>1 DEF Exact
    <3> QED
      BY <1>2, <3>1, <3>2
  <2> QED
    BY <1>1, <1>2, <1>3, <1>9, <1>10, <2>2, <2>3, <2>4 DEF VecOK
<1>15. ASSUME NEW w \in Vecs \ {v}
       PROVE  VecOK(w)'
  <2>1. vec[w].buffPtr # Null =>
          vec[w].buffPtr # b /\ vec[w].buffPtr \in allocated /\ vec[w].buffPtr \in Buffers
    BY VecFacts DEF IInv, Disjoint
  <2>2. Count(w)' = Count(w)
    BY <1>1, <1>10, <1>11 DEF Count
  <2> QED
    BY <1>7, <1>8, <1>10, <2>1, <2>2, Untouched
<1>16. Disjoint'
  BY <1>2, <1>10 DEF IInv, Disjoint
<1>17. CallOK'
  <2>1. CallOK
    BY DEF IInv
  <2>2. CASE call.pc = "return"
    BY <1>11, <2>2 DEF CallOK
  <2>3. CASE call.pc # "return"
    BY <1>1, <1>3, <1>7, <1>10, <1>11, <2>1, <2>3 DEF CallOK
  <2> QED
    BY <2>2, <2>3
<1>18. NewBufferOK'
  BY <1>11 DEF NewBufferOK
<1>19. OthersEmpty'
  <2>1. ASSUME ~thrown, NEW c \in Buffers, \A w \in Vecs : vec'[w].buffPtr # c
        PROVE  DOMAIN heap'[c] = {}
    <3>1. CASE c = b
      BY <1>8, <2>1, <3>1, VectorAssumption
    <3>2. CASE c # b
      <4>1. c # to /\ \A w \in Vecs : vec[w].buffPtr # c
        BY <1>10, <2>1, <3>2
      <4> QED
        BY <1>8, <2>1, <3>2, <4>1 DEF IInv, OthersEmpty
    <3> QED
      BY <3>1, <3>2
  <2> QED
    BY <1>7, <2>1 DEF OthersEmpty
<1> QED
  BY <1>8, <1>12, <1>14, <1>15, <1>16, <1>17, <1>18, <1>19 DEF IInv

\* A vector gives up its buffer; the others have theirs, if perhaps under other
\* names.
LEMMA Release ==
  ASSUME IInv, call = Idle, NEW v \in Vecs,
         heap' = IF vec[v].buffPtr = Null THEN heap ELSE Freed(v),
         allocated' = allocated \ {vec[v].buffPtr},
         UNCHANGED <<T, call, thrown>>,
         vec' \in [Vecs -> VecType],
         \A w \in Vecs : vec'[w] = NoBuffer \/ \E u \in Vecs \ {v} : vec'[w] = vec[u],
         \A u \in Vecs \ {v} : \E w \in Vecs : vec'[w] = vec[u],
         Disjoint'
  PROVE  IInv'
<1> DEFINE b == vec[v].buffPtr
<1>1. /\ DOMAIN heap' = Buffers /\ \A c \in Buffers : SlotsOK(heap'[c])
      /\ allocated' \subseteq Buffers
      /\ \A c \in Buffers : c # b => heap'[c] = heap[c] /\ (c \in allocated => c \in allocated')
      /\ ~thrown /\ b # Null => DOMAIN heap'[b] = {}
  BY FreedFacts, IdleCounts
<1>2. MembersOK /\ Lifetime' = Lifetime
  BY TypeOKParts DEF IInv, Lifetime
<1>3. \A w : Count(w) = vec[w].mSize /\ Count(w)' = vec'[w].mSize
  BY DEF Idle, Count
<1>4. call.to = Null /\ call.copied = 0 /\ call.cap = 0 /\ call.pc = "idle"
  BY IdleCounts
<1>5. NoBuffer.buffPtr = Null /\ NoBuffer.mSize = 0 /\ NoBuffer.mCapacity = 0
  BY DEF NoBuffer
<1>6. ASSUME NEW w \in Vecs
      PROVE  VecOK(w)' /\ vec'[w].mSize <= vec'[w].mCapacity
  <2>1. CASE vec'[w] = NoBuffer
    BY <1>5, <2>1 DEF VecOK
  <2>2. ASSUME NEW u \in Vecs \ {v}, vec'[w] = vec[u]
        PROVE  VecOK(w)' /\ vec'[w].mSize <= vec'[w].mCapacity
    <3>1. VecOK(u) /\ vec[u].mSize <= vec[u].mCapacity
      BY VecFacts DEF IInv
    <3>2. vec[u].buffPtr # Null =>
            vec[u].buffPtr # b /\ vec[u].buffPtr \in allocated /\ vec[u].buffPtr \in Buffers
      BY VecFacts DEF IInv, Disjoint
    <3>3. vec[u].buffPtr # Null =>
            vec[u].buffPtr \in allocated' /\ heap'[vec[u].buffPtr] = heap[vec[u].buffPtr]
      BY <1>1, <3>2
    <3>4. vec[u].buffPtr # Null => Alive(heap[vec[w].buffPtr], vec[w].mSize)'
      BY <1>2, <2>2, <3>1, <3>3 DEF VecOK, Alive
    <3>5. vec[u].buffPtr # Null => NonNegative(heap[vec[w].buffPtr])'
      BY <2>2, <3>1, <3>3 DEF VecOK, NonNegative
    <3>6. vec[u].buffPtr # Null /\ ~thrown' => Exact(heap[vec[w].buffPtr], Count(w))'
      BY <1>2, <1>3, <2>2, <3>1, <3>3 DEF VecOK, Exact
    <3> QED
      BY <2>2, <3>1, <3>3, <3>4, <3>5, <3>6 DEF VecOK, NoBuffer
  <2> QED
    BY <2>1, <2>2
<1>7. TypeOK'
  <2>1. MembersOK'
    BY <1>1, <1>2, <1>6 DEF MembersOK
  <2> QED
    BY <1>1, <2>1, TypeOKParts
<1>8. CallOK' /\ NewBufferOK'
  BY <1>4 DEF CallOK, NewBufferOK
<1>9. OthersEmpty'
  <2>1. ASSUME ~thrown, NEW c \in Buffers, \A w \in Vecs : vec'[w].buffPtr # c
        PROVE  DOMAIN heap'[c] = {}
    <3>1. CASE c = b
      BY <1>1, <2>1, <3>1, VectorAssumption
    <3>2. CASE c # b
      <4>1. \A w \in Vecs : vec[w].buffPtr # c
        BY <2>1, <3>2
      <4> QED
        BY <1>1, <1>4, <2>1, <3>2, <4>1, VectorAssumption DEF IInv, OthersEmpty
    <3> QED
      BY <3>1, <3>2
  <2> QED
    BY <2>1 DEF OthersEmpty
<1> QED
  BY <1>1, <1>6, <1>7, <1>8, <1>9 DEF IInv

LEMMA NoBufferType == NoBuffer \in VecType
BY VectorAssumption DEF NoBuffer, VecType, Capacities

LEMMA DestroyStep ==
  ASSUME IInv, NEW v \in Vecs, Destroy(v)
  PROVE  IInv'
<1>1. /\ vec' \in [Vecs -> VecType] /\ vec'[v] = NoBuffer
      /\ \A w \in Vecs \ {v} : vec'[w] = vec[w]
  BY NoBufferType, VecFacts DEF Destroy
<1>2. Disjoint'
  BY <1>1 DEF IInv, Disjoint, NoBuffer
<1> QED
  BY <1>1, <1>2, Release DEF Destroy

LEMMA MoveAssignStep ==
  ASSUME IInv, NEW v \in Vecs, NEW other \in Vecs, MoveAssign(v, other)
  PROVE  IInv'
<1>1. /\ vec' \in [Vecs -> VecType] /\ vec'[other] = NoBuffer
      /\ v # other => vec'[v] = vec[other]
      /\ \A w \in Vecs \ {v, other} : vec'[w] = vec[w]
  BY NoBufferType, VecFacts DEF MoveAssign
<1>2. Disjoint'
  BY <1>1 DEF IInv, Disjoint, NoBuffer
<1>3. \A w \in Vecs : vec'[w] = NoBuffer \/ \E u \in Vecs \ {v} : vec'[w] = vec[u]
  BY <1>1
<1>4. \A u \in Vecs \ {v} : \E w \in Vecs : vec'[w] = vec[u]
  BY <1>1
<1> QED
  BY <1>1, <1>2, <1>3, <1>4, Release DEF MoveAssign

\* vector(init), vector(n, val)
LEMMA ConstructStep ==
  ASSUME IInv, NEW v \in Vecs, NEW list \in Lists, Construct(v, list)
  PROVE  IInv'
<1>1. PICK n \in 0 .. 2 : list \in [0 .. n - 1 -> Vals]
  BY DEF Lists
<1>2. DOMAIN list = 0 .. n - 1 /\ n \in Nat /\ Cardinality(DOMAIN list) = n
  <2>1. n \in Nat /\ DOMAIN list = 0 .. n - 1
    BY <1>1
  <2>2. Cardinality(0 .. n - 1) = IF 0 > n - 1 THEN 0 ELSE (n - 1) - 0 + 1
    BY <2>1, FS_Interval
  <2> QED
    BY <2>1, <2>2
<1> DEFINE new == [i \in 0 .. n - 1 |-> [val |-> list[i], lives |-> Lifetime]]
<1>3. PICK b \in Buffers :
        /\ Allocate(b, n) /\ heap' = [heap EXCEPT ![b] = new]
        /\ vec' = [vec EXCEPT ![v] = [buffPtr |-> b, mCapacity |-> n, mSize |-> n]]
  BY <1>2 DEF Construct
<1>4. call = Idle /\ vec[v] = NoBuffer /\ UNCHANGED <<T, call, thrown>>
  BY DEF Construct
<1>5. n \in Capacities
  BY <1>2, <1>3, VectorAssumption DEF Allocate, Capacities
<1>6. /\ DOMAIN new = 0 .. n - 1 /\ SlotsOK(new) /\ Alive(new, n) /\ NonNegative(new)
      /\ Exact(new, n)
  BY <1>1, <1>2, <1>5, LifetimeType, VectorAssumption
     DEF SlotsOK, Alive, NonNegative, Exact, Capacities
<1> HIDE DEF new
<1>7. /\ b # Null /\ b \in allocated' /\ allocated' \subseteq Buffers
      /\ \A w \in Vecs : vec[w].buffPtr # b
      /\ heap'[b] = new /\ DOMAIN heap' = Buffers
      /\ \A c \in Buffers \ {b} : heap'[c] = heap[c]
      /\ \A w \in Vecs : vec[w].buffPtr # Null =>
           vec[w].buffPtr \in allocated' /\ heap'[vec[w].buffPtr] = heap[vec[w].buffPtr]
  BY <1>3, <1>4, Fresh
<1>8. /\ vec' \in [Vecs -> VecType]
      /\ vec'[v].buffPtr = b /\ vec'[v].mCapacity = n /\ vec'[v].mSize = n
      /\ \A w \in Vecs \ {v} : vec'[w] = vec[w]
  BY <1>3, <1>5, VecFacts DEF VecType
<1>9. Lifetime' = Lifetime /\ \A w : Count(w) = vec[w].mSize /\ Count(w)' = vec'[w].mSize
  BY <1>4 DEF Lifetime, Count, Idle
<1>10. TypeOK'
  <2>1. \A w \in Vecs : vec'[w].mSize <= vec'[w].mCapacity
    BY <1>2, <1>8, TypeOKParts DEF IInv, MembersOK
  <2>2. MembersOK'
    BY <1>4, <1>7, <1>8, <2>1, TypeOKParts DEF IInv, MembersOK
  <2>3. \A c \in Buffers : SlotsOK(heap'[c])
    BY <1>6, <1>7, TypeOKParts DEF IInv
  <2> QED
    BY <2>2, <2>3, TypeOKParts
<1>11. VecOK(v)'
  <2>1. Alive(heap[vec[v].buffPtr], vec[v].mSize)' /\ NonNegative(heap[vec[v].buffPtr])'
    BY <1>6, <1>7, <1>8, <1>9 DEF Alive, NonNegative
  <2>2. Exact(heap[vec[v].buffPtr], Count(v))'
    BY <1>6, <1>7, <1>8, <1>9 DEF Exact
  <2> QED
    BY <1>2, <1>6, <1>7, <1>8, <2>1, <2>2 DEF VecOK
<1>12. ASSUME NEW w \in Vecs \ {v}
       PROVE  VecOK(w)'
  BY <1>4, <1>7, <1>8, <1>9, Untouched
<1>13. Disjoint'
  BY <1>7, <1>8 DEF IInv, Disjoint
<1>14. CallOK' /\ NewBufferOK'
  BY <1>4, IdleCounts DEF CallOK, NewBufferOK
<1>15. OthersEmpty'
  <2>1. ASSUME ~thrown, NEW c \in Buffers, \A w \in Vecs : vec'[w].buffPtr # c
        PROVE  DOMAIN heap'[c] = {}
    <3>1. c # b /\ c # call.to /\ \A w \in Vecs : vec[w].buffPtr # c
      BY <1>4, <1>8, <2>1, IdleCounts, VectorAssumption DEF NoBuffer
    <3> QED
      BY <1>7, <2>1, <3>1 DEF IInv, OthersEmpty
  <2> QED
    BY <1>4, <2>1 DEF OthersEmpty
<1> QED
  BY <1>7, <1>10, <1>11, <1>12, <1>13, <1>14, <1>15 DEF IInv

-----------------------------------------------------------------------------
(* The invariant is inductive.                                             *)

LEMMA InitialInvariant == Init => IInv
<1> SUFFICES ASSUME Init PROVE IInv
  OBVIOUS
<1>1. 0 \in Capacities /\ 0 \in 0 .. MaxCapacity
  BY VectorAssumption DEF Capacities
<1>2. NoBuffer.buffPtr = Null /\ NoBuffer.mSize = 0 /\ NoBuffer.mCapacity = 0
  BY DEF NoBuffer
<1>3. \A v \in Vecs : vec[v] = NoBuffer
  BY DEF Init
<1>4. call = Idle /\ call \in CallType
  BY <1>1 DEF Init, Idle, CallType
<1>5. Idle.to = Null /\ Idle.cap = 0 /\ Idle.copied = 0 /\ Idle.pc = "idle"
  BY DEF Idle
<1>6. /\ DOMAIN heap = Buffers
      /\ \A b \in Buffers : DOMAIN heap[b] = {} /\ SlotsOK(heap[b])
  <2>1. DOMAIN Uninitialized(0) = 0 .. 0 - 1 /\ SlotsOK(Uninitialized(0))
    BY <1>1, UninitializedSlots
  <2> QED
    BY <2>1 DEF Init
<1>7. TypeOK
  <2>1. MembersOK
    <3>1. vec \in [Vecs -> VecType] /\ \A v \in Vecs : vec[v].mSize <= vec[v].mCapacity
      BY <1>2, <1>3, NoBufferType DEF Init
    <3>2. T \in {"int", "class"} /\ allocated \subseteq Buffers /\ thrown \in BOOLEAN
      BY DEF Init
    <3> QED
      BY <1>4, <3>1, <3>2 DEF MembersOK
  <2> QED
    BY <1>6, <2>1, TypeOKParts
<1>8. \A v \in Vecs : VecOK(v)
  BY <1>2, <1>3 DEF VecOK
<1>9. Disjoint
  BY <1>2, <1>3 DEF Disjoint
<1>10. CallOK /\ NewBufferOK
  BY <1>4, <1>5 DEF CallOK, NewBufferOK
<1>11. OthersEmpty
  BY <1>6 DEF OthersEmpty
<1> QED
  BY <1>6, <1>7, <1>8, <1>9, <1>10, <1>11 DEF IInv

LEMMA ResizeStep ==
  ASSUME IInv, NEW v \in Vecs, NEW n \in Capacities, NEW x \in Vals, Resize(v, n, x)
  PROVE  IInv'
BY ResizeDownStep, ResizeUpStep DEF Resize

LEMMA InductiveStep == IInv /\ [Next]_vars => IInv'
<1> SUFFICES ASSUME IInv, [Next]_vars PROVE IInv'
  OBVIOUS
<1>1. ASSUME NEW v \in Vecs, Modify(v)
      PROVE  IInv'
  BY <1>1, ConstructStep, EmplaceBackStep, ReserveStep, ShrinkToFitStep, ResizeStep,
     DestroyStep, MoveAssignStep DEF Modify
<1>2. ASSUME NEW v \in Vecs, T = "int", ModifyInts(v)
      PROVE  IInv'
  BY <1>2, InsertStep, EraseStep, ClearStep DEF ModifyInts
<1>3. ASSUME Loop
      PROVE  IInv'
  <2>1. ASSUME CopyElement \/ Replace \/ ConstructElement \/ InsertElement
        PROVE  IInv'
    <3>1. call # Idle
      BY <2>1 DEF CopyElement, Replace, ConstructElement, InsertElement, Idle
    <3>2. call.vec \in Vecs
      BY <3>1, CallFacts
    <3> QED
      BY <2>1, <3>2, CopyElementStep, ReplaceStep, ConstructElementStep, InsertElementStep
  <2> QED
    BY <1>3, <2>1, ThrowStep DEF Loop
<1>4. CASE UNCHANGED vars
  BY <1>4, SMTT(20) DEF IInv, TypeOK, VecOK, Alive, Exact, NonNegative, Count, Lifetime, Disjoint, CallOK,
     NewBufferOK, OthersEmpty, vars
<1> QED
  BY <1>1, <1>2, <1>3, <1>4 DEF Next

\* The invariant holds at every step of every call, whatever is constructed,
\* copied, moved or thrown.
THEOREM VectorInductiveInvariant == Spec => []IInv
<1> QED
  BY InitialInvariant, InductiveStep, PTL DEF Spec

-----------------------------------------------------------------------------
(* What it implies.                                                        *)

\* The members, the slots and the call in progress have their types; no vector
\* has more elements than slots.
THEOREM VectorTypeCorrect == Spec => []TypeOK
<1>1. IInv => TypeOK
  BY DEF IInv
<1> QED
  BY <1>1, VectorInductiveInvariant, PTL

LEMMA InvariantImpliesLive == IInv => ElementsLive
BY DEF IInv, VecOK, Alive, Disjoint, ElementsLive

\* The elements of every vector are constructed, and in an allocated buffer of
\* its own: at every step of every call, also when a constructor throws.
THEOREM ElementsStayLive == Spec => []ElementsLive
<1> QED
  BY InvariantImpliesLive, VectorInductiveInvariant, PTL

LEMMA InvariantImpliesNoLeak == IInv => NoLeak
<1> SUFFICES ASSUME IInv, ~thrown, call = Idle, NEW b \in Buffers
             PROVE  LET holders == {v \in Vecs : vec[v].buffPtr = b} IN
                    /\ \A i \in DOMAIN heap[b] :
                         heap[b][i].lives = IF \E v \in holders : i < vec[v].mSize THEN Lifetime ELSE 0
                    /\ holders = {} => DOMAIN heap[b] = {}
  BY DEF NoLeak
<1>1. b # Null /\ call.to = Null
  BY IdleCounts, VectorAssumption
<1>2. CASE \A v \in Vecs : vec[v].buffPtr # b
  BY <1>1, <1>2 DEF IInv, OthersEmpty
<1>3. ASSUME NEW v \in Vecs, vec[v].buffPtr = b
      PROVE  LET holders == {w \in Vecs : vec[w].buffPtr = b} IN
             /\ \A i \in DOMAIN heap[b] :
                  heap[b][i].lives = IF \E w \in holders : i < vec[w].mSize THEN Lifetime ELSE 0
             /\ holders # {}
  <2>1. Exact(heap[b], vec[v].mSize)
    BY <1>1, <1>3, IdleCounts DEF IInv, VecOK
  <2>2. \A w \in Vecs : vec[w].buffPtr = b => w = v
    BY <1>1, <1>3 DEF IInv, Disjoint
  <2> QED
    BY <1>3, <2>1, <2>2 DEF Exact
<1> QED
  BY <1>2, <1>3

\* As long as no constructor has thrown, every element is constructed once and
\* destroyed once, and every buffer is freed.
THEOREM NothingLeaks == Spec => []NoLeak
<1> QED
  BY InvariantImpliesNoLeak, VectorInductiveInvariant, PTL

-----------------------------------------------------------------------------
(* Sequences.                                                              *)

LEMMA CopiesSeq ==
  ASSUME NEW S, NEW k \in Nat, NEW x \in S
  PROVE  LET s == [i \in 1 .. k |-> x] IN s \in Seq(S) /\ Len(s) = k /\ \A i \in 1 .. k : s[i] = x
<1> DEFINE s == [i \in 1 .. k |-> x]
<1>1. s \in [1 .. k -> S]
  OBVIOUS
<1>2. s \in Seq(S)
  BY <1>1, SeqDef
<1>3. DOMAIN s = 1 .. k /\ DOMAIN s = 1 .. Len(s) /\ Len(s) \in Nat
  BY <1>1, <1>2, LenProperties
<1> QED
  BY <1>2, <1>3

LEMMA SingletonSeq ==
  ASSUME NEW S, NEW x \in S
  PROVE  <<x>> \in Seq(S) /\ Len(<<x>>) = 1 /\ <<x>>[1] = x
OBVIOUS

LEMMA PrefixSeq ==
  ASSUME NEW S, NEW s \in Seq(S), NEW m \in Int, NEW n \in Int, 1 <= m, m <= n + 1, n <= Len(s)
  PROVE  /\ SubSeq(s, m, n) \in Seq(S) /\ Len(SubSeq(s, m, n)) = n - m + 1
         /\ \A i \in 1 .. n - m + 1 : SubSeq(s, m, n)[i] = s[m + i - 1]
<1>1. Len(s) \in Nat /\ \A i \in 1 .. Len(s) : s[i] \in S
  BY LenProperties
<1>2. \A i \in m .. n : s[i] \in S
  BY <1>1
<1>3. /\ SubSeq(s, m, n) \in Seq(S)
      /\ Len(SubSeq(s, m, n)) = IF m <= n THEN n - m + 1 ELSE 0
      /\ \A i \in 1 .. n - m + 1 : SubSeq(s, m, n)[i] = s[m + i - 1]
  BY <1>2, SubSeqProperties
<1> QED
  BY <1>3

\* s with x in front of its k-th element; this is what the operator of the
\* community modules computes that the abstract specification uses.
Longer(s, k, x) ==
  [i \in 1 .. Len(s) + 1 |-> IF i < k THEN s[i] ELSE IF i = k THEN x ELSE s[i - 1]]

LEMMA InsertAtSeq ==
  ASSUME NEW S, NEW s \in Seq(S), NEW k \in 1 .. Len(s) + 1, NEW x \in S
  PROVE  SubSeq(s, 1, k - 1) \o <<x>> \o SubSeq(s, k, Len(s)) = Longer(s, k, x)
<1> DEFINE a == SubSeq(s, 1, k - 1)
           m == <<x>>
           c == SubSeq(s, k, Len(s))
<1>1. Len(s) \in Nat
  BY LenProperties
<1>2. a \in Seq(S) /\ Len(a) = k - 1 /\ \A i \in 1 .. k - 1 : a[i] = s[i]
  <2>1. \A i \in 1 .. k - 1 : 1 + i - 1 = i
    OBVIOUS
  <2>2. (k - 1) - 1 + 1 = k - 1
    OBVIOUS
  <2>3. 1 <= 1 /\ 1 <= (k - 1) + 1 /\ k - 1 <= Len(s) /\ k - 1 \in Int /\ 1 \in Int
    BY <1>1
  <2>4. /\ a \in Seq(S) /\ Len(a) = (k - 1) - 1 + 1
        /\ \A i \in 1 .. (k - 1) - 1 + 1 : a[i] = s[1 + i - 1]
    BY <2>3, PrefixSeq
  <2> HIDE DEF a
  <2> QED
    BY <2>1, <2>2, <2>4
<1>3. /\ c \in Seq(S) /\ Len(c) = Len(s) - k + 1
      /\ \A i \in 1 .. Len(s) - k + 1 : c[i] = s[k + i - 1]
  BY <1>1, PrefixSeq
<1>4. m \in Seq(S) /\ Len(m) = 1 /\ m[1] = x
  BY SingletonSeq
<1> HIDE DEF a, m, c
<1> DEFINE am == a \o m
<1>5. /\ am \in Seq(S) /\ Len(am) = k
      /\ \A i \in 1 .. k : am[i] = IF i < k THEN s[i] ELSE x
  <2>1. /\ am \in Seq(S) /\ Len(am) = Len(a) + Len(m)
        /\ \A i \in 1 .. Len(a) + Len(m) : am[i] = IF i <= Len(a) THEN a[i] ELSE m[i - Len(a)]
    BY <1>2, <1>4, ConcatProperties
  <2>2. Len(a) + Len(m) = k
    BY <1>2, <1>4
  <2>3. \A i \in 1 .. k : i <= Len(a) <=> i < k
    BY <1>2
  <2>4. \A i \in 1 .. k : ~(i < k) => i - Len(a) = 1
    BY <1>2
  <2> HIDE DEF am
  <2> QED
    BY <1>2, <1>4, <2>1, <2>2, <2>3, <2>4
<1> HIDE DEF am
<1> DEFINE t == am \o c
<1>6. /\ t \in Seq(S) /\ Len(t) = Len(am) + Len(c)
      /\ \A i \in 1 .. Len(am) + Len(c) : t[i] = IF i <= Len(am) THEN am[i] ELSE c[i - Len(am)]
  BY <1>3, <1>5, ConcatProperties
<1> HIDE DEF t
<1>7. Len(am) + Len(c) = Len(s) + 1
  BY <1>1, <1>3, <1>5
<1>8. ASSUME NEW i \in 1 .. Len(s) + 1
      PROVE  t[i] = IF i < k THEN s[i] ELSE IF i = k THEN x ELSE s[i - 1]
  <2>1. CASE i <= k
    BY <1>1, <1>5, <1>6, <1>7, <2>1
  <2>2. CASE i > k
    <3>1. t[i] = c[i - k] /\ i - k \in 1 .. Len(s) - k + 1 /\ k + (i - k) - 1 = i - 1
      BY <1>1, <1>5, <1>6, <1>7, <2>2
    <3> QED
      BY <1>3, <2>2, <3>1
  <2> QED
    BY <1>1, <2>1, <2>2
<1>9. t = Longer(s, k, x)
  <2>1. DOMAIN t = 1 .. Len(s) + 1 /\ t = [i \in DOMAIN t |-> t[i]]
    BY <1>1, <1>6, <1>7, LenProperties
  <2> QED
    BY <1>8, <2>1 DEF Longer
<1> QED
  BY <1>9 DEF t, am, a, m, c

LEMMA RemoveAtSeq ==
  ASSUME NEW S, NEW s \in Seq(S), NEW k \in 1 .. Len(s)
  PROVE  LET t == SubSeq(s, 1, k - 1) \o SubSeq(s, k + 1, Len(s)) IN
         /\ t \in Seq(S) /\ Len(t) = Len(s) - 1
         /\ \A i \in 1 .. Len(s) - 1 : t[i] = IF i < k THEN s[i] ELSE s[i + 1]
<1> DEFINE a == SubSeq(s, 1, k - 1)
           c == SubSeq(s, k + 1, Len(s))
<1>1. Len(s) \in Nat
  BY LenProperties
<1>2. a \in Seq(S) /\ Len(a) = k - 1 /\ \A i \in 1 .. k - 1 : a[i] = s[i]
  <2>1. \A i \in 1 .. k - 1 : 1 + i - 1 = i
    OBVIOUS
  <2>2. (k - 1) - 1 + 1 = k - 1
    OBVIOUS
  <2>3. 1 <= 1 /\ 1 <= (k - 1) + 1 /\ k - 1 <= Len(s) /\ k - 1 \in Int /\ 1 \in Int
    BY <1>1
  <2>4. /\ a \in Seq(S) /\ Len(a) = (k - 1) - 1 + 1
        /\ \A i \in 1 .. (k - 1) - 1 + 1 : a[i] = s[1 + i - 1]
    BY <2>3, PrefixSeq
  <2> HIDE DEF a
  <2> QED
    BY <2>1, <2>2, <2>4
<1>3. /\ c \in Seq(S) /\ Len(c) = Len(s) - (k + 1) + 1
      /\ \A i \in 1 .. Len(s) - (k + 1) + 1 : c[i] = s[(k + 1) + i - 1]
  <2>1. 1 <= k + 1 /\ k + 1 <= Len(s) + 1 /\ Len(s) <= Len(s) /\ k + 1 \in Int /\ Len(s) \in Int
    BY <1>1
  <2> QED
    BY <2>1, PrefixSeq
<1> HIDE DEF a, c
<1> DEFINE t == a \o c
<1>4. /\ t \in Seq(S) /\ Len(t) = Len(a) + Len(c)
      /\ \A i \in 1 .. Len(a) + Len(c) : t[i] = IF i <= Len(a) THEN a[i] ELSE c[i - Len(a)]
  BY <1>2, <1>3, ConcatProperties
<1> HIDE DEF t
<1>5. Len(a) + Len(c) = Len(s) - 1
  BY <1>1, <1>2, <1>3
<1>6. ASSUME NEW i \in 1 .. Len(s) - 1
      PROVE  t[i] = IF i < k THEN s[i] ELSE s[i + 1]
  <2>1. CASE i < k
    BY <1>1, <1>2, <1>4, <1>5, <2>1
  <2>2. CASE i >= k
    <3>1. PICK j \in 1 .. Len(s) - (k + 1) + 1 :
            j = i - (k - 1) /\ (k + 1) + j - 1 = i + 1 /\ ~(i <= k - 1) /\ ~(i < k)
      BY <1>1, <2>2
    <3>2. t[i] = c[j]
      BY <1>2, <1>4, <1>5, <3>1
    <3>3. c[j] = s[(k + 1) + j - 1]
      BY <1>3, Zenon
    <3> QED
      BY <3>1, <3>2, <3>3, Zenon
  <2> QED
    BY <2>1, <2>2
<1> QED
  BY <1>4, <1>5, <1>6 DEF t, a, c

-----------------------------------------------------------------------------
(* The contents of the vectors.                                            *)

Seqs == [v \in Vecs |-> Contents(v)]

ContentsOK ==
  \A v \in Vecs :
    /\ Contents(v) \in Seq(Vals) /\ Len(Contents(v)) = vec[v].mSize
    /\ \A i \in 1 .. vec[v].mSize : Contents(v)[i] = heap[vec[v].buffPtr][i - 1].val
    /\ vec[v].mSize = 0 => Contents(v) = <<>>

LEMMA ContentsAreSequences == IInv => ContentsOK
<1> SUFFICES ASSUME IInv, NEW v \in Vecs
             PROVE  /\ Contents(v) \in Seq(Vals) /\ Len(Contents(v)) = vec[v].mSize
                    /\ \A i \in 1 .. vec[v].mSize :
                         Contents(v)[i] = heap[vec[v].buffPtr][i - 1].val
                    /\ vec[v].mSize = 0 => Contents(v) = <<>>
  BY DEF ContentsOK
<1> DEFINE n == vec[v].mSize
           slots == heap[vec[v].buffPtr]
<1>1. n \in Nat /\ vec[v].mCapacity \in Nat /\ n <= vec[v].mCapacity
  BY VecFacts
<1>2. ASSUME NEW i \in 1 .. n
      PROVE  slots[i - 1].val \in Vals
  <2>1. vec[v].buffPtr # Null
    BY <1>1, VecFacts
  <2>2. DOMAIN slots = 0 .. vec[v].mCapacity - 1 /\ SlotsOK(slots) /\ Alive(slots, n)
    BY <2>1, VecFacts
  <2>3. i - 1 \in 0 .. n - 1 /\ i - 1 \in 0 .. vec[v].mCapacity - 1
    BY <1>1
  <2> HIDE DEF slots, n
  <2>4. slots[i - 1].val # Raw /\ slots[i - 1].val \in Vals \cup {Raw}
    BY <2>2, <2>3 DEF SlotsOK, Alive
  <2> QED
    BY <2>4
<1>3. Contents(v) = [i \in 1 .. n |-> slots[i - 1].val]
  BY DEF Contents
<1>4. Contents(v) \in [1 .. n -> Vals]
  BY <1>2, <1>3
<1>5. Contents(v) \in Seq(Vals)
  BY <1>1, <1>4, SeqDef
<1>6. Len(Contents(v)) = n
  BY <1>1, <1>4, <1>5, LenProperties
<1>7. n = 0 => Contents(v) = <<>>
  BY <1>5, <1>6, EmptySeq
<1> QED
  BY <1>3, <1>5, <1>6, <1>7

LEMMA ContentsSeq ==
  ASSUME IInv, NEW v \in Vecs
  PROVE  /\ Contents(v) \in Seq(Vals) /\ Len(Contents(v)) = vec[v].mSize
         /\ \A i \in 1 .. vec[v].mSize : Contents(v)[i] = heap[vec[v].buffPtr][i - 1].val
         /\ vec[v].mSize = 0 => Contents(v) = <<>>
BY ContentsAreSequences DEF ContentsOK

LEMMA ContentsSeqNext ==
  IInv' => \A v \in Vecs :
             /\ Contents(v)' \in Seq(Vals) /\ Len(Contents(v)') = vec'[v].mSize
             /\ \A i \in 1 .. vec'[v].mSize : Contents(v)'[i] = heap'[vec'[v].buffPtr][i - 1].val
             /\ vec'[v].mSize = 0 => Contents(v)' = <<>>
<1>1. IInv' => ContentsOK'
  BY ContentsAreSequences, PTL
<1> QED
  BY <1>1 DEF ContentsOK

\* The elements of u are those of w afterwards.
LEMMA SameContents ==
  ASSUME IInv, NEW w \in Vecs, NEW u \in Vecs, vec'[w].mSize = vec[u].mSize,
         \A i \in 0 .. vec[u].mSize - 1 :
           heap'[vec'[w].buffPtr][i].val = heap[vec[u].buffPtr][i].val
  PROVE  Contents(w)' = Contents(u)
<1>1. vec[u].mSize \in Nat
  BY VecFacts
<1>2. \A i \in 1 .. vec[u].mSize : i - 1 \in 0 .. vec[u].mSize - 1
  BY <1>1
<1> QED
  BY <1>1, <1>2 DEF Contents

\* No vector changes, or only one does.
LEMMA NoneChanges ==
  ASSUME \A w \in Vecs : Contents(w)' = Contents(w)
  PROVE  UNCHANGED Seqs
BY DEF Seqs

LEMMA OneChanges ==
  ASSUME NEW v \in Vecs, \A w \in Vecs \ {v} : Contents(w)' = Contents(w)
  PROVE  Seqs' = [Seqs EXCEPT ![v] = Contents(v)']
BY DEF Seqs

\* A vector whose buffer a step leaves alone.
LEMMA UntouchedContents ==
  ASSUME IInv, NEW w \in Vecs, vec'[w] = vec[w],
         vec[w].buffPtr # Null => heap'[vec[w].buffPtr] = heap[vec[w].buffPtr]
  PROVE  Contents(w)' = Contents(w)
<1>1. \A i \in 0 .. vec[w].mSize - 1 : heap'[vec'[w].buffPtr][i].val = heap[vec[w].buffPtr][i].val
  BY VecFacts
<1> QED
  BY <1>1, SameContents

LEMMA OthersUntouched ==
  ASSUME IInv, NEW v \in Vecs, \A w \in Vecs \ {v} : vec'[w] = vec[w],
         \A c \in Buffers : c # vec[v].buffPtr => heap'[c] = heap[c]
  PROVE  \A w \in Vecs \ {v} : Contents(w)' = Contents(w)
<1>1. ASSUME NEW w \in Vecs \ {v}
      PROVE  Contents(w)' = Contents(w)
  <2>1. vec[w].buffPtr # Null => vec[w].buffPtr # vec[v].buffPtr /\ vec[w].buffPtr \in Buffers
    BY VecFacts DEF IInv, Disjoint
  <2> QED
    BY <2>1, UntouchedContents
<1> QED
  BY <1>1

LEMMA EditOthers ==
  ASSUME IInv, NEW v \in Vecs, vec[v].buffPtr # Null, NEW new,
         heap' = [heap EXCEPT ![vec[v].buffPtr] = new],
         NEW n \in Nat, vec' = [vec EXCEPT ![v].mSize = n]
  PROVE  /\ \A w \in Vecs \ {v} : Contents(w)' = Contents(w)
         /\ vec'[v].mSize = n /\ vec'[v].buffPtr = vec[v].buffPtr
         /\ heap'[vec[v].buffPtr] = new
<1>1. /\ vec'[v].mSize = n /\ vec'[v].buffPtr = vec[v].buffPtr
      /\ \A w \in Vecs \ {v} : vec'[w] = vec[w]
  BY VecFacts DEF VecType
<1>2. DOMAIN heap = Buffers /\ vec[v].buffPtr \in Buffers
  BY VecFacts DEF IInv
<1>3. heap'[vec[v].buffPtr] = new /\ \A c \in Buffers : c # vec[v].buffPtr => heap'[c] = heap[c]
  BY <1>2
<1> QED
  BY <1>1, <1>3, OthersUntouched

-----------------------------------------------------------------------------
(* Every step is one of the sequences, or leaves them as they are.         *)

LEMMA ConstructIsFill ==
  ASSUME IInv, IInv', NEW v \in Vecs, NEW list, Construct(v, list)
  PROVE  AsSequence!Fill(v)
<1>1. PICK b \in Buffers :
        /\ Allocate(b, Cardinality(DOMAIN list))
        /\ heap' = [heap EXCEPT ![b] = [i \in DOMAIN list |-> [val |-> list[i], lives |-> Lifetime]]]
        /\ vec' = [vec EXCEPT ![v] = [buffPtr |-> b, mCapacity |-> Cardinality(DOMAIN list),
                                      mSize |-> Cardinality(DOMAIN list)]]
  BY DEF Construct
<1>2. call = Idle /\ vec[v] = NoBuffer
  BY DEF Construct
<1>3. Seqs[v] = <<>>
  BY <1>2, ContentsSeq DEF Seqs, NoBuffer
<1>4. Contents(v)' \in Seq(Vals)
  BY ContentsSeqNext
<1>5. ASSUME NEW w \in Vecs \ {v}
      PROVE  Contents(w)' = Contents(w)
  <2>1. vec'[w] = vec[w]
    BY <1>1, VecFacts
  <2>2. vec[w].buffPtr # Null => heap'[vec[w].buffPtr] = heap[vec[w].buffPtr]
    BY <1>1, <1>2, Fresh
  <2> QED
    BY <2>1, <2>2, UntouchedContents
<1>6. Seqs' = [Seqs EXCEPT ![v] = Contents(v)'] /\ Seqs'[v] = Contents(v)'
  BY <1>5, OneChanges DEF Seqs
<1> QED
  BY <1>3, <1>4, <1>6 DEF AsSequence!Fill, Seqs

LEMMA ReallocateIsNoStep ==
  ASSUME IInv, call = Idle, NEW v \in Vecs, NEW n, NEW next, Reallocate(v, n, next)
  PROVE  UNCHANGED Seqs
<1>1. PICK b \in Buffers :
        Allocate(b, n) /\ heap' = [heap EXCEPT ![b] = Uninitialized(n)] /\ UNCHANGED vec
  BY DEF Reallocate
<1>2. \A w \in Vecs : vec[w].buffPtr # Null => heap'[vec[w].buffPtr] = heap[vec[w].buffPtr]
  BY <1>1, Fresh
<1>3. \A w \in Vecs : Contents(w)' = Contents(w)
  BY <1>1, <1>2, UntouchedContents
<1> QED
  BY <1>3, NoneChanges

LEMMA MakeRoomIsNoStep ==
  ASSUME IInv, call = Idle, NEW v \in Vecs, NEW next, MakeRoom(v, next)
  PROVE  UNCHANGED Seqs
<1>1. ASSUME vec[v].mCapacity = 0, NEW b \in Buffers, Allocate(b, 1),
             heap' = [heap EXCEPT ![b] = Uninitialized(1)],
             vec' = [vec EXCEPT ![v].buffPtr = b, ![v].mCapacity = 1]
      PROVE  UNCHANGED Seqs
  <2>1. \A w \in Vecs : vec[w].buffPtr # Null => heap'[vec[w].buffPtr] = heap[vec[w].buffPtr]
    BY <1>1, Fresh
  <2>2. \A w \in Vecs \ {v} : vec'[w] = vec[w]
    BY <1>1, VecFacts
  <2>3. vec[v].mSize = 0 /\ vec'[v].mSize = vec[v].mSize
    BY <1>1, VecFacts DEF VecType
  <2>4. Contents(v)' = Contents(v)
    BY <2>3, SameContents
  <2>5. \A w \in Vecs \ {v} : Contents(w)' = Contents(w)
    BY <2>1, <2>2, UntouchedContents
  <2> QED
    BY <2>4, <2>5, NoneChanges
<1>2. ASSUME UNCHANGED <<T, vec, heap, allocated, thrown>>
      PROVE  UNCHANGED Seqs
  BY <1>2 DEF Seqs, Contents
<1> QED
  BY <1>1, <1>2, ReallocateIsNoStep DEF MakeRoom

LEMMA EditIsTruncate ==
  ASSUME IInv, IInv', NEW v \in Vecs, vec[v].buffPtr # Null, NEW new,
         heap' = [heap EXCEPT ![vec[v].buffPtr] = new],
         NEW n \in 0 .. vec[v].mSize, vec' = [vec EXCEPT ![v].mSize = n],
         \A i \in 0 .. n - 1 : new[i].val = heap[vec[v].buffPtr][i].val
  PROVE  AsSequence!Truncate(v, n) /\ n \in 0 .. Len(Seqs[v])
<1> DEFINE old == Contents(v)
           cut == SubSeq(old, 1, n)
<1>1. /\ \A w \in Vecs \ {v} : Contents(w)' = Contents(w)
      /\ vec'[v].mSize = n /\ vec'[v].buffPtr = vec[v].buffPtr
      /\ heap'[vec[v].buffPtr] = new
  <2>1. n \in Nat
    BY VecFacts
  <2> QED
    BY <2>1, EditOthers
<1>2. /\ old \in Seq(Vals) /\ Len(old) = vec[v].mSize
      /\ \A i \in 1 .. vec[v].mSize : old[i] = heap[vec[v].buffPtr][i - 1].val
  BY ContentsSeq
<1>3. /\ Contents(v)' \in Seq(Vals) /\ Len(Contents(v)') = n
      /\ \A i \in 1 .. n : Contents(v)'[i] = new[i - 1].val
  BY <1>1, ContentsSeqNext
<1> HIDE DEF old
<1>4. vec[v].mSize \in Nat
  BY VecFacts
<1>5. cut \in Seq(Vals) /\ Len(cut) = n /\ \A i \in 1 .. n : cut[i] = old[i]
  <2>1. 1 <= 1 /\ 1 <= n + 1 /\ n <= Len(old) /\ n \in Int /\ n - 1 + 1 = n /\ 1 \in Int
    BY <1>2, <1>4
  <2>2. \A i \in 1 .. n : 1 + i - 1 = i
    OBVIOUS
  <2>3. /\ cut \in Seq(Vals) /\ Len(cut) = n - 1 + 1
        /\ \A i \in 1 .. n - 1 + 1 : cut[i] = old[1 + i - 1]
    BY <1>2, <2>1, PrefixSeq
  <2> HIDE DEF cut
  <2> QED
    BY <2>1, <2>2, <2>3
<1> HIDE DEF cut
<1>6. \A i \in 1 .. n : Contents(v)'[i] = cut[i]
  <2>1. \A i \in 1 .. n : i - 1 \in 0 .. n - 1 /\ i \in 1 .. vec[v].mSize
    BY <1>4
  <2> QED
    BY <1>2, <1>3, <1>5, <2>1
<1>7. Contents(v)' = cut
  BY <1>3, <1>5, <1>6, SeqEqual
<1>8. Seqs' = [Seqs EXCEPT ![v] = cut] /\ Seqs[v] = old
  BY <1>1, <1>7, OneChanges DEF Seqs, old
<1> QED
  BY <1>2, <1>8 DEF AsSequence!Truncate, Seqs, cut

LEMMA ResizeDownIsTruncate ==
  ASSUME IInv, IInv', NEW v \in Vecs, NEW count \in Capacities, count < vec[v].mSize,
         heap' = [heap EXCEPT ![vec[v].buffPtr] = Destroyed(@, count .. vec[v].mSize - 1)],
         vec' = [vec EXCEPT ![v].mSize = count]
  PROVE  AsSequence!Truncate(v, count) /\ count \in 0 .. Len(Seqs[v])
<1> DEFINE slots == heap[vec[v].buffPtr]
           new == Destroyed(slots, count .. vec[v].mSize - 1)
<1>1. count \in Nat /\ vec[v].mSize \in Nat /\ vec[v].mCapacity \in Nat
      /\ vec[v].mSize <= vec[v].mCapacity /\ vec[v].buffPtr # Null
  BY VecFacts, VectorAssumption DEF Capacities
<1>2. DOMAIN slots = 0 .. vec[v].mCapacity - 1 /\ SlotsOK(slots)
  BY <1>1, VecFacts
<1>3. heap' = [heap EXCEPT ![vec[v].buffPtr] = new]
  OBVIOUS
<1>4. /\ DOMAIN new = DOMAIN slots /\ SlotsOK(new)
      /\ \A j \in DOMAIN slots :
           /\ j \in count .. vec[v].mSize - 1 => new[j].lives = slots[j].lives - Lifetime
           /\ j \notin count .. vec[v].mSize - 1 => new[j] = slots[j]
  BY <1>2, DestroyedSlots
<1> HIDE DEF new
<1>5. \A i \in 0 .. count - 1 : new[i].val = slots[i].val
  BY <1>1, <1>2, <1>4
<1>6. count \in 0 .. vec[v].mSize
  BY <1>1
<1> QED
  BY <1>1, <1>3, <1>5, <1>6, EditIsTruncate

LEMMA ClearIsTruncate ==
  ASSUME IInv, IInv', NEW v \in Vecs, Clear(v)
  PROVE  AsSequence!Truncate(v, 0) /\ 0 \in 0 .. Len(Seqs[v])
<1> DEFINE new == [heap[vec[v].buffPtr] EXCEPT
                     ![0] = [val |-> Raw, lives |-> @.lives - vec[v].mSize * Lifetime]]
<1>1. vec[v].mSize \in Nat /\ vec[v].buffPtr # Null
  BY VecFacts DEF Clear
<1>2. heap' = [heap EXCEPT ![vec[v].buffPtr] = new] /\ vec' = [vec EXCEPT ![v].mSize = 0]
  BY DEF Clear
<1> HIDE DEF new
<1>3. 0 \in 0 .. vec[v].mSize /\ \A i \in 0 .. 0 - 1 : new[i].val = heap[vec[v].buffPtr][i].val
  BY <1>1
<1> QED
  BY <1>1, <1>2, <1>3, EditIsTruncate

\* What is left of other vectors when the buffer of v is freed.
LEMMA OthersKept ==
  ASSUME IInv, NEW v \in Vecs,
         heap' = IF vec[v].buffPtr = Null THEN heap ELSE Freed(v),
         allocated' = allocated \ {vec[v].buffPtr},
         NEW u \in Vecs \ {v}, vec[u].buffPtr # Null
  PROVE  heap'[vec[u].buffPtr] = heap[vec[u].buffPtr]
<1>1. vec[u].buffPtr # vec[v].buffPtr /\ vec[u].buffPtr \in Buffers
  BY VecFacts DEF IInv, Disjoint
<1> QED
  BY <1>1, FreedFacts

LEMMA DestroyIsTruncate ==
  ASSUME IInv, IInv', NEW v \in Vecs, Destroy(v)
  PROVE  AsSequence!Truncate(v, 0) /\ 0 \in 0 .. Len(Seqs[v])
<1>1. vec'[v] = NoBuffer /\ \A w \in Vecs \ {v} : vec'[w] = vec[w]
  BY VecFacts DEF Destroy
<1>2. Contents(v)' = <<>>
  BY <1>1, ContentsSeqNext DEF NoBuffer
<1>3. \A w \in Vecs \ {v} : Contents(w)' = Contents(w)
  BY <1>1, OthersKept, UntouchedContents DEF Destroy
<1>4. SubSeq(Contents(v), 1, 0) = <<>>
  BY SubSeqEmpty
<1>5. Seqs' = [Seqs EXCEPT ![v] = SubSeq(Contents(v), 1, 0)] /\ Seqs[v] = Contents(v)
  BY <1>2, <1>3, <1>4, OneChanges DEF Seqs
<1>6. Len(Contents(v)) \in Nat
  BY ContentsSeq, VecFacts
<1> QED
  BY <1>5, <1>6 DEF AsSequence!Truncate, Seqs

LEMMA MoveAssignIsTake ==
  ASSUME IInv, IInv', NEW v \in Vecs, NEW other \in Vecs, MoveAssign(v, other)
  PROVE  AsSequence!Take(v, other)
<1>1. /\ vec'[other] = NoBuffer
      /\ v # other => vec'[v] = vec[other]
      /\ \A w \in Vecs \ {v, other} : vec'[w] = vec[w]
  BY VecFacts DEF MoveAssign
<1>2. Contents(other)' = <<>>
  BY <1>1, ContentsSeqNext DEF NoBuffer
<1>3. \A u \in Vecs \ {v} : vec[u].buffPtr # Null => heap'[vec[u].buffPtr] = heap[vec[u].buffPtr]
  BY OthersKept DEF MoveAssign
<1>4. \A w \in Vecs \ {v, other} : Contents(w)' = Contents(w)
  BY <1>1, <1>3, UntouchedContents
<1>5. v # other => Contents(v)' = Contents(other)
  <2>1. SUFFICES ASSUME v # other PROVE Contents(v)' = Contents(other)
    OBVIOUS
  <2>2. vec'[v] = vec[other]
    BY <1>1, <2>1
  <2>3. \A i \in 0 .. vec[other].mSize - 1 :
          heap'[vec'[v].buffPtr][i].val = heap[vec[other].buffPtr][i].val
    BY <1>3, <2>1, <2>2, VecFacts
  <2> QED
    BY <2>2, <2>3, SameContents
<1>6. Seqs' = [Seqs EXCEPT ![v] = Seqs[other], ![other] = <<>>]
  BY <1>2, <1>4, <1>5 DEF Seqs
<1> QED
  BY <1>6 DEF AsSequence!Take, Seqs

LEMMA EraseIsErase ==
  ASSUME IInv, IInv', T = "int", NEW v \in Vecs, NEW pos \in 0 .. vec[v].mSize - 1, Erase(v, pos)
  PROVE  AsSequence!Erase(v, pos + 1) /\ pos + 1 \in 1 .. Len(Seqs[v])
<1> DEFINE slots == heap[vec[v].buffPtr]
           last == vec[v].mSize - 1
           new == ErasedSlots(slots, pos, last)
           old == Contents(v)
           cut == SubSeq(old, 1, (pos + 1) - 1) \o SubSeq(old, (pos + 1) + 1, Len(old))
<1>1. /\ last \in Nat /\ vec[v].mCapacity \in Nat /\ vec[v].mSize = last + 1
      /\ last < vec[v].mCapacity /\ vec[v].buffPtr # Null
  BY VecFacts
<1>2. \A i \in 0 .. last - 1 : new[i].val = IF i < pos THEN slots[i].val ELSE slots[i + 1].val
  <2>1. DOMAIN slots = 0 .. vec[v].mCapacity - 1 /\ SlotsOK(slots)
    BY <1>1, VecFacts
  <2>2. 0 .. last \subseteq DOMAIN slots
    BY <1>1, <2>1
  <2> QED
    BY <1>1, <2>1, <2>2, ErasedSlotsFacts
<1>3. heap' = [heap EXCEPT ![vec[v].buffPtr] = new] /\ vec' = [vec EXCEPT ![v].mSize = last]
  BY DEF Erase, ErasedSlots
<1> HIDE DEF new
<1>4. /\ \A w \in Vecs \ {v} : Contents(w)' = Contents(w)
      /\ vec'[v].mSize = last /\ vec'[v].buffPtr = vec[v].buffPtr
      /\ heap'[vec[v].buffPtr] = new
  BY <1>1, <1>3, EditOthers
<1>5. /\ old \in Seq(Vals) /\ Len(old) = last + 1
      /\ \A i \in 1 .. last + 1 : old[i] = slots[i - 1].val
  BY <1>1, ContentsSeq
<1>6. /\ Contents(v)' \in Seq(Vals) /\ Len(Contents(v)') = last
      /\ \A i \in 1 .. last : Contents(v)'[i] = new[i - 1].val
  BY <1>4, ContentsSeqNext
<1> HIDE DEF old
<1>7. pos + 1 \in 1 .. Len(old)
  BY <1>1, <1>5
<1>8. /\ cut \in Seq(Vals) /\ Len(cut) = last
      /\ \A i \in 1 .. last : cut[i] = IF i < pos + 1 THEN old[i] ELSE old[i + 1]
  <2>1. Len(old) - 1 = last
    BY <1>1, <1>5
  <2>2. /\ cut \in Seq(Vals) /\ Len(cut) = Len(old) - 1
        /\ \A i \in 1 .. Len(old) - 1 : cut[i] = IF i < pos + 1 THEN old[i] ELSE old[i + 1]
    BY <1>5, <1>7, RemoveAtSeq
  <2> HIDE DEF cut
  <2> QED
    BY <2>1, <2>2
<1> HIDE DEF cut
<1>9. ASSUME NEW i \in 1 .. last
      PROVE  Contents(v)'[i] = cut[i]
  <2>1. i - 1 \in 0 .. last - 1 /\ (i - 1 < pos <=> i < pos + 1) /\ (i - 1) + 1 = i
    BY <1>1
  <2>2. Contents(v)'[i] = IF i < pos + 1 THEN slots[i - 1].val ELSE slots[i].val
    BY <1>2, <1>6, <2>1
  <2>3. i \in 1 .. last + 1 /\ i + 1 \in 1 .. last + 1 /\ (i + 1) - 1 = i
    BY <1>1
  <2> QED
    BY <1>5, <1>8, <2>2, <2>3
<1>10. Contents(v)' = cut
  BY <1>6, <1>8, <1>9, SeqEqual
<1>11. Seqs' = [Seqs EXCEPT ![v] = cut] /\ Seqs[v] = old
  BY <1>4, <1>10, OneChanges DEF Seqs, old
<1> QED
  BY <1>7, <1>11 DEF AsSequence!Erase, AsSequence!RemoveAt, Seqs, cut

LEMMA InsertElementIsInsert ==
  ASSUME IInv, IInv', InsertElement, NEW v \in Vecs, call.vec = v
  PROVE  /\ AsSequence!Insert(v, call.at + 1, call.val)
         /\ call.at + 1 \in 1 .. Len(Seqs[v]) + 1 /\ call.val \in Vals
<1> DEFINE slots == heap[vec[v].buffPtr]
           old == Contents(v)
           now == Contents(v)'
<1>1. call.pc = "insert" /\ call.at \in Nat /\ call.to = Null
  BY CallFacts DEF InsertElement, Idle
<1>2. /\ T = "int" /\ call.at <= vec[v].mSize /\ call.count = vec[v].mSize + 1
      /\ call.count <= vec[v].mCapacity /\ call.val \in Vals /\ ~(vec[v].mSize = 1 /\ call.at = 0)
  BY <1>1 DEF IInv, CallOK
<1>3. vec[v].mSize \in Nat /\ vec[v].mCapacity \in Nat /\ vec[v].buffPtr # Null
  BY <1>1, <1>2, VecFacts
<1>4. DOMAIN slots = 0 .. vec[v].mCapacity - 1 /\ SlotsOK(slots)
  BY <1>3, VecFacts
<1>5. /\ old \in Seq(Vals) /\ Len(old) = vec[v].mSize
      /\ \A i \in 1 .. Len(old) : old[i] = slots[i - 1].val
  BY ContentsSeq
<1>6. PICK k \in 1 .. Len(old) + 1 : k = call.at + 1
  BY <1>1, <1>2, <1>3, <1>5
<1>7. PICK x \in Vals : x = call.val
  BY <1>2
<1> DEFINE new == InsertedSlots(slots, k - 1, Len(old), x)
<1>8. k - 1 = call.at /\ 0 .. Len(old) \subseteq DOMAIN slots /\ ~(Len(old) = 1 /\ k = 1)
  BY <1>1, <1>2, <1>3, <1>4, <1>5, <1>6, SMTT(20)
<1>9. heap' = [heap EXCEPT ![vec[v].buffPtr] = new]
  BY <1>5, <1>7, <1>8 DEF InsertElement, Buffer, Size, InsertedSlots
<1>10. vec' = [vec EXCEPT ![v].mSize = Len(old) + 1]
  BY <1>2, <1>5 DEF InsertElement
<1> HIDE DEF new, old
<1>11. /\ vec'[v].mSize = Len(old) + 1 /\ vec'[v].buffPtr = vec[v].buffPtr
       /\ \A w \in Vecs \ {v} : vec'[w] = vec[w]
  BY <1>10, VecFacts DEF VecType
<1>12. heap'[vec[v].buffPtr] = new /\ \A c \in Buffers : c # vec[v].buffPtr => heap'[c] = heap[c]
  BY <1>3, <1>9, VecFacts DEF IInv
<1>13. \A w \in Vecs \ {v} : Contents(w)' = Contents(w)
  BY <1>11, <1>12, OthersUntouched
<1>14. /\ now \in Seq(Vals) /\ Len(now) = Len(old) + 1
       /\ \A i \in 1 .. Len(now) : now[i] = new[i - 1].val
  BY <1>11, <1>12, ContentsSeqNext
<1> HIDE DEF now, slots
<1>15. now = Longer(old, k, x)
  <2>1. PICK n \in Nat : n = Len(old)
    BY <1>3, <1>5
  <2>2. PICK at \in 0 .. n : at = k - 1
    BY <2>1
  <2>3. 0 .. n \subseteq DOMAIN slots /\ ~(n = 1 /\ at = 0)
    BY <1>8, <2>1, <2>2
  <2>4. new = InsertedSlots(slots, at, n, x)
    BY <2>1, <2>2 DEF new
  <2>5. \A i \in 0 .. n : InsertedSlots(slots, at, n, x)[i].val =
                            IF i < at THEN slots[i].val ELSE IF i = at THEN x ELSE slots[i - 1].val
    BY <1>2, <1>4, <2>3, InsertedSlotsFacts DEF InsertedSlots, Constructed
  <2>6. ASSUME NEW i \in 1 .. n + 1
        PROVE  now[i] = IF i < k THEN old[i] ELSE IF i = k THEN x ELSE old[i - 1]
    <3>1. i - 1 \in 0 .. n /\ (i - 1 < at <=> i < k) /\ (i - 1 = at <=> i = k)
      BY <2>1, <2>2
    <3>2. now[i] = new[i - 1].val
      BY <1>14, <2>1
    <3>3. now[i] = IF i < k THEN slots[i - 1].val ELSE IF i = k THEN x ELSE slots[(i - 1) - 1].val
      BY <2>4, <2>5, <3>1, <3>2
    <3>4. (i < k => i \in 1 .. Len(old)) /\ (~(i < k) /\ i # k => i - 1 \in 1 .. Len(old))
      BY <2>1
    <3> QED
      BY <1>5, <3>3, <3>4
  <2>7. DOMAIN now = 1 .. n + 1 /\ now = [i \in DOMAIN now |-> now[i]]
    BY <1>14, <2>1, LenProperties
  <2> QED
    BY <2>1, <2>6, <2>7 DEF Longer
<1>16. Seqs' = [Seqs EXCEPT ![v] = Longer(old, k, x)] /\ Seqs[v] = old
  BY <1>13, <1>15, OneChanges DEF Seqs, old, now
<1>17. SubSeq(old, 1, k - 1) \o <<x>> \o SubSeq(old, k, Len(old)) = Longer(old, k, x)
  BY <1>5, InsertAtSeq
<1> QED
  BY <1>6, <1>7, <1>16, <1>17 DEF AsSequence!Insert, AsSequence!InsertAt, Seqs

\* The last element of emplace_back() or resize() makes all of them appear.
LEMMA ConstructElementIsExtend ==
  ASSUME IInv, IInv', ConstructElement, NEW v \in Vecs, call.vec = v,
         NEW at \in Nat, at = call.at, NEW x, x = call.val, NEW size \in Nat, size = vec[v].mSize
  PROVE  AsSequence!Extend(v) \/ UNCHANGED Seqs
<1> DEFINE slots == heap[vec[v].buffPtr]
           new == Constructed(slots, at, x)
           old == Contents(v)
<1>1. call.pc = "construct" /\ at \in Nat /\ call.count \in Nat /\ call.to = Null
  BY CallFacts DEF ConstructElement, Idle
<1>2. /\ size <= at /\ at < call.count /\ call.count <= vec[v].mCapacity /\ x \in Vals
      /\ \A i \in size .. at - 1 : slots[i].val = x
  BY <1>1 DEF IInv, CallOK
<1>3. vec[v].mCapacity \in Nat /\ vec[v].buffPtr # Null
  BY <1>1, <1>2, VecFacts
<1>4. DOMAIN slots = 0 .. vec[v].mCapacity - 1 /\ SlotsOK(slots)
  BY <1>3, VecFacts
<1>5. at \in DOMAIN slots
  BY <1>1, <1>2, <1>3, <1>4
<1>6. new[at].val = x /\ \A j \in DOMAIN slots \ {at} : new[j] = slots[j]
  <2>1. x \in Vals \cup {Raw} /\ SlotsOK(slots)
    BY <1>2, <1>4
  <2> QED
    BY <1>5, <2>1, ConstructedSlots
<1>7. heap'[vec[v].buffPtr] = new /\ \A c \in Buffers : c # vec[v].buffPtr => heap'[c] = heap[c]
  <2>1. heap' = [heap EXCEPT ![vec[v].buffPtr] = new]
    BY DEF ConstructElement, Buffer
  <2>2. DOMAIN heap = Buffers /\ vec[v].buffPtr \in Buffers
    BY <1>3, VecFacts DEF IInv
  <2> HIDE DEF new
  <2> QED
    BY <2>1, <2>2
<1> HIDE DEF new
<1>8. /\ old \in Seq(Vals) /\ Len(old) = size
      /\ \A i \in 1 .. size : old[i] = slots[i - 1].val
  BY ContentsSeq
<1>9. CASE at + 1 # call.count
  <2>1. vec' = vec
    BY <1>9 DEF ConstructElement
  <2>3. /\ \A w \in Vecs \ {v} : Contents(w)' = Contents(w)
        /\ heap'[vec[v].buffPtr] = new
    BY <1>7, <2>1, OthersUntouched
  <2>4. \A i \in 0 .. size - 1 : new[i].val = slots[i].val
    BY <1>1, <1>2, <1>3, <1>4, <1>6, SMTT(20)
  <2>5. Contents(v)' = Contents(v)
    BY <2>1, <2>3, <2>4, SameContents
  <2> QED
    BY <2>3, <2>5, NoneChanges
<1>10. CASE at + 1 = call.count
  <2> DEFINE k == (at + 1) - size
             copies == [i \in 1 .. k |-> x]
             longer == old \o copies
  <2>1. vec' = [vec EXCEPT ![v].mSize = at + 1]
    BY <1>10 DEF ConstructElement
  <2>2. /\ \A w \in Vecs \ {v} : Contents(w)' = Contents(w)
        /\ vec'[v].mSize = at + 1 /\ vec'[v].buffPtr = vec[v].buffPtr
        /\ heap'[vec[v].buffPtr] = new
    <3>1. /\ vec'[v].mSize = at + 1 /\ vec'[v].buffPtr = vec[v].buffPtr
          /\ \A w \in Vecs \ {v} : vec'[w] = vec[w]
      BY <2>1, VecFacts DEF VecType
    <3> QED
      BY <1>7, <3>1, OthersUntouched
  <2>3. /\ Contents(v)' \in Seq(Vals) /\ Len(Contents(v)') = at + 1
        /\ \A i \in 1 .. at + 1 : Contents(v)'[i] = new[i - 1].val
    BY <2>2, ContentsSeqNext
  <2> HIDE DEF old
  <2>4. k \in Nat /\ size + k = at + 1 /\ k > 0
    BY <1>1, <1>2, <1>3
  <2> HIDE DEF k
  <2>5. copies \in Seq(Vals) /\ Len(copies) = k /\ \A i \in 1 .. k : copies[i] = x
    BY <1>2, <2>4, CopiesSeq
  <2> HIDE DEF copies
  <2>6. /\ longer \in Seq(Vals) /\ Len(longer) = size + k
        /\ \A i \in 1 .. size + k : longer[i] = IF i <= size THEN old[i] ELSE copies[i - size]
    <3>1. /\ longer \in Seq(Vals) /\ Len(longer) = Len(old) + Len(copies)
          /\ \A i \in 1 .. Len(old) + Len(copies) :
               longer[i] = IF i <= Len(old) THEN old[i] ELSE copies[i - Len(old)]
      BY <1>8, <2>5, ConcatProperties
    <3>2. Len(old) = size /\ Len(copies) = k
      BY <1>8, <2>5
    <3> HIDE DEF longer
    <3> QED
      BY <3>1, <3>2
  <2> HIDE DEF longer
  <2>7. ASSUME NEW i \in 1 .. at + 1
        PROVE  Contents(v)'[i] = longer[i]
    <3>1. CASE i <= size
      <4>1. i - 1 \in DOMAIN slots \ {at} /\ i \in 1 .. size
        BY <1>1, <1>2, <1>3, <1>4, <3>1, SMTT(20)
      <4> QED
        BY <1>6, <1>8, <2>3, <2>4, <2>6, <3>1, <4>1, ZenonT(30)
    <3>2. CASE i > size
      <4>1. i - size \in 1 .. k
        BY <1>3, <2>4, <3>2
      <4>2. longer[i] = x
        BY <1>3, <2>4, <2>5, <2>6, <3>2, <4>1, SMTT(20)
      <4>3. CASE i - 1 = at
        BY <1>6, <2>3, <4>2, <4>3
      <4>4. CASE i - 1 # at
        <5>1. i - 1 \in DOMAIN slots \ {at} /\ i - 1 \in size .. at - 1
          BY <1>1, <1>2, <1>3, <1>4, <3>2, <4>4
        <5> QED
          BY <1>2, <1>6, <2>3, <4>2, <5>1
      <4> QED
        BY <4>3, <4>4
    <3> QED
      BY <1>3, <3>1, <3>2
  <2>8. Contents(v)' = longer
    BY <2>3, <2>4, <2>6, <2>7, SeqEqual
  <2>9. /\ Seqs' = [Seqs EXCEPT ![v] = longer] /\ Seqs[v] = old /\ Seqs'[v] = longer
    BY <2>2, <2>8, OneChanges DEF Seqs, old
  <2>10. Len(longer) > Len(old) /\ Len(longer) - Len(old) = k
    BY <1>3, <1>8, <2>4, <2>6
  <2>11. longer = old \o [i \in 1 .. Len(longer) - Len(old) |-> x]
    BY <2>10 DEF longer, copies
  <2>12. Seqs' = [Seqs EXCEPT ![v] = @ \o [i \in 1 .. Len(Seqs'[v]) - Len(@) |-> x]]
    BY <2>9, <2>11
  <2> QED
    BY <1>2, <2>9, <2>10, <2>12 DEF AsSequence!Extend, Seqs
<1> QED
  BY <1>9, <1>10

\* Copying to the new buffer, replacing the old one, and leaving the call leave
\* the contents as they are.
LEMMA NewBufferIsNoStep ==
  ASSUME IInv, NEW v \in Vecs, call # Idle, NEW new,
         call.to # Null => heap' = [heap EXCEPT ![call.to] = new],
         call.to = Null => heap' = heap, vec' = vec
  PROVE  UNCHANGED Seqs
<1>1. call.to # Null => \A w \in Vecs : vec[w].buffPtr # call.to
  BY DEF IInv, NewBufferOK
<1>2. \A w \in Vecs : vec[w].buffPtr # Null => heap'[vec[w].buffPtr] = heap[vec[w].buffPtr]
  BY <1>1, VecFacts DEF IInv
<1>3. \A w \in Vecs : Contents(w)' = Contents(w)
  BY <1>2, UntouchedContents
<1> QED
  BY <1>3, NoneChanges

LEMMA CopyElementIsNoStep ==
  ASSUME IInv, CopyElement, NEW v \in Vecs, call.vec = v
  PROVE  UNCHANGED Seqs
<1>1. call.to # Null /\ call # Idle /\ vec' = vec
  BY DEF CopyElement, Idle
<1>2. PICK new : new = Constructed(heap[call.to], call.copied, heap[Buffer][call.copied].val)
  OBVIOUS
<1>3. heap' = [heap EXCEPT ![call.to] = new]
  BY <1>2 DEF CopyElement
<1> QED
  BY <1>1, <1>3, NewBufferIsNoStep

LEMMA ThrowIsNoStep ==
  ASSUME IInv, Throw
  PROVE  UNCHANGED Seqs
<1>1. call # Idle /\ vec' = vec
  BY DEF Throw, Idle
<1>2. call.to # Null => heap' = [heap EXCEPT ![call.to] = Uninitialized(0)]
  BY DEF Throw
<1>3. call.to = Null => heap' = heap
  BY DEF Throw
<1>4. call.vec \in Vecs
  BY <1>1, CallFacts
<1> QED
  BY <1>1, <1>2, <1>3, <1>4, NewBufferIsNoStep

LEMMA ReplaceIsNoStep ==
  ASSUME IInv, Replace, NEW v \in Vecs, call.vec = v
  PROVE  UNCHANGED Seqs
<1> DEFINE b == vec[v].buffPtr
           size == vec[v].mSize
           to == call.to
<1>1. size \in Nat /\ to # Null /\ to \in Buffers /\ call.copied = size /\ call # Idle
  BY CallFacts, VecFacts DEF Replace, Size, CallType, Idle
<1>2. /\ \A w \in Vecs : vec[w].buffPtr # to
      /\ \A i \in 0 .. size - 1 : heap[to][i].val = heap[b][i].val
  BY <1>1 DEF IInv, NewBufferOK
<1>3. \A c \in Buffers : c # b => heap'[c] = heap[c]
  <2>1. CASE vec[v].mCapacity > 0
    <3>1. b # Null
      BY <2>1, VecFacts
    <3>2. heap' = Freed(v) /\ allocated' = allocated \ {b}
      BY <2>1 DEF Replace, Buffer
    <3> QED
      BY <3>1, <3>2, FreedFacts
  <2>2. CASE ~(vec[v].mCapacity > 0)
    BY <2>2 DEF Replace
  <2> QED
    BY <2>1, <2>2
<1>4. /\ \A w \in Vecs \ {v} : vec'[w] = vec[w]
      /\ vec'[v].buffPtr = to /\ vec'[v].mSize = size
  <2>1. vec' = [vec EXCEPT ![v].buffPtr = to, ![v].mCapacity = call.cap]
    BY DEF Replace
  <2> QED
    BY <2>1, VecFacts DEF VecType
<1>5. \A w \in Vecs \ {v} : Contents(w)' = Contents(w)
  BY <1>3, <1>4, OthersUntouched
<1>6. heap'[to] = heap[to]
  BY <1>1, <1>2, <1>3
<1>7. \A i \in 0 .. size - 1 : heap'[vec'[v].buffPtr][i].val = heap[b][i].val
  BY <1>2, <1>4, <1>6
<1>8. Contents(v)' = Contents(v)
  BY <1>4, <1>7, SameContents
<1> QED
  BY <1>5, <1>8, NoneChanges

-----------------------------------------------------------------------------
(* The refinement.                                                         *)

LEMMA ModifyRefines ==
  ASSUME IInv, IInv', NEW v \in Vecs, Modify(v)
  PROVE  AsSequence!Next \/ UNCHANGED Seqs
<1>1. ASSUME NEW list \in Lists, Construct(v, list)
      PROVE  AsSequence!Next
  BY <1>1, ConstructIsFill DEF AsSequence!Next
<1>2. ASSUME NEW x \in Vals, EmplaceBack(v, x)
      PROVE  UNCHANGED Seqs
  BY <1>2, MakeRoomIsNoStep DEF EmplaceBack
<1>3. ASSUME NEW n \in Capacities, Reserve(v, n)
      PROVE  UNCHANGED Seqs
  BY <1>3, ReallocateIsNoStep DEF Reserve
<1>4. ASSUME ShrinkToFit(v)
      PROVE  UNCHANGED Seqs
  BY <1>4, ReallocateIsNoStep DEF ShrinkToFit
<1>5. ASSUME NEW n \in Capacities, NEW x \in Vals, Resize(v, n, x)
      PROVE  AsSequence!Next \/ UNCHANGED Seqs
  <2>1. CASE n < vec[v].mSize
    <3>1. /\ heap' = [heap EXCEPT ![vec[v].buffPtr] = Destroyed(@, n .. vec[v].mSize - 1)]
          /\ vec' = [vec EXCEPT ![v].mSize = n]
      <4>1. vec[v].mSize \in Nat /\ n \in Nat
        BY VecFacts, VectorAssumption DEF Capacities
      <4> QED
        BY <1>5, <2>1, <4>1 DEF Resize
    <3>2. AsSequence!Truncate(v, n) /\ n \in 0 .. Len(Seqs[v])
      BY <2>1, <3>1, ResizeDownIsTruncate
    <3> QED
      BY <3>2 DEF AsSequence!Next, Seqs
  <2>2. CASE ~(n < vec[v].mSize)
    <3>1. PICK next : Reallocate(v, n, next) \/ UNCHANGED <<vec, heap>>
      BY <1>5, <2>2 DEF Resize
    <3>2. call = Idle
      BY <1>5 DEF Resize
    <3>3. CASE Reallocate(v, n, next)
      BY <3>2, <3>3, ReallocateIsNoStep
    <3>4. CASE UNCHANGED <<vec, heap>>
      BY <3>4 DEF Seqs, Contents
    <3> QED
      BY <3>1, <3>3, <3>4
  <2> QED
    BY <2>1, <2>2
<1>6. ASSUME Destroy(v)
      PROVE  AsSequence!Next
  <2>1. AsSequence!Truncate(v, 0) /\ 0 \in 0 .. Len(Seqs[v])
    BY <1>6, DestroyIsTruncate
  <2> QED
    BY <2>1 DEF AsSequence!Next, Seqs
<1>7. ASSUME NEW other \in Vecs, MoveAssign(v, other)
      PROVE  AsSequence!Next
  BY <1>7, MoveAssignIsTake DEF AsSequence!Next
<1> QED
  BY <1>1, <1>2, <1>3, <1>4, <1>5, <1>6, <1>7 DEF Modify

LEMMA ModifyIntsRefines ==
  ASSUME IInv, IInv', T = "int", NEW v \in Vecs, ModifyInts(v)
  PROVE  AsSequence!Next \/ UNCHANGED Seqs
<1>1. ASSUME NEW pos \in 0 .. vec[v].mSize, NEW x \in Vals, Insert(v, pos, x)
      PROVE  UNCHANGED Seqs
  BY <1>1, MakeRoomIsNoStep DEF Insert
<1>2. ASSUME NEW pos \in 0 .. vec[v].mSize - 1, Erase(v, pos)
      PROVE  AsSequence!Next
  <2>1. PICK i : i = pos + 1
    OBVIOUS
  <2>2. AsSequence!Erase(v, i) /\ i \in 1 .. Len(Seqs[v])
    BY <1>2, <2>1, EraseIsErase
  <2> QED
    BY <2>2 DEF AsSequence!Next, Seqs
<1>3. ASSUME Clear(v)
      PROVE  AsSequence!Next
  <2>1. AsSequence!Truncate(v, 0) /\ 0 \in 0 .. Len(Seqs[v])
    BY <1>3, ClearIsTruncate
  <2> QED
    BY <2>1 DEF AsSequence!Next, Seqs
<1> QED
  BY <1>1, <1>2, <1>3 DEF ModifyInts

LEMMA LoopRefines ==
  ASSUME IInv, IInv', Loop
  PROVE  AsSequence!Next \/ UNCHANGED Seqs
<1>1. call # Idle
  BY DEF Loop, CopyElement, Replace, ConstructElement, InsertElement, Throw, Idle
<1>2. PICK v \in Vecs : call.vec = v
  BY <1>1, CallFacts
<1>3. CASE CopyElement
  BY <1>2, <1>3, CopyElementIsNoStep
<1>4. CASE Replace
  BY <1>2, <1>4, ReplaceIsNoStep
<1>5. CASE ConstructElement
  <2>1. PICK at \in Nat : at = call.at
    BY <1>1, CallFacts
  <2>2. PICK size \in Nat : size = vec[v].mSize
    BY VecFacts
  <2>3. PICK x : x = call.val
    OBVIOUS
  <2>4. AsSequence!Extend(v) \/ UNCHANGED Seqs
    BY <1>2, <1>5, <2>1, <2>2, <2>3, ConstructElementIsExtend
  <2> QED
    BY <2>4 DEF AsSequence!Next
<1>6. CASE InsertElement
  <2>1. PICK i : i = call.at + 1
    OBVIOUS
  <2>2. /\ AsSequence!Insert(v, i, call.val)
        /\ i \in 1 .. Len(Seqs[v]) + 1 /\ call.val \in Vals
    BY <1>2, <1>6, <2>1, InsertElementIsInsert
  <2> QED
    BY <2>2 DEF AsSequence!Next, Seqs
<1>7. CASE Throw
  BY <1>7, ThrowIsNoStep
<1> QED
  BY <1>3, <1>4, <1>5, <1>6, <1>7 DEF Loop

LEMMA StepRefines == IInv /\ IInv' /\ [Next]_vars => AsSequence!Next \/ UNCHANGED Seqs
<1> SUFFICES ASSUME IInv, IInv', [Next]_vars
             PROVE  AsSequence!Next \/ UNCHANGED Seqs
  OBVIOUS
<1>1. CASE UNCHANGED vars
  BY <1>1 DEF vars, Seqs, Contents
<1> QED
  BY <1>1, ModifyRefines, ModifyIntsRefines, LoopRefines DEF Next

LEMMA InitRefines == Init => AsSequence!Init
<1> SUFFICES ASSUME Init PROVE AsSequence!Init
  OBVIOUS
<1>1. \A v \in Vecs : vec[v].mSize = 0
  BY DEF Init, NoBuffer
<1>2. \A v \in Vecs : Contents(v) = <<>>
  BY <1>1, InitialInvariant, ContentsSeq
<1> QED
  BY <1>2 DEF AsSequence!Init

\* The contents of a vector are those of a sequence: a call takes effect in one
\* step, whether or not it reallocates; an exception takes nothing back and adds
\* nothing.
THEOREM VectorRefinement == Spec => ImplementsSequence
<1>1. IInv /\ IInv' /\ [Next]_vars => [AsSequence!Next]_Seqs
  BY StepRefines
<1>2. [AsSequence!Next]_Seqs => [AsSequence!Next]_[v \in Vecs |-> Contents(v)]
  BY DEF Seqs
<1> QED
  BY <1>1, <1>2, InitRefines, VectorInductiveInvariant, PTL
     DEF Spec, ImplementsSequence, AsSequence!Spec
=============================================================================
