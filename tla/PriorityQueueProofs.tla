-------------------------- MODULE PriorityQueueProofs --------------------------
(***************************************************************************)
(* Proofs about PriorityQueue: both calls stay within the vector and lose  *)
(* no element, and push() keeps the heap, for all elements and every size. *)
(* (pop() does not: PriorityQueueHeap.cfg has the counterexample.)         *)
(***************************************************************************)
EXTENDS PriorityQueue, FiniteSetTheorems, TLAPS

IsChild(c, p) == c \in {Left(p), Right(p)}

\* Only the element that upHeap() is moving may be larger than its parent.
HeapButOne ==
  \A p, c \in Idxs :
    IsChild(c, p) /\ ~(call.pc = "up" /\ c = call.i) => container[c] <= container[p]

\* Its parent may take its place: it is as large as the children there.
ParentFits ==
  call.pc = "up" =>
    \A p, c \in Idxs : IsChild(call.i, p) /\ IsChild(c, call.i) => container[c] <= container[p]

OnlyPush == call.pc # "down" /\ (call.pc = "idle" => call = Idle)

\* While a client only pushes
HeapInv == OnlyPush /\ HeapButOne /\ ParentFits

IInv == TypeOK /\ (~popped => HeapInv)

-----------------------------------------------------------------------------
\* ParentIndex(i) is the index whose child i is, and it is in the vector.
LEMMA ParentOfChild ==
  ASSUME NEW i \in Nat, i # 0
  PROVE  /\ ParentIndex(i) \in Nat /\ ParentIndex(i) < i
         /\ IsChild(i, ParentIndex(i))
  BY SMT DEF ParentIndex, IsChild, Left, Right

\* An index is the child of one index only.
LEMMA ParentUnique ==
  ASSUME NEW p \in Nat, NEW q \in Nat, NEW c \in Nat, IsChild(c, p), IsChild(c, q)
  PROVE  p = q /\ p < c
  BY SMT DEF IsChild, Left, Right

\* The empty queue is a heap.
LEMMA InitHeap == Init => IInv
<1> SUFFICES ASSUME Init PROVE IInv
  OBVIOUS
<1>1. Idxs = {}
  BY DEF Init, Idxs
<1>2. TypeOK
  <2>1. size \in 0 .. MaxSize /\ container \in [Idxs -> Vals]
    BY <1>1, PriorityQueueAssumption DEF Init
  <2>2. call \in [pc : {"idle", "up", "down"}, i : Nat] /\ call.pc # "up"
    BY DEF Init, Idle
  <2>3. pushed \in [Vals -> Int]
    BY DEF Init
  <2>4. popped \in BOOLEAN
    BY DEF Init
  <2> QED
    BY <2>1, <2>2, <2>3, <2>4 DEF TypeOK
<1>3. OnlyPush /\ HeapButOne /\ ParentFits
  BY <1>1 DEF Init, OnlyPush, HeapButOne, ParentFits, Idle
<1> QED
  BY <1>2, <1>3 DEF IInv, HeapInv

\* push(): the new element is at a leaf.
LEMMA PushStep ==
  ASSUME TypeOK, NEW v \in Vals, Push(v)
  PROVE  TypeOK' /\ (HeapInv => HeapInv')
<1> USE DEF TypeOK
<1>1. /\ size \in Nat /\ size' = size + 1 /\ Idxs' = 0 .. size
      /\ call'.pc = "up" /\ call'.i = size /\ call' \in [pc : {"idle", "up", "down"}, i : Nat]
  BY PriorityQueueAssumption DEF Push, Idxs
<1>2. \A i \in Idxs : container'[i] = container[i]
  BY <1>1 DEF Push, Idxs
<1>3. TypeOK'
  <2>1. size' \in 0 .. MaxSize
    BY <1>1, PriorityQueueAssumption DEF Push
  <2>2. container' \in [Idxs' -> Vals]
    BY <1>1 DEF Push, Idxs
  <2>3. pushed' \in [Vals -> Int] /\ popped' \in BOOLEAN
    BY DEF Push
  <2> QED
    BY <1>1, <2>1, <2>2, <2>3
<1>4. OnlyPush'
  BY <1>1 DEF OnlyPush
<1>5. HeapInv => HeapButOne'
  <2> SUFFICES ASSUME HeapButOne,
                      NEW p \in 0 .. size, NEW c \in 0 .. size, IsChild(c, p), c # size
               PROVE  container'[c] <= container'[p]
    BY <1>1 DEF HeapInv, HeapButOne, IsChild
  <2>1. c \in Idxs /\ p \in Idxs
    BY <1>1, ParentUnique DEF Idxs
  <2>2. call.pc = "idle"
    BY DEF Push, Idle
  <2> QED
    BY <1>2, <2>1, <2>2 DEF HeapButOne
<1>6. ParentFits'
  <2> SUFFICES ASSUME NEW c \in 0 .. size, IsChild(c, size)
               PROVE  FALSE
    BY <1>1 DEF ParentFits, IsChild
  <2> QED
    BY <1>1 DEF IsChild, Left, Right
<1> QED
  BY <1>3, <1>4, <1>5, <1>6 DEF HeapInv

\* upHeap(): the element changes places with its parent, or the heap is done.
LEMMA UpHeapStep ==
  ASSUME TypeOK, UpHeap
  PROVE  TypeOK' /\ (HeapInv => HeapInv')
<1> USE DEF TypeOK
<1>1. PICK i : i = call.i
  OBVIOUS
<1>2. PICK p : p = ParentIndex(i)
  OBVIOUS
<1>3. call.pc = "up" /\ i \in Idxs /\ i \in Nat /\ size \in Nat /\ size' = size /\ Idxs' = Idxs
  BY <1>1, PriorityQueueAssumption DEF UpHeap, Idxs
<1>4. pushed' \in [Vals -> Int] /\ size' \in 0 .. MaxSize /\ popped' \in BOOLEAN
  BY DEF UpHeap
<1>5. \A j \in Idxs : container[j] \in Int
  BY PriorityQueueAssumption
<1>6. CASE i # 0 /\ container[p] < container[i]
  <2>1. /\ p \in Idxs /\ p \in Nat /\ p < i /\ IsChild(i, p)
    BY <1>2, <1>3, <1>6, ParentOfChild DEF Idxs
  <2>2. /\ container' = [container EXCEPT ![p] = container[i], ![i] = container[p]]
        /\ call' = [call EXCEPT !.i = p]
    BY <1>1, <1>2, <1>6 DEF UpHeap, Swapped
  <2>3. container'[p] = container[i] /\ container'[i] = container[p]
    BY <1>3, <2>1, <2>2
  <2>4. \A j \in Idxs : j # p /\ j # i => container'[j] = container[j]
    BY <1>3, <2>2
  <2>5. container' \in [Idxs' -> Vals]
    BY <1>3, <2>1, <2>2
  <2>6. call'.pc = "up" /\ call'.i = p /\ call' \in [pc : {"idle", "up", "down"}, i : Nat]
    BY <1>3, <2>1, <2>2
  <2>7. TypeOK' /\ OnlyPush'
    BY <1>3, <1>4, <2>1, <2>5, <2>6 DEF OnlyPush
  <2>8. HeapInv => HeapButOne'
    <3> SUFFICES ASSUME HeapButOne, ParentFits,
                        NEW q \in Idxs, NEW c \in Idxs, IsChild(c, q), c # p
                 PROVE  container'[c] <= container'[q]
      BY <1>3, <2>6 DEF HeapInv, HeapButOne, IsChild
    <3>1. c \in Nat /\ q \in Nat
      BY <1>3 DEF Idxs
    <3>2. CASE c = i
      <4>1. IsChild(i, q)
        BY <3>2
      <4>2. q = p
        BY <1>3, <2>1, <3>1, <4>1, ParentUnique
      <4>3. container[p] \in Int /\ container[i] \in Int
        BY <1>3, <1>5, <2>1
      <4> QED
        BY <1>6, <2>3, <3>2, <4>2, <4>3
    <3>3. CASE c # i /\ q = p
      <4>1. container[c] <= container[p]
        BY <1>1, <3>3 DEF HeapButOne
      <4>2. container'[c] = container[c] /\ container'[q] = container[i]
        BY <2>3, <2>4, <3>3
      <4>3. container[c] \in Int /\ container[p] \in Int /\ container[i] \in Int
        BY <1>3, <1>5, <2>1
      <4> QED
        BY <1>6, <4>1, <4>2, <4>3
    <3>4. CASE c # i /\ q = i
      <4>1. container[c] <= container[p]
        BY <1>1, <1>3, <2>1, <3>4 DEF ParentFits
      <4> QED
        BY <2>3, <2>4, <3>4, <4>1
    <3>5. CASE c # i /\ q # p /\ q # i
      <4>1. container[c] <= container[q]
        BY <1>1, <3>5 DEF HeapButOne
      <4> QED
        BY <2>4, <3>5, <4>1
    <3> QED
      BY <3>2, <3>3, <3>4, <3>5
  <2>9. HeapInv => ParentFits'
    <3> SUFFICES ASSUME HeapButOne,
                        NEW g \in Idxs, NEW c \in Idxs, IsChild(p, g), IsChild(c, p)
                 PROVE  container'[c] <= container'[g]
      BY <1>3, <2>6 DEF HeapInv, ParentFits, IsChild
    <3>1. g < p /\ p < c /\ g # i /\ g # p /\ c # p
      BY <1>3, <2>1, ParentUnique DEF Idxs
    <3>2. container[p] <= container[g]
      BY <1>1, <2>1 DEF HeapButOne
    <3>3. CASE c = i
      BY <2>3, <2>4, <3>1, <3>2, <3>3
    <3>4. CASE c # i
      <4>1. container[c] <= container[p]
        BY <1>1, <2>1, <3>4 DEF HeapButOne
      <4> QED
        BY <1>5, <2>1, <2>4, <3>1, <3>2, <3>4, <4>1
    <3> QED
      BY <3>3, <3>4
  <2> QED
    BY <2>7, <2>8, <2>9 DEF HeapInv
<1>7. CASE ~(i # 0 /\ container[p] < container[i])
  <2>1. call' = Idle /\ container' = container
    BY <1>1, <1>2, <1>7 DEF UpHeap
  <2>2. call'.pc = "idle" /\ call' \in [pc : {"idle", "up", "down"}, i : Nat]
    BY <2>1 DEF Idle
  <2>3. TypeOK' /\ OnlyPush' /\ ParentFits'
    BY <1>3, <1>4, <2>1, <2>2 DEF OnlyPush, ParentFits
  <2>4. HeapInv => HeapButOne'
    <3> SUFFICES ASSUME HeapButOne,
                        NEW q \in Idxs, NEW c \in Idxs, IsChild(c, q)
                 PROVE  container[c] <= container[q]
      BY <1>3, <2>1 DEF HeapInv, HeapButOne, IsChild
    <3>1. CASE c = i
      <4>1. q = p /\ i # 0
        BY <1>2, <1>3, <3>1, ParentUnique, ParentOfChild DEF Idxs
      <4> QED
        BY <1>3, <1>5, <1>7, <3>1, <4>1
    <3>2. CASE c # i
      BY <1>1, <3>2 DEF HeapButOne
    <3> QED
      BY <3>1, <3>2
  <2> QED
    BY <2>3, <2>4 DEF HeapInv
<1> QED
  BY <1>6, <1>7

\* pop(): one element less, and a sift down from the root.
LEMMA PopType ==
  ASSUME TypeOK, Pop
  PROVE  TypeOK'
<1> USE DEF TypeOK
<1>1. size \in Nat /\ size > 0 /\ size <= MaxSize /\ size' = size - 1 /\ Idxs' = 0 .. size - 2
  BY PriorityQueueAssumption DEF Pop, Idxs
<1>2. \A i \in 0 .. size - 1 : container[i] \in Vals
  BY DEF Idxs
<1>3. container' \in [Idxs' -> Vals]
  BY <1>1, <1>2 DEF Pop
<1>4. call' = [pc |-> "down", i |-> 0] /\ popped' = TRUE /\ size' \in 0 .. MaxSize
  BY <1>1, PriorityQueueAssumption DEF Pop
<1>5. pushed' \in [Vals -> Int]
  <2>1. PICK v : v = container[0]
    OBVIOUS
  <2>2. pushed' = [pushed EXCEPT ![v] = pushed[v] - 1]
    BY <2>1 DEF Pop
  <2>3. v \in Vals
    BY <1>1, <1>2, <2>1
  <2>4. pushed \in [Vals -> Int] /\ pushed[v] - 1 \in Int
    BY <2>3
  <2> HIDE DEF TypeOK
  <2> QED
    BY <2>2, <2>4
<1> QED
  BY <1>3, <1>4, <1>5

\* downHeap(): the element changes places with a child, or the sift is over.
LEMMA DownHeapType ==
  ASSUME TypeOK, DownHeap
  PROVE  TypeOK'
<1> USE DEF TypeOK
<1>1. /\ size' = size /\ Idxs' = Idxs /\ size \in Nat /\ call.pc = "down" /\ call.i \in Nat
      /\ pushed' \in [Vals -> Int] /\ popped' \in BOOLEAN /\ size' \in 0 .. MaxSize
  BY PriorityQueueAssumption DEF DownHeap, Idxs
<1>2. PICK i \in Nat : i = call.i
  BY <1>1
<1>3. CASE SwapInd(i) # -1
  <2>1. PICK j : j = SwapInd(i)
    OBVIOUS
  <2>2. j \in {Left(i), Right(i)} /\ j < size
    BY <1>3, <2>1 DEF SwapInd
  <2>3. j \in Nat /\ j \in Idxs
    BY <1>1, <2>2 DEF Left, Right, Idxs
  <2>4. i \in Idxs
    BY <1>1, <2>2 DEF Left, Right, Idxs
  <2>5. container' = Swapped(j, i) /\ call' = [call EXCEPT !.i = j]
    BY <1>2, <1>3, <2>1 DEF DownHeap
  <2>6. container' \in [Idxs' -> Vals]
    BY <1>1, <2>3, <2>4, <2>5 DEF Swapped
  <2> QED
    BY <1>1, <2>3, <2>5, <2>6
<1>4. CASE SwapInd(i) = -1
  BY <1>1, <1>2, <1>4 DEF DownHeap, Idle
<1> QED
  BY <1>3, <1>4

\* The strengthened invariant is inductive.
LEMMA Invariant == Spec => []IInv
<1>1. IInv /\ [Next]_vars => IInv'
  <2> SUFFICES ASSUME IInv, [Next]_vars PROVE IInv'
    OBVIOUS
  <2>1. ASSUME NEW v \in Vals, Push(v) PROVE IInv'
    <3>1. popped' = popped
      BY <2>1 DEF Push
    <3> QED
      BY <2>1, <3>1, PushStep DEF IInv
  <2>2. CASE UpHeap
    <3>1. popped' = popped
      BY <2>2 DEF UpHeap
    <3> QED
      BY <2>2, <3>1, UpHeapStep DEF IInv
  <2>3. CASE Pop
    BY <2>3, PopType DEF IInv, Pop
  <2>4. CASE DownHeap
    BY <2>4, DownHeapType DEF IInv, HeapInv, OnlyPush, DownHeap
  <2>5. CASE UNCHANGED vars
    BY <2>5 DEF vars, IInv, TypeOK, HeapInv, OnlyPush, HeapButOne, ParentFits, Idxs
  <2> QED
    BY <2>1, <2>2, <2>3, <2>4, <2>5 DEF Next
<1> QED
  BY <1>1, InitHeap, PTL DEF Spec

\* The vector has the size the calls go by, and upHeap() stays within it.
THEOREM TypeCorrect == Spec => []TypeOK
<1>1. IInv => TypeOK
  BY DEF IInv
<1> QED
  BY <1>1, Invariant, PTL

\* After any number of push() calls, whatever the elements, no element is
\* larger than its parent.
THEOREM PushKeepsHeap == Spec => []ValidHeap
<1>1. IInv => ValidHeap
  BY DEF IInv, HeapInv, HeapButOne, ValidHeap, HeapOrder, Idle, IsChild
<1> QED
  BY <1>1, Invariant, PTL
-----------------------------------------------------------------------------
(* The elements.  A swap exchanges two places of the vector, so each value *)
(* is found as often as before.                                            *)

Places(v) == {i \in Idxs : container[i] = v}

LEMMA PlacesFinite ==
  ASSUME TypeOK, NEW v
  PROVE  IsFiniteSet(Places(v)) /\ Cardinality(Places(v)) \in Nat
<1>1. size \in Nat
  BY PriorityQueueAssumption DEF TypeOK
<1>2. IsFiniteSet(Idxs)
  BY <1>1, FS_Interval DEF Idxs
<1>3. Places(v) \in SUBSET Idxs
  BY DEF Places
<1> QED
  BY <1>2, <1>3, FS_Subset, FS_CardinalityType

\* One element more or less.
LEMMA PlacesGain ==
  ASSUME NEW S, NEW i, IsFiniteSet(S), i \notin S
  PROVE  IsFiniteSet(S \cup {i}) /\ Cardinality(S \cup {i}) = Cardinality(S) + 1
BY FS_AddElement

LEMMA SwapKeepsElements ==
  ASSUME TypeOK, NEW i \in Idxs, NEW j \in Idxs, container' = Swapped(i, j), size' = size, NEW v
  PROVE  Cardinality(Places(v)') = Cardinality(Places(v))
<1>1. /\ container'[i] = container[j] /\ container'[j] = container[i] /\ Idxs' = Idxs
      /\ \A k \in Idxs : k # i /\ k # j => container'[k] = container[k]
  BY DEF TypeOK, Swapped, Idxs
<1> DEFINE R == Places(v) \ {i, j}
<1>2. IsFiniteSet(Places(v)) /\ IsFiniteSet(R)
  BY PlacesFinite, FS_Difference
<1>3. CASE (container[i] = v) <=> (container[j] = v)
  <2>1. Places(v)' = Places(v)
    BY <1>1, <1>3 DEF Places
  <2> QED
    BY <2>1
<1>4. CASE container[i] = v /\ container[j] # v
  <2>1. Places(v) = R \cup {i} /\ Places(v)' = R \cup {j}
    BY <1>1, <1>4 DEF Places
  <2> QED
    BY <1>2, <2>1, PlacesGain
<1>5. CASE container[i] # v /\ container[j] = v
  <2>1. Places(v) = R \cup {j} /\ Places(v)' = R \cup {i}
    BY <1>1, <1>5 DEF Places
  <2> QED
    BY <1>2, <2>1, PlacesGain
<1> QED
  BY <1>3, <1>4, <1>5

LEMMA PushElements ==
  ASSUME TypeOK, SameElements, NEW x \in Vals, Push(x)
  PROVE  SameElements'
<1> SUFFICES ASSUME NEW v \in Vals PROVE Cardinality(Places(v)') = pushed'[v]
  BY DEF SameElements, Places
<1>1. size \in Nat /\ Idxs' = Idxs \cup {size} /\ size \notin Idxs
  BY PriorityQueueAssumption DEF TypeOK, Push, Idxs
<1>2. container'[size] = x /\ \A k \in Idxs : container'[k] = container[k]
  BY <1>1 DEF Push, Idxs
<1>3. Cardinality(Places(v)) = pushed[v] /\ IsFiniteSet(Places(v))
  BY PlacesFinite DEF SameElements, Places
<1>4. pushed'[v] = IF v = x THEN pushed[v] + 1 ELSE pushed[v]
  BY DEF TypeOK, Push
<1>5. CASE v = x
  <2>1. Places(v)' = Places(v) \cup {size} /\ size \notin Places(v)
    BY <1>1, <1>2, <1>5 DEF Places
  <2> QED
    BY <1>3, <1>4, <1>5, <2>1, PlacesGain
<1>6. CASE v # x
  <2>1. Places(v)' = Places(v)
    BY <1>1, <1>2, <1>6 DEF Places
  <2> QED
    BY <1>3, <1>4, <1>6, <2>1
<1> QED
  BY <1>5, <1>6

\* pop(): the last element takes the place of the first, which is gone.
LEMMA PopElements ==
  ASSUME TypeOK, SameElements, Pop
  PROVE  SameElements'
<1> SUFFICES ASSUME NEW v \in Vals PROVE Cardinality(Places(v)') = pushed'[v]
  BY DEF SameElements, Places
<1>1. PICK last \in Nat : last = size - 1
  BY PriorityQueueAssumption DEF TypeOK, Pop
<1>2. Idxs = 0 .. last /\ Idxs' = 0 .. last - 1 /\ 0 \in Idxs /\ last \in Idxs
  BY <1>1 DEF Idxs, Pop, TypeOK
<1>3. container' = [k \in 0 .. last - 1 |-> IF k = 0 THEN container[last] ELSE container[k]]
  BY <1>1 DEF Pop, TypeOK
<1>4. Cardinality(Places(v)) = pushed[v] /\ IsFiniteSet(Places(v))
  BY PlacesFinite DEF SameElements, Places
<1>5. container[0] \in Vals /\ pushed' = [pushed EXCEPT ![container[0]] = @ - 1]
  BY <1>2 DEF TypeOK, Pop
<1>6. pushed'[v] = IF v = container[0] THEN pushed[v] - 1 ELSE pushed[v]
  BY <1>5 DEF TypeOK
<1> DEFINE R == Places(v) \ {0}
<1>7. /\ IsFiniteSet(R)
      /\ Cardinality(R) = IF 0 \in Places(v) THEN Cardinality(Places(v)) - 1 ELSE Cardinality(Places(v))
  BY <1>4, FS_RemoveElement
<1>8. Cardinality(R) = pushed'[v]
  BY <1>2, <1>4, <1>6, <1>7 DEF Places
<1>9. CASE last = 0
  <2>1. Places(v)' = {} /\ R = {}
    BY <1>2, <1>9 DEF Places
  <2> QED
    BY <1>8, <2>1
<1>10. CASE last # 0 /\ container[last] = v
  <2> DEFINE B == R \ {last}
  <2>1. IsFiniteSet(B) /\ last \notin B /\ 0 \notin B
    BY <1>7, FS_RemoveElement
  <2>2. R = B \cup {last}
    BY <1>2, <1>10 DEF Places
  <2>3. \A k : k \in Places(v)' <=> k \in B \cup {0}
    <3>1. Idxs' = Idxs \ {last} /\ 0 \in Idxs'
      <4>1. 0 .. last - 1 = (0 .. last) \ {last}
        BY last \in Nat, last - 1 \in Int
      <4>2. 0 \in 0 .. last - 1
        BY last \in Nat, <1>10
      <4> QED
        BY <1>2, <4>1, <4>2
    <3>2. \A k \in Idxs' : container'[k] = IF k = 0 THEN v ELSE container[k]
      BY <1>2, <1>3, <1>10
    <3> QED
      BY <3>1, <3>2 DEF Places
  <2>4. Places(v)' = B \cup {0}
    BY <2>3 DEF Places
  <2> QED
    BY <1>8, <2>1, <2>2, <2>4, PlacesGain
<1>11. CASE last # 0 /\ container[last] # v
  <2>1. \A k : k \in Places(v)' <=> k \in R
    BY <1>1, <1>2, <1>3, <1>11 DEF Places
  <2>2. Places(v)' = R
    BY <2>1 DEF Places
  <2> QED
    BY <1>8, <2>2
<1> QED
  BY <1>9, <1>10, <1>11

\* One level of a sift is a swap of two places of the vector, or the last.
LEMMA SiftElements ==
  ASSUME TypeOK, SameElements, UpHeap \/ DownHeap
  PROVE  SameElements'
<1>1. size' = size /\ pushed' = pushed /\ size \in Nat /\ call.i \in Nat
  BY PriorityQueueAssumption DEF UpHeap, DownHeap, TypeOK
<1>2. container' = container \/ \E i, j \in Idxs : container' = Swapped(i, j)
  <2>1. CASE UpHeap
    <3>1. CASE call.i # 0 /\ container[ParentIndex(call.i)] < container[call.i]
      <4>1. PICK i \in Idxs : i = call.i
        BY <2>1 DEF UpHeap, TypeOK
      <4>2. PICK p : p = ParentIndex(i)
        OBVIOUS
      <4>3. p \in Idxs
        BY <1>1, <3>1, <4>1, <4>2, ParentOfChild DEF Idxs
      <4> QED
        BY <2>1, <3>1, <4>1, <4>2, <4>3 DEF UpHeap
    <3> QED
      BY <2>1, <3>1 DEF UpHeap
  <2>2. CASE DownHeap
    <3>1. PICK i \in Nat : i = call.i
      BY <1>1
    <3>2. PICK j : j = SwapInd(i)
      OBVIOUS
    <3>3. CASE j # -1
      <4>1. j \in {Left(i), Right(i)} /\ j < size
        BY <3>2, <3>3 DEF SwapInd
      <4>2. j \in Idxs /\ i \in Idxs
        BY <1>1, <4>1 DEF Left, Right, Idxs
      <4> QED
        BY <2>2, <3>1, <3>2, <3>3, <4>2 DEF DownHeap
    <3> QED
      BY <2>2, <3>1, <3>2, <3>3 DEF DownHeap
  <2> QED
    BY <2>1, <2>2
<1> SUFFICES ASSUME NEW v \in Vals PROVE Cardinality(Places(v)') = Cardinality(Places(v))
  BY <1>1 DEF SameElements, Places
<1>3. CASE container' = container
  <2>1. Places(v)' = Places(v)
    BY <1>1, <1>3 DEF Places, Idxs
  <2> QED
    BY <2>1
<1> QED
  BY <1>1, <1>2, <1>3, SwapKeepsElements

\* At every step of every call the queue has the elements that were pushed and
\* not popped, each as often: also pop(), which may break the heap, loses none.
THEOREM NoElementLost == Spec => []SameElements
<1>1. Init => SameElements
  <2> SUFFICES ASSUME Init, NEW v \in Vals PROVE Cardinality({i \in Idxs : container[i] = v}) = 0
    BY DEF Init, SameElements
  <2>1. {i \in Idxs : container[i] = v} = {}
    BY DEF Init, Idxs
  <2> QED
    BY <2>1, FS_EmptySet
<1>2. IInv /\ SameElements /\ [Next]_vars => SameElements'
  <2> SUFFICES ASSUME TypeOK, SameElements, [Next]_vars PROVE SameElements'
    BY DEF IInv
  <2>1. CASE UNCHANGED vars
    BY <2>1 DEF vars, SameElements, Idxs
  <2> QED
    BY <2>1, PushElements, PopElements, SiftElements DEF Next
<1> QED
  BY <1>1, <1>2, Invariant, PTL DEF Spec
=============================================================================
