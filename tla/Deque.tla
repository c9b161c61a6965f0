-------------------------------- MODULE Deque --------------------------------
(***************************************************************************)
(* rack::deque (src/src/deque.hpp): a map of chunks of equal length,       *)
(* allocated when the front or the back first reaches them.                *)
(*                                                                         *)
(* A position is chunk * chunkSize + offset, and -1 stands for the chunk   *)
(* 2^32 - 1 that dec() arrives at from (0, 0).  A chunk is represented by  *)
(* its slots.  T is an int: what is destroyed may be assigned to.  The     *)
(* copy constructor and the destructor have no body.                       *)
(*                                                                         *)
(* The deque is astray once a call has used a slot outside its chunks, has *)
(* freed what is not one, or has moved the front past the back: nothing is *)
(* said of it from then on, and the properties say what leads there.       *)
(***************************************************************************)
EXTENDS Integers, FiniteSets, Functions, SequencesExt

CONSTANTS
  Vals,
  ChunkSizes,   \* chunkSize, according to the argument of the constructor
  MaxChunks,    \* bound on the length of the chunk map
  MaxSize,      \* bound on the number of elements
  Vacant,       \* what is in a slot without an element: uninitialized, destroyed, or T()
  Wild,         \* a pointer to none of the chunks, not null
  Null

ASSUME DequeAssumption ==
  /\ ChunkSizes \subseteq Nat \ {0} /\ MaxChunks \in Nat \ {0} /\ MaxSize \in Nat
  /\ Null # Wild /\ Vacant \notin Vals
  /\ \A n \in ChunkSizes, p \in {Null, Wild} : p \notin [0 .. n - 1 -> Vals \cup {Vacant}]

VARIABLES
  chunkSize,
  deque     \* members chunkMap, front, back, size; live counts the chunks that are
            \* allocated, astray is explained above

vars == <<chunkSize, deque>>

-----------------------------------------------------------------------------
(* The chunk map of a deque s.                                             *)

NChunks(s) == Cardinality(DOMAIN s.chunkMap)

Limit(s) == NChunks(s) * chunkSize - 1   \* the last position there can be

IsChunk(s, c) == c \in DOMAIN s.chunkMap /\ s.chunkMap[c] \notin {Null, Wild}

InChunk(s, p) == IsChunk(s, p \div chunkSize)

At(s, p) == IF InChunk(s, p) THEN s.chunkMap[p \div chunkSize][p % chunkSize] ELSE Vacant

\* Every slot gets the value new gives its position.
Rewritten(s, new(_)) ==
  [s EXCEPT !.chunkMap =
     [c \in DOMAIN @ |->
        IF IsChunk(s, c) THEN [o \in 0 .. chunkSize - 1 |-> new(c * chunkSize + o)] ELSE @[c]]]

\* One of the positions is outside the chunks, and is used.
Uses(s, positions) == \E p \in positions : ~InChunk(s, p)

Assigned(s, p, x) ==
  [Rewritten(s, LAMBDA q : IF q = p THEN x ELSE At(s, q)) EXCEPT !.astray = @ \/ Uses(s, {p})]

\* The end of inc() and dec(): the chunk of the position reached is allocated
\* if it is in the map and null.
Reached(s, p) ==
  LET c == p \div chunkSize IN
  IF c \in DOMAIN s.chunkMap /\ s.chunkMap[c] = Null
  THEN [s EXCEPT !.chunkMap[c] = [o \in 0 .. chunkSize - 1 |-> Vacant], !.live = @ + 1]
  ELSE s

\* What there may be behind the end of a chunk map
Behind == {Null, Wild}

\* grow(): for an odd number of chunks the loop copies one entry too many.
Grown(s, past) ==
  LET n == NChunks(s)
      centerOff == (2 * n) \div 4
      entry(i) == IF i < n THEN s.chunkMap[i] ELSE past
  IN [s EXCEPT !.chunkMap =
        [i \in 0 .. 2 * n - 1 |->
           IF i \in centerOff .. 2 * n - centerOff - 1 THEN entry(i - centerOff) ELSE Null],
      !.front = @ + centerOff * chunkSize,
      !.back = @ + centerOff * chunkSize]

\* s, or s with a larger map if there is no room beyond p
WithRoom(s, p, limit, past) == IF p = limit THEN Grown(s, past) ELSE s

\* shiftLeft(), shiftRight(): the elements first .. last move by one position.
ShiftedLeft(s, first, last) ==
  LET t == Reached(s, first - 1) IN
  [Rewritten(t, LAMBDA p : IF p = last THEN Vacant
                           ELSE IF p \in first - 1 .. last - 1 THEN At(t, p + 1) ELSE At(t, p))
     EXCEPT !.astray = @ \/ Uses(t, first - 1 .. last)]

ShiftedRight(s, first, last) ==
  LET t == Reached(s, last + 1) IN
  [Rewritten(t, LAMBDA p : IF p = first THEN Vacant
                           ELSE IF p \in first + 1 .. last + 1 THEN At(t, p - 1) ELSE At(t, p))
     EXCEPT !.astray = @ \/ Uses(t, first .. last + 1)]

-----------------------------------------------------------------------------
Init ==
  /\ chunkSize \in ChunkSizes
  /\ deque = [chunkMap |-> [c \in {0} |-> [o \in 0 .. chunkSize - 1 |-> Vacant]],
              front |-> chunkSize \div 2, back |-> chunkSize \div 2, size |-> 0, live |-> 1,
              astray |-> FALSE]

\* An end moves, unless the deque is empty, and x is constructed there.
PushedFront(s, x, past) ==
  LET room == WithRoom(s, s.front, 0, past)
      moved == [Reached(room, room.front - 1) EXCEPT !.front = @ - 1]
      t == IF s.size > 0 THEN moved ELSE room
  IN [Assigned(t, t.front, x) EXCEPT !.size = @ + 1]

PushedBack(s, x, past) ==
  LET room == WithRoom(s, s.back, Limit(s), past)
      moved == [Reached(room, room.back + 1) EXCEPT !.back = @ + 1]
      t == IF s.size > 0 THEN moved ELSE room
  IN [Assigned(t, t.back, x) EXCEPT !.size = @ + 1]

\* Mutation: the front moves also when the last element is gone
PoppedFrontAlways(s) ==
  [Reached(Assigned(s, s.front, Vacant), s.front + 1) EXCEPT !.front = @ + 1, !.size = @ - 1]

\* The only element is removed without moving an end, so that the ends of an
\* empty deque are at the same position.
PoppedFront(s) ==
  LET p == IF s.size = 1 \/ s.front = Limit(s) THEN s.front ELSE s.front + 1
  IN [Reached(Assigned(s, s.front, Vacant), p) EXCEPT !.front = p, !.size = @ - 1]

PoppedBack(s) ==
  LET p == IF s.size = 1 \/ s.back = 0 THEN s.back ELSE s.back - 1
  IN [Reached(Assigned(s, s.back, Vacant), p) EXCEPT !.back = p, !.size = @ - 1]

\* distToFront < distToBack
ShiftsLeft(s, loc) == loc - s.front < s.back - loc

\* insert() before the element at loc, not the first: the shorter side makes room.
InsertedBetween(s, loc, x, past) ==
  LET left == ShiftsLeft(s, loc)
      room == IF left THEN WithRoom(s, s.front, 0, past) ELSE WithRoom(s, s.back, Limit(s), past)
      at == loc + (room.front - s.front)
      shifted == IF left THEN [ShiftedLeft(room, room.front, at - 1) EXCEPT !.front = @ - 1]
                         ELSE [ShiftedRight(room, at, room.back) EXCEPT !.back = @ + 1]
  IN [Assigned(shifted, IF left THEN at - 1 ELSE at, x) EXCEPT !.size = @ + 1]

\* insert(): what is not in [begin(), end()) is out of range, end() too.
Inserted(s, loc, x, past) ==
  IF loc \notin s.front .. s.back THEN s
  ELSE IF loc = s.front THEN PushedFront(s, x, past) ELSE InsertedBetween(s, loc, x, past)

\* An end moves also when the element is the only one: the front past the back.
ErasedFront(s) ==
  [Reached(Assigned(s, s.front, Vacant), s.front + 1)
     EXCEPT !.front = @ + 1, !.size = @ - 1, !.astray = @ \/ s.size = 1]

ErasedBack(s) ==
  [Reached(Assigned(s, s.back, Vacant), s.back - 1) EXCEPT !.back = @ - 1, !.size = @ - 1]

\* Mutation: the wrong side is shifted
ErasedBetweenLeft(s, loc) ==
  [ShiftedRight(s, s.front, loc - 1) EXCEPT !.back = @ - 1, !.size = @ - 1]

ErasedBetween(s, loc) ==
  [IF ShiftsLeft(s, loc)
   THEN [ShiftedRight(s, s.front, loc - 1) EXCEPT !.front = @ + 1]
   ELSE [ShiftedLeft(s, loc + 1, s.back) EXCEPT !.back = @ - 1] EXCEPT !.size = @ - 1]

\* erase()
Erased(s, loc) ==
  IF loc \notin s.front .. s.back THEN s
  ELSE IF loc = s.front THEN ErasedFront(s)
  ELSE IF loc = s.back THEN ErasedBack(s) ELSE ErasedBetween(s, loc)

\* clear(): the first element is erased until there is none.
Cleared(s) ==
  IF s.size = 0 THEN s
  ELSE [Reached(Rewritten(s, LAMBDA p : IF p \in s.front .. s.back THEN Vacant ELSE At(s, p)),
                s.back + 1)
          EXCEPT !.front = s.back + 1, !.size = 0, !.astray = TRUE]

\* Mutation: the entries that are kept keep their index
ShrunkUnmoved(s) ==
  [s EXCEPT !.chunkMap = [c \in s.front \div chunkSize .. s.back \div chunkSize |-> @[c]]]

\* shrink_to_fit(): chunks outside the ends are deallocated, the map is replaced.
Shrunk(s) ==
  LET first == s.front \div chunkSize
      last == s.back \div chunkSize
      dropped == {c \in DOMAIN s.chunkMap \ (first .. last) : s.chunkMap[c] # Null}
  IN [s EXCEPT !.chunkMap = [i \in 0 .. last - first |-> s.chunkMap[first + i]],
               !.live = @ - Cardinality(dropped),
               !.front = @ % chunkSize,
               !.back = (last - first) * chunkSize + (@ % chunkSize),
               !.astray = @ \/ \E c \in dropped : s.chunkMap[c] = Wild]

-----------------------------------------------------------------------------
\* The call ends with the deque s; clients keep within the bounds.
Becomes(s) ==
  /\ ~deque.astray
  /\ NChunks(s) <= MaxChunks /\ s.size <= MaxSize
  /\ deque' = s
  /\ UNCHANGED chunkSize

PushFront(x) == \E past \in Behind : Becomes(PushedFront(deque, x, past))

PushBack(x) == \E past \in Behind : Becomes(PushedBack(deque, x, past))

PopFront == deque.size > 0 /\ Becomes(PoppedFront(deque))

PopBack == deque.size > 0 /\ Becomes(PoppedBack(deque))

Insert(loc, x) == \E past \in Behind : Becomes(Inserted(deque, loc, x, past))

\* erase(begin()) of an empty deque would wrap the size around.
Erase(loc) == deque.size > 0 /\ Becomes(Erased(deque, loc))

Clear == Becomes(Cleared(deque))

ShrinkToFit == Becomes(Shrunk(deque))

\* resize(count, x) with more elements: the loop counts each of them, and its own
\* end, once more than push_back() does.
ResizeUp(count, x, past) ==
  LET pushes == (count - deque.size + 1) \div 2
      pushed == FoldLeft(LAMBDA s, i : PushedBack([s EXCEPT !.size = @ + 1], x, past), deque,
                         [i \in 1 .. pushes |-> i])
  IN count > deque.size /\ Becomes([pushed EXCEPT !.size = @ + 1])

\* A copy constructor throws in push_back(), after the back has moved.
PushBackThrows ==
  \E x \in Vals, past \in Behind :
    LET s == PushedBack(deque, x, past) IN
    Becomes([Assigned(s, s.back, Vacant) EXCEPT !.size = @ - 1])

Locs == deque.front .. deque.back + 1   \* begin() .. end()

\* Nothing more is modelled of a deque that is astray.
Lost == deque.astray /\ UNCHANGED vars

Next ==
  \/ \E x \in Vals : PushFront(x) \/ PushBack(x) \/ \E loc \in Locs : Insert(loc, x)
  \/ \E loc \in Locs : Erase(loc)
  \/ PopFront \/ PopBack \/ Clear \/ ShrinkToFit \/ Lost

Spec == Init /\ [][Next]_vars

\* The same with calls of resize() for more elements
ResizeSpec ==
  Init /\ [][Next \/ \E n \in 1 .. MaxSize, x \in Vals, past \in Behind : ResizeUp(n, x, past)]_vars

\* The same with a constructor that throws
ThrowSpec == Init /\ [][Next \/ PushBackThrows]_vars

-----------------------------------------------------------------------------
(* Iterators: a place in the chunk map and an offset in its chunk.         *)

Iterator(p) == [chunk |-> p \div chunkSize, off |-> p % chunkSize]

\* Mutation: division rounds down, as it does in TLA+ but not in C++
PlusRoundingDown(it, i) ==
  LET newPos == it.off + i
      jump == IF newPos >= 0 THEN newPos \div chunkSize ELSE (newPos + 1) \div chunkSize - 1
  IN [chunk |-> it.chunk + jump, off |-> newPos - jump * chunkSize]

\* operator+=: division truncates.
Plus(it, i) ==
  LET newPos == it.off + i
      jump == IF newPos >= 0 THEN newPos \div chunkSize ELSE -((-(newPos + 1)) \div chunkSize) - 1
  IN IF newPos \in 0 .. chunkSize - 1 THEN [it EXCEPT !.off = newPos]
     ELSE [chunk |-> it.chunk + jump, off |-> newPos - jump * chunkSize]

Difference(it, other) == (it.chunk - other.chunk) * chunkSize + (it.off - other.off)

Increment(it) ==
  IF it.off = chunkSize - 1 THEN [chunk |-> it.chunk + 1, off |-> 0] ELSE [it EXCEPT !.off = @ + 1]

Decrement(it) ==
  IF it.off = 0 THEN [chunk |-> it.chunk - 1, off |-> chunkSize - 1] ELSE [it EXCEPT !.off = @ - 1]

Less(it, other) == it.chunk < other.chunk \/ (it.chunk = other.chunk /\ it.off < other.off)

\* operator[]
Index(i) ==
  LET front == Iterator(deque.front)
      off == front.off + (i % chunkSize)
      jumpChunks == (i \div chunkSize) + (IF off >= chunkSize THEN 1 ELSE 0)
  IN [chunk |-> front.chunk + jumpChunks, off |-> off % chunkSize]

-----------------------------------------------------------------------------
(* Properties.                                                             *)

TypeOK ==
  /\ chunkSize \in ChunkSizes
  /\ NChunks(deque) \in 1 .. MaxChunks /\ DOMAIN deque.chunkMap = 0 .. NChunks(deque) - 1
  /\ \A c \in DOMAIN deque.chunkMap :
       deque.chunkMap[c] \in [0 .. chunkSize - 1 -> Vals \cup {Vacant}] \cup {Null, Wild}
  /\ deque.front \in Int /\ deque.back \in Int /\ deque.size \in 0 .. MaxSize /\ deque.live \in Int
  /\ deque.astray \in BOOLEAN

\* Between calls, unless the deque is astray, the ends are as far apart as the size
\* says (at the same position when it is 0), every position between them is in a
\* chunk that is allocated and holds an element, and the chunks allocated are those
\* in the map: none is lost or freed twice by a growth, a shift or shrink_to_fit().
ElementsInPlace ==
  ~deque.astray =>
    /\ InChunk(deque, deque.front) /\ InChunk(deque, deque.back)
    /\ deque.back - deque.front = IF deque.size = 0 THEN 0 ELSE deque.size - 1
    /\ deque.size > 0 => \A p \in deque.front .. deque.back : At(deque, p) \in Vals
    /\ deque.live = Cardinality({c \in DOMAIN deque.chunkMap : IsChunk(deque, c)})

\* Iterator arithmetic, comparison and operator[] go by the distance of elements,
\* across chunks and in both directions, from the first element to end().
IteratorsAgree ==
  \A p, q \in deque.front .. deque.back + 1 :
    /\ Plus(Iterator(p), q - p) = Iterator(q)
    /\ Difference(Iterator(q), Iterator(p)) = q - p
    /\ Less(Iterator(p), Iterator(q)) <=> p < q
    /\ p <= deque.back => /\ Increment(Iterator(p)) = Iterator(p + 1)
                          /\ Decrement(Iterator(p + 1)) = Iterator(p)
                          /\ Index(p - deque.front) = Iterator(p)

Contents == [i \in 1 .. deque.size |-> At(deque, deque.front + i - 1)]

AsSequence == INSTANCE Sequence WITH
  Names <- {"deque"}, Elems <- Vals, seqs <- [n \in {"deque"} |-> Contents]

\* What each call does to the elements, its own arguments given: insert() edits the
\* sequence at the position of its loc and with its val, and nothing for end().
CallsEdit ==
  /\ \A x \in Vals :
       /\ PushFront(x) => AsSequence!Insert("deque", 1, x)
       /\ PushBack(x) => AsSequence!Insert("deque", deque.size + 1, x)
       /\ \A loc \in deque.front .. deque.back :
            Insert(loc, x) => AsSequence!Insert("deque", loc - deque.front + 1, x)
       /\ Insert(deque.back + 1, x) => UNCHANGED deque
  /\ PopFront => AsSequence!Erase("deque", 1)
  /\ PopBack => AsSequence!Erase("deque", deque.size)
  /\ \A loc \in deque.front .. deque.back :
       Erase(loc) => AsSequence!Erase("deque", loc - deque.front + 1)
  /\ ShrinkToFit => UNCHANGED Contents

\* A pointer to none of its chunks is in the map of s.
HasWild(s) == \E c \in DOMAIN s.chunkMap : s.chunkMap[c] = Wild

\* grow() makes no room on the left of s.
Tight(s) == NChunks(s) = 1 /\ s.front = 0

\* What a call may go astray by
CallStrays ==
  \/ HasWild(deque) \/ HasWild(deque')
  \/ Tight(deque) /\ deque'.size > deque.size
  \/ deque.size > 0 /\ Clear
  \/ deque.size = 1 /\ Erase(deque.front)

CallEffect == IF deque'.astray THEN deque.astray \/ CallStrays ELSE CallsEdit

\* Whatever the chunks and shifts, each call has its effect on the sequence of the
\* elements, at the position asked for, unless the deque goes astray: by a pointer
\* that grow() read behind the map, by a growth that makes no room on the left, or
\* by erase() or clear() of the last element, and by nothing else.
CallsTakeEffect == [][CallEffect]_vars

\* The chunk map points to the chunks of the deque (the comment at :637 says that
\* chunk pointers are what is copied).
MapsOwnChunks == ~HasWild(deque)

\* push_front() and insert() find room on the left, if need be by growing (:218).
RoomOnLeft == deque.front >= 0

\* The front is not past the back.
EndsOrdered == deque.front <= deque.back

\* insert() adds at the end (the comment at :198).
AtEndAppends ==
  deque.size > 0 /\ ~deque.astray =>
    \A x \in Vals : Inserted(deque, deque.back + 1, x, Null).size = deque.size + 1

\* From begin() to end() there is no element of an empty deque (:515, :524).
EmptyHasNoRange == deque.size = 0 => Cardinality(Locs) - 1 = 0

\* resize(count), with more elements than there are, makes them count (the
\* comment at :316).
ResizeReachesCount ==
  [][\A n \in 1 .. MaxSize, x \in Vals, past \in Behind :
       ResizeUp(n, x, past) => deque'.size = n]_vars
=============================================================================
