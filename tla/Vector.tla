-------------------------------- MODULE Vector --------------------------------
(***************************************************************************)
(* rack::vector (src/src/vector.hpp): a buffer that is replaced by a larger*)
(* one when it is full, and the lifetimes of the elements in it.           *)
(*                                                                         *)
(* T is "int", which can be assigned to uninitialized memory and needs no  *)
(* destructor, or "class", whose constructor may throw and whose           *)
(* constructions and destructions are counted.  A loop that constructs is  *)
(* one step per element.  The copy constructor and copy assignment are left*)
(* out: copyOther() (:392) constructs a T from a T*, which does not        *)
(* compile for such T.                                                     *)
(***************************************************************************)
EXTENDS Integers, FiniteSets, Functions

CONSTANTS
  Vecs,          \* variables of type vector<T>
  Buffers,       \* addresses of buffers
  Vals,
  MaxCapacity,   \* bound on the capacities asked for
  Raw,           \* the value of uninitialized or destroyed memory
  Null

ASSUME VectorAssumption ==
  MaxCapacity \in Nat /\ Raw \notin Vals /\ Null \notin Buffers

VARIABLES
  T,
  vec,         \* vec[v]: members buffPtr, mCapacity, mSize
  heap,        \* heap[b]: the slots of b, with a count of lifetimes begun and not ended
  allocated,   \* the buffers that are allocated
  call,        \* the call in progress
  thrown       \* history: a constructor has thrown

vars == <<T, vec, heap, allocated, call, thrown>>

Capacities == 0 .. MaxCapacity

NoBuffer == [buffPtr |-> Null, mCapacity |-> 0, mSize |-> 0]

\* to, cap, copied: the buffer that is to replace the old one, its capacity, and
\* how many elements are copied; at: where the call constructs or inserts; count:
\* the size it is to reach with copies of val
Idle == [pc |-> "idle", vec |-> Null, to |-> Null, cap |-> 0, copied |-> 0,
         at |-> 0, count |-> 0, val |-> Raw]

\* A call of v that goes on with step pc
Going(v, pc, at, count, val) ==
  [Idle EXCEPT !.pc = pc, !.vec = v, !.at = at, !.count = count, !.val = val]

Uninitialized(n) == [i \in 0 .. n - 1 |-> [val |-> Raw, lives |-> 0]]

Lifetime == IF T = "class" THEN 1 ELSE 0

Constructed(slots, i, x) ==
  [slots EXCEPT ![i] = [val |-> x, lives |-> @.lives + Lifetime]]

Destroyed(slots, idxs) ==
  [i \in DOMAIN slots |->
     IF i \in idxs THEN [val |-> Raw, lives |-> slots[i].lives - Lifetime] ELSE slots[i]]

\* Mutation: shiftRight() from left to right
ShiftedRightUpwards(slots, first, last) ==
  [i \in DOMAIN slots |->
     IF i - 1 \in first .. last THEN [slots[i] EXCEPT !.val = slots[first].val] ELSE slots[i]]

\* shiftRight(), shiftLeft(): elements first .. last are assigned to the next
\* slot, or to the previous one.
ShiftedRight(slots, first, last) ==
  [i \in DOMAIN slots |->
     IF i - 1 \in first .. last THEN [slots[i] EXCEPT !.val = slots[i - 1].val] ELSE slots[i]]

ShiftedLeft(slots, first, last) ==
  [i \in DOMAIN slots |->
     IF i + 1 \in first .. last THEN [slots[i] EXCEPT !.val = slots[i + 1].val] ELSE slots[i]]

-----------------------------------------------------------------------------
Init ==
  /\ T \in {"int", "class"}
  /\ vec = [v \in Vecs |-> NoBuffer]
  /\ heap = [b \in Buffers |-> Uninitialized(0)]
  /\ allocated = {}
  /\ call = Idle
  /\ thrown = FALSE

Allocate(b, n) ==
  /\ n <= MaxCapacity
  /\ b \notin allocated
  /\ allocated' = allocated \cup {b}

\* vector(init), vector(n, val): the latter assigns, which only an int bears.
Construct(v, list) ==
  LET n == Cardinality(DOMAIN list) IN
  /\ call = Idle /\ vec[v] = NoBuffer
  /\ \E b \in Buffers :
       /\ Allocate(b, n)
       /\ heap' = [heap EXCEPT ![b] = [i \in DOMAIN list |-> [val |-> list[i], lives |-> Lifetime]]]
       /\ vec' = [vec EXCEPT ![v] = [buffPtr |-> b, mCapacity |-> n, mSize |-> n]]
  /\ UNCHANGED <<T, call, thrown>>

\* reallocWithNewCapacity(n), in a call that goes on with next
Reallocate(v, n, next) ==
  \E b \in Buffers :
    /\ Allocate(b, n)
    /\ heap' = [heap EXCEPT ![b] = Uninitialized(n)]
    /\ call' = [next EXCEPT !.to = b, !.cap = n]
    /\ UNCHANGED <<T, vec, thrown>>

\* Mutation: the buffer grows only when the size exceeds it
FullLate(v) == vec[v].mSize > vec[v].mCapacity

Full(v) == vec[v].mSize = vec[v].mCapacity

\* The beginning of emplace_back() and insert(): a first buffer, or one of
\* twice the capacity if the buffer is full.
MakeRoom(v, next) ==
  \/ /\ vec[v].mCapacity = 0
     /\ \E b \in Buffers :
          /\ Allocate(b, 1)
          /\ heap' = [heap EXCEPT ![b] = Uninitialized(1)]
          /\ vec' = [vec EXCEPT ![v].buffPtr = b, ![v].mCapacity = 1]
     /\ call' = next
     /\ UNCHANGED <<T, thrown>>
  \/ /\ vec[v].mCapacity # 0 /\ Full(v)
     /\ Reallocate(v, 2 * vec[v].mCapacity, next)
  \/ /\ vec[v].mCapacity # 0 /\ ~Full(v)
     /\ call' = next
     /\ UNCHANGED <<T, vec, heap, allocated, thrown>>

EmplaceBack(v, x) ==
  /\ call = Idle
  /\ MakeRoom(v, Going(v, "construct", vec[v].mSize, vec[v].mSize + 1, x))

\* emplace_back(v[i]): the argument refers to the old buffer, which is freed
\* before the element is constructed if it was full.
EmplaceBackOwn(v, i) ==
  /\ call = Idle /\ i < vec[v].mSize
  /\ MakeRoom(v, Going(v, "construct", vec[v].mSize, vec[v].mSize + 1,
                       IF Full(v) THEN Raw ELSE heap[vec[v].buffPtr][i].val))

\* insert(begin() + pos, x)
Insert(v, pos, x) ==
  /\ call = Idle
  /\ MakeRoom(v, Going(v, "insert", pos, vec[v].mSize + 1, x))

Reserve(v, n) ==
  /\ call = Idle /\ n > vec[v].mCapacity
  /\ Reallocate(v, n, Going(v, "return", 0, vec[v].mSize, Raw))

ShrinkToFit(v) ==
  /\ call = Idle /\ vec[v].mSize # vec[v].mCapacity
  /\ Reallocate(v, vec[v].mSize, Going(v, "return", 0, vec[v].mSize, Raw))

\* resize(count, x)
Resize(v, count, x) ==
  LET size == vec[v].mSize
      next == Going(v, "construct", size, count, x)
  IN
  /\ call = Idle
  /\ \/ /\ count < size
        /\ heap' = [heap EXCEPT ![vec[v].buffPtr] = Destroyed(@, count .. size - 1)]
        /\ vec' = [vec EXCEPT ![v].mSize = count]
        /\ UNCHANGED <<T, allocated, call, thrown>>
     \/ /\ count > size /\ count > vec[v].mCapacity
        /\ Reallocate(v, count, next)
     \/ /\ count > size /\ count <= vec[v].mCapacity
        /\ call' = next
        /\ UNCHANGED <<T, vec, heap, allocated, thrown>>

\* erase(begin() + pos): the element is destroyed before others are assigned to
\* its slot, and once more if it was the last of several.
Erase(v, pos) ==
  LET last == vec[v].mSize - 1
      erased(slots) == Destroyed(slots, {pos})
      shifted(slots) == ShiftedLeft(erased(slots), pos + 1, last)
  IN
  /\ call = Idle /\ pos <= last
  /\ heap' = [heap EXCEPT ![vec[v].buffPtr] =
                IF last > 0 THEN Destroyed(shifted(@), {last}) ELSE erased(@)]
  /\ vec' = [vec EXCEPT ![v].mSize = last]
  /\ UNCHANGED <<T, allocated, call, thrown>>

\* clear() destroys the first element mSize times.
Clear(v) ==
  LET size == vec[v].mSize IN
  /\ call = Idle /\ size > 0
  /\ heap' = [heap EXCEPT ![vec[v].buffPtr][0] =
                [val |-> Raw, lives |-> @.lives - size * Lifetime]]
  /\ vec' = [vec EXCEPT ![v].mSize = 0]
  /\ UNCHANGED <<T, allocated, call, thrown>>

\* The heap after the elements of v are destroyed and its buffer is freed: of
\* that only elements nobody has destroyed are kept.
Freed(v) ==
  LET slots == Destroyed(heap[vec[v].buffPtr], 0 .. vec[v].mSize - 1) IN
  [heap EXCEPT ![vec[v].buffPtr] = Restrict(slots, {i \in DOMAIN slots : slots[i].lives # 0})]

Destroy(v) ==
  /\ call = Idle
  /\ heap' = IF vec[v].buffPtr = Null THEN heap ELSE Freed(v)
  /\ allocated' = allocated \ {vec[v].buffPtr}
  /\ vec' = [vec EXCEPT ![v] = NoBuffer]
  /\ UNCHANGED <<T, call, thrown>>

\* Mutation: other keeps its buffer
MoveAssignKept(v, other) ==
  /\ call = Idle
  /\ heap' = IF vec[v].buffPtr = Null THEN heap ELSE Freed(v)
  /\ allocated' = allocated \ {vec[v].buffPtr}
  /\ vec' = [vec EXCEPT ![v] = vec[other]]
  /\ UNCHANGED <<T, call, thrown>>

\* v = std::move(other), which may be v: destroy(), then moveOther(), which reads
\* what destroy() has left.  To construct v is the case that it is empty.
MoveAssign(v, other) ==
  LET destroyed == [vec EXCEPT ![v] = NoBuffer] IN
  /\ call = Idle
  /\ heap' = IF vec[v].buffPtr = Null THEN heap ELSE Freed(v)
  /\ allocated' = allocated \ {vec[v].buffPtr}
  /\ vec' = [destroyed EXCEPT ![v] = destroyed[other], ![other] = NoBuffer]
  /\ UNCHANGED <<T, call, thrown>>

-----------------------------------------------------------------------------
(* The steps of a call.                                                    *)

Size == vec[call.vec].mSize

Buffer == vec[call.vec].buffPtr

\* reallocWithNewCapacity() copies one element.
CopyElement ==
  /\ call.to # Null /\ call.copied < Size
  /\ heap' = [heap EXCEPT ![call.to] = Constructed(@, call.copied, heap[Buffer][call.copied].val)]
  /\ call' = [call EXCEPT !.copied = @ + 1]
  /\ UNCHANGED <<T, vec, allocated, thrown>>

\* Mutation: the old buffer is freed with its elements alive
ReplaceUndestroyed ==
  /\ call.to # Null /\ call.copied = Size
  /\ allocated' = IF vec[call.vec].mCapacity > 0 THEN allocated \ {Buffer} ELSE allocated
  /\ vec' = [vec EXCEPT ![call.vec].buffPtr = call.to, ![call.vec].mCapacity = call.cap]
  /\ call' = IF call.pc = "return" THEN Idle ELSE [call EXCEPT !.to = Null, !.copied = 0, !.cap = 0]
  /\ UNCHANGED <<T, heap, thrown>>

\* All are copied: the old ones are destroyed and their buffer is freed, unless
\* its capacity is 0.
Replace ==
  /\ call.to # Null /\ call.copied = Size
  /\ IF vec[call.vec].mCapacity > 0
     THEN heap' = Freed(call.vec) /\ allocated' = allocated \ {Buffer}
     ELSE UNCHANGED <<heap, allocated>>
  /\ vec' = [vec EXCEPT ![call.vec].buffPtr = call.to, ![call.vec].mCapacity = call.cap]
  /\ call' = IF call.pc = "return" THEN Idle ELSE [call EXCEPT !.to = Null, !.copied = 0, !.cap = 0]
  /\ UNCHANGED <<T, thrown>>

\* emplace_back() and resize() construct behind the elements; the size is
\* updated after the last.
ConstructElement ==
  /\ call.pc = "construct" /\ call.to = Null
  /\ heap' = [heap EXCEPT ![Buffer] = Constructed(@, call.at, call.val)]
  /\ IF call.at + 1 = call.count
     THEN vec' = [vec EXCEPT ![call.vec].mSize = call.count] /\ call' = Idle
     ELSE call' = [call EXCEPT !.at = @ + 1] /\ UNCHANGED vec
  /\ UNCHANGED <<T, allocated, thrown>>

\* insert() makes a gap, unless there is one element only, and constructs.
InsertElement ==
  LET shifted(slots) == IF Size > 1 THEN ShiftedRight(slots, call.at, Size - 1) ELSE slots IN
  /\ call.pc = "insert" /\ call.to = Null
  /\ heap' = [heap EXCEPT ![Buffer] = Constructed(shifted(@), call.at, call.val)]
  /\ vec' = [vec EXCEPT ![call.vec].mSize = call.count]
  /\ call' = Idle
  /\ UNCHANGED <<T, allocated, thrown>>

\* The constructor of an element throws, and the call is left; nobody knows the
\* new buffer any more, whose contents are not kept.  (Once in a behaviour, so
\* that the counts stay bounded.)
Throw ==
  /\ T = "class" /\ ~thrown
  /\ \/ call.to # Null /\ call.copied < Size
     \/ call.to = Null /\ call.pc = "construct"
  /\ call' = Idle
  /\ thrown' = TRUE
  /\ heap' = IF call.to = Null THEN heap ELSE [heap EXCEPT ![call.to] = Uninitialized(0)]
  /\ UNCHANGED <<T, vec, allocated>>

-----------------------------------------------------------------------------
Lists == UNION {[0 .. n - 1 -> Vals] : n \in 0 .. 2}

Modify(v) ==
  \/ \E list \in Lists : Construct(v, list)
  \/ \E x \in Vals : EmplaceBack(v, x)
  \/ \E n \in Capacities : Reserve(v, n)
  \/ ShrinkToFit(v)
  \/ \E n \in Capacities, x \in Vals : Resize(v, n, x)
  \/ Destroy(v)
  \/ \E other \in Vecs : MoveAssign(v, other)

Loop == CopyElement \/ Replace \/ ConstructElement \/ InsertElement \/ Throw

\* insert(), erase() and clear() assign to destroyed elements and construct over
\* others, so that T has to be an "int".
ModifyInts(v) ==
  \/ \E pos \in 0 .. vec[v].mSize, x \in Vals :
       ~(vec[v].mSize = 1 /\ pos = 0) /\ Insert(v, pos, x)
  \/ \E pos \in 0 .. vec[v].mSize - 1 : Erase(v, pos)
  \/ Clear(v)

Next ==
  \/ \E v \in Vecs : Modify(v) \/ (T = "int" /\ ModifyInts(v))
  \/ Loop

Spec == Init /\ [][Next]_vars

\* The same with insert() before the only element
InsertFrontSpec ==
  Init /\ [][Next \/ \E v \in Vecs, x \in Vals : T = "int" /\ Insert(v, 0, x)]_vars

\* The same with elements of a vector as arguments
AliasSpec ==
  Init /\ [][Next \/ \E v \in Vecs, i \in 0 .. MaxCapacity - 1 : EmplaceBackOwn(v, i)]_vars

\* The same with calls of insert(), erase() and clear() for every T
AnySpec == Init /\ [][Next \/ \E v \in Vecs : ModifyInts(v)]_vars

-----------------------------------------------------------------------------
(* Properties.                                                             *)

TypeOK ==
  /\ T \in {"int", "class"}
  /\ vec \in [Vecs -> [buffPtr : Buffers \cup {Null}, mCapacity : Capacities, mSize : Capacities]]
  /\ \A v \in Vecs : vec[v].mSize <= vec[v].mCapacity
  /\ \A b \in Buffers :
       \A i \in DOMAIN heap[b] :
         i \in Capacities /\ heap[b][i] \in [val : Vals \cup {Raw}, lives : Int]
  /\ allocated \subseteq Buffers
  /\ call \in [pc : {"idle", "return", "construct", "insert"}, vec : Vecs \cup {Null},
               to : Buffers \cup {Null}, cap : Capacities, copied : Capacities,
               at : Capacities, count : 0 .. MaxCapacity, val : Vals \cup {Raw}]
  /\ thrown \in BOOLEAN

\* The elements of a vector are in an allocated buffer of its own, as long as
\* mCapacity says, and all of them are constructed: at every step of every
\* call, also when a constructor throws.
ElementsLive ==
  /\ \A v \in Vecs :
       IF vec[v].buffPtr = Null THEN vec[v] = NoBuffer
       ELSE LET slots == heap[vec[v].buffPtr] IN
            /\ vec[v].buffPtr \in allocated
            /\ DOMAIN slots = 0 .. vec[v].mCapacity - 1
            /\ \A i \in 0 .. vec[v].mSize - 1 :
                 slots[i].val # Raw /\ slots[i].lives >= Lifetime
  /\ \A v, w \in Vecs : vec[v].buffPtr = vec[w].buffPtr => v = w \/ vec[v].buffPtr = Null

\* Unless a constructor has thrown: between calls every element there is, in
\* any buffer ever allocated, is constructed once and not destroyed, every
\* other slot has been destroyed as often as constructed, and no buffer is
\* left over but those of length 0.
NoLeak ==
  ~thrown /\ call = Idle =>
    \A b \in Buffers :
      LET holders == {v \in Vecs : vec[v].buffPtr = b} IN
      /\ \A i \in DOMAIN heap[b] :
           heap[b][i].lives = IF \E v \in holders : i < vec[v].mSize THEN Lifetime ELSE 0
      /\ holders = {} => DOMAIN heap[b] = {}

Contents(v) ==
  [i \in 1 .. vec[v].mSize |-> heap[vec[v].buffPtr][i - 1].val]

AsSequence == INSTANCE Sequence WITH
  Names <- Vecs, Elems <- Vals, seqs <- [v \in Vecs |-> Contents(v)]

\* The contents of a vector are those of a sequence, in the middle of a
\* reallocation and after an exception as well: a call takes effect in one step.
ImplementsSequence == AsSequence!Spec
=============================================================================
