---------------------------- MODULE PriorityQueue ----------------------------
(***************************************************************************)
(* rack::priority_queue (src/src/priority_queue.hpp): a max heap in a      *)
(* vector.  One step is one level of the recursion of upHeap() and         *)
(* downHeap().  The elements are integers, compared by <.  pushed counts   *)
(* what a client has pushed and not popped, popped says whether there was  *)
(* a pop() at all: history variables.                                      *)
(***************************************************************************)
EXTENDS Integers, FiniteSets

CONSTANTS
  Vals,     \* the elements
  MaxSize   \* bound: no push() beyond this size

ASSUME PriorityQueueAssumption == Vals \subseteq Int /\ MaxSize \in Nat

VARIABLES
  size,
  container,   \* the vector, indexed from 0
  call,        \* the push() or pop() in progress, at index i
  pushed, popped

vars == <<size, container, call, pushed, popped>>

Idxs == 0 .. size - 1

Idle == [pc |-> "idle", i |-> 0]

ParentIndex(i) == (i - 1) \div 2

Left(i) == 2 * i + 1
Right(i) == 2 * i + 2

\* Mutation: assignment instead of swap
Overwritten(i, j) == [container EXCEPT ![j] = container[i]]

Swapped(i, j) == [container EXCEPT ![i] = container[j], ![j] = container[i]]

-----------------------------------------------------------------------------
Init ==
  /\ size = 0
  /\ container = [i \in {} |-> 0]
  /\ call = Idle
  /\ pushed = [v \in Vals |-> 0]
  /\ popped = FALSE

\* Mutation: freeIdx is taken after emplace_back
PushPastEnd(v) ==
  /\ call = Idle /\ size < MaxSize
  /\ size' = size + 1
  /\ container' = [i \in 0 .. size |-> IF i = size THEN v ELSE container[i]]
  /\ call' = [pc |-> "up", i |-> size + 1]
  /\ pushed' = [pushed EXCEPT ![v] = @ + 1]
  /\ UNCHANGED popped

\* push(), emplace(): emplace_back, then upHeap on the new last index
Push(v) ==
  /\ call = Idle /\ size < MaxSize
  /\ size' = size + 1
  /\ container' = [i \in 0 .. size |-> IF i = size THEN v ELSE container[i]]
  /\ call' = [pc |-> "up", i |-> size]
  /\ pushed' = [pushed EXCEPT ![v] = @ + 1]
  /\ UNCHANGED popped

\* The last element replaces the top, then downHeap(0).
Pop ==
  /\ call = Idle /\ size > 0
  /\ size' = size - 1
  /\ container' = [i \in 0 .. size - 2 |->
                     IF i = 0 THEN container[size - 1] ELSE container[i]]
  /\ call' = [pc |-> "down", i |-> 0]
  /\ pushed' = [pushed EXCEPT ![container[0]] = @ - 1]
  /\ popped' = TRUE

\* Mutation: no recursion
UpHeapOnce ==
  LET p == ParentIndex(call.i) IN
  /\ call.pc = "up"
  /\ container' = IF call.i # 0 /\ container[p] < container[call.i]
                  THEN Swapped(p, call.i) ELSE container
  /\ call' = Idle
  /\ UNCHANGED <<size, pushed, popped>>

UpHeap ==
  LET i == call.i
      p == ParentIndex(i)
  IN
  /\ call.pc = "up"
  /\ IF i # 0 /\ container[p] < container[i]
     THEN container' = Swapped(p, i) /\ call' = [call EXCEPT !.i = p]
     ELSE call' = Idle /\ UNCHANGED container
  /\ UNCHANGED <<size, pushed, popped>>

\* swapInd of downHeap(i), -1 for none.  The right child is taken only if the
\* left one is larger than the element too.
SwapInd(i) ==
  LET Larger(c) == c < size /\ container[c] > container[i] IN
  IF ~Larger(Left(i)) THEN -1
  ELSE IF Larger(Right(i)) /\ container[Right(i)] > container[Left(i)] THEN Right(i)
  ELSE Left(i)

DownHeap ==
  LET i == call.i
      swapInd == SwapInd(i)
  IN
  /\ call.pc = "down"
  /\ IF swapInd # -1
     THEN container' = Swapped(swapInd, i) /\ call' = [call EXCEPT !.i = swapInd]
     ELSE call' = Idle /\ UNCHANGED container
  /\ UNCHANGED <<size, pushed, popped>>

Next == (\E v \in Vals : Push(v)) \/ UpHeap \/ Pop \/ DownHeap

Spec == Init /\ [][Next]_vars

-----------------------------------------------------------------------------
(* Properties.                                                             *)

TypeOK ==
  /\ size \in 0 .. MaxSize
  /\ container \in [Idxs -> Vals]
  /\ call \in [pc : {"idle", "up", "down"}, i : Nat]
  /\ call.pc = "up" => call.i \in Idxs
  /\ pushed \in [Vals -> Int]
  /\ popped \in BOOLEAN

\* "Max heap is full binary tree where all children are <= parent", which
\* validHeap() tests: no child is larger than its parent.
HeapOrder ==
  \A i \in Idxs, c \in Idxs :
    c \in {Left(i), Right(i)} => container[c] <= container[i]

\* push() keeps the heap: between the calls of a client that only pushes.
ValidHeap == ~popped /\ call = Idle => HeapOrder

\* The same of pop().
HeapAfterPop == call = Idle => HeapOrder

\* At every step the vector has the elements pushed and not popped, each as
\* often as it was pushed: a swap neither loses one nor doubles it.
SameElements ==
  \A v \in Vals : Cardinality({i \in Idxs : container[i] = v}) = pushed[v]
=============================================================================
