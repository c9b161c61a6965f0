# rackstl in TLA+

TLA+ specifications of rackstl, a header-only reimplementation of containers and
smart pointers of the C++ standard library. TLC checks them on small instances,
TLAPS proves the most important results for all. Line numbers are those of
`src/src/*.hpp`.

## 1. Inventory

The library has no threads, files or messages of its own. Its hard parts are
reference counting under the concurrency of its clients, object lifetimes, and
data structures whose invariants are broken in the middle of a call and must be
restored at its end.

| Component | State | Operations | What makes it correct |
|---|---|---|---|
| `shared_ptr` | two pointers per `shared_ptr`; per control block two atomic `uint32_t` | construct, copy, move, assign, `reset`, `swap`, destroy | one count per owner at every step; the object is deleted once, after its last owner; no use after free; no leak |
| `weak_ptr` | two pointers; shares the control block | construct, assign from `shared_ptr`, `lock`, `reset`, `swap`, destroy | the block outlives the object while observed; `lock` never revives a deleted object; the last of either class frees the block |
| `unique_ptr` | one pointer | construct, move, `release`, `reset`, `swap`, destroy | one holder per object, also while destructors nest |
| `unordered_map` | buckets (state, entry, probe distance), size, capacity | insert, `operator[]`, find, erase, clear, rehash | probe paths without gaps; the entries of a dictionary; every probe ends |
| `map` / `RBTree` | nodes with colours and parent pointers, root, sentinel, size | insert, find, iterate, `RBTree::erase`, clear | search order, red-black balance, links, sentinel at the ends |
| `priority_queue` | a `std::vector` as a heap | push, pop | heap order, same elements |
| `vector` | buffer, size, capacity | `emplace_back`, insert, erase, clear, resize, reserve | every element constructed and destroyed once, no access outside the buffer |
| `deque` | map of lazily allocated chunks, front and back position | push and pop at both ends, insert, erase, resize, `shrink_to_fit` | positions within allocated chunks, size equals their distance, the elements of a sequence |
| `unordered_set` | an `unordered_map` | forwards; iterators | that of `unordered_map`; an iterator survives the erasure under it |
| `queue` | none: four lines, a TODO | none | |
| `utils`, tests, benchmarks | none | logging, construct/destroy through the allocator | |

Interaction. `weak_ptr` and `shared_ptr` share control blocks and are friends:
`release()` reads the weak counter, `weak_ptr::reset()` the strong one, `lock()`
constructs a `shared_ptr` from a `weak_ptr`. `rehash()` calls `insert()`, which calls
`rehash()`. `map` owns an `RBTree` and reads its sentinel in `begin()` and `end()`.
Deleting an object runs the destructor of the smart pointers inside it, in the
middle of the call that deletes it. `unordered_set` forwards to `unordered_map` and wraps
its iterators.

`src/README.md` also lists set and `shared_from_this`, for which there is no source,
and queue, which is a stub.

Hard to test: the interleavings of counter accesses; the order of the last release
and the last weak reset; entries in no bucket while others are displaced; a rehash in
the middle of an insert; tombstones; the climb of the colour violation; cached
pointers (sentinel, iterators) gone stale; nested destructors; positions in a chunk map
that grows and shrinks; constructors that throw half way. `PROJECT.json` lists
every hazard with its line and the properties for it.

## 2. Modules

| Module | Models | Composes |
|---|---|---|
| `Ownership` | abstract: pointers own an object together, it is destroyed once, after the last | |
| `SharedPtr` | `shared_ptr.hpp`, threads at the granularity of counter accesses | `INSTANCE Ownership` |
| `WeakPtr` | `weak_ptr.hpp` on the same control blocks | extends `SharedPtr` |
| `UniquePtr` | `unique_ptr.hpp` as member of the objects it owns, a stack of destructors | |
| `Dictionary` | abstract: a partial function from keys to values | |
| `UnorderedMap` | `unordered_map.hpp`, one iteration of the probe loop per step | `INSTANCE Dictionary` |
| `UnorderedSet` | `unordered_set.hpp`, an iterator over the table while it changes | extends `UnorderedMap` |
| `RBTree` | `map.hpp`, one iteration of `fixInsertion()` per step | `INSTANCE Dictionary` |
| `PriorityQueue` | `priority_queue.hpp`, one level of a sift per step | |
| `Sequence` | abstract: finite sequences that are extended, edited and moved | |
| `Vector` | `vector.hpp`, one constructed element per step | `INSTANCE Sequence` |
| `Deque` | `deque.hpp`, one call per step, and the arithmetic of its iterators | `INSTANCE Sequence`, for what a call does to the elements |
| `MC*` | symmetry sets for TLC | extend their module |
| `SharedPtrProofs`, `UniquePtrProofs`, `RBTreeProofs`, `PriorityQueueProofs`, `VectorProofs`, `DequeProofs` | theorems and proofs | extend their module |
| `WeakPtrProofs` | theorems and proofs | extends `WeakPtr`, `INSTANCE SharedPtrProofs` |
| `UnorderedMapProofs` | theorems and proofs, of the set as well | extends `UnorderedSet` |

Correspondence of state to code:

- `SharedPtr`: `sp[h]` are `ptr` and `controlBlock` of the variable `h`; `strongCnt`,
  `weakCnt` the atomics; `block`, `object` what has been allocated and freed; `op[t]` the
  call of thread `t` and how far it is. `release()` is `ReleaseDec`, `DeleteObject`,
  `LoadWeak`, `FreeBlock`; what the caller does afterwards is `AddStrong`, `Steal` or
  `TakeNew`. A thread about to touch freed memory has no step, because the program has
  no defined behaviour there; `NoUseAfterFree` says this does not happen.
- `WeakPtr`: `reset()` is `WeakDec`, `LoadStrong`, `WeakFree`; `lock()` is `Expired`, `LockAdd`.
- `UniquePtr`: a slot is a variable or the member of an object. `Delete` pushes the frame
  of the destructor; the `Finish...` actions are what follows a delete.
- `UnorderedMap`: `call` holds the locals of `insert()` (`currKv`, `homeIdx`, `currIdx`) and the
  entries a `rehash()` has still to insert. Bucket states are those of the code, DELETED
  included. The hash function is chosen at the start. `MoveFrom` leaves the map as the move
  constructor leaves its source, without buckets.
- `UnorderedSet`: `it` is the bucket of an iterator the client holds, `capacity` for `end()`, `None` once
  an insertion or a rehash has made it unusable.
- `RBTree`: `tree` is the root pointer and the node at each address, `fixing` the `currNode` of
  `fixInsertion()`. Left and right variants of rotations are one operator with a side.
- `Vector`: `heap` is the memory, a slot a value and a count of lifetimes; `call` is the call in
  progress: `to` the new buffer of `reallocWithNewCapacity()`, `at` the `i` of a loop that constructs.
  `T` is chosen at the start: an `int`, or a class with lifetimes whose constructor may throw.
- `Deque`: the pairs (`frontChunk`, `frontOff`) and (`backChunk`, `backOff`) are positions, chunk times
  chunk size plus offset; `chunkMap` holds the slots of a chunk where the code has a pointer to it,
  so that an entry of the map and its chunk are the same thing; `live` counts what has been
  allocated and not deallocated. `Reached` is the allocation at the end of `inc()` and `dec()`. `Wild` is any
  pointer that is to none of the deque's chunks, and `Behind` what `grow()` may read behind the map: null, or
  `Wild`. `astray` is a history variable: a call has used a slot outside the chunks, freed what is not one, or moved the
  front past the back. The program's behaviour is undefined or arbitrary from there on, and `Lost` stands for it.
  `insert()` and `erase()` take their position as an argument, up to `end()`; nothing is erased from an empty deque, since
  `erase(begin())` would wrap its size around.
- `PriorityQueue`: `call` is the index of the sift; `pushed`, `popped` are history variables.

Operators marked "Mutation" are faults a programmer might make. No specification uses
them; each breaks a property when it takes the place of the operator it is named after.

## 3. Runs

| Run | Question | Bounds |
|---|---|---|
| `shared_ptr` | counters exact, lifetimes, implements `Ownership`, abandoned objects freed | 3 threads, 3 pointers, 2 objects |
| `weak_ptr` | the same with weak pointers, when the program keeps apart what `Serialised` names | 2 threads, 2+2 pointers, 2 blocks |
| `weak_ptr_lock_race` (violation) | is that necessary? | 2 threads |
| `unordered_map` | inserts, rehash, clear and being moved from implement `Dictionary`; size and `find` | 4 keys, 2 values, 2 to 8 buckets |
| `unordered_set` | with tombstones: paths, iterators, nothing lost, calls end | 4 keys, 3 hash values, 2 to 4 buckets |
| `unordered_map_index` (violation) | does `operator[]` refer to its key? | 3 keys |
| `unique_ptr` | one holder, no double delete, no leak | 2 variables, 4 objects |
| `priority_queue` | same elements; heap while only pushed to | 7 elements of 4 values |
| `rb_tree` | balance, iteration both ways from `begin()` to `end()`, `Dictionary` | 9 keys, every order |
| `rb_tree_erase` | order and links, and what `RBTree::erase` does get right | 6 keys |
| `vector` | lifetimes, exceptions, implements `Sequence` | 2 vectors, 3 buffers, 2 values, capacity 4, one exception |
| `deque` | what every call does where, what leads astray, ends in place, iterators | 2 values, chunks of 1 to 3, 5 elements, 6 chunks, whatever is behind the map |

Why the bounds are enough. Three threads give the last owner, a copier and a mover at
once; two objects let an assignment release one and share the other. The counters wrap
at `CntMod`, which is above the number of pointers, as 2^32 is in a program. Hash values
0, 1 and 3 give collisions, neighbours and a wrap around the end; 2 to 8 buckets give
two growths, one with displaced entries. Four objects make a chain three destructors
deep. Seven elements make a heap of three full levels. Nine keys are enough for a red
uncle whose recolouring leads to a rotation further up, in every mirror image.
A capacity of 4 gives a first
buffer and two growths. Chunks of one element
make every position a boundary, of two and three give positions within and between; six chunks
are two growths from one chunk, and one from the three `shrink_to_fit` may leave.
`MaxCapacity`, `MaxChunks` and `MaxSize` bound the calls a client makes, nothing else. Symmetry is
used in runs without liveness only.

Deadlock is checked in every passing run: a state without a step would be a call
stuck, since there is always another call to make.

### Fairness

`WF(Continue(t))` for every thread: a thread inside a library call is scheduled again;
its steps wait for nothing. No fairness is assumed of calls that might be begun, so a
program may hold its pointers forever. In `SerialisedSpec` a call waits before it begins,
never inside. `WF(SetLoop)` in `UnorderedSet`: the loop of the sequential program runs on.

### What the runs show

- `shared_ptr` keeps its promise to threads that use different variables: this is the
  result the theorems generalise.
- `weak_ptr` keeps it under one condition, `Serialised`: on one control block neither
  `lock()` nor `weak_ptr::reset()` (destructor, assignment) overlaps with a `release()`, nor
  two `reset()` with each other. None of the three clauses can be left out: without
  the one about `lock()` it adds an owner to a deleted object (`weak_ptr.hpp:102` tests the
  counter, then increments it), without either of the others a counter is read after
  its block is freed (`weak_ptr.hpp:69-72`, `shared_ptr.hpp:165-174`). The comment at
  `shared_ptr.hpp:12` promises thread safety without a condition.
- `unordered_map` without `erase` is a dictionary for every hash function, but the
  iterator of an insert that displaced another entry is the wrong one, and so is the
  reference `operator[]` returns: `m[k] = v` overwrites another key's value. With `erase`
  a tombstone is reused before the key is found, and there are two entries; but no entry
  is ever lost, probe paths have no gaps and every call ends.
- `unordered_set` may be erased while it is iterated: the iterator `erase` returns is at the next
  element, whatever was displaced before.
- `RBTree` inserts correctly, and its iterators run in order both ways. `RBTree::erase` keeps order and links as long as the root
  stays, and loses the balance, the size and the sentinel's ends.
- `priority_queue` loses no element, and is a heap until the first `pop()`, which may leave a right
  child above its parent.
- `vector` keeps the lifetimes of any element right in what only appends, truncates, reallocates
  or moves, and survives a constructor that throws at any step of it with its contents
  unchanged; what had been constructed then leaks. `insert`, `erase` and `clear` are right about
  the contents for types without lifetimes, but for an insertion before an only element.
- `deque`: each call edits the sequence at the position its argument names (`CallsTakeEffect`), whatever is shifted, grown or shrunk, and
  iterators are right on every chunk boundary, unless the deque goes astray. That takes one of three things, each of which a
  client meets soon, and nothing else:
  - an entry in the map that `grow()` read behind it. It copies one entry too many when the number of chunks is odd
    (`deque.hpp:638-641`), which is so in the first growth of every deque: the right-hand end of the new map then is whatever
    was in memory, and unless that is null a later `inc()` takes it for a chunk;
  - a `push_front` or an `insert` that grows a map of one chunk whose front is at its left end: `grow()` makes no
    room there (`deque.hpp:638`), and the front moves before the map;
  - `erase()` of the last element, and so `clear()` of a deque with elements (`deque.hpp:266`): the front
    moves past the back, and the next push does not put it right.
- `deque::insert(end(), x)` does nothing. The range check at `deque.hpp:188` takes `end()` to be outside, so the `push_back` at
  `deque.hpp:198-201`, under the comment "add at end", is never reached. `CallsTakeEffect` says so too.
- `deque::end()` of an empty deque is one past `begin()` (`deque.hpp:525-537`), because the back of an empty deque is the slot where the next
  element goes: a loop from `begin()` to `end()` visits that slot, which holds no element. `IteratorsAgree` is about this `end()`.

### Further configurations

Not among the runs, but kept: each extends a specification by a call it leaves out, or asks for what a
comment promises, and ends in a counterexample (`tlc -config X.cfg MODULE`).

| Configuration | Module | What TLC finds |
|---|---|---|
| `SharedPtrResetNull` | `MCSharedPtr` | `reset(nullptr)` keeps the members: the reference is given up twice (`shared_ptr.hpp:112-119`) |
| `SharedPtrCopyNull` | `MCSharedPtr` | the copy of a null pointer dereferences it (`shared_ptr.hpp:57`; `:83` calls it valid) |
| `WeakPtrFreeRace` | `MCWeakPtr` | last `release()` and last `weak_ptr::reset()` at once: a counter of a freed block |
| `WeakPtrReset` | `MCWeakPtr` | a `weak_ptr` in use after `reset()`, as in `test.cpp:467`, keeps a block it no longer counts in |
| `WeakPtrCopyAssign` | `MCWeakPtr` | `w1 = w2` is the implicit assignment and counts nothing |
| `UnorderedMapProbeDist` | `MCUnorderedMap` | the stored distance underflows at the end of the table (`unordered_map.hpp:209`) |
| `UnorderedMapRehash` | `MCUnorderedMap` | `rehash(n)`, n no power of two: an entry finds no bucket (`unordered_map.hpp:429`) |
| `UnorderedSetDuplicate` | `UnorderedSet` | a key inserted into the tombstone before the bucket it occupies (`unordered_map.hpp:205`) |
| `UnorderedMapMovedFrom` | `UnorderedMap` | insert() into a map that was moved from probes a table of no buckets (`unordered_map.hpp:167`, `:415`) |
| `PriorityQueueHeap` | `PriorityQueue` | `downHeap()` takes the right child only if the left one is larger too (`priority_queue.hpp:147`; `:9` promises a heap) |
| `VectorAlias` | `MCVector` | `push_back(v[i])` reads the element after the buffer has been freed (`vector.hpp:169-173`) |
| `VectorInsertFront` | `MCVector` | an insertion before the only element overwrites it (`vector.hpp:208`) |
| `VectorClass` | `MCVector` | `erase`, `insert` and `clear` destroy and construct elements once too often (`vector.hpp:230-239`, `:216`, `:249`) |
| `UniquePtrPopHead` | `MCUniquePtr` | `head = std::move(head->next)` reads a deleted member (`unique_ptr.hpp:36`) |
| `RBTreeBalance` | `RBTree` | `RBTree::erase` neither rebalances nor updates the sentinel (`map.hpp:250`; with `-continue` TLC reports both invariants) |
| `RBTreeNull` | `RBTree` | `find()` of a missing key is not `end()`, so `at()` dereferences null instead of throwing (`map.hpp:664`); `begin()` after `clear()` dereferences null (`map.hpp:408`; with `-continue` both) |
| `DequeAstray` | `Deque` | how a deque goes astray: `grow()` copies an entry past the end of its map (`deque.hpp:641`); the front moves before the map (`deque.hpp:118-124`); after `clear()`, or erasing the last element, it is past the back (`deque.hpp:266`). With `-continue` TLC reports all three invariants |
| `DequeInsertEnd` | `Deque` | `insert(end(), x)` adds nothing (`deque.hpp:188`; `:198` says it does), and an empty deque has a range of one position (`deque.hpp:525`; with `-continue` both) |
| `DequeThrow` | `Deque` | a constructor that throws in `push_back` leaves the back behind a vacant slot (`deque.hpp:140`) |
| `DequeResize` | `Deque` | `resize(n)` counts elements twice and appends too few (`deque.hpp:326`; `:317` says they are appended) |

## 4. Proofs

Every theorem holds for all values of the constants that satisfy the assumptions of
its module and of no other hypothesis. The theorems about `WeakPtr` are about `SerialisedSpec`.

| Module | Theorems | Holds for |
|---|---|---|
| `SharedPtrProofs` | `TypeCorrect`, `CountsAreExact`, `OwnersAreSafe`, `AccessesAreSafe`, `Refinement` (of `Ownership`) | any threads and objects, pointers fewer than the counters can count |
| `WeakPtrProofs` | `WeakTypeCorrect`, `WeakCountsAreExact`, `WeakAccessesAreSafe`, `WeakRefinement` (of `Ownership`) | the same, calls serialised by `Serialised` |
| `UniquePtrProofs` | `TypeCorrect`, `OwnershipIsExclusive`, `NothingFreedIsUsed`, `NoObjectIsLost` | any finite sets of variables and objects |
| `UnorderedMapProofs` | `MapTypeCorrect`, `MapProbePathUnbroken`, `MapNeverWraps`, `MapNothingLost`, `MapFindAgrees`, `MapRefinement` (of `Dictionary`) | any keys, values, hash functions, initial capacity a power of two |
| `UnorderedMapProofs` | `SetIteratorAtElement`, `SetProbePathUnbroken`, `SetNothingLost` | the same, with erasures and tombstones |
| `RBTreeProofs` | `RBTypeCorrect`, `RedBlackKept`, `OneViolationAtMost`, `IterationOrdered`, `TreeImplementsDictionary` | any finite set of integer keys, inserted in any order |
| `RBTreeProofs` | `SearchTreeKept`, `EraseRemoves` | the same, with erasures below the root |
| `PriorityQueueProofs` | `TypeCorrect`, `PushKeepsHeap`, `NoElementLost` | any set of integers, any size |
| `VectorProofs` | `VectorTypeCorrect`, `ElementsStayLive`, `NothingLeaks`, `VectorRefinement` (of `Sequence`) | any vectors, buffers, values and capacities, any exceptions |
| `DequeProofs` | `DequeTypeCorrect`, `ElementsStayInPlace`, `IteratorsAlwaysAgree`, `DequeCallsTakeEffect` (edits of `Sequence`) | any values, chunk lengths and bounds, and whatever is behind the map |

Hardly any invariant that the runs check is inductive; what each proof adds, and why:

**SharedPtr.** `IInv` adds that

- the arguments of a call fit its kind and program counter (`CallsOK`),
- no two threads are in calls that write the same variable, nor does one read what
  another writes (`Exclusive`), which is the client contract carried on from the
  guards of the calls to every later step,
- a block not yet used has no owner and counts nothing,
- the object and block of a `release()` that has seen the count fall to zero are live,
  belong to one thread only, and have no owner left (`ReleaseOK`).

`OwnedBy` changes for at most two pointers per step; lemmas say how the cardinality of
`Owners(b)` changes with it (`OwnersGain`, `OwnersLose`, `OwnersExchange`); with
`CountExact` the thread whose decrement returns 1 was the only owner, and an increment
comes from an owner and so never finds the count at zero.

**WeakPtr.** The proofs about `SharedPtr` are instantiated with `op <- SharedOp`, in which a
thread inside a call of a `weak_ptr` looks idle. The steps of `shared_ptr` then keep
`Strong!IInv` by the proofs there, and it does not depend on `weakCnt`, which most steps of a `weak_ptr` change;
the increment of `lock()` and the freeing of a block by a `weak_ptr` are shown to keep it here. `WeakInv` adds what a `lock()` between its test
and its increment, a `reset()` between its decrement and its load, and a `release()`
that has yet to look at `weakCnt` may rely on. That is where `Serialised` is used, and
`weak_ptr_lock_race` and `WeakPtrFreeRace` show that it cannot be done without.

**UniquePtr.** `IInv` says that pointers form no cycle, that an object is held by one slot, raw
pointer or call at most and by one if it is live, and what every frame on the stack of destructors may
assume of the slots it will still touch. "No cycle" is stated as: no nonempty set of slots is
closed under `ptr` (`Acyclic`). That is what makes a destructor that sets its member to null
after the nested call harmless, and it is used for `NoLeak`: objects nobody reaches would have to hold each
other in a ring. `Chain` and `Below`, recursive functions, are related to it by induction
on their argument.

**UnorderedMap, UnorderedSet.** In layers, each carried by a theorem of its own:

1. `MapInv`: paths without gaps, a size that counts the occupied buckets, room left by the load factor, a
   capacity that is a power of two. It is kept by `EraseAt` as well, so the set uses it.
2. `LoopInv`: all places the probe loop has come by are occupied by entries that are
   at least as far from home, so the loop ends at the first vacancy (`NeverWraps`).
3. `LookupInv`, without erasures: the order of robin-hood hashing, and from it that no key
   is in the table twice and that `find()` may stop early (`FindAgrees`).
4. Each step maps to a step of `Dictionary`: an entry in the hands of `insert()`, or waiting for
   `rehash()`, counts as an entry of the dictionary.

`SetInv` is the first two layers and that an iterator the client may use is at an
occupied bucket or at the end. The third layer is false with erasures
(`UnorderedSetDuplicate`), so nothing is said of `find()` there.

**RBTree.** Pointers that lead from node to node are only a tree if there is a set of nodes under
each of them such that the sets for the two children of a node are disjoint from each other and from the node.
`Tree(t, L, sub)` says so, with links both ways and the keys of the sets on their sides.
The invariants say that some such `sub` exists, and the proof of a step constructs the one for the new tree:
a new leaf joins the sets of the nodes above it, a rotation changes the sets of two nodes, an erasure takes the deleted
node out of all sets, and the keys in them stay in order although one moves up.

1. `Shape`: what is live is a tree, unless it is empty, and only the node the loop of `fixInsertion()` is at may be a
   red root. `erase()` below the root keeps it, so `SearchTreeKept` and `EraseRemoves` follow from it
   for `EraseBelowSpec`. Nothing is said of colours there, which `erase()` does not keep (`RBTreeBalance`).
2. `Balance`, without erasures: `Shape`, black heights that agree, no red child of a red node but `fixing`, the root
   and both ends in the sentinel between calls, and null children in all nodes not in use, so that the recursion of `BlackHeight`, which runs over all addresses, has
   a solution. A height of the old tree
   yields one of the new tree in each case of `fixInsertion()`: recoloured, aligned, turned.

What a search, a climb or a count finds is defined by recursive functions over all addresses, also over those where the
recursion would not end. `TailRecursion` and its kin show that each of these
equations has a solution whatever the pointers are, and only then what it is on a tree: by `Bottom` and `Top`,
that any nonempty set of nodes has one with no child, and one with no parent, in the set. These replace induction
over trees, and rest on `LeastSet`, that among finite sets there is a least one, which is why the
set of keys is assumed finite. `NeighbourIsFirst` then says that `inorderSuccessor()` and
`inorderPredecessor()` find the nearest key on their side, or the end.

**PriorityQueue.** `PushKeepsHeap`: a heap but for the one element that `upHeap()` is moving,
whose parent is as large as that element's children. `NoElementLost`: a swap, a `push_back` and a
`pop_back` change the number of places that hold a value by what `pushed` and `popped` say.

**Vector.** `IInv` says of each vector that its buffer is its own and allocated, that the slots below
`mSize` hold values that are alive, and of the call in progress which slots of the new buffer
have been constructed. Until a constructor throws, the lifetimes of every slot
are counted exactly (`Exact`), and no other buffer has elements. A throw in any
of these states leaves the old buffer as it was. The refinement rests on
`InsertAt` and `RemoveAt` of the shifted slots.

**Deque.** The invariant is that the members are well-formed and, unless the deque is astray, `Good`: the number of
chunks allocated is right, the two ends are as far apart as the size says, and every position between them is in
an allocated chunk and holds a value. A wild entry in the map is allowed by it. Lemmas on quotient and remainder give the arithmetic of iterators for
every chunk length, wherever the ends are. Every operation is shown either to yield a `Good` deque with the old contents and one element put in, one taken out, or
the same, at the position its argument names, or to lead astray for one of the three reasons; the invariant and
`CallsTakeEffect` follow from that.

Every invariant that a passing run checks, every refinement and every property of steps is proved.
Only model-checked:

- Liveness under fairness, for which the prover has no rules here: `CallsReturn`, `AbandonedIsFreed`,
  `UnobservedIsFreed`. (`MapNeverWraps` is the safety half of the first.)
- Anything about `ENABLED`: no theorem says that no call gets stuck; the deadlock check does.
- The counterexamples to what comments promise, which are facts of single behaviours.

Induction over the natural numbers is done with sets of numbers (`Least`, `NatInd`: a nonempty set of
naturals has a least element, from the well-foundedness of strict inclusion of finite sets), because the induction theorems of
the library take an operator as parameter, which the provers cannot instantiate. Induction
over a predicate is therefore out of reach wherever the predicate cannot be made a set; so are
`RECURSIVE` operators, of which the modules proved about have none.

## 5. What is left out

- Memory order. The counters are accessed with `memory_order_relaxed` (except `weakCnt.load()`
  in `release()`, and `use_count()`); the model is sequentially consistent. Relaxed
  decrements do not order another owner's accesses before the delete.
- Destructors of managed objects that call back into the pointer being released.
- `shared_ptr(nullptr)` (`shared_ptr.hpp:43`), which allocates a control block for no object.
- `unordered_map`: the copy constructor, the `bool` that `insert()` returns, the exception of `erase()` for a missing key, writes to keys through an iterator, the assignment of
  iterators (which leaves `endPtr`), and the lifetimes of entries (`clear()` and `erase()` destroy one that is
  assigned and destroyed again). `unordered_set`: copies and moves; `erase(const K&)` does not compile.
- `map`: copies (they share the tree), the ordering of iterators, values.
- Exceptions except those of an element's constructor in `vector`'s modifiers and `deque::push_back`; failed allocations;
  wording and logging.
- `vector`: copies (`copyOther()` at `vector.hpp:392` constructs a `T` from a `T*` and compiles for
  hardly any `T`), exceptions in its constructors, comparison and display.
- `deque`: the lifetimes of elements, `resize()` to fewer elements, chunks smaller than an element, and what becomes of a deque that is astray;
  `Spec` has neither `resize()` nor constructors that throw, which `DequeResize` and `DequeThrow` show.
  Its copy constructor and destructor have no body. `queue`: does not exist yet.

## 6. Plan

In this order, the concurrent part of the library first:

1. `SharedPtr`, `Ownership`: modelled and proved.
2. `WeakPtr`, with the condition under which it is safe: modelled and proved under it.
3. `UnorderedMap`, `Dictionary`, `UnorderedSet`: modelled but for copies; proved.
4. `RBTree`: modelled but for values and copies of `map`; proved.
5. `UniquePtr`: modelled and proved.
6. `PriorityQueue`: modelled and proved.
7. `Deque`: modelled but for lifetimes; proved.
8. `Vector`: modelled and proved.
9. Memory order of `release()` with vector clocks, over `SharedPtr`'s steps: not begun.
