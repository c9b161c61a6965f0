------------------------------ MODULE SharedPtr ------------------------------
(***************************************************************************)
(* rack::shared_ptr (src/src/shared_ptr.hpp) used by several threads.      *)
(*                                                                         *)
(* A shared_ptr is a pair of pointers, to the managed object and to a      *)
(* control block with two atomic counters.  Every access to a counter is   *)
(* one atomic step here, so the operations of different threads interleave *)
(* between the decrement of strongCnt, the delete of the object, the load  *)
(* of weakCnt and the delete of the control block.  Steps that touch only  *)
(* the shared_ptr itself are folded into the neighbouring step.            *)
(*                                                                         *)
(* The client contract is that of C++: the same shared_ptr variable is not *)
(* written by one thread while another reads or writes it (Writable,       *)
(* Readable).  Different variables with the same control block are used    *)
(* concurrently without restriction.                                       *)
(*                                                                         *)
(* A control block and the object it was created with share the name b; a  *)
(* freed address is not used again.  A slot that holds no shared_ptr and a *)
(* default-constructed shared_ptr are the same value, NullPtr.  A thread   *)
(* whose next access is to freed memory has no step: the program has no    *)
(* defined behaviour from there, and NoUseAfterFree says it never happens. *)
(***************************************************************************)
EXTENDS Integers, FiniteSets

CONSTANTS
  Threads,      \* the threads of the program
  SharedPtrs,   \* its shared_ptr variables
  Blocks,       \* heap addresses: control block b and the object it manages
  Null,         \* nullptr
  CntMod        \* 2^32: the counters are uint32_t and wrap

ASSUME SharedPtrAssumption ==
  /\ IsFiniteSet(SharedPtrs)
  /\ Null \notin Blocks \cup SharedPtrs /\ Blocks \cap SharedPtrs = {}
  /\ CntMod \in Nat /\ Cardinality(SharedPtrs) < CntMod

VARIABLES
  sp,           \* sp[h]: the two pointer members of the shared_ptr h
  op,           \* op[t]: the library call thread t is executing
  strongCnt,    \* strongCnt[b], weakCnt[b]: the atomics of control block b
  weakCnt,
  block,        \* block[b]: "unused", "live" or "freed"
  object        \* object[b]: "unused", "live" or "deleted"

vars == <<sp, op, strongCnt, weakCnt, block, object>>

NullPtr == [ptr |-> Null, cb |-> Null]

Idle == [kind |-> "none", pc |-> "idle", this |-> Null, arg |-> Null]

Call(kind, pc, this, arg) ==
  [kind |-> kind, pc |-> pc, this |-> this, arg |-> arg]

Writable(h) == \A u \in Threads : h # op[u].this /\ h # op[u].arg

\* Move assignment is the only call in progress that writes its argument.
Readable(h) ==
  \A u \in Threads :
    /\ h # op[u].this
    /\ h = op[u].arg => op[u].kind # "moveAssign"

\* Mutations of Inc: a reference that is not counted, or counted twice
IncDropped(n) == n
IncTwice(n) == n + 2

Inc(n) == (n + 1) % CntMod
Dec(n) == (n - 1) % CntMod

-----------------------------------------------------------------------------
Init ==
  /\ sp = [h \in SharedPtrs |-> NullPtr]
  /\ op = [t \in Threads |-> Idle]
  /\ strongCnt = [b \in Blocks |-> 0]
  /\ weakCnt = [b \in Blocks |-> 0]
  /\ block = [b \in Blocks |-> "unused"]
  /\ object = [b \in Blocks |-> "unused"]

-----------------------------------------------------------------------------
(* Calls that need no atomic access to a published control block: each is  *)
(* one step.                                                               *)

\* h takes the object at b: new SharedPtrControlBlock, strongCnt.fetch_add(1)
Adopt(h, b) ==
  /\ sp' = [sp EXCEPT ![h] = [ptr |-> b, cb |-> b]]
  /\ strongCnt' = [strongCnt EXCEPT ![b] = 1]
  /\ weakCnt' = [weakCnt EXCEPT ![b] = 0]
  /\ block' = [block EXCEPT ![b] = "live"]

\* shared_ptr(new T), make_shared
Construct(t, h, b) ==
  /\ op[t] = Idle /\ sp[h] = NullPtr /\ Writable(h)
  /\ object[b] = "unused"
  /\ object' = [object EXCEPT ![b] = "live"]
  /\ Adopt(h, b)
  /\ UNCHANGED op

MoveConstruct(t, h, src) ==
  /\ op[t] = Idle /\ h # src /\ sp[h] = NullPtr
  /\ Writable(h) /\ Writable(src)
  /\ sp' = [sp EXCEPT ![h] = sp[src], ![src] = NullPtr]
  /\ UNCHANGED <<op, strongCnt, weakCnt, block, object>>

Swap(t, h, other) ==
  /\ op[t] = Idle /\ Writable(h) /\ Writable(other)
  /\ sp' = [sp EXCEPT ![h] = sp[other], ![other] = sp[h]]
  /\ UNCHANGED <<op, strongCnt, weakCnt, block, object>>

-----------------------------------------------------------------------------
(* Calls of several steps begin here.                                      *)

Begin(t, call) ==
  /\ op[t] = Idle
  /\ op' = [op EXCEPT ![t] = call]
  /\ UNCHANGED <<sp, strongCnt, weakCnt, block, object>>

BeginCopy(t, h, src) ==
  /\ h # src /\ sp[h] = NullPtr /\ Writable(h) /\ Readable(src)
  /\ Begin(t, Call("copy", "add", h, src))

\* The copy constructor dereferences src.controlBlock unconditionally.
CopyConstruct(t, h, src) == sp[src].cb # Null /\ BeginCopy(t, h, src)

\* operator=(const shared_ptr&) and operator=(shared_ptr&&) do nothing on
\* themselves, so h # src.
CopyAssign(t, h, src) ==
  /\ h # src /\ Writable(h) /\ Readable(src)
  /\ Begin(t, Call("copyAssign", "dec", h, src))

MoveAssign(t, h, src) ==
  /\ h # src /\ Writable(h) /\ Writable(src)
  /\ Begin(t, Call("moveAssign", "dec", h, src))

\* reset() and ~shared_ptr(): the slot is null afterwards.
Reset(t, h) ==
  /\ Writable(h)
  /\ Begin(t, Call("reset", "dec", h, Null))

\* reset(new T): the caller has created the object, the call owns it until
\* h adopts it.
ResetNew(t, h, b) ==
  /\ op[t] = Idle /\ Writable(h)
  /\ object[b] = "unused"
  /\ object' = [object EXCEPT ![b] = "live"]
  /\ op' = [op EXCEPT ![t] = Call("resetNew", "dec", h, b)]
  /\ UNCHANGED <<sp, strongCnt, weakCnt, block>>

-----------------------------------------------------------------------------
(* release(), and what the calling operation does when it returns.         *)

AfterRelease(kind) ==
  CASE kind = "copyAssign" -> "add"
    [] kind = "moveAssign" -> "steal"
    [] kind = "resetNew" -> "takeNew"
    [] OTHER -> "idle"

\* release() returns to its caller with the members of this equal to v.
Return(t, v) ==
  LET next == AfterRelease(op[t].kind) IN
  /\ sp' = [sp EXCEPT ![op[t].this] = v]
  /\ op' = [op EXCEPT ![t] = IF next = "idle" THEN Idle ELSE [@ EXCEPT !.pc = next]]

ReleaseNull(t) ==
  /\ op[t].pc = "dec" /\ sp[op[t].this].cb = Null
  /\ Return(t, NullPtr)
  /\ UNCHANGED <<strongCnt, weakCnt, block, object>>

\* strongCnt.fetch_sub(1).  reset() clears the members when release()
\* returns; reset(newPtr) leaves them for the assignments that follow.
ReleaseDec(t) ==
  LET h == op[t].this
      b == sp[h].cb
  IN
  /\ op[t].pc = "dec" /\ b # Null /\ block[b] = "live"
  /\ strongCnt' = [strongCnt EXCEPT ![b] = Dec(@)]
  /\ IF strongCnt[b] = 1
     THEN op' = [op EXCEPT ![t].pc = "delete"] /\ UNCHANGED sp
     ELSE Return(t, IF op[t].kind \in {"resetNew", "resetNull"} THEN sp[h] ELSE NullPtr)
  /\ UNCHANGED <<weakCnt, block, object>>

\* delete ptr; ptr = nullptr
DeleteObject(t) ==
  LET h == op[t].this IN
  /\ op[t].pc = "delete" /\ object[sp[h].ptr] = "live"
  /\ object' = [object EXCEPT ![sp[h].ptr] = "deleted"]
  /\ sp' = [sp EXCEPT ![h].ptr = Null]
  /\ op' = [op EXCEPT ![t].pc = "loadWeak"]
  /\ UNCHANGED <<strongCnt, weakCnt, block>>

\* Mutation: the block is freed whether or not a weak_ptr refers to it
LoadWeakIgnored(t) ==
  /\ op[t].pc = "loadWeak" /\ block[sp[op[t].this].cb] = "live"
  /\ op' = [op EXCEPT ![t].pc = "freeBlock"]
  /\ UNCHANGED <<sp, strongCnt, weakCnt, block, object>>

\* weakCnt.load(): a block with weak references is left to the last weak_ptr
LoadWeak(t) ==
  LET b == sp[op[t].this].cb IN
  /\ op[t].pc = "loadWeak" /\ block[b] = "live"
  /\ IF weakCnt[b] = 0
     THEN op' = [op EXCEPT ![t].pc = "freeBlock"] /\ UNCHANGED sp
     ELSE Return(t, NullPtr)
  /\ UNCHANGED <<strongCnt, weakCnt, block, object>>

\* delete controlBlock; controlBlock = nullptr
FreeBlock(t) ==
  LET b == sp[op[t].this].cb IN
  /\ op[t].pc = "freeBlock" /\ block[b] = "live"
  /\ block' = [block EXCEPT ![b] = "freed"]
  /\ Return(t, NullPtr)
  /\ UNCHANGED <<strongCnt, weakCnt, object>>

-----------------------------------------------------------------------------
(* The last step of the calls that take a new value.                       *)

\* copy the members of arg; strongCnt.fetch_add(1) unless arg is null
AddStrong(t) ==
  LET b == sp[op[t].arg].cb IN
  /\ op[t].pc = "add"
  /\ IF b = Null THEN op[t].kind # "copy" ELSE block[b] = "live"
  /\ sp' = [sp EXCEPT ![op[t].this] = sp[op[t].arg]]
  /\ strongCnt' = IF b = Null THEN strongCnt ELSE [strongCnt EXCEPT ![b] = Inc(@)]
  /\ op' = [op EXCEPT ![t] = Idle]
  /\ UNCHANGED <<weakCnt, block, object>>

\* Mutation: other keeps its members
StealKept(t) ==
  /\ op[t].pc = "steal"
  /\ sp' = [sp EXCEPT ![op[t].this] = sp[op[t].arg]]
  /\ op' = [op EXCEPT ![t] = Idle]
  /\ UNCHANGED <<strongCnt, weakCnt, block, object>>

Steal(t) ==
  /\ op[t].pc = "steal"
  /\ sp' = [sp EXCEPT ![op[t].this] = sp[op[t].arg], ![op[t].arg] = NullPtr]
  /\ op' = [op EXCEPT ![t] = Idle]
  /\ UNCHANGED <<strongCnt, weakCnt, block, object>>

TakeNew(t) ==
  /\ op[t].pc = "takeNew"
  /\ Adopt(op[t].this, op[t].arg)
  /\ op' = [op EXCEPT ![t] = Idle]
  /\ UNCHANGED object

-----------------------------------------------------------------------------
\* The steps of a call in progress.
Continue(t) ==
  \/ ReleaseNull(t) \/ ReleaseDec(t) \/ DeleteObject(t)
  \/ LoadWeak(t) \/ FreeBlock(t)
  \/ AddStrong(t) \/ Steal(t) \/ TakeNew(t)

\* The calls a thread may make.
Start(t) ==
  \/ \E h \in SharedPtrs, b \in Blocks : Construct(t, h, b)
  \/ \E h, src \in SharedPtrs : MoveConstruct(t, h, src)
  \/ \E h, other \in SharedPtrs : Swap(t, h, other)
  \/ \E h, src \in SharedPtrs : CopyConstruct(t, h, src)
  \/ \E h, src \in SharedPtrs : CopyAssign(t, h, src)
  \/ \E h, src \in SharedPtrs : MoveAssign(t, h, src)
  \/ \E h \in SharedPtrs : Reset(t, h)
  \/ \E h \in SharedPtrs, b \in Blocks : ResetNew(t, h, b)

Next == \E t \in Threads : Start(t) \/ Continue(t)

Spec == Init /\ [][Next]_vars

\* A thread inside a library call is eventually scheduled again.
FairSpec == Spec /\ \A t \in Threads : WF_vars(Continue(t))

-----------------------------------------------------------------------------
(* Calls that go wrong even in one thread, each with a specification that  *)
(* adds it to the others.                                                  *)

\* reset(nullptr): release() without the assignments that clear the members
ResetNull(t, h) ==
  /\ Writable(h)
  /\ Begin(t, Call("resetNull", "dec", h, Null))

ResetNullSpec ==
  Init /\ [][Next \/ \E t \in Threads, h \in SharedPtrs : ResetNull(t, h)]_vars

\* The copy of a null shared_ptr
CopyNull(t, h, src) == sp[src].cb = Null /\ BeginCopy(t, h, src)

CopyNullSpec ==
  Init /\ [][Next \/ \E t \in Threads, h, src \in SharedPtrs : CopyNull(t, h, src)]_vars

-----------------------------------------------------------------------------
(* Properties.                                                             *)

Kinds == {"none", "copy", "copyAssign", "moveAssign", "reset", "resetNew"}

Pcs == {"idle", "dec", "delete", "loadWeak", "freeBlock", "add", "steal", "takeNew"}

\* The values the variables of the translation range over.
HeapTypeOK ==
  /\ sp \in [SharedPtrs -> [ptr : Blocks \cup {Null}, cb : Blocks \cup {Null}]]
  /\ strongCnt \in [Blocks -> 0 .. CntMod - 1]
  /\ weakCnt \in [Blocks -> 0 .. CntMod - 1]
  /\ block \in [Blocks -> {"unused", "live", "freed"}]
  /\ object \in [Blocks -> {"unused", "live", "deleted"}]

TypeOK ==
  /\ HeapTypeOK
  /\ op \in [Threads -> [kind : Kinds, pc : Pcs, this : SharedPtrs \cup {Null},
                         arg : SharedPtrs \cup Blocks \cup {Null}]]

\* A shared_ptr in the middle of release() has given up its reference but
\* still holds the pointers.
GaveUp(h) ==
  \E t \in Threads :
    op[t].this = h /\ op[t].pc \in {"delete", "loadWeak", "freeBlock", "takeNew"}

\* The control block in whose strongCnt h counts.
OwnedBy == [h \in SharedPtrs |-> IF GaveUp(h) THEN Null ELSE sp[h].cb]

Owners(b) == {h \in SharedPtrs : OwnedBy[h] = b}

\* The counter is the number of owners, between any two atomic steps of any
\* threads: no increment is lost and no reference is given up twice.
CountExact ==
  \A b \in Blocks : block[b] = "live" => strongCnt[b] = Cardinality(Owners(b))

\* Dereferencing a shared_ptr that has not been released reaches a live
\* object, whatever the other threads are in the middle of.
OwnerSeesLiveObject ==
  \A h \in SharedPtrs, b \in Blocks :
    OwnedBy[h] = b => sp[h].ptr = b /\ object[b] = "live" /\ block[b] = "live"

\* No pending access is to freed memory: the counters a thread is about to
\* touch belong to a live block, the object it is about to delete is live
\* (no double delete), the block it is about to delete is live (no double
\* free).
NoUseAfterFree ==
  \A t \in Threads :
    LET this == sp[op[t].this] IN
    /\ op[t].pc \in {"dec", "loadWeak", "freeBlock"} /\ this.cb # Null
         => block[this.cb] = "live"
    /\ op[t].pc = "delete" => this.ptr # Null /\ object[this.ptr] = "live"
    /\ op[t].pc = "add" /\ sp[op[t].arg].cb # Null
         => block[sp[op[t].arg].cb] = "live"

\* The copy constructor finds a control block to count in.
CopyFindsBlock ==
  \A t \in Threads :
    op[t].kind = "copy" /\ op[t].pc = "add" => sp[op[t].arg].cb # Null

\* The abstract view: who owns what, and which objects exist.
Ownership == INSTANCE Ownership
  WITH Ptrs <- SharedPtrs,
       Objects <- Blocks,
       None <- Null,
       owns <- OwnedBy,
       life <- [b \in Blocks |-> IF block[b] = "unused" THEN "unused" ELSE object[b]]

\* The counters implement shared ownership: an object is deleted in one
\* step, by nobody but the last owner, and no owner is added to it later.
ImplementsOwnership == Ownership!Spec

\* An object whose last owner is gone is eventually deleted, and so is its
\* control block.
AbandonedIsFreed ==
  \A b \in Blocks :
    (block[b] = "live" /\ Owners(b) = {})
      ~> (object[b] = "deleted" /\ block[b] = "freed")
=============================================================================
