------------------------------- MODULE WeakPtr -------------------------------
(***************************************************************************)
(* rack::weak_ptr (src/src/weak_ptr.hpp) together with shared_ptr: weak    *)
(* pointers share the control block of the shared_ptrs they were made from *)
(* and keep it alive through weakCnt.                                      *)
(*                                                                         *)
(* WeakNext has the calls that count references the way the class means    *)
(* to: the constructors, assignment from a shared_ptr, lock(), swap() and  *)
(* the destructor.  Their accesses to the counters of one control block    *)
(* race with those of release(); Serialised says what a program has to     *)
(* keep apart, with a mutex or in one thread, so that nothing goes wrong,  *)
(* and all the other calls may overlap.                                    *)
(*                                                                         *)
(* The calls that miscount even in one thread, reset() on a weak_ptr that  *)
(* stays in use and the implicit copy assignment, are separate actions     *)
(* below, each with a specification of its own.                            *)
(***************************************************************************)
EXTENDS SharedPtr

CONSTANT WeakPtrs     \* the weak_ptr variables of the program

ASSUME WeakPtrAssumption ==
  /\ IsFiniteSet(WeakPtrs) /\ Cardinality(WeakPtrs) < CntMod
  /\ WeakPtrs \cap (SharedPtrs \cup Blocks \cup {Null}) = {}

VARIABLE wp           \* wp[w]: the two pointer members of the weak_ptr w

wvars == <<vars, wp>>

WeakInit == Init /\ wp = [w \in WeakPtrs |-> NullPtr]

\* The members of a pointer of either class.
Members(h) == IF h \in WeakPtrs THEN wp[h] ELSE sp[h]

-----------------------------------------------------------------------------
WBegin(t, call) == Begin(t, call) /\ UNCHANGED wp

\* weak_ptr(const shared_ptr&) and weak_ptr(const weak_ptr&)
WeakConstruct(t, w, src) ==
  /\ w # src /\ wp[w] = NullPtr /\ Writable(w) /\ Readable(src)
  /\ WBegin(t, Call("weakConstruct", "weakAdd", w, src))

\* operator=(const shared_ptr&) returns early on the same control block.
WeakAssign(t, w, src) ==
  /\ Writable(w) /\ Readable(src)
  /\ wp[w].cb # sp[src].cb
  /\ WBegin(t, Call("weakAssign", "weakDec", w, src))

WeakDestroy(t, w) ==
  /\ Writable(w)
  /\ WBegin(t, Call("weakDestroy", "weakDec", w, Null))

\* lock(), its result moved into the empty slot h
Lock(t, h, w) ==
  /\ sp[h] = NullPtr /\ Writable(h) /\ Readable(w)
  /\ WBegin(t, Call("lock", "expired", h, w))

WeakSwap(t, w, other) ==
  /\ op[t] = Idle /\ Writable(w) /\ Writable(other)
  /\ wp' = [wp EXCEPT ![w] = wp[other], ![other] = wp[w]]
  /\ UNCHANGED vars

-----------------------------------------------------------------------------
(* weak_ptr::reset(), called by the destructor and by assignment.          *)

\* reset() returns; the destructor and assignment give up the members.
WeakReturn(t, v) ==
  LET kind == op[t].kind IN
  /\ wp' = [wp EXCEPT ![op[t].this] = IF kind = "weakReset" THEN v ELSE NullPtr]
  /\ op' = [op EXCEPT ![t] =
              IF kind = "weakAssign" THEN [@ EXCEPT !.pc = "weakAdd"] ELSE Idle]

WeakResetNull(t) ==
  /\ op[t].pc = "weakDec" /\ wp[op[t].this].cb = Null
  /\ WeakReturn(t, NullPtr)
  /\ UNCHANGED <<sp, strongCnt, weakCnt, block, object>>

\* ptr = nullptr; oldWeakCnt = weakCnt.fetch_sub(1)
WeakDec(t) ==
  LET b == wp[op[t].this].cb IN
  /\ op[t].pc = "weakDec" /\ b # Null /\ block[b] = "live"
  /\ weakCnt' = [weakCnt EXCEPT ![b] = Dec(@)]
  /\ wp' = [wp EXCEPT ![op[t].this].ptr = Null]
  /\ op' = [op EXCEPT ![t].pc = IF weakCnt[b] = 1 THEN "loadStrongLast" ELSE "loadStrong"]
  /\ UNCHANGED <<sp, strongCnt, block, object>>

\* Mutation: the last weak_ptr leaves the block to a release() long over
LoadStrongKept(t) ==
  /\ op[t].pc \in {"loadStrong", "loadStrongLast"} /\ block[wp[op[t].this].cb] = "live"
  /\ WeakReturn(t, wp[op[t].this])
  /\ UNCHANGED <<sp, strongCnt, weakCnt, block, object>>

\* currStrongCnt = strongCnt.load()
LoadStrong(t) ==
  LET b == wp[op[t].this].cb IN
  /\ op[t].pc \in {"loadStrong", "loadStrongLast"} /\ block[b] = "live"
  /\ IF op[t].pc = "loadStrongLast" /\ strongCnt[b] = 0
     THEN op' = [op EXCEPT ![t].pc = "weakFree"] /\ UNCHANGED wp
     ELSE WeakReturn(t, wp[op[t].this])
  /\ UNCHANGED <<sp, strongCnt, weakCnt, block, object>>

\* delete controlBlock; controlBlock = nullptr
WeakFree(t) ==
  LET b == wp[op[t].this].cb IN
  /\ op[t].pc = "weakFree" /\ block[b] = "live"
  /\ block' = [block EXCEPT ![b] = "freed"]
  /\ WeakReturn(t, NullPtr)
  /\ UNCHANGED <<sp, strongCnt, weakCnt, object>>

\* copy the members of arg; weakCnt.fetch_add(1) unless arg is null
WeakAdd(t) ==
  LET b == Members(op[t].arg).cb IN
  /\ op[t].pc = "weakAdd" /\ (b # Null => block[b] = "live")
  /\ wp' = [wp EXCEPT ![op[t].this] = Members(op[t].arg)]
  /\ weakCnt' = IF b = Null THEN weakCnt ELSE [weakCnt EXCEPT ![b] = Inc(@)]
  /\ op' = [op EXCEPT ![t] = Idle]
  /\ UNCHANGED <<sp, strongCnt, block, object>>

\* Mutation: lock() without expired()
ExpiredIgnored(t) ==
  LET b == wp[op[t].arg].cb IN
  /\ op[t].pc = "expired" /\ (b # Null => block[b] = "live")
  /\ op' = [op EXCEPT ![t] = IF b = Null THEN Idle ELSE [@ EXCEPT !.pc = "lockAdd"]]
  /\ UNCHANGED <<sp, strongCnt, weakCnt, block, object, wp>>

\* expired(): use_count() == 0
Expired(t) ==
  LET b == wp[op[t].arg].cb IN
  /\ op[t].pc = "expired" /\ (b # Null => block[b] = "live")
  /\ op' = [op EXCEPT ![t] = IF b = Null \/ strongCnt[b] = 0
                             THEN Idle ELSE [@ EXCEPT !.pc = "lockAdd"]]
  /\ UNCHANGED <<sp, strongCnt, weakCnt, block, object, wp>>

\* shared_ptr(const weak_ptr&): strongCnt.fetch_add(1)
LockAdd(t) ==
  LET b == wp[op[t].arg].cb IN
  /\ op[t].pc = "lockAdd" /\ block[b] = "live"
  /\ sp' = [sp EXCEPT ![op[t].this] = wp[op[t].arg]]
  /\ strongCnt' = [strongCnt EXCEPT ![b] = Inc(@)]
  /\ op' = [op EXCEPT ![t] = Idle]
  /\ UNCHANGED <<weakCnt, block, object, wp>>

-----------------------------------------------------------------------------
WeakStart(t) ==
  \/ \E w \in WeakPtrs, src \in SharedPtrs \cup WeakPtrs : WeakConstruct(t, w, src)
  \/ \E w \in WeakPtrs, src \in SharedPtrs : WeakAssign(t, w, src)
  \/ \E w \in WeakPtrs : WeakDestroy(t, w)
  \/ \E h \in SharedPtrs, w \in WeakPtrs : Lock(t, h, w)
  \/ \E w, other \in WeakPtrs : WeakSwap(t, w, other)

WeakContinue(t) ==
  \/ Continue(t) /\ UNCHANGED wp
  \/ WeakResetNull(t) \/ WeakDec(t) \/ LoadStrong(t) \/ WeakFree(t)
  \/ WeakAdd(t) \/ Expired(t) \/ LockAdd(t)

WeakNext ==
  \E t \in Threads :
    \/ Start(t) /\ UNCHANGED wp
    \/ WeakStart(t)
    \/ WeakContinue(t)

WeakSpec == WeakInit /\ [][WeakNext]_wvars

-----------------------------------------------------------------------------
(* What the program has to serialise.                                      *)

\* Thread t is between the first and the last access of release(), of
\* weak_ptr::reset() or of lock() to control block b.
Releasing(t, b) ==
  op[t].pc \in {"dec", "delete", "loadWeak", "freeBlock"} /\ sp[op[t].this].cb = b

Forgetting(t, b) ==
  /\ op[t].pc \in {"weakDec", "loadStrong", "loadStrongLast", "weakFree"}
  /\ wp[op[t].this].cb = b

Locking(t, b) == op[t].pc \in {"expired", "lockAdd"} /\ wp[op[t].arg].cb = b

\* Neither lock() nor reset() of a weak_ptr overlaps with a release() of the
\* same control block, nor two reset() with each other.
Serialised ==
  \A t, u \in Threads, b \in Blocks : t # u =>
    /\ Forgetting(t, b) => ~Forgetting(u, b) /\ ~Releasing(u, b)
    /\ Locking(t, b) => ~Releasing(u, b)

SerialisedSpec ==
  /\ WeakInit /\ [][WeakNext /\ Serialised']_wvars
  /\ \A t \in Threads : WF_wvars(WeakContinue(t))

-----------------------------------------------------------------------------
(* Calls that miscount even when every call is made by one thread.         *)

\* reset() on a weak_ptr that stays in use: only the branch that deletes the
\* control block clears the member.
WeakReset(t, w) ==
  /\ Writable(w)
  /\ WBegin(t, Call("weakReset", "weakDec", w, Null))

WeakResetSpec ==
  WeakInit /\ [][WeakNext \/ \E t \in Threads, w \in WeakPtrs : WeakReset(t, w)]_wvars

\* w1 = w2 is the implicit copy assignment, which copies the two members.
WeakCopyAssign(t, w, src) ==
  /\ op[t] = Idle /\ Writable(w) /\ Readable(src)
  /\ wp' = [wp EXCEPT ![w] = wp[src]]
  /\ UNCHANGED vars

WeakCopySpec ==
  WeakInit
  /\ [][WeakNext \/ \E t \in Threads, w, src \in WeakPtrs : WeakCopyAssign(t, w, src)]_wvars

-----------------------------------------------------------------------------
(* Properties.                                                             *)

WeakKinds == {"weakConstruct", "weakAssign", "weakDestroy", "weakReset", "lock"}

WeakPcs == {"weakDec", "loadStrong", "loadStrongLast", "weakFree", "weakAdd",
            "expired", "lockAdd"}

\* The values the variables of the translation range over.
WeakTypeOK ==
  /\ HeapTypeOK
  /\ op \in [Threads -> [kind : Kinds \cup WeakKinds, pc : Pcs \cup WeakPcs,
                         this : SharedPtrs \cup WeakPtrs \cup {Null},
                         arg : SharedPtrs \cup WeakPtrs \cup Blocks \cup {Null}]]
  /\ wp \in [WeakPtrs -> [ptr : Blocks \cup {Null}, cb : Blocks \cup {Null}]]

\* A weak_ptr in the middle of reset() has given up its reference but still
\* holds the pointer to the control block.
WeakGaveUp(w) ==
  \E t \in Threads :
    op[t].this = w /\ op[t].pc \in {"loadStrong", "loadStrongLast", "weakFree"}

WeakOwners(b) == {w \in WeakPtrs : wp[w].cb = b /\ ~WeakGaveUp(w)}

\* weakCnt is the number of weak_ptrs that hold the block, between any two
\* atomic steps of any threads.
WeakCountExact ==
  \A b \in Blocks : block[b] = "live" => weakCnt[b] = Cardinality(WeakOwners(b))

\* No pending access of either class is to freed memory. For a weak_ptr: the
\* counters a call is about to touch belong to a live block, and the block it is
\* about to delete is live, so that between release() and weak_ptr::reset()
\* exactly one deletes the control block.
NoWeakUseAfterFree ==
  NoUseAfterFree /\ \A t \in Threads :
    LET this == op[t].this
        arg == op[t].arg
    IN
    /\ op[t].pc \in {"weakDec", "loadStrong", "loadStrongLast", "weakFree"}
         /\ wp[this].cb # Null
         => block[wp[this].cb] = "live"
    /\ op[t].pc \in {"weakAdd", "expired", "lockAdd"} /\ Members(arg).cb # Null
         => block[Members(arg).cb] = "live"

\* A weak_ptr can always ask whether its object is still there: its control
\* block outlives the object for as long as the weak_ptr counts.
ObserverSeesLiveBlock ==
  \A b \in Blocks : WeakOwners(b) # {} => block[b] = "live"

\* When neither class refers to a block any more it is freed, whichever of
\* release() and weak_ptr::reset() comes last.
UnobservedIsFreed ==
  \A b \in Blocks :
    (block[b] = "live" /\ Owners(b) = {} /\ WeakOwners(b) = {})
      ~> block[b] = "freed"
=============================================================================
