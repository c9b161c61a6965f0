--------------------------- MODULE SharedPtrProofs ---------------------------
(***************************************************************************)
(* The reference counting of shared_ptr is correct for every number of     *)
(* threads, pointers and objects: the counters are exact, an owner always  *)
(* finds its object alive, and no step touches freed memory.               *)
(***************************************************************************)
EXTENDS SharedPtr, FiniteSetTheorems, TLAPS

-----------------------------------------------------------------------------
(* Type correctness.                                                       *)

LEMMA CntModBound ==
  ASSUME NEW h \in SharedPtrs
  PROVE  CntMod \in Nat /\ CntMod > 1
<1>1. Cardinality(SharedPtrs) \in Nat /\ Cardinality(SharedPtrs) # 0
  BY SharedPtrAssumption, FS_CardinalityType, FS_EmptySet
<1> QED
  BY <1>1, SharedPtrAssumption

LEMMA IncDecRange ==
  ASSUME NEW h \in SharedPtrs, NEW n \in 0 .. CntMod - 1
  PROVE  /\ Inc(n) \in 0 .. CntMod - 1 /\ Dec(n) \in 0 .. CntMod - 1
         /\ n + 1 < CntMod => Inc(n) = n + 1
         /\ n # 0 => Dec(n) = n - 1
BY CntModBound DEF Inc, Dec


(* The inductive invariant.  CountExact and OwnerSeesLiveObject alone are  *)
(* not inductive: they say nothing of a thread that has counted down and   *)
(* has yet to delete, or of a reset(p) that has yet to adopt p.            *)

Releasing == {"delete", "loadWeak", "freeBlock"}

\* What a call in progress may still rely on: its own pointers are where the
\* code left them, and nobody else has used the object it is to adopt.
CallsOK ==
  \A t \in Threads :
    LET c == op[t] IN
    /\ c.pc = "idle" => c = Idle
    /\ c.pc # "idle" => c.this \in SharedPtrs
    /\ c.kind \in {"copy", "copyAssign", "moveAssign"} =>
         c.arg \in SharedPtrs /\ c.arg # c.this
    /\ c.kind \in {"none", "reset"} => c.arg = Null
    /\ c.kind = "resetNew" =>
         c.arg \in Blocks /\ block[c.arg] = "unused" /\ object[c.arg] = "live"
    /\ c.pc = "add" => c.kind \in {"copy", "copyAssign"} /\ sp[c.this] = NullPtr
    /\ c.pc = "steal" => c.kind = "moveAssign" /\ sp[c.this] = NullPtr
    /\ c.pc = "takeNew" => c.kind = "resetNew"

\* Calls in progress on different threads share only what they read.
Exclusive ==
  \A t, u \in Threads :
    t # u =>
      /\ op[t].this \in SharedPtrs =>
           op[t].this # op[u].this /\ op[t].this # op[u].arg
      /\ op[t].kind \in {"moveAssign", "resetNew"} => op[t].arg # op[u].arg

\* A thread that saw the count reach zero is alone with the block.
ReleaseOK ==
  \A t \in Threads :
    LET this == sp[op[t].this] IN
    op[t].pc \in Releasing =>
      /\ this.cb \in Blocks /\ block[this.cb] = "live" /\ strongCnt[this.cb] = 0
      /\ op[t].pc = "delete" => this.ptr = this.cb /\ object[this.cb] = "live"
      /\ \A u \in Threads :
           u # t /\ op[u].pc \in Releasing => this.cb # sp[op[u].this].cb

UnusedOK ==
  \A b \in Blocks :
    /\ block[b] = "unused" => \A h \in SharedPtrs : sp[h].cb # b
    /\ object[b] = "unused" => block[b] = "unused"

IInv ==
  /\ TypeOK /\ CallsOK /\ Exclusive
  /\ ReleaseOK /\ UnusedOK
  /\ CountExact /\ OwnerSeesLiveObject

LEMMA TypeOKInit == Init => TypeOK
<1> SUFFICES ASSUME Init PROVE TypeOK
  OBVIOUS
<1>1. CntMod \in Nat /\ CntMod > 0
  BY FS_CardinalityType, SharedPtrAssumption
<1> QED
  BY <1>1 DEF Init, TypeOK, HeapTypeOK, NullPtr, Idle, Kinds, Pcs

LEMMA TypeOKBegin ==
  ASSUME TypeOK, NEW t \in Threads,
         NEW kind \in Kinds, NEW pc \in Pcs, NEW this \in SharedPtrs,
         NEW arg \in SharedPtrs \cup Blocks \cup {Null},
         Begin(t, Call(kind, pc, this, arg))
  PROVE  TypeOK'
BY DEF TypeOK, HeapTypeOK, Begin, Call

LEMMA TypeOKStart == TypeOK /\ (\E t \in Threads : Start(t)) => TypeOK'
<1> SUFFICES ASSUME TypeOK, NEW t \in Threads, Start(t)
             PROVE  TypeOK'
  OBVIOUS
<1>1. ASSUME NEW h \in SharedPtrs, NEW b \in Blocks, Construct(t, h, b)
      PROVE  TypeOK'
  BY <1>1, CntModBound DEF TypeOK, HeapTypeOK, Construct, Adopt
<1>2. ASSUME NEW h \in SharedPtrs, NEW src \in SharedPtrs, MoveConstruct(t, h, src)
      PROVE  TypeOK'
  BY <1>2 DEF TypeOK, HeapTypeOK, MoveConstruct, NullPtr
<1>3. ASSUME NEW h \in SharedPtrs, NEW other \in SharedPtrs, Swap(t, h, other)
      PROVE  TypeOK'
  BY <1>3 DEF TypeOK, HeapTypeOK, Swap
<1>4. ASSUME NEW h \in SharedPtrs, NEW src \in SharedPtrs, CopyConstruct(t, h, src)
      PROVE  TypeOK'
  BY <1>4, TypeOKBegin DEF CopyConstruct, BeginCopy, Kinds, Pcs
<1>5. ASSUME NEW h \in SharedPtrs, NEW src \in SharedPtrs, CopyAssign(t, h, src)
      PROVE  TypeOK'
  BY <1>5, TypeOKBegin DEF CopyAssign, Kinds, Pcs
<1>6. ASSUME NEW h \in SharedPtrs, NEW src \in SharedPtrs, MoveAssign(t, h, src)
      PROVE  TypeOK'
  BY <1>6, TypeOKBegin DEF MoveAssign, Kinds, Pcs
<1>7. ASSUME NEW h \in SharedPtrs, Reset(t, h)
      PROVE  TypeOK'
  BY <1>7, TypeOKBegin DEF Reset, Kinds, Pcs
<1>8. ASSUME NEW h \in SharedPtrs, NEW b \in Blocks, ResetNew(t, h, b)
      PROVE  TypeOK'
  BY <1>8 DEF TypeOK, HeapTypeOK, ResetNew, Call, Kinds, Pcs
<1> QED
  BY <1>1, <1>2, <1>3, <1>4, <1>5, <1>6, <1>7, <1>8 DEF Start

LEMMA TypeOKContinue ==
  TypeOK /\ CallsOK /\ (\E t \in Threads : Continue(t)) => TypeOK'
<1> SUFFICES ASSUME TypeOK, CallsOK, NEW t \in Threads, Continue(t)
             PROVE  TypeOK'
  OBVIOUS
<1>1. op[t].pc # "idle" /\ op[t].this \in SharedPtrs
  BY DEF Continue, ReleaseNull, ReleaseDec, DeleteObject, LoadWeak, FreeBlock,
         AddStrong, Steal, TakeNew, CallsOK
<1>2. ASSUME NEW v \in [ptr : Blocks \cup {Null}, cb : Blocks \cup {Null}], Return(t, v)
      PROVE  /\ sp' \in [SharedPtrs -> [ptr : Blocks \cup {Null}, cb : Blocks \cup {Null}]]
             /\ op' \in [Threads -> [kind : Kinds, pc : Pcs, this : SharedPtrs \cup {Null},
                                     arg : SharedPtrs \cup Blocks \cup {Null}]]
  BY <1>1, <1>2 DEF TypeOK, HeapTypeOK, Return, AfterRelease, Idle, Kinds, Pcs
<1>3. /\ NullPtr \in [ptr : Blocks \cup {Null}, cb : Blocks \cup {Null}]
      /\ sp[op[t].this] \in [ptr : Blocks \cup {Null}, cb : Blocks \cup {Null}]
  BY <1>1 DEF TypeOK, HeapTypeOK, NullPtr
<1>4. CASE ReleaseNull(t)
  BY <1>2, <1>3, <1>4 DEF ReleaseNull, TypeOK, HeapTypeOK
<1>5. CASE ReleaseDec(t)
  <2>1. strongCnt' \in [Blocks -> 0 .. CntMod - 1]
    BY <1>1, <1>3, <1>5, IncDecRange DEF ReleaseDec, TypeOK, HeapTypeOK
  <2> QED
    BY <1>2, <1>3, <1>5, <2>1 DEF ReleaseDec, TypeOK, HeapTypeOK, Pcs
<1>6. CASE DeleteObject(t)
  <2>1. sp' \in [SharedPtrs -> [ptr : Blocks \cup {Null}, cb : Blocks \cup {Null}]]
    BY <1>1, <1>6 DEF DeleteObject, TypeOK, HeapTypeOK
  <2>2. object' \in [Blocks -> {"unused", "live", "deleted"}]
    BY <1>6 DEF DeleteObject, TypeOK, HeapTypeOK
  <2>3. /\ op' \in [Threads -> [kind : Kinds, pc : Pcs, this : SharedPtrs \cup {Null},
                                arg : SharedPtrs \cup Blocks \cup {Null}]]
    BY <1>6 DEF DeleteObject, TypeOK, Pcs
  <2> QED
    BY <1>6, <2>1, <2>2, <2>3 DEF DeleteObject, TypeOK, HeapTypeOK
<1>7. CASE LoadWeak(t)
  BY <1>2, <1>3, <1>7 DEF LoadWeak, TypeOK, HeapTypeOK, Pcs
<1>8. CASE FreeBlock(t)
  BY <1>2, <1>3, <1>8 DEF FreeBlock, TypeOK, HeapTypeOK
<1>9. CASE AddStrong(t)
  <2>1. op[t].arg \in SharedPtrs
    BY <1>9 DEF AddStrong, CallsOK
  <2>2. strongCnt' \in [Blocks -> 0 .. CntMod - 1]
    BY <1>1, <1>9, <2>1, IncDecRange DEF AddStrong, TypeOK, HeapTypeOK
  <2> QED
    BY <1>9, <2>1, <2>2 DEF AddStrong, TypeOK, HeapTypeOK, Idle, Kinds, Pcs
<1>10. CASE Steal(t)
  <2>1. op[t].arg \in SharedPtrs
    BY <1>10 DEF Steal, CallsOK
  <2> QED
    BY <1>10, <2>1 DEF Steal, TypeOK, HeapTypeOK, Idle, NullPtr, Kinds, Pcs
<1>11. CASE TakeNew(t)
  <2>1. op[t].arg \in Blocks
    BY <1>11 DEF TakeNew, CallsOK
  <2> QED
    BY <1>1, <1>11, <2>1, CntModBound
       DEF TakeNew, Adopt, TypeOK, HeapTypeOK, Idle, Kinds, Pcs
<1> QED
  BY <1>4, <1>5, <1>6, <1>7, <1>8, <1>9, <1>10, <1>11 DEF Continue

-----------------------------------------------------------------------------
(* Calls in progress keep to their own pointers.                           *)

LEMMA CallsOKStart ==
  TypeOK /\ CallsOK /\ UnusedOK /\ (\E t \in Threads : Start(t)) => CallsOK'
<1> SUFFICES ASSUME TypeOK, CallsOK, UnusedOK, NEW t \in Threads, Start(t)
             PROVE  CallsOK'
  OBVIOUS
<1>1. ASSUME NEW h \in SharedPtrs, NEW b \in Blocks, Construct(t, h, b)
      PROVE  CallsOK'
  BY <1>1, SharedPtrAssumption
     DEF Construct, Adopt, Writable, CallsOK, TypeOK, HeapTypeOK, Idle
<1>2. ASSUME NEW h \in SharedPtrs, NEW src \in SharedPtrs, MoveConstruct(t, h, src)
      PROVE  CallsOK'
  BY <1>2 DEF MoveConstruct, Writable, CallsOK, TypeOK, HeapTypeOK
<1>3. ASSUME NEW h \in SharedPtrs, NEW other \in SharedPtrs, Swap(t, h, other)
      PROVE  CallsOK'
  BY <1>3 DEF Swap, Writable, CallsOK, TypeOK, HeapTypeOK
<1>4. ASSUME NEW h \in SharedPtrs, NEW src \in SharedPtrs, CopyConstruct(t, h, src)
      PROVE  CallsOK'
  BY <1>4 DEF CopyConstruct, BeginCopy, Begin, Call, CallsOK, TypeOK
<1>5. ASSUME NEW h \in SharedPtrs, NEW src \in SharedPtrs, CopyAssign(t, h, src)
      PROVE  CallsOK'
  BY <1>5 DEF CopyAssign, Begin, Call, CallsOK, TypeOK
<1>6. ASSUME NEW h \in SharedPtrs, NEW src \in SharedPtrs, MoveAssign(t, h, src)
      PROVE  CallsOK'
  BY <1>6 DEF MoveAssign, Begin, Call, CallsOK, TypeOK
<1>7. ASSUME NEW h \in SharedPtrs, Reset(t, h)
      PROVE  CallsOK'
  BY <1>7 DEF Reset, Begin, Call, CallsOK, TypeOK
<1>8. ASSUME NEW h \in SharedPtrs, NEW b \in Blocks, ResetNew(t, h, b)
      PROVE  CallsOK'
  BY <1>8 DEF ResetNew, Call, CallsOK, UnusedOK, TypeOK, HeapTypeOK
<1> QED
  BY <1>1, <1>2, <1>3, <1>4, <1>5, <1>6, <1>7, <1>8 DEF Start

LEMMA CallsOKContinue ==
  TypeOK /\ CallsOK /\ Exclusive /\ ReleaseOK /\ (\E t \in Threads : Continue(t))
    => CallsOK'
<1> SUFFICES ASSUME TypeOK, CallsOK, Exclusive, ReleaseOK,
                    NEW t \in Threads, Continue(t)
             PROVE  CallsOK'
  OBVIOUS
<1>1. op[t].pc # "idle" /\ op[t].this \in SharedPtrs
  BY DEF Continue, ReleaseNull, ReleaseDec, DeleteObject, LoadWeak, FreeBlock,
         AddStrong, Steal, TakeNew, CallsOK
<1>2. \A u \in Threads \ {t} : op[u].this # op[t].this
  BY <1>1 DEF Exclusive
<1>3. ASSUME NEW v, Return(t, v), v = NullPtr \/ op[t].kind = "resetNew",
             UNCHANGED object,
             \A u \in Threads :
               op[u].kind = "resetNew" => block'[op[u].arg] = block[op[u].arg]
      PROVE  CallsOK'
  BY <1>1, <1>2, <1>3 DEF Return, AfterRelease, CallsOK, TypeOK, HeapTypeOK, Idle, Kinds
<1>4. CASE ReleaseNull(t)
  BY <1>3, <1>4 DEF ReleaseNull
<1>5. CASE ReleaseDec(t)
  <2>1. CASE strongCnt[sp[op[t].this].cb] = 1
    BY <1>1, <1>2, <1>5, <2>1 DEF ReleaseDec, CallsOK, TypeOK, HeapTypeOK
  <2>2. CASE strongCnt[sp[op[t].this].cb] # 1
    BY <1>3, <1>5, <2>2 DEF ReleaseDec, TypeOK, Kinds
  <2> QED
    BY <2>1, <2>2
<1>6. CASE DeleteObject(t)
  <2>1. /\ sp[op[t].this].ptr \in Blocks
        /\ block[sp[op[t].this].ptr] = "live"
    BY <1>6 DEF DeleteObject, ReleaseOK, Releasing
  <2>2. \A u \in Threads \ {t} : sp'[op[u].this] = sp[op[u].this]
    BY <1>1, <1>2, <1>6 DEF DeleteObject, TypeOK, HeapTypeOK
  <2>3. \A u \in Threads \ {t} : op'[u] = op[u]
    BY <1>6 DEF DeleteObject, TypeOK
  <2>4. op'[t].kind = op[t].kind /\ op'[t].this = op[t].this /\ op'[t].arg = op[t].arg
        /\ op'[t].pc = "loadWeak"
    BY <1>6 DEF DeleteObject, TypeOK
  <2>5. \A u \in Threads : op[u].kind = "resetNew" =>
          object'[op[u].arg] = object[op[u].arg] /\ block'[op[u].arg] = block[op[u].arg]
    BY <1>6, <2>1 DEF DeleteObject, CallsOK, TypeOK, HeapTypeOK
  <2> QED
    BY <1>1, <2>2, <2>3, <2>4, <2>5 DEF CallsOK
<1>7. CASE LoadWeak(t)
  <2>1. CASE weakCnt[sp[op[t].this].cb] = 0
    BY <1>1, <1>7, <2>1 DEF LoadWeak, CallsOK, TypeOK
  <2>2. CASE weakCnt[sp[op[t].this].cb] # 0
    BY <1>3, <1>7, <2>2 DEF LoadWeak
  <2> QED
    BY <2>1, <2>2
<1>8. CASE FreeBlock(t)
  BY <1>3, <1>8 DEF FreeBlock, CallsOK, TypeOK, HeapTypeOK
<1>9. CASE AddStrong(t)
  BY <1>1, <1>2, <1>9 DEF AddStrong, CallsOK, TypeOK, HeapTypeOK, Idle
<1>10. CASE Steal(t)
  <2>1. \A u \in Threads \ {t} : op[u].this # op[t].arg
    BY <1>10 DEF Steal, Exclusive, CallsOK
  <2> QED
    BY <1>1, <1>2, <1>10, <2>1 DEF Steal, CallsOK, TypeOK, HeapTypeOK, Idle
<1>11. CASE TakeNew(t)
  <2>1. \A u \in Threads \ {t} : op[u].kind = "resetNew" => op[u].arg # op[t].arg
    BY <1>11 DEF TakeNew, Exclusive, CallsOK
  <2> QED
    BY <1>1, <1>2, <1>11, <2>1 DEF TakeNew, Adopt, CallsOK, TypeOK, HeapTypeOK, Idle
<1> QED
  BY <1>4, <1>5, <1>6, <1>7, <1>8, <1>9, <1>10, <1>11 DEF Continue

LEMMA ExclusiveStart ==
  TypeOK /\ CallsOK /\ Exclusive /\ (\E t \in Threads : Start(t)) => Exclusive'
<1> SUFFICES ASSUME TypeOK, CallsOK, Exclusive, NEW t \in Threads, Start(t)
             PROVE  Exclusive'
  OBVIOUS
<1>1. CASE UNCHANGED op
  BY <1>1 DEF Exclusive
<1>2. ASSUME NEW h \in SharedPtrs, NEW src \in SharedPtrs, CopyConstruct(t, h, src)
      PROVE  Exclusive'
  BY <1>2, SharedPtrAssumption DEF CopyConstruct, BeginCopy, Begin, Call, Writable,
         Readable, Exclusive, CallsOK, TypeOK
<1>3. ASSUME NEW h \in SharedPtrs, NEW src \in SharedPtrs, CopyAssign(t, h, src)
      PROVE  Exclusive'
  BY <1>3, SharedPtrAssumption DEF CopyAssign, Begin, Call, Writable, Readable,
         Exclusive, CallsOK, TypeOK
<1>4. ASSUME NEW h \in SharedPtrs, NEW src \in SharedPtrs, MoveAssign(t, h, src)
      PROVE  Exclusive'
  BY <1>4, SharedPtrAssumption DEF MoveAssign, Begin, Call, Writable, Exclusive,
         CallsOK, TypeOK
<1>5. ASSUME NEW h \in SharedPtrs, Reset(t, h)
      PROVE  Exclusive'
  <2>1. /\ \A u \in Threads \ {t} : op'[u] = op[u]
        /\ op'[t] = Call("reset", "dec", h, Null)
    BY <1>5 DEF Reset, Begin, TypeOK
  <2>2. \A u \in Threads : op[u].this # h /\ op[u].arg # h
    BY <1>5 DEF Reset, Writable
  <2>3. \A u \in Threads : op[u].kind \in {"moveAssign", "resetNew"} => op[u].arg # Null
    BY SharedPtrAssumption DEF CallsOK
  <2>4. h # Null
    BY SharedPtrAssumption
  <2> QED
    BY <2>1, <2>2, <2>3, <2>4, SharedPtrAssumption DEF Exclusive, Call
<1>6. ASSUME NEW h \in SharedPtrs, NEW b \in Blocks, ResetNew(t, h, b)
      PROVE  Exclusive'
  <2>1. /\ \A u \in Threads \ {t} : op'[u] = op[u]
        /\ op'[t] = Call("resetNew", "dec", h, b)
    BY <1>6 DEF ResetNew, TypeOK
  <2>2. \A u \in Threads : op[u].this # h /\ op[u].arg # h
    BY <1>6 DEF ResetNew, Writable
  <2>3. \A u \in Threads : op[u].kind \in {"moveAssign", "resetNew"} => op[u].arg # b
    BY <1>6, SharedPtrAssumption DEF ResetNew, CallsOK
  <2>4. \A u \in Threads : op[u].this # b
    BY SharedPtrAssumption DEF TypeOK
  <2>5. \A u \in Threads : op[u].kind # "resetNew" => op[u].arg # b
    BY SharedPtrAssumption DEF CallsOK, TypeOK, Kinds
  <2> QED
    BY <2>1, <2>2, <2>3, <2>4, <2>5 DEF Exclusive, Call
<1> QED
  BY <1>1, <1>2, <1>3, <1>4, <1>5, <1>6 DEF Start, Construct, MoveConstruct, Swap

\* A call in progress never changes its pointers; it forgets them when it ends.
LEMMA ExclusiveContinue ==
  TypeOK /\ CallsOK /\ Exclusive /\ (\E t \in Threads : Continue(t)) => Exclusive'
<1> SUFFICES ASSUME TypeOK, CallsOK, Exclusive, NEW t \in Threads, Continue(t)
             PROVE  Exclusive'
  OBVIOUS
<1>1. /\ \A u \in Threads \ {t} : op'[u] = op[u]
      /\ \/ op'[t] = Idle
         \/ /\ op'[t].kind = op[t].kind
            /\ op'[t].this = op[t].this
            /\ op'[t].arg = op[t].arg
  BY SMTT(20) DEF Continue, ReleaseNull, ReleaseDec, DeleteObject, LoadWeak, FreeBlock,
         AddStrong, Steal, TakeNew, Return, TypeOK
<1> QED
  BY <1>1, SharedPtrAssumption DEF Exclusive, Idle, CallsOK, TypeOK

-----------------------------------------------------------------------------
(* What each step does to OwnedBy: nothing, one pointer gains or loses its *)
(* share, or two pointers exchange theirs.                                 *)

LEMMA OwnedByType == TypeOK => OwnedBy \in [SharedPtrs -> Blocks \cup {Null}]
BY DEF TypeOK, HeapTypeOK, OwnedBy

\* Whether a pointer in a call has given up its share is seen from the pc of
\* that call alone.
LEMMA GaveUpPc ==
  ASSUME Exclusive, NEW t \in Threads, op[t].this \in SharedPtrs
  PROVE  GaveUp(op[t].this) <=>
           op[t].pc \in {"delete", "loadWeak", "freeBlock", "takeNew"}
BY DEF GaveUp, Exclusive

\* A pointer that no call in progress mentions, or that one only reads, is an
\* owner if it is not null.
LEMMA NotGivenUp ==
  ASSUME NEW h \in SharedPtrs, \A u \in Threads : op[u].this # h
  PROVE  OwnedBy[h] = sp[h].cb
BY DEF GaveUp, OwnedBy

LEMMA OwnedByStart ==
  ASSUME TypeOK, CallsOK, NEW t \in Threads
  PROVE  /\ \A h \in SharedPtrs, b \in Blocks :
              Construct(t, h, b) => OwnedBy[h] = Null /\ OwnedBy' = [OwnedBy EXCEPT ![h] = b]
         /\ \A p, q \in SharedPtrs :
              MoveConstruct(t, p, q) \/ Swap(t, p, q) =>
                OwnedBy' = [OwnedBy EXCEPT ![p] = OwnedBy[q], ![q] = OwnedBy[p]]
<1>1. ASSUME UNCHANGED op
      PROVE  \A x : GaveUp(x)' <=> GaveUp(x)
  BY <1>1 DEF GaveUp
<1>2. ASSUME NEW h \in SharedPtrs, NEW b \in Blocks, Construct(t, h, b)
      PROVE  OwnedBy[h] = Null /\ OwnedBy' = [OwnedBy EXCEPT ![h] = b]
  <2>1. ~GaveUp(h)
    BY <1>2 DEF Construct, Writable, GaveUp
  <2>2. sp' = [sp EXCEPT ![h] = [ptr |-> b, cb |-> b]] /\ sp[h].cb = Null /\ UNCHANGED op
    BY <1>2 DEF Construct, Adopt, NullPtr
  <2> QED
    BY <1>1, <2>1, <2>2 DEF OwnedBy, TypeOK, HeapTypeOK
<1>3. ASSUME NEW p \in SharedPtrs, NEW q \in SharedPtrs,
             MoveConstruct(t, p, q) \/ Swap(t, p, q)
      PROVE  OwnedBy' = [OwnedBy EXCEPT ![p] = OwnedBy[q], ![q] = OwnedBy[p]]
  <2>1. ~GaveUp(p) /\ ~GaveUp(q)
    BY <1>3 DEF MoveConstruct, Swap, Writable, GaveUp
  <2>2. sp' = [sp EXCEPT ![p] = sp[q], ![q] = sp[p]] /\ UNCHANGED op
    BY <1>3 DEF MoveConstruct, Swap
  <2> QED
    BY <1>1, <2>1, <2>2 DEF OwnedBy, TypeOK, HeapTypeOK
<1> QED
  BY <1>2, <1>3

\* The beginning of a longer call
LEMMA OwnedByBegin ==
  ASSUME TypeOK, NEW t \in Threads, op[t] = Idle, UNCHANGED sp,
         NEW c, op' = [op EXCEPT ![t] = c], c.pc \in {"dec", "add"}
  PROVE  OwnedBy' = OwnedBy
<1>1. \A x : GaveUp(x)' <=> GaveUp(x)
  BY DEF GaveUp, Idle, TypeOK
<1> QED
  BY <1>1 DEF OwnedBy

\* A step of thread t in a call on h, which changes the members of h only
LEMMA OwnedByOne ==
  ASSUME TypeOK, Exclusive,
         NEW t \in Threads, NEW h \in SharedPtrs, op[t].this = h,
         op'[t] = Idle \/ op'[t].this = h,
         \A u \in Threads \ {t} : op'[u] = op[u],
         \A x \in SharedPtrs \ {h} : sp'[x] = sp[x]
  PROVE  /\ op'[t].pc \in {"delete", "loadWeak", "freeBlock", "takeNew"} =>
              OwnedBy' = [OwnedBy EXCEPT ![h] = Null]
         /\ op'[t].pc \notin {"delete", "loadWeak", "freeBlock", "takeNew"} =>
              OwnedBy' = [OwnedBy EXCEPT ![h] = sp'[h].cb]
<1>1. \A x \in SharedPtrs \ {h} : GaveUp(x)' <=> GaveUp(x)
  BY SharedPtrAssumption DEF GaveUp, Idle
<1>2. \A u \in Threads \ {t} : op[u].this # h
  BY DEF Exclusive
<1>3. GaveUp(h)' <=> op'[t].pc \in {"delete", "loadWeak", "freeBlock", "takeNew"}
  BY <1>2 DEF GaveUp, Idle
<1>4. OwnedBy' = [x \in SharedPtrs |-> IF GaveUp(x)' THEN Null ELSE sp'[x].cb]
  BY DEF OwnedBy
<1>5. \A x \in SharedPtrs \ {h} : OwnedBy'[x] = OwnedBy[x]
  BY <1>1, <1>4 DEF OwnedBy
<1>6. OwnedBy \in [SharedPtrs -> Blocks \cup {Null}]
  BY OwnedByType
<1> QED
  BY <1>3, <1>4, <1>5, <1>6

LEMMA ThisInCall ==
  ASSUME CallsOK, NEW t \in Threads, Continue(t)
  PROVE  op[t].pc # "idle" /\ op[t].this \in SharedPtrs
BY DEF Continue, ReleaseNull, ReleaseDec, DeleteObject, LoadWeak, FreeBlock,
       AddStrong, Steal, TakeNew, CallsOK

\* release() returning to the call it is part of
LEMMA OwnedByReturn ==
  ASSUME TypeOK, CallsOK, Exclusive, NEW t \in Threads, NEW h \in SharedPtrs,
         op[t].this = h, NEW v, Return(t, v), v = NullPtr \/ op[t].kind = "resetNew"
  PROVE  OwnedBy' = [OwnedBy EXCEPT ![h] = Null]
<1>1. /\ sp'[h] = v /\ \A x \in SharedPtrs \ {h} : sp'[x] = sp[x]
      /\ \A u \in Threads \ {t} : op'[u] = op[u]
  BY DEF Return, TypeOK, HeapTypeOK
<1>2. \/ op'[t] = Idle
      \/ op'[t].this = h /\ op'[t].pc = AfterRelease(op[t].kind)
  BY DEF Return, TypeOK
<1>3. v.cb = Null \/ op'[t].pc = "takeNew"
  BY DEF Return, TypeOK, AfterRelease, NullPtr
<1> QED
  BY <1>1, <1>2, <1>3, OwnedByOne

LEMMA OwnedByRelease ==
  ASSUME TypeOK, CallsOK, Exclusive, NEW t \in Threads
  PROVE  /\ ReleaseNull(t) => OwnedBy' = OwnedBy
         /\ ReleaseDec(t) => /\ OwnedBy[op[t].this] = sp[op[t].this].cb
                             /\ OwnedBy' = [OwnedBy EXCEPT ![op[t].this] = Null]
         /\ DeleteObject(t) \/ LoadWeak(t) \/ FreeBlock(t) => OwnedBy' = OwnedBy
<1> DEFINE h == op[t].this
<1>0. OwnedBy \in [SharedPtrs -> Blocks \cup {Null}]
  BY OwnedByType
<1>1. ASSUME Continue(t), op[t].pc \in {"delete", "loadWeak", "freeBlock"}
      PROVE  OwnedBy[h] = Null
  BY <1>1, ThisInCall, GaveUpPc DEF OwnedBy
<1>2. ASSUME Continue(t), op[t].pc = "dec"
      PROVE  OwnedBy[h] = sp[h].cb
  BY <1>2, ThisInCall, GaveUpPc DEF OwnedBy
<1>3. ASSUME ReleaseNull(t)
      PROVE  OwnedBy' = OwnedBy
  BY <1>0, <1>2, <1>3, ThisInCall, OwnedByReturn DEF ReleaseNull, Continue
<1>4. ASSUME ReleaseDec(t)
      PROVE  OwnedBy[h] = sp[h].cb /\ OwnedBy' = [OwnedBy EXCEPT ![h] = Null]
  <2>1. h \in SharedPtrs /\ OwnedBy[h] = sp[h].cb
    BY <1>2, <1>4, ThisInCall DEF ReleaseDec, Continue
  <2>2. CASE strongCnt[sp[h].cb] = 1
    <3>1. /\ op'[t].pc = "delete" /\ op'[t].this = h
          /\ \A u \in Threads \ {t} : op'[u] = op[u]
          /\ UNCHANGED sp
      BY <1>4, <2>2 DEF ReleaseDec, TypeOK
    <3>2. OwnedBy' = [OwnedBy EXCEPT ![h] = Null]
      BY <2>1, <3>1, OwnedByOne
    <3> QED
      BY <2>1, <3>2
  <2>3. CASE strongCnt[sp[h].cb] # 1
    BY <1>4, <2>1, <2>3, OwnedByReturn DEF ReleaseDec, TypeOK, Kinds
  <2> QED
    BY <2>1, <2>2, <2>3
<1>5. ASSUME DeleteObject(t)
      PROVE  OwnedBy' = OwnedBy
  <2>1. h \in SharedPtrs /\ OwnedBy[h] = Null
    BY <1>1, <1>5, ThisInCall DEF DeleteObject, Continue
  <2>2. /\ op'[t].pc = "loadWeak" /\ op'[t].this = h
        /\ \A u \in Threads \ {t} : op'[u] = op[u]
        /\ \A x \in SharedPtrs \ {h} : sp'[x] = sp[x]
    BY <1>5, <2>1 DEF DeleteObject, TypeOK, HeapTypeOK
  <2>3. OwnedBy' = [OwnedBy EXCEPT ![h] = Null]
    BY <2>1, <2>2, OwnedByOne
  <2> QED
    BY <1>0, <2>1, <2>3
<1>6. ASSUME LoadWeak(t)
      PROVE  OwnedBy' = OwnedBy
  <2>1. h \in SharedPtrs /\ OwnedBy[h] = Null
    BY <1>1, <1>6, ThisInCall DEF LoadWeak, Continue
  <2>2. CASE weakCnt[sp[h].cb] = 0
    <3>1. /\ op'[t].pc = "freeBlock" /\ op'[t].this = h
          /\ \A u \in Threads \ {t} : op'[u] = op[u]
          /\ UNCHANGED sp
      BY <1>6, <2>2 DEF LoadWeak, TypeOK
    <3>2. OwnedBy' = [OwnedBy EXCEPT ![h] = Null]
      BY <2>1, <3>1, OwnedByOne
    <3> QED
      BY <1>0, <2>1, <3>2
  <2>3. CASE weakCnt[sp[h].cb] # 0
    BY <1>0, <1>6, <2>1, <2>3, OwnedByReturn DEF LoadWeak
  <2> QED
    BY <2>2, <2>3
<1>7. ASSUME FreeBlock(t)
      PROVE  OwnedBy' = OwnedBy
  <2>1. h \in SharedPtrs /\ OwnedBy[h] = Null
    BY <1>1, <1>7, ThisInCall DEF FreeBlock, Continue
  <2> QED
    BY <1>0, <1>7, <2>1, OwnedByReturn DEF FreeBlock
<1> QED
  BY <1>3, <1>4, <1>5, <1>6, <1>7

LEMMA OwnedByTake ==
  ASSUME TypeOK, CallsOK, Exclusive, NEW t \in Threads
  PROVE  /\ AddStrong(t) =>
              /\ OwnedBy[op[t].this] = Null
              /\ OwnedBy[op[t].arg] = sp[op[t].arg].cb
              /\ OwnedBy' = [OwnedBy EXCEPT ![op[t].this] = OwnedBy[op[t].arg]]
         /\ Steal(t) =>
              OwnedBy' = [OwnedBy EXCEPT ![op[t].this] = OwnedBy[op[t].arg],
                                         ![op[t].arg] = OwnedBy[op[t].this]]
         /\ TakeNew(t) =>
              /\ OwnedBy[op[t].this] = Null
              /\ OwnedBy' = [OwnedBy EXCEPT ![op[t].this] = op[t].arg]
<1> DEFINE h == op[t].this
           a == op[t].arg
<1>0. OwnedBy \in [SharedPtrs -> Blocks \cup {Null}]
  BY OwnedByType
<1>1. Idle.pc = "idle" /\ Idle.this = Null
  BY DEF Idle
<1>2. ASSUME NEW x \in SharedPtrs, x = a
      PROVE  \A u \in Threads \ {t} : op[u].this # x
  BY <1>2 DEF Exclusive, TypeOK
<1>3. ASSUME AddStrong(t)
      PROVE  /\ OwnedBy[h] = Null /\ OwnedBy[a] = sp[a].cb
             /\ OwnedBy' = [OwnedBy EXCEPT ![h] = OwnedBy[a]]
  <2>1. h \in SharedPtrs /\ a \in SharedPtrs /\ a # h /\ sp[h] = NullPtr
    BY <1>3, ThisInCall DEF AddStrong, Continue, CallsOK
  <2>2. OwnedBy[h] = Null
    BY <2>1 DEF OwnedBy, NullPtr
  <2>3. OwnedBy[a] = sp[a].cb
    BY <1>2, <2>1, NotGivenUp
  <2>4. /\ op'[t] = Idle /\ \A u \in Threads \ {t} : op'[u] = op[u]
        /\ sp'[h] = sp[a] /\ \A x \in SharedPtrs \ {h} : sp'[x] = sp[x]
    BY <1>3, <2>1 DEF AddStrong, TypeOK, HeapTypeOK
  <2>5. OwnedBy' = [OwnedBy EXCEPT ![h] = sp'[h].cb]
    BY <1>1, <2>1, <2>4, OwnedByOne
  <2> QED
    BY <2>2, <2>3, <2>4, <2>5
<1>4. ASSUME Steal(t)
      PROVE  OwnedBy' = [OwnedBy EXCEPT ![h] = OwnedBy[a], ![a] = OwnedBy[h]]
  <2>1. h \in SharedPtrs /\ a \in SharedPtrs /\ a # h /\ sp[h] = NullPtr
    BY <1>4, ThisInCall DEF Steal, Continue, CallsOK
  <2>2. \A u \in Threads \ {t} : op[u].this # a /\ op[u].this # h
    BY <1>2, <2>1 DEF Exclusive
  <2>3. OwnedBy[h] = Null /\ OwnedBy[a] = sp[a].cb
    BY <2>1, <2>2, NotGivenUp DEF OwnedBy, NullPtr
  <2>4. /\ op'[t] = Idle /\ \A u \in Threads \ {t} : op'[u] = op[u]
        /\ sp' = [sp EXCEPT ![h] = sp[a], ![a] = NullPtr]
    BY <1>4 DEF Steal, TypeOK
  <2>5. \A x \in SharedPtrs \ {h, a} : GaveUp(x)' <=> GaveUp(x)
    BY <1>1, <2>4, SharedPtrAssumption DEF GaveUp
  <2>6. \A x \in {h, a} : ~ \E u \in Threads : op'[u].this = x
    BY <1>1, <2>1, <2>2, <2>4, SharedPtrAssumption
  <2>7. OwnedBy' = [x \in SharedPtrs |-> IF GaveUp(x)' THEN Null ELSE sp'[x].cb]
    BY DEF OwnedBy
  <2>8. /\ OwnedBy'[h] = sp[a].cb /\ OwnedBy'[a] = Null
        /\ \A x \in SharedPtrs \ {h, a} : OwnedBy'[x] = OwnedBy[x]
    BY <2>1, <2>4, <2>5, <2>6, <2>7 DEF GaveUp, OwnedBy, NullPtr, TypeOK, HeapTypeOK
  <2> QED
    BY <1>0, <2>1, <2>3, <2>7, <2>8
<1>5. ASSUME TakeNew(t)
      PROVE  OwnedBy[h] = Null /\ OwnedBy' = [OwnedBy EXCEPT ![h] = a]
  <2>1. h \in SharedPtrs /\ OwnedBy[h] = Null
    BY <1>5, ThisInCall, GaveUpPc DEF TakeNew, Continue, OwnedBy
  <2>2. /\ op'[t] = Idle /\ \A u \in Threads \ {t} : op'[u] = op[u]
        /\ sp'[h].cb = a /\ \A x \in SharedPtrs \ {h} : sp'[x] = sp[x]
    BY <1>5, <2>1 DEF TakeNew, Adopt, TypeOK, HeapTypeOK
  <2>3. OwnedBy' = [OwnedBy EXCEPT ![h] = sp'[h].cb]
    BY <1>1, <2>1, <2>2, OwnedByOne
  <2> QED
    BY <2>1, <2>2, <2>3
<1> QED
  BY <1>3, <1>4, <1>5

-----------------------------------------------------------------------------
(* The counter and the owners of a block.                                  *)

LEMMA SubsetCount ==
  ASSUME NEW S, S \subseteq SharedPtrs
  PROVE  IsFiniteSet(S) /\ Cardinality(S) \in Nat /\ Cardinality(S) < CntMod
<1>1. IsFiniteSet(S) /\ Cardinality(S) <= Cardinality(SharedPtrs)
  BY FS_Subset, SharedPtrAssumption
<1> QED
  BY <1>1, FS_CardinalityType, SharedPtrAssumption

LEMMA OwnersFinite ==
  ASSUME NEW b
  PROVE  /\ IsFiniteSet(Owners(b))
         /\ Cardinality(Owners(b)) \in Nat /\ Cardinality(Owners(b)) < CntMod
         /\ Cardinality(Owners(b)') \in Nat /\ Cardinality(Owners(b)') < CntMod
<1>1. Owners(b) \subseteq SharedPtrs /\ Owners(b)' \subseteq SharedPtrs
  BY DEF Owners
<1> QED
  BY <1>1, SubsetCount

LEMMA OwnersGain ==
  ASSUME TypeOK, NEW h \in SharedPtrs, NEW b \in Blocks, OwnedBy[h] = Null,
         OwnedBy' = [OwnedBy EXCEPT ![h] = b]
  PROVE  /\ Cardinality(Owners(b)') = Cardinality(Owners(b)) + 1
         /\ \A c \in Blocks \ {b} : Owners(c)' = Owners(c)
<1>1. h \notin Owners(b) /\ Owners(b)' = Owners(b) \cup {h}
  BY OwnedByType, SharedPtrAssumption DEF Owners
<1>2. Cardinality(Owners(b) \cup {h}) = Cardinality(Owners(b)) + 1
  BY <1>1, OwnersFinite, FS_AddElement
<1>3. \A c \in Blocks \ {b} : Owners(c)' = Owners(c)
  BY OwnedByType, SharedPtrAssumption DEF Owners
<1> QED
  BY <1>1, <1>2, <1>3

LEMMA OwnersLose ==
  ASSUME TypeOK, NEW h \in SharedPtrs, NEW b \in Blocks, OwnedBy[h] = b,
         OwnedBy' = [OwnedBy EXCEPT ![h] = Null]
  PROVE  /\ Cardinality(Owners(b)') = Cardinality(Owners(b)) - 1
         /\ \A c \in Blocks \ {b} : Owners(c)' = Owners(c)
<1>1. h \in Owners(b) /\ Owners(b)' = Owners(b) \ {h}
  BY OwnedByType, SharedPtrAssumption DEF Owners
<1>2. Cardinality(Owners(b) \ {h}) = Cardinality(Owners(b)) - 1
  BY <1>1, OwnersFinite, FS_RemoveElement
<1>3. \A c \in Blocks \ {b} : Owners(c)' = Owners(c)
  BY OwnedByType, SharedPtrAssumption DEF Owners
<1> QED
  BY <1>1, <1>2, <1>3

LEMMA OwnersExchange ==
  ASSUME TypeOK, NEW p \in SharedPtrs, NEW q \in SharedPtrs, NEW b \in Blocks,
         OwnedBy' = [OwnedBy EXCEPT ![p] = OwnedBy[q], ![q] = OwnedBy[p]]
  PROVE  Cardinality(Owners(b)') = Cardinality(Owners(b))
<1>0. /\ OwnedBy'[p] = OwnedBy[q] /\ OwnedBy'[q] = OwnedBy[p]
      /\ \A x \in SharedPtrs \ {p, q} : OwnedBy'[x] = OwnedBy[x]
  BY OwnedByType
<1>1. CASE (OwnedBy[p] = b) <=> (OwnedBy[q] = b)
  <2>1. Owners(b)' = Owners(b)
    BY <1>0, <1>1 DEF Owners
  <2> QED
    BY <2>1
<1>2. ASSUME NEW x \in SharedPtrs, NEW y \in SharedPtrs, {x, y} = {p, q},
             OwnedBy[x] = b, OwnedBy[y] # b
      PROVE  Cardinality(Owners(b)') = Cardinality(Owners(b))
  <2>1. /\ Owners(b)' = (Owners(b) \ {x}) \cup {y}
        /\ x \in Owners(b) /\ y \notin Owners(b) \ {x}
    BY <1>0, <1>2 DEF Owners
  <2>2. /\ IsFiniteSet(Owners(b) \ {x})
        /\ Cardinality(Owners(b) \ {x}) = Cardinality(Owners(b)) - 1
    BY <2>1, OwnersFinite, FS_RemoveElement
  <2>3. Cardinality((Owners(b) \ {x}) \cup {y}) = Cardinality(Owners(b) \ {x}) + 1
    BY <2>1, <2>2, FS_AddElement
  <2> QED
    BY <2>1, <2>2, <2>3, OwnersFinite
<1> QED
  BY <1>1, <1>2

LEMMA OwnerCounts ==
  ASSUME CountExact, OwnerSeesLiveObject,
         NEW h \in SharedPtrs, NEW b \in Blocks, OwnedBy[h] = b
  PROVE  /\ block[b] = "live" /\ object[b] = "live" /\ sp[h].ptr = b
         /\ strongCnt[b] = Cardinality(Owners(b))
         /\ strongCnt[b] \in Nat /\ strongCnt[b] > 0 /\ strongCnt[b] < CntMod
<1>1. block[b] = "live" /\ object[b] = "live" /\ sp[h].ptr = b
  BY DEF OwnerSeesLiveObject
<1>2. strongCnt[b] = Cardinality(Owners(b))
  BY <1>1 DEF CountExact
<1>3. h \in Owners(b)
  BY DEF Owners
<1>4. Cardinality(Owners(b)) # 0
  BY <1>3, OwnersFinite, FS_EmptySet
<1> QED
  BY <1>1, <1>2, <1>4, OwnersFinite

LEMMA LastOwner ==
  ASSUME CountExact, OwnerSeesLiveObject,
         NEW h \in SharedPtrs, NEW b \in Blocks, OwnedBy[h] = b, strongCnt[b] = 1
  PROVE  \A x \in SharedPtrs \ {h} : OwnedBy[x] # b
<1>1. h \in Owners(b) /\ Cardinality(Owners(b)) = 1
  BY OwnerCounts DEF Owners
<1>2. /\ IsFiniteSet(Owners(b) \ {h})
      /\ Cardinality(Owners(b) \ {h}) = 0
  BY <1>1, OwnersFinite, FS_RemoveElement
<1>3. Owners(b) \ {h} = {}
  BY <1>2, FS_EmptySet
<1> QED
  BY <1>3 DEF Owners

LEMMA NoOwner ==
  ASSUME CountExact, OwnerSeesLiveObject, NEW b \in Blocks, strongCnt[b] = 0
  PROVE  \A x \in SharedPtrs : OwnedBy[x] # b
BY OwnerCounts

LEMMA CountExactStart ==
  TypeOK /\ CallsOK /\ UnusedOK /\ CountExact /\ (\E t \in Threads : Start(t))
    => CountExact'
<1> SUFFICES ASSUME TypeOK, CallsOK, UnusedOK, CountExact, NEW t \in Threads, Start(t)
             PROVE  CountExact'
  OBVIOUS
<1>0. OwnedBy \in [SharedPtrs -> Blocks \cup {Null}]
  BY OwnedByType
<1>1. \A b : OwnedBy' = OwnedBy => Owners(b)' = Owners(b)
  BY DEF Owners
<1>2. ASSUME NEW h \in SharedPtrs, NEW b \in Blocks, Construct(t, h, b)
      PROVE  CountExact'
  <2>1. OwnedBy[h] = Null /\ OwnedBy' = [OwnedBy EXCEPT ![h] = b]
    BY <1>2, OwnedByStart
  <2>2. /\ strongCnt' = [strongCnt EXCEPT ![b] = 1]
        /\ block' = [block EXCEPT ![b] = "live"]
        /\ block[b] = "unused"
    BY <1>2 DEF Construct, Adopt, UnusedOK
  <2>3. Owners(b) = {}
    BY <2>2, SharedPtrAssumption DEF Owners, OwnedBy, UnusedOK
  <2>4. Cardinality(Owners(b)) = 0 /\ Cardinality(Owners(b)') = Cardinality(Owners(b)) + 1
    BY <2>1, <2>3, OwnersGain, FS_EmptySet
  <2>5. \A c \in Blocks \ {b} : Owners(c)' = Owners(c)
    BY <2>1, OwnersGain
  <2> QED
    BY <2>2, <2>4, <2>5 DEF CountExact, TypeOK, HeapTypeOK
<1>3. ASSUME NEW p \in SharedPtrs, NEW q \in SharedPtrs,
             MoveConstruct(t, p, q) \/ Swap(t, p, q)
      PROVE  CountExact'
  <2>1. OwnedBy' = [OwnedBy EXCEPT ![p] = OwnedBy[q], ![q] = OwnedBy[p]]
    BY <1>3, OwnedByStart
  <2>2. \A b \in Blocks : Cardinality(Owners(b)') = Cardinality(Owners(b))
    BY <2>1, OwnersExchange
  <2> QED
    BY <1>3, <2>2 DEF MoveConstruct, Swap, CountExact
<1>4. ASSUME UNCHANGED <<strongCnt, block>>, OwnedBy' = OwnedBy
      PROVE  CountExact'
  BY <1>1, <1>4 DEF CountExact
<1>5. ASSUME NEW h \in SharedPtrs, NEW src \in SharedPtrs,
             CopyConstruct(t, h, src) \/ CopyAssign(t, h, src) \/ MoveAssign(t, h, src)
      PROVE  CountExact'
  BY <1>4, <1>5, OwnedByBegin
     DEF CopyConstruct, BeginCopy, CopyAssign, MoveAssign, Begin, Call
<1>6. ASSUME NEW h \in SharedPtrs, Reset(t, h)
      PROVE  CountExact'
  BY <1>4, <1>6, OwnedByBegin DEF Reset, Begin, Call
<1>7. ASSUME NEW h \in SharedPtrs, NEW b \in Blocks, ResetNew(t, h, b)
      PROVE  CountExact'
  BY <1>4, <1>7, OwnedByBegin DEF ResetNew, Call
<1> QED
  BY <1>2, <1>3, <1>5, <1>6, <1>7 DEF Start

LEMMA CountExactContinue ==
  IInv /\ (\E t \in Threads : Continue(t)) => CountExact'
<1> SUFFICES ASSUME IInv, NEW t \in Threads, Continue(t)
             PROVE  CountExact'
  OBVIOUS
<1> USE DEF IInv
<1>0. PICK h \in SharedPtrs : h = op[t].this
  BY ThisInCall
<1>1. OwnedBy \in [SharedPtrs -> Blocks \cup {Null}]
  BY OwnedByType
<1>2. ASSUME UNCHANGED strongCnt, OwnedBy' = OwnedBy,
             \A b \in Blocks : block'[b] = "live" => block[b] = "live"
      PROVE  CountExact'
  BY <1>2 DEF CountExact, Owners
<1>3. CASE ReleaseNull(t) \/ DeleteObject(t) \/ LoadWeak(t) \/ FreeBlock(t)
  BY <1>2, <1>3, OwnedByRelease
     DEF ReleaseNull, DeleteObject, LoadWeak, FreeBlock, TypeOK, HeapTypeOK
<1>4. CASE ReleaseDec(t)
  <2>1. PICK b \in Blocks : b = sp[h].cb
    BY <1>0, <1>4 DEF ReleaseDec, TypeOK, HeapTypeOK
  <2>2. OwnedBy[h] = b /\ OwnedBy' = [OwnedBy EXCEPT ![h] = Null]
    BY <1>0, <1>4, <2>1, OwnedByRelease
  <2>3. /\ strongCnt[b] = Cardinality(Owners(b))
        /\ strongCnt[b] \in 0 .. CntMod - 1 /\ strongCnt[b] # 0
    BY <2>2, OwnerCounts DEF TypeOK, HeapTypeOK
  <2>4. Dec(strongCnt[b]) = strongCnt[b] - 1
    BY <2>3, IncDecRange
  <2>5. strongCnt' = [strongCnt EXCEPT ![b] = Dec(strongCnt[b])] /\ UNCHANGED block
    BY <1>0, <1>4, <2>1 DEF ReleaseDec, TypeOK, HeapTypeOK
  <2>6. /\ Cardinality(Owners(b)') = Cardinality(Owners(b)) - 1
        /\ \A c \in Blocks \ {b} : Owners(c)' = Owners(c)
    BY <2>2, OwnersLose
  <2> QED
    BY <2>3, <2>4, <2>5, <2>6 DEF CountExact, TypeOK, HeapTypeOK
<1>5. CASE AddStrong(t)
  <2>1. PICK b \in Blocks \cup {Null} : b = sp[op[t].arg].cb
    BY <1>5 DEF AddStrong, CallsOK, TypeOK, HeapTypeOK
  <2>2. /\ op[t].arg \in SharedPtrs /\ OwnedBy[op[t].arg] = b /\ OwnedBy[h] = Null
        /\ OwnedBy' = [OwnedBy EXCEPT ![h] = b]
    BY <1>0, <1>5, <2>1, OwnedByTake DEF AddStrong, CallsOK
  <2>3. CASE b = Null
    <3>1. OwnedBy' = OwnedBy
      BY <1>1, <2>2, <2>3
    <3> QED
      BY <1>2, <1>5, <2>1, <2>3, <3>1 DEF AddStrong
  <2>4. CASE b # Null
    <3>1. b \in Blocks
      BY <2>4
    <3>2. /\ Cardinality(Owners(b)') = Cardinality(Owners(b)) + 1
          /\ \A c \in Blocks \ {b} : Owners(c)' = Owners(c)
      BY <2>2, <3>1, OwnersGain
    <3>3. strongCnt[b] = Cardinality(Owners(b)) /\ strongCnt[b] \in 0 .. CntMod - 1
      BY <2>2, <3>1, OwnerCounts DEF TypeOK, HeapTypeOK
    <3>4. Inc(strongCnt[b]) = strongCnt[b] + 1
      BY <3>2, <3>3, OwnersFinite, IncDecRange
    <3>5. strongCnt' = [strongCnt EXCEPT ![b] = Inc(strongCnt[b])] /\ UNCHANGED block
      BY <1>5, <2>1, <2>4 DEF AddStrong, TypeOK, HeapTypeOK
    <3> QED
      BY <3>1, <3>2, <3>3, <3>4, <3>5 DEF CountExact, TypeOK, HeapTypeOK
  <2> QED
    BY <2>3, <2>4
<1>6. CASE Steal(t)
  <2>1. PICK a \in SharedPtrs : a = op[t].arg
    BY <1>6 DEF Steal, CallsOK
  <2>2. OwnedBy' = [OwnedBy EXCEPT ![h] = OwnedBy[a], ![a] = OwnedBy[h]]
    BY <1>0, <1>6, <2>1, OwnedByTake
  <2>3. \A b \in Blocks : Cardinality(Owners(b)') = Cardinality(Owners(b))
    BY <2>2, OwnersExchange
  <2> QED
    BY <1>6, <2>3 DEF Steal, CountExact
<1>7. CASE TakeNew(t)
  <2>1. PICK b \in Blocks : b = op[t].arg
    BY <1>7 DEF TakeNew, CallsOK
  <2>2. /\ OwnedBy[h] = Null /\ OwnedBy' = [OwnedBy EXCEPT ![h] = b]
        /\ block[b] = "unused"
    BY <1>0, <1>7, <2>1, OwnedByTake DEF TakeNew, CallsOK
  <2>3. strongCnt' = [strongCnt EXCEPT ![b] = 1] /\ block' = [block EXCEPT ![b] = "live"]
    BY <1>7, <2>1 DEF TakeNew, Adopt
  <2>4. Owners(b) = {}
    BY <2>2, SharedPtrAssumption DEF Owners, OwnedBy, UnusedOK
  <2>5. /\ Cardinality(Owners(b)) = 0 /\ Cardinality(Owners(b)') = Cardinality(Owners(b)) + 1
        /\ \A c \in Blocks \ {b} : Owners(c)' = Owners(c)
    BY <2>2, <2>4, OwnersGain, FS_EmptySet
  <2> QED
    BY <2>2, <2>3, <2>5 DEF CountExact, TypeOK, HeapTypeOK
<1> QED
  BY <1>3, <1>4, <1>5, <1>6, <1>7 DEF Continue

-----------------------------------------------------------------------------
(* Owners see live objects; releasing threads are alone with their block.  *)

LEMMA UnusedOKNext ==
  IInv /\ [Next]_vars => UnusedOK'
<1> SUFFICES ASSUME IInv, [Next]_vars
             PROVE  UnusedOK'
  OBVIOUS
<1> USE DEF IInv
<1>1. CASE UNCHANGED vars
  BY <1>1 DEF vars, UnusedOK
<1>2. ASSUME UNCHANGED <<block, object>>,
             \A h \in SharedPtrs :
               sp'[h].cb \in {sp[x].cb : x \in SharedPtrs} \cup {Null}
      PROVE  UnusedOK'
  BY <1>2, SharedPtrAssumption DEF UnusedOK
<1>3. ASSUME NEW t \in Threads, Start(t)
      PROVE  UnusedOK'
  <2>1. ASSUME NEW h \in SharedPtrs, NEW b \in Blocks, Construct(t, h, b)
        PROVE  UnusedOK'
    BY <2>1 DEF Construct, Adopt, UnusedOK, TypeOK, HeapTypeOK
  <2>2. ASSUME NEW h \in SharedPtrs, NEW b \in Blocks, ResetNew(t, h, b)
        PROVE  UnusedOK'
    BY <2>2 DEF ResetNew, UnusedOK, TypeOK, HeapTypeOK
  <2>3. ASSUME NEW p \in SharedPtrs, NEW q \in SharedPtrs,
               MoveConstruct(t, p, q) \/ Swap(t, p, q)
        PROVE  UnusedOK'
    BY <2>3, <1>2 DEF MoveConstruct, Swap, TypeOK, HeapTypeOK, NullPtr
  <2>4. ASSUME UNCHANGED <<sp, block, object>>
        PROVE  UnusedOK'
    BY <2>4, <1>2
  <2> QED
    BY <1>3, <2>1, <2>2, <2>3, <2>4
       DEF Start, CopyConstruct, BeginCopy, CopyAssign, MoveAssign, Reset, Begin
<1>4. ASSUME NEW t \in Threads, Continue(t)
      PROVE  UnusedOK'
  <2>0. op[t].this \in SharedPtrs
    BY <1>4, ThisInCall
  <2>1. CASE ReleaseNull(t) \/ ReleaseDec(t) \/ LoadWeak(t)
    BY <2>0, <2>1, <1>2
       DEF ReleaseNull, ReleaseDec, LoadWeak, Return, NullPtr, TypeOK, HeapTypeOK
  <2>2. CASE DeleteObject(t)
    BY <2>0, <2>2 DEF DeleteObject, UnusedOK, TypeOK, HeapTypeOK
  <2>3. CASE FreeBlock(t)
    BY <2>0, <2>3, SharedPtrAssumption
       DEF FreeBlock, Return, NullPtr, UnusedOK, TypeOK, HeapTypeOK
  <2>4. CASE AddStrong(t)
    BY <2>0, <2>4, <1>2 DEF AddStrong, CallsOK, TypeOK, HeapTypeOK
  <2>5. CASE Steal(t)
    BY <2>0, <2>5, <1>2 DEF Steal, CallsOK, NullPtr, TypeOK, HeapTypeOK
  <2>6. CASE TakeNew(t)
    BY <2>0, <2>6 DEF TakeNew, Adopt, CallsOK, UnusedOK, TypeOK, HeapTypeOK
  <2> QED
    BY <1>4, <2>1, <2>2, <2>3, <2>4, <2>5, <2>6 DEF Continue
<1> QED
  BY <1>1, <1>3, <1>4 DEF Next

LEMMA OwnerSeesLiveObjectStart ==
  IInv /\ (\E t \in Threads : Start(t)) => OwnerSeesLiveObject'
<1> SUFFICES ASSUME IInv, NEW t \in Threads, Start(t)
             PROVE  OwnerSeesLiveObject'
  OBVIOUS
<1> USE DEF IInv
<1>0. OwnedBy \in [SharedPtrs -> Blocks \cup {Null}]
  BY OwnedByType
<1>1. ASSUME NEW h \in SharedPtrs, NEW b \in Blocks, Construct(t, h, b)
      PROVE  OwnerSeesLiveObject'
  <2>1. OwnedBy' = [OwnedBy EXCEPT ![h] = b]
    BY <1>1, OwnedByStart
  <2>2. /\ sp' = [sp EXCEPT ![h] = [ptr |-> b, cb |-> b]]
        /\ object' = [object EXCEPT ![b] = "live"] /\ block' = [block EXCEPT ![b] = "live"]
    BY <1>1 DEF Construct, Adopt
  <2> QED
    BY <1>0, <2>1, <2>2 DEF OwnerSeesLiveObject, TypeOK, HeapTypeOK
<1>2. ASSUME NEW p \in SharedPtrs, NEW q \in SharedPtrs,
             MoveConstruct(t, p, q) \/ Swap(t, p, q)
      PROVE  OwnerSeesLiveObject'
  <2>1. OwnedBy' = [OwnedBy EXCEPT ![p] = OwnedBy[q], ![q] = OwnedBy[p]]
    BY <1>2, OwnedByStart
  <2>2. /\ sp' = [sp EXCEPT ![p] = sp[q], ![q] = sp[p]]
        /\ UNCHANGED <<object, block>>
    BY <1>2 DEF MoveConstruct, Swap
  <2> QED
    BY <1>0, <2>1, <2>2 DEF OwnerSeesLiveObject, TypeOK, HeapTypeOK
<1>3. ASSUME UNCHANGED <<sp, block>>, OwnedBy' = OwnedBy,
             \A b \in Blocks : object[b] = "live" => object'[b] = "live"
      PROVE  OwnerSeesLiveObject'
  BY <1>3 DEF OwnerSeesLiveObject
<1>4. ASSUME NEW h \in SharedPtrs, NEW src \in SharedPtrs,
             CopyConstruct(t, h, src) \/ CopyAssign(t, h, src) \/ MoveAssign(t, h, src)
      PROVE  OwnerSeesLiveObject'
  BY <1>3, <1>4, OwnedByBegin
     DEF CopyConstruct, BeginCopy, CopyAssign, MoveAssign, Begin, Call
<1>5. ASSUME NEW h \in SharedPtrs, Reset(t, h)
      PROVE  OwnerSeesLiveObject'
  BY <1>3, <1>5, OwnedByBegin DEF Reset, Begin, Call
<1>6. ASSUME NEW h \in SharedPtrs, NEW b \in Blocks, ResetNew(t, h, b)
      PROVE  OwnerSeesLiveObject'
  BY <1>3, <1>6, OwnedByBegin DEF ResetNew, Call, TypeOK, HeapTypeOK
<1> QED
  BY <1>1, <1>2, <1>4, <1>5, <1>6 DEF Start

LEMMA OwnerSeesLiveObjectContinue ==
  IInv /\ (\E t \in Threads : Continue(t)) => OwnerSeesLiveObject'
<1> SUFFICES ASSUME IInv, NEW t \in Threads, Continue(t)
             PROVE  OwnerSeesLiveObject'
  OBVIOUS
<1> USE DEF IInv
<1>0. PICK h \in SharedPtrs : h = op[t].this
  BY ThisInCall
<1>1. OwnedBy \in [SharedPtrs -> Blocks \cup {Null}]
  BY OwnedByType
<1>2. CASE ReleaseNull(t) \/ LoadWeak(t)
  <2>1. OwnedBy' = OwnedBy /\ UNCHANGED <<block, object>>
    BY <1>2, OwnedByRelease DEF ReleaseNull, LoadWeak
  <2>2. \A x \in SharedPtrs : sp'[x] = sp[x] \/ OwnedBy[x] = Null
    BY <1>0, <1>2, GaveUpPc
       DEF ReleaseNull, LoadWeak, Return, OwnedBy, TypeOK, HeapTypeOK
  <2> QED
    BY <2>1, <2>2, SharedPtrAssumption DEF OwnerSeesLiveObject
<1>3. CASE ReleaseDec(t)
  <2>1. OwnedBy' = [OwnedBy EXCEPT ![h] = Null] /\ UNCHANGED <<block, object>>
    BY <1>0, <1>3, OwnedByRelease DEF ReleaseDec
  <2>2. \A x \in SharedPtrs \ {h} : sp'[x] = sp[x]
    BY <1>0, <1>3 DEF ReleaseDec, Return, TypeOK, HeapTypeOK
  <2> QED
    BY <1>1, <2>1, <2>2, SharedPtrAssumption DEF OwnerSeesLiveObject
<1>4. CASE DeleteObject(t) \/ FreeBlock(t)
  <2>1. PICK b \in Blocks : b = sp[h].cb
    BY <1>0, <1>4 DEF DeleteObject, FreeBlock, ReleaseOK, Releasing
  <2>2. strongCnt[b] = 0 /\ op[t].pc \in Releasing /\ (DeleteObject(t) => sp[h].ptr = b)
    BY <1>0, <1>4, <2>1 DEF DeleteObject, FreeBlock, ReleaseOK, Releasing
  <2>3. \A x \in SharedPtrs : OwnedBy[x] # b
    BY <2>2, NoOwner
  <2>4. OwnedBy' = OwnedBy /\ OwnedBy[h] = Null
    BY <1>0, <1>4, <2>2, OwnedByRelease, GaveUpPc DEF OwnedBy, Releasing
  <2>5. /\ \A x \in SharedPtrs \ {h} : sp'[x] = sp[x]
        /\ \A c \in Blocks \ {b} : block'[c] = block[c] /\ object'[c] = object[c]
    BY <1>0, <1>4, <2>1, <2>2 DEF DeleteObject, FreeBlock, Return, TypeOK, HeapTypeOK
  <2> QED
    BY <2>3, <2>4, <2>5, SharedPtrAssumption DEF OwnerSeesLiveObject
<1>5. CASE AddStrong(t)
  <2>1. PICK a \in SharedPtrs : a = op[t].arg
    BY <1>5 DEF AddStrong, CallsOK
  <2>2. /\ OwnedBy' = [OwnedBy EXCEPT ![h] = OwnedBy[a]]
        /\ OwnedBy[a] = sp[a].cb
    BY <1>0, <1>5, <2>1, OwnedByTake
  <2>3. sp' = [sp EXCEPT ![h] = sp[a]] /\ UNCHANGED <<block, object>>
    BY <1>0, <1>5, <2>1 DEF AddStrong
  <2> QED
    BY <1>1, <2>2, <2>3 DEF OwnerSeesLiveObject, TypeOK, HeapTypeOK
<1>6. CASE Steal(t)
  <2>1. PICK a \in SharedPtrs : a = op[t].arg /\ a # h
    BY <1>0, <1>6 DEF Steal, CallsOK
  <2>2. OwnedBy' = [OwnedBy EXCEPT ![h] = OwnedBy[a], ![a] = OwnedBy[h]]
    BY <1>0, <1>6, <2>1, OwnedByTake
  <2>3. /\ sp' = [sp EXCEPT ![h] = sp[a], ![a] = NullPtr] /\ UNCHANGED <<block, object>>
        /\ sp[h] = NullPtr
    BY <1>0, <1>6, <2>1 DEF Steal, CallsOK
  <2>4. OwnedBy[h] = Null
    BY <2>3 DEF OwnedBy, NullPtr
  <2> QED
    BY <1>1, <2>1, <2>2, <2>3, <2>4, SharedPtrAssumption
       DEF OwnerSeesLiveObject, TypeOK, HeapTypeOK
<1>7. CASE TakeNew(t)
  <2>1. PICK b \in Blocks : b = op[t].arg
    BY <1>7 DEF TakeNew, CallsOK
  <2>2. OwnedBy' = [OwnedBy EXCEPT ![h] = b] /\ object[b] = "live"
    BY <1>0, <1>7, <2>1, OwnedByTake DEF TakeNew, CallsOK
  <2>3. /\ sp' = [sp EXCEPT ![h] = [ptr |-> b, cb |-> b]]
        /\ block' = [block EXCEPT ![b] = "live"] /\ UNCHANGED object
    BY <1>0, <1>7, <2>1 DEF TakeNew, Adopt
  <2> QED
    BY <1>1, <2>2, <2>3 DEF OwnerSeesLiveObject, TypeOK, HeapTypeOK
<1> QED
  BY <1>2, <1>3, <1>4, <1>5, <1>6, <1>7 DEF Continue

LEMMA ReleaseOKStart ==
  IInv /\ (\E t \in Threads : Start(t)) => ReleaseOK'
<1> SUFFICES ASSUME IInv, NEW t \in Threads, Start(t)
             PROVE  ReleaseOK'
  OBVIOUS
<1> USE DEF IInv
<1>1. op[t] = Idle /\ op'[t].pc \notin Releasing /\ \A u \in Threads \ {t} : op'[u] = op[u]
  BY DEF Start, Construct, MoveConstruct, Swap, CopyConstruct, BeginCopy, CopyAssign,
         MoveAssign, Reset, ResetNew, Begin, Call, Idle, Releasing, TypeOK
<1>2. ASSUME NEW u \in Threads, op[u].pc \in Releasing
      PROVE  sp'[op[u].this] = sp[op[u].this]
  <2>1. op[u].this \in SharedPtrs
    BY <1>2 DEF CallsOK, Releasing
  <2>2. \A x \in SharedPtrs : Writable(x) => x # op[u].this
    BY DEF Writable
  <2> QED
    BY <2>1, <2>2 DEF Start, Construct, Adopt, MoveConstruct, Swap, CopyConstruct,
       BeginCopy, CopyAssign, MoveAssign, Reset, ResetNew, Begin, TypeOK, HeapTypeOK
<1>3. ASSUME NEW c \in Blocks, block[c] = "live"
      PROVE  strongCnt'[c] = strongCnt[c] /\ block'[c] = block[c] /\ object'[c] = object[c]
  <2>1. \A b \in Blocks : object[b] = "unused" => b # c
    BY <1>3 DEF UnusedOK
  <2> QED
    BY <2>1 DEF Start, Construct, Adopt, MoveConstruct, Swap, CopyConstruct,
       BeginCopy, CopyAssign, MoveAssign, Reset, ResetNew, Begin, TypeOK, HeapTypeOK
<1> QED
  BY <1>1, <1>2, <1>3 DEF ReleaseOK, Idle, Releasing

LEMMA ReleaseOKContinue ==
  IInv /\ (\E t \in Threads : Continue(t)) => ReleaseOK'
<1> SUFFICES ASSUME IInv, NEW t \in Threads, Continue(t)
             PROVE  ReleaseOK'
  OBVIOUS
<1> USE DEF IInv
<1>0. PICK h \in SharedPtrs : h = op[t].this
  BY ThisInCall
<1>1. /\ \A u \in Threads \ {t} : op'[u] = op[u]
      /\ op'[t] = Idle \/ op'[t].this = h
  BY <1>0 DEF Continue, ReleaseNull, ReleaseDec, DeleteObject, LoadWeak, FreeBlock,
         AddStrong, Steal, TakeNew, Return, TypeOK
<1>2. ASSUME NEW u \in Threads \ {t}, op[u].pc \in Releasing
      PROVE  sp'[op[u].this] = sp[op[u].this]
  <2>1. op[u].this \in SharedPtrs /\ op[u].this # h
    BY <1>0, <1>2 DEF CallsOK, Exclusive, Releasing
  <2>2. op[u].this # op[t].arg
    BY <2>1 DEF Exclusive
  <2> QED
    BY <1>0, <2>1, <2>2 DEF Continue, ReleaseNull, ReleaseDec, DeleteObject, LoadWeak,
       FreeBlock, AddStrong, Steal, TakeNew, Adopt, Return, TypeOK, HeapTypeOK
<1>3. ASSUME \A u \in Threads \ {t} : op[u].pc \in Releasing =>
               LET c == sp[op[u].this].cb IN
               strongCnt'[c] = strongCnt[c] /\ block'[c] = block[c] /\ object'[c] = object[c],
             op'[t].pc \notin Releasing
      PROVE  ReleaseOK'
  BY <1>1, <1>2, <1>3 DEF ReleaseOK
<1>4. CASE ReleaseNull(t) \/ Steal(t)
  BY <1>3, <1>4 DEF ReleaseNull, Steal, Return, AfterRelease, Idle, Releasing, TypeOK
<1>5. CASE ReleaseDec(t)
  <2>1. PICK b \in Blocks : b = sp[h].cb
    BY <1>0, <1>5 DEF ReleaseDec, TypeOK, HeapTypeOK
  <2>2. /\ OwnedBy[h] = b /\ strongCnt[b] \in 0 .. CntMod - 1 /\ strongCnt[b] # 0
        /\ sp[h].ptr = b /\ object[b] = "live" /\ block[b] = "live"
    BY <1>0, <1>5, <2>1, OwnedByRelease, OwnerCounts DEF TypeOK, HeapTypeOK
  <2>3. \A u \in Threads \ {t} : op[u].pc \in Releasing => sp[op[u].this].cb # b
    BY <2>2 DEF ReleaseOK
  <2>4. /\ strongCnt' = [strongCnt EXCEPT ![b] = Dec(strongCnt[b])]
        /\ UNCHANGED <<block, object>>
    BY <1>0, <1>5, <2>1 DEF ReleaseDec, TypeOK, HeapTypeOK
  <2>5. CASE strongCnt[b] = 1
    <3>1. op'[t].pc = "delete" /\ op'[t].this = h /\ UNCHANGED sp
      BY <1>0, <1>5, <2>1, <2>5 DEF ReleaseDec, TypeOK
    <3>2. Dec(strongCnt[b]) = 0
      BY <2>2, <2>5, IncDecRange
    <3> QED
      BY <1>1, <2>1, <2>2, <2>3, <2>4, <3>1, <3>2
         DEF ReleaseOK, Releasing, TypeOK, HeapTypeOK
  <2>6. CASE strongCnt[b] # 1
    <3>1. op'[t].pc \notin Releasing
      BY <1>0, <1>5, <2>1, <2>6
         DEF ReleaseDec, Return, AfterRelease, Idle, Releasing, TypeOK
    <3> QED
      BY <1>3, <2>3, <2>4, <3>1 DEF ReleaseOK, TypeOK, HeapTypeOK
  <2> QED
    BY <2>5, <2>6
<1>6. CASE DeleteObject(t)
  <2>1. PICK b \in Blocks : b = sp[h].cb
    BY <1>0, <1>6 DEF DeleteObject, ReleaseOK, Releasing
  <2>2. /\ sp[h].ptr = b /\ strongCnt[b] = 0 /\ block[b] = "live"
        /\ \A u \in Threads \ {t} : op[u].pc \in Releasing => sp[op[u].this].cb # b
    BY <1>0, <1>6, <2>1 DEF DeleteObject, ReleaseOK, Releasing
  <2>3. /\ sp' = [sp EXCEPT ![h].ptr = Null] /\ object' = [object EXCEPT ![b] = "deleted"]
        /\ op'[t].pc = "loadWeak" /\ op'[t].this = h /\ UNCHANGED <<strongCnt, block>>
    BY <1>0, <1>6, <2>2 DEF DeleteObject, TypeOK
  <2>4. sp'[h].cb = b
    BY <2>1, <2>3 DEF TypeOK, HeapTypeOK
  <2>5. strongCnt'[b] = 0 /\ block'[b] = "live"
    BY <2>2, <2>3
  <2>6. ASSUME NEW u \in Threads \ {t}, op[u].pc \in Releasing
        PROVE  LET c == sp[op[u].this].cb IN
               /\ sp'[op'[u].this] = sp[op[u].this] /\ c # b
               /\ object'[c] = object[c]
    <3>1. sp'[op'[u].this] = sp[op[u].this] /\ sp[op[u].this].cb # b
      BY <1>1, <1>2, <2>2, <2>6
    <3>2. sp[op[u].this].cb \in Blocks
      BY <2>6 DEF ReleaseOK
    <3> QED
      BY <2>3, <3>1, <3>2 DEF TypeOK, HeapTypeOK
  <2> QED
    BY <1>1, <2>3, <2>4, <2>5, <2>6 DEF ReleaseOK, Releasing
<1>7. CASE LoadWeak(t)
  <2>1. UNCHANGED <<strongCnt, block, object>>
    BY <1>7 DEF LoadWeak
  <2>2. CASE weakCnt[sp[h].cb] = 0
    <3>1. op'[t].pc = "freeBlock" /\ op'[t].this = h /\ UNCHANGED sp /\ op[t].pc = "loadWeak"
      BY <1>0, <1>7, <2>2 DEF LoadWeak, TypeOK
    <3> QED
      BY <1>0, <1>1, <2>1, <3>1 DEF ReleaseOK, Releasing
  <2>3. CASE weakCnt[sp[h].cb] # 0
    BY <1>0, <1>3, <1>7, <2>1, <2>3
       DEF LoadWeak, Return, AfterRelease, Idle, Releasing, TypeOK
  <2> QED
    BY <2>2, <2>3
<1>8. CASE FreeBlock(t)
  <2>1. PICK b \in Blocks : b = sp[h].cb
    BY <1>0, <1>8 DEF FreeBlock, ReleaseOK, Releasing
  <2>2. \A u \in Threads \ {t} : op[u].pc \in Releasing => sp[op[u].this].cb # b
    BY <1>0, <1>8, <2>1 DEF FreeBlock, ReleaseOK, Releasing
  <2>3. block' = [block EXCEPT ![b] = "freed"] /\ UNCHANGED <<strongCnt, object>>
    BY <1>0, <1>8, <2>1 DEF FreeBlock
  <2>4. op'[t].pc \notin Releasing
    BY <1>8 DEF FreeBlock, Return, AfterRelease, Idle, Releasing, TypeOK
  <2> QED
    BY <1>3, <2>2, <2>3, <2>4 DEF ReleaseOK, TypeOK, HeapTypeOK
<1>9. CASE AddStrong(t)
  <2>1. PICK b \in Blocks \cup {Null} : b = sp[op[t].arg].cb
    BY <1>9 DEF AddStrong, CallsOK, TypeOK, HeapTypeOK
  <2>2. op[t].arg \in SharedPtrs /\ OwnedBy[op[t].arg] = b
    BY <1>9, <2>1, OwnedByTake DEF AddStrong, CallsOK
  <2>3. \A u \in Threads \ {t} : op[u].pc \in Releasing => sp[op[u].this].cb # b
    BY <2>2, NoOwner DEF ReleaseOK
  <2>4. \A c \in Blocks \ {b} : strongCnt'[c] = strongCnt[c]
    BY <1>9, <2>1 DEF AddStrong, TypeOK, HeapTypeOK
  <2>5. op'[t].pc \notin Releasing /\ UNCHANGED <<block, object>>
    BY <1>9 DEF AddStrong, Idle, Releasing, TypeOK
  <2> QED
    BY <1>3, <2>3, <2>4, <2>5 DEF ReleaseOK
<1>10. CASE TakeNew(t)
  <2>1. PICK b \in Blocks : b = op[t].arg
    BY <1>10 DEF TakeNew, CallsOK
  <2>2. block[b] = "unused"
    BY <1>10, <2>1 DEF TakeNew, CallsOK
  <2>3. /\ strongCnt' = [strongCnt EXCEPT ![b] = 1] /\ block' = [block EXCEPT ![b] = "live"]
        /\ UNCHANGED object /\ op'[t].pc \notin Releasing
    BY <1>10, <2>1 DEF TakeNew, Adopt, Idle, Releasing, TypeOK
  <2>4. \A u \in Threads \ {t} : op[u].pc \in Releasing => sp[op[u].this].cb # b
    BY <2>2 DEF ReleaseOK
  <2> QED
    BY <1>3, <2>3, <2>4 DEF ReleaseOK, TypeOK, HeapTypeOK
<1> QED
  BY <1>4, <1>5, <1>6, <1>7, <1>8, <1>9, <1>10 DEF Continue

-----------------------------------------------------------------------------
(* The theorems.                                                           *)

LEMMA IInvInit == Init => IInv
<1> SUFFICES ASSUME Init
             PROVE  IInv
  OBVIOUS
<1>1. TypeOK
  BY TypeOKInit
<1>2. CallsOK /\ Exclusive /\ ReleaseOK
  BY SharedPtrAssumption DEF Init, CallsOK, Exclusive, ReleaseOK, Releasing, Idle
<1>3. UnusedOK /\ CountExact /\ OwnerSeesLiveObject
  BY SharedPtrAssumption
     DEF Init, UnusedOK, CountExact, OwnerSeesLiveObject, OwnedBy, NullPtr
<1> QED
  BY <1>1, <1>2, <1>3 DEF IInv

LEMMA IInvNext == IInv /\ [Next]_vars => IInv'
<1> SUFFICES ASSUME IInv, [Next]_vars
             PROVE  IInv'
  OBVIOUS
<1>1. CASE \E t \in Threads : Start(t)
  BY <1>1, TypeOKStart, CallsOKStart, ExclusiveStart, ReleaseOKStart, UnusedOKNext,
     CountExactStart, OwnerSeesLiveObjectStart DEF IInv
<1>2. CASE \E t \in Threads : Continue(t)
  BY <1>2, TypeOKContinue, CallsOKContinue, ExclusiveContinue, ReleaseOKContinue,
     UnusedOKNext, CountExactContinue, OwnerSeesLiveObjectContinue DEF IInv
<1>3. CASE UNCHANGED vars
  <2> USE <1>3 DEF vars
  <2>1. TypeOK' /\ CallsOK' /\ Exclusive' /\ ReleaseOK' /\ UnusedOK'
    BY DEF IInv, TypeOK, HeapTypeOK, CallsOK, Exclusive, ReleaseOK, UnusedOK
  <2>2. OwnedBy' = OwnedBy
    BY DEF OwnedBy, GaveUp
  <2>3. CountExact' /\ OwnerSeesLiveObject'
    BY <2>2 DEF IInv, CountExact, Owners, OwnerSeesLiveObject
  <2> QED
    BY <2>1, <2>3 DEF IInv
<1> QED
  BY <1>1, <1>2, <1>3 DEF Next

\* The invariant holds in every reachable state, for any number of threads,
\* shared_ptrs and objects and any counter width that can count the pointers.
THEOREM InductiveInvariant == Spec => []IInv
BY IInvInit, IInvNext, PTL DEF Spec

\* The variables of every reachable state have their types.
THEOREM TypeCorrect == Spec => []TypeOK
BY InductiveInvariant, PTL DEF IInv

\* strongCnt is the number of owners between any two atomic steps: the
\* increments and decrements of different threads lose nothing.
THEOREM CountsAreExact == Spec => []CountExact
BY InductiveInvariant, PTL DEF IInv

\* Whatever other threads are in the middle of, a shared_ptr that has not
\* been released refers to a live object through a live control block.
THEOREM OwnersAreSafe == Spec => []OwnerSeesLiveObject
BY InductiveInvariant, PTL DEF IInv

LEMMA IInvNoUseAfterFree == IInv => NoUseAfterFree
<1> SUFFICES ASSUME IInv, NEW t \in Threads
             PROVE  LET this == sp[op[t].this] IN
                    /\ op[t].pc \in {"dec", "loadWeak", "freeBlock"} /\ this.cb # Null
                         => block[this.cb] = "live"
                    /\ op[t].pc = "delete" => this.ptr # Null /\ object[this.ptr] = "live"
                    /\ op[t].pc = "add" /\ sp[op[t].arg].cb # Null
                         => block[sp[op[t].arg].cb] = "live"
  BY DEF NoUseAfterFree
<1> USE DEF IInv
<1>1. CASE op[t].pc = "dec"
  <2>1. PICK h \in SharedPtrs : h = op[t].this
    BY <1>1 DEF CallsOK
  <2>2. OwnedBy[h] = sp[h].cb /\ sp[h].cb \in Blocks \cup {Null}
    BY <1>1, <2>1, GaveUpPc DEF OwnedBy, TypeOK, HeapTypeOK
  <2> QED
    BY <1>1, <2>1, <2>2 DEF OwnerSeesLiveObject
<1>2. CASE op[t].pc \in Releasing
  BY <1>2, SharedPtrAssumption DEF ReleaseOK, Releasing
<1>3. CASE op[t].pc = "add"
  <2>1. PICK a \in SharedPtrs : a = op[t].arg
    BY <1>3 DEF CallsOK
  <2>2. \A u \in Threads : op[u].this # a
    BY <1>3, <2>1 DEF Exclusive, CallsOK
  <2>3. OwnedBy[a] = sp[a].cb /\ sp[a].cb \in Blocks \cup {Null}
    BY <2>2, NotGivenUp DEF TypeOK, HeapTypeOK
  <2> QED
    BY <1>3, <2>1, <2>3 DEF OwnerSeesLiveObject
<1> QED
  BY <1>1, <1>2, <1>3 DEF Releasing

\* No thread is ever about to touch a freed counter, delete an object twice
\* or free a control block twice.
THEOREM AccessesAreSafe == Spec => []NoUseAfterFree
BY InductiveInvariant, IInvNoUseAfterFree, PTL

-----------------------------------------------------------------------------
(* The counters implement shared ownership.                                *)

Life == [b \in Blocks |-> IF block[b] = "unused" THEN "unused" ELSE object[b]]

LEMMA RefinesInit == Init => Ownership!Init
<1> SUFFICES ASSUME Init
             PROVE  Ownership!Init
  OBVIOUS
<1>1. OwnedBy = [h \in SharedPtrs |-> Null]
  BY DEF Init, OwnedBy, NullPtr
<1>2. Life = [b \in Blocks |-> "unused"]
  BY DEF Init, Life
<1> QED
  BY <1>1, <1>2 DEF Ownership!Init, Life

LEMMA RefinesStart ==
  IInv /\ (\E t \in Threads : Start(t)) => [Ownership!Next]_(Ownership!vars)
<1> SUFFICES ASSUME IInv, NEW t \in Threads, Start(t)
             PROVE  [Ownership!Next]_(Ownership!vars)
  OBVIOUS
<1> USE DEF IInv
<1>1. ASSUME NEW h \in SharedPtrs, NEW b \in Blocks, Construct(t, h, b)
      PROVE  Ownership!Create(h, b)
  <2>1. OwnedBy[h] = Null /\ OwnedBy' = [OwnedBy EXCEPT ![h] = b]
    BY <1>1, OwnedByStart
  <2>2. Life[b] = "unused" /\ Life' = [Life EXCEPT ![b] = "live"]
    BY <1>1 DEF Construct, Adopt, Life, UnusedOK, TypeOK, HeapTypeOK
  <2> QED
    BY <2>1, <2>2 DEF Ownership!Create, Life
<1>2. ASSUME NEW p \in SharedPtrs, NEW q \in SharedPtrs,
             MoveConstruct(t, p, q) \/ Swap(t, p, q)
      PROVE  Ownership!Exchange(p, q)
  <2>1. OwnedBy' = [OwnedBy EXCEPT ![p] = OwnedBy[q], ![q] = OwnedBy[p]]
    BY <1>2, OwnedByStart
  <2>2. Life' = Life
    BY <1>2 DEF MoveConstruct, Swap, Life
  <2> QED
    BY <2>1, <2>2 DEF Ownership!Exchange, Life
<1>3. ASSUME OwnedBy' = OwnedBy, UNCHANGED <<block, object>>
      PROVE  UNCHANGED Ownership!vars
  BY <1>3 DEF Ownership!vars
<1>4. ASSUME NEW h \in SharedPtrs, NEW src \in SharedPtrs,
             CopyConstruct(t, h, src) \/ CopyAssign(t, h, src) \/ MoveAssign(t, h, src)
      PROVE  UNCHANGED Ownership!vars
  BY <1>3, <1>4, OwnedByBegin
     DEF CopyConstruct, BeginCopy, CopyAssign, MoveAssign, Begin, Call
<1>5. ASSUME NEW h \in SharedPtrs, Reset(t, h)
      PROVE  UNCHANGED Ownership!vars
  BY <1>3, <1>5, OwnedByBegin DEF Reset, Begin, Call
<1>6. ASSUME NEW h \in SharedPtrs, NEW b \in Blocks, ResetNew(t, h, b)
      PROVE  UNCHANGED Ownership!vars
  <2>1. OwnedBy' = OwnedBy
    BY <1>6, OwnedByBegin DEF ResetNew, Call
  <2>2. Life' = Life
    BY <1>6 DEF ResetNew, Life, UnusedOK, TypeOK, HeapTypeOK
  <2> QED
    BY <2>1, <2>2 DEF Ownership!vars, Life
<1> QED
  BY <1>1, <1>2, <1>4, <1>5, <1>6 DEF Start, Ownership!Next

LEMMA RefinesContinue ==
  IInv /\ (\E t \in Threads : Continue(t)) => [Ownership!Next]_(Ownership!vars)
<1> SUFFICES ASSUME IInv, NEW t \in Threads, Continue(t)
             PROVE  [Ownership!Next]_(Ownership!vars)
  OBVIOUS
<1> USE DEF IInv
<1>0. PICK h \in SharedPtrs : h = op[t].this
  BY ThisInCall
<1>1. OwnedBy \in [SharedPtrs -> Blocks \cup {Null}]
  BY OwnedByType
<1>2. CASE ReleaseNull(t) \/ LoadWeak(t) \/ FreeBlock(t)
  <2>1. OwnedBy' = OwnedBy
    BY <1>2, OwnedByRelease
  <2>2. Life' = Life
    <3>1. op[t].pc = "freeBlock" => block[sp[h].cb] = "live"
      BY <1>0 DEF ReleaseOK, Releasing
    <3> QED
      BY <1>0, <1>2, <3>1 DEF ReleaseNull, LoadWeak, FreeBlock, Life, TypeOK, HeapTypeOK
  <2> QED
    BY <2>1, <2>2 DEF Ownership!vars, Life
<1>3. CASE ReleaseDec(t)
  <2>1. PICK b \in Blocks : b = sp[h].cb
    BY <1>0, <1>3 DEF ReleaseDec, TypeOK, HeapTypeOK
  <2>2. OwnedBy[h] = b /\ OwnedBy' = [OwnedBy EXCEPT ![h] = Null]
    BY <1>0, <1>3, <2>1, OwnedByRelease
  <2>3. Life' = Life
    BY <1>3 DEF ReleaseDec, Life
  <2>4. Ownership!LetGo(h)
    BY <2>2, <2>3, SharedPtrAssumption DEF Ownership!LetGo, Life
  <2> QED
    BY <2>4 DEF Ownership!Next
<1>4. CASE DeleteObject(t)
  <2>1. PICK b \in Blocks : b = sp[h].cb
    BY <1>0, <1>4 DEF DeleteObject, ReleaseOK, Releasing
  <2>2. /\ strongCnt[b] = 0 /\ sp[h].ptr = b /\ object[b] = "live" /\ block[b] = "live"
    BY <1>0, <1>4, <2>1 DEF DeleteObject, ReleaseOK, Releasing
  <2>3. \A x \in SharedPtrs : OwnedBy[x] # b
    BY <2>2, NoOwner
  <2>4. Life[b] = "live" /\ Life' = [Life EXCEPT ![b] = "deleted"]
    BY <1>0, <1>4, <2>2 DEF DeleteObject, Life, TypeOK, HeapTypeOK
  <2>5. OwnedBy' = OwnedBy
    BY <1>4, OwnedByRelease
  <2>6. Ownership!Destroy(b)
    BY <2>3, <2>4, <2>5 DEF Ownership!Destroy, Ownership!Abandoned, Life
  <2> QED
    BY <2>6 DEF Ownership!Next
<1>5. CASE AddStrong(t)
  <2>1. PICK a \in SharedPtrs : a = op[t].arg
    BY <1>5 DEF AddStrong, CallsOK
  <2>2. OwnedBy[h] = Null /\ OwnedBy' = [OwnedBy EXCEPT ![h] = OwnedBy[a]]
    BY <1>0, <1>5, <2>1, OwnedByTake
  <2>3. Life' = Life
    BY <1>5 DEF AddStrong, Life
  <2>4. CASE OwnedBy[a] = Null
    <3>1. OwnedBy' = OwnedBy
      BY <1>1, <2>2, <2>4
    <3> QED
      BY <2>3, <3>1 DEF Ownership!vars, Life
  <2>5. CASE OwnedBy[a] # Null
    <3>1. Ownership!Share(h, a)
      BY <2>2, <2>3, <2>5 DEF Ownership!Share, Life
    <3> QED
      BY <3>1 DEF Ownership!Next
  <2> QED
    BY <2>4, <2>5
<1>6. CASE Steal(t)
  <2>1. PICK a \in SharedPtrs : a = op[t].arg
    BY <1>6 DEF Steal, CallsOK
  <2>2. OwnedBy' = [OwnedBy EXCEPT ![h] = OwnedBy[a], ![a] = OwnedBy[h]]
    BY <1>0, <1>6, <2>1, OwnedByTake
  <2>3. Life' = Life
    BY <1>6 DEF Steal, Life
  <2>4. Ownership!Exchange(h, a)
    BY <2>2, <2>3 DEF Ownership!Exchange, Life
  <2> QED
    BY <2>4 DEF Ownership!Next
<1>7. CASE TakeNew(t)
  <2>1. PICK b \in Blocks : b = op[t].arg
    BY <1>7 DEF TakeNew, CallsOK
  <2>2. OwnedBy[h] = Null /\ OwnedBy' = [OwnedBy EXCEPT ![h] = b]
    BY <1>0, <1>7, <2>1, OwnedByTake
  <2>3. Life[b] = "unused" /\ Life' = [Life EXCEPT ![b] = "live"]
    BY <1>7, <2>1, SMTT(20) DEF TakeNew, Adopt, CallsOK, Life, TypeOK, HeapTypeOK
  <2>4. Ownership!Create(h, b)
    BY <2>2, <2>3 DEF Ownership!Create, Life
  <2> QED
    BY <2>4 DEF Ownership!Next
<1> QED
  BY <1>2, <1>3, <1>4, <1>5, <1>6, <1>7 DEF Continue

\* Reference counting with atomics implements shared ownership: every step of
\* every interleaving is a step of the abstract specification or changes
\* nothing that it shows.
THEOREM Refinement == Spec => ImplementsOwnership
<1>1. IInv /\ [Next]_vars => [Ownership!Next]_(Ownership!vars)
  <2>1. ASSUME UNCHANGED vars
        PROVE  UNCHANGED Ownership!vars
    BY <2>1 DEF vars, Ownership!vars, OwnedBy, GaveUp
  <2> QED
    BY <2>1, RefinesStart, RefinesContinue DEF Next
<1> QED
  BY <1>1, RefinesInit, InductiveInvariant, PTL
     DEF Spec, ImplementsOwnership, Ownership!Spec
=============================================================================
