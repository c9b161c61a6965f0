---------------------------- MODULE WeakPtrProofs ----------------------------
(***************************************************************************)
(* Proofs about WeakPtr, for any threads, pointers and objects: when the   *)
(* program keeps apart what Serialised names, weakCnt is exact, no access  *)
(* is to freed memory, and the pointers of both classes together implement *)
(* shared ownership.                                                       *)
(*                                                                         *)
(* To the shared_ptrs a call of a weak_ptr is idle (SharedOp), except for  *)
(* three steps: those that change weakCnt, the delete of a control block   *)
(* and the increment of strongCnt by lock().  So the invariant of          *)
(* SharedPtrProofs is taken over for SharedOp, and what is proved here is  *)
(* that these steps keep it and what holds for the weak_ptrs.              *)
(***************************************************************************)
EXTENDS WeakPtr, FiniteSetTheorems, TLAPS

SharedOp == [t \in Threads |-> IF op[t].kind \in WeakKinds THEN Idle ELSE op[t]]

Strong == INSTANCE SharedPtrProofs WITH op <- SharedOp

ForgetPcs == {"loadStrong", "loadStrongLast", "weakFree"}

\* What the calls of the weak_ptrs in progress rely on.
WeakCallsOK ==
  \A t \in Threads :
    LET c == op[t] IN
    /\ c.kind \in WeakKinds <=> c.pc \in WeakPcs
    /\ c.kind # "weakReset"
    /\ c.kind = "lock" =>
         /\ c.pc \in {"expired", "lockAdd"}
         /\ c.this \in SharedPtrs /\ sp[c.this] = NullPtr /\ c.arg \in WeakPtrs
    /\ c.kind = "weakConstruct" =>
         c.pc = "weakAdd" /\ c.this \in WeakPtrs /\ c.arg \in SharedPtrs \cup WeakPtrs
    /\ c.kind = "weakAssign" =>
         /\ c.pc \in ForgetPcs \cup {"weakDec", "weakAdd"}
         /\ c.this \in WeakPtrs /\ c.arg \in SharedPtrs
    /\ c.kind = "weakDestroy" =>
         c.pc \in ForgetPcs \cup {"weakDec"} /\ c.this \in WeakPtrs /\ c.arg = Null
    /\ c.pc = "weakAdd" => wp[c.this] = NullPtr /\ c.this # c.arg

\* Calls in progress share only what they read.
WeakExclusive ==
  \A t, u \in Threads :
    t # u =>
      /\ op[t].this # Null => op[t].this # op[u].this /\ op[t].this # op[u].arg
      /\ op[t].kind = "moveAssign" => op[t].arg # op[u].arg

\* Behind the decrement of reset() nobody else frees the block, and the thread
\* that is to free it finds no owner of either class.
ForgetOK ==
  \A t \in Threads :
    LET b == wp[op[t].this].cb IN
    op[t].pc \in ForgetPcs =>
      /\ b \in Blocks /\ block[b] = "live"
      /\ op[t].pc = "loadStrongLast" => weakCnt[b] = 0 \/ strongCnt[b] # 0
      /\ op[t].pc = "weakFree" => weakCnt[b] = 0 /\ strongCnt[b] = 0

\* Behind expired() the object cannot go away.
LockOK ==
  \A t \in Threads :
    LET b == wp[op[t].arg].cb IN
    op[t].pc = "lockAdd" => b \in Blocks /\ strongCnt[b] # 0

\* release() frees a block no weak_ptr counts in.
FreeOK ==
  \A t \in Threads : op[t].pc = "freeBlock" => weakCnt[sp[op[t].this].cb] = 0

\* A weak_ptr that counts has both pointers, and its block is live.
WeakOwnersOK ==
  \A w \in WeakPtrs, b \in Blocks :
    /\ wp[w].cb = b /\ ~WeakGaveUp(w) => wp[w].ptr = b /\ block[b] = "live"
    /\ block[b] = "unused" => wp[w].cb # b

WeakInv ==
  /\ WeakTypeOK /\ Strong!IInv /\ Serialised
  /\ WeakCallsOK /\ WeakExclusive
  /\ ForgetOK /\ LockOK /\ FreeOK
  /\ WeakOwnersOK /\ WeakCountExact

-----------------------------------------------------------------------------
(* The shared_ptrs see the calls of SharedPtr.                             *)

LEMMA StrongFinite ==
  /\ \A T : Strong!Cardinality(T) = Cardinality(T) /\ Strong!IsFiniteSet(T) = IsFiniteSet(T)
  /\ Strong!IsFiniteSet(SharedPtrs)
  /\ CntMod \in Nat /\ Strong!Cardinality(SharedPtrs) < CntMod
<1>1. \A T : Strong!Cardinality(T) = Cardinality(T)
  BY DEF Strong!Cardinality, Cardinality
<1>2. \A T : Strong!IsFiniteSet(T) = IsFiniteSet(T)
  BY DEF Strong!IsFiniteSet, IsFiniteSet
<1> QED
  BY <1>1, <1>2, SharedPtrAssumption

\* What SharedPtrProofs has proved, for SharedOp.
LEMMA StrongStep ==
  ASSUME Strong!IInv, [Strong!Next]_(Strong!vars)
  PROVE  Strong!IInv'
  BY SharedPtrAssumption, StrongFinite, Strong!IInvNext

LEMMA SharedOpStep ==
  ASSUME WeakTypeOK, NEW t \in Threads, NEW c,
         op' = [op EXCEPT ![t] = c], c.kind \notin WeakKinds
  PROVE  SharedOp' = [SharedOp EXCEPT ![t] = c]
  BY DEF SharedOp, WeakTypeOK

\* To the shared_ptrs, a slot is in use by fewer calls.
LEMMA SharedUse ==
  ASSUME NEW h \in SharedPtrs
  PROVE  /\ Writable(h) => Strong!Writable(h)
         /\ Readable(h) => Strong!Readable(h)
  BY SharedPtrAssumption
     DEF Writable, Readable, Strong!Writable, Strong!Readable, SharedOp, Idle

LEMMA StrongStart ==
  ASSUME WeakInv, NEW t \in Threads, Start(t)
  PROVE  Strong!Start(t) /\ op[t] = Idle
<1>1. op[t] = Idle
  BY DEF Start, Construct, MoveConstruct, Swap, CopyConstruct, BeginCopy, CopyAssign,
         MoveAssign, Reset, ResetNew, Begin
<1>2. SharedOp[t] = Idle /\ WeakTypeOK
  BY <1>1 DEF SharedOp, Idle, WeakInv
<1>3. \A c : op' = [op EXCEPT ![t] = c] /\ c.kind \notin WeakKinds
               => SharedOp' = [SharedOp EXCEPT ![t] = c]
  BY <1>2, SharedOpStep
<1>4. UNCHANGED op => UNCHANGED SharedOp
  BY DEF SharedOp
<1>5. \A h \in SharedPtrs : /\ Writable(h) => Strong!Writable(h)
                            /\ Readable(h) => Strong!Readable(h)
  BY SharedUse
<1> USE DEF Strong!Idle, Strong!NullPtr, Strong!Call, Strong!Adopt, Strong!Begin, Idle,
            NullPtr, Call, Adopt, Begin, WeakKinds
<1>6. ASSUME NEW h \in SharedPtrs, NEW b \in Blocks, Construct(t, h, b)
      PROVE  Strong!Construct(t, h, b)
  BY <1>2, <1>4, <1>5, <1>6 DEF Construct, Strong!Construct
<1>7. ASSUME NEW h \in SharedPtrs, NEW src \in SharedPtrs, MoveConstruct(t, h, src)
      PROVE  Strong!MoveConstruct(t, h, src)
  BY <1>2, <1>4, <1>5, <1>7 DEF MoveConstruct, Strong!MoveConstruct
<1>8. ASSUME NEW h \in SharedPtrs, NEW other \in SharedPtrs, Swap(t, h, other)
      PROVE  Strong!Swap(t, h, other)
  BY <1>2, <1>4, <1>5, <1>8 DEF Swap, Strong!Swap
<1>9. ASSUME NEW h \in SharedPtrs, NEW src \in SharedPtrs, CopyConstruct(t, h, src)
      PROVE  Strong!CopyConstruct(t, h, src)
  BY <1>2, <1>3, <1>5, <1>9
     DEF CopyConstruct, BeginCopy, Strong!CopyConstruct, Strong!BeginCopy
<1>10. ASSUME NEW h \in SharedPtrs, NEW src \in SharedPtrs, CopyAssign(t, h, src)
      PROVE  Strong!CopyAssign(t, h, src)
  BY <1>2, <1>3, <1>5, <1>10 DEF CopyAssign, Strong!CopyAssign
<1>11. ASSUME NEW h \in SharedPtrs, NEW src \in SharedPtrs, MoveAssign(t, h, src)
      PROVE  Strong!MoveAssign(t, h, src)
  BY <1>2, <1>3, <1>5, <1>11 DEF MoveAssign, Strong!MoveAssign
<1>12. ASSUME NEW h \in SharedPtrs, Reset(t, h)
      PROVE  Strong!Reset(t, h)
  BY <1>2, <1>3, <1>5, <1>12 DEF Reset, Strong!Reset
<1>13. ASSUME NEW h \in SharedPtrs, NEW b \in Blocks, ResetNew(t, h, b)
      PROVE  Strong!ResetNew(t, h, b)
  BY <1>2, <1>3, <1>5, <1>13 DEF ResetNew, Strong!ResetNew
<1> QED
  BY <1>1, <1>6, <1>7, <1>8, <1>9, <1>10, <1>11, <1>12, <1>13 DEF Start, Strong!Start

LEMMA StrongContinue ==
  ASSUME WeakInv, NEW t \in Threads, Continue(t)
  PROVE  /\ Strong!Continue(t)
         /\ op[t].kind \notin WeakKinds /\ op[t].pc \notin WeakPcs /\ SharedOp[t] = op[t]
<1>1. op[t].pc \in Pcs \ {"idle"}
  BY DEF Continue, ReleaseNull, ReleaseDec, DeleteObject, LoadWeak, FreeBlock,
         AddStrong, Steal, TakeNew, Pcs
<1>2. op[t].pc \notin WeakPcs /\ WeakTypeOK
  BY <1>1 DEF WeakInv, WeakPcs, Pcs
<1>3. op[t].kind \notin WeakKinds
  BY <1>2 DEF WeakInv, WeakCallsOK
<1>4. SharedOp[t] = op[t]
  BY <1>3 DEF SharedOp
<1>5. \A c : op' = [op EXCEPT ![t] = c] /\ c.kind \notin WeakKinds
               => SharedOp' = [SharedOp EXCEPT ![t] = c]
  BY <1>2, SharedOpStep
<1>6. /\ op' = [op EXCEPT ![t] = Idle] => SharedOp' = [SharedOp EXCEPT ![t] = Idle]
      /\ \A pc : op' = [op EXCEPT ![t].pc = pc] => SharedOp' = [SharedOp EXCEPT ![t].pc = pc]
  BY <1>2, <1>3, <1>4, <1>5 DEF Idle, WeakKinds, WeakTypeOK
<1>7. ASSUME NEW v, Return(t, v) PROVE Strong!Return(t, v)
  BY <1>4, <1>6, <1>7
     DEF Return, Strong!Return, AfterRelease, Strong!AfterRelease, Strong!Idle, Idle
<1> QED
  BY <1>1, <1>2, <1>3, <1>4, <1>6, <1>7
     DEF Continue, ReleaseNull, ReleaseDec, DeleteObject, LoadWeak, FreeBlock,
         AddStrong, Steal, TakeNew,
         Strong!Continue, Strong!ReleaseNull, Strong!ReleaseDec, Strong!DeleteObject,
         Strong!LoadWeak, Strong!FreeBlock, Strong!AddStrong, Strong!Steal,
         Strong!TakeNew, Strong!Idle, Strong!NullPtr, Strong!Adopt, Idle, NullPtr, Adopt,
         Inc, Strong!Inc, Dec, Strong!Dec

-----------------------------------------------------------------------------
(* What the weak_ptrs see of a step of a shared_ptr.                       *)

\* The owners are those of SharedPtr, and the counter tells if there are any.
OwnersAreCounted ==
  /\ OwnedBy = Strong!OwnedBy
  /\ \A b \in Blocks :
       block[b] = "live" => (strongCnt[b] = 0 <=> \A h \in SharedPtrs : OwnedBy[h] # b)

LEMMA OwnersCounted == WeakTypeOK /\ WeakCallsOK /\ Strong!IInv => OwnersAreCounted
<1> SUFFICES ASSUME WeakTypeOK, WeakCallsOK, Strong!IInv
             PROVE  OwnersAreCounted
  OBVIOUS
<1>1. \A h \in SharedPtrs : GaveUp(h) <=> Strong!GaveUp(h)
  BY DEF GaveUp, Strong!GaveUp, SharedOp, Idle, WeakCallsOK, WeakPcs
<1>2. OwnedBy = Strong!OwnedBy
  BY <1>1 DEF OwnedBy, Strong!OwnedBy
<1>3. ASSUME NEW b \in Blocks, block[b] = "live"
      PROVE  strongCnt[b] = 0 <=> \A h \in SharedPtrs : OwnedBy[h] # b
  <2>1. Strong!Owners(b) = {h \in SharedPtrs : OwnedBy[h] = b}
    BY <1>2 DEF Strong!Owners
  <2>2. strongCnt[b] = Cardinality(Strong!Owners(b))
    BY <1>3, StrongFinite DEF Strong!IInv, Strong!CountExact
  <2>3. IsFiniteSet(Strong!Owners(b))
    BY <2>1, SharedPtrAssumption, FS_Subset
  <2>4. strongCnt[b] = 0 <=> Strong!Owners(b) = {}
    BY <2>2, <2>3, FS_EmptySet
  <2> QED
    BY <2>1, <2>4
<1> QED
  BY <1>2, <1>3 DEF OwnersAreCounted

\* The calls of shared_ptrs in progress.
LEMMA StrongCall ==
  ASSUME WeakInv, NEW t \in Threads, op[t].kind \notin WeakKinds
  PROVE  LET c == op[t]
             b == sp[c.this].cb
         IN
         /\ c.pc # "idle" => c.this \in SharedPtrs
         /\ c.pc \in {"delete", "loadWeak", "freeBlock"} =>
              b \in Blocks /\ block[b] = "live" /\ strongCnt[b] = 0
         /\ c.pc = "delete" => sp[c.this].ptr = b
         /\ c.pc = "add" => c.arg \in SharedPtrs /\ c.arg # c.this
         /\ c.pc = "steal" =>
              c.kind = "moveAssign" /\ c.arg \in SharedPtrs /\ c.arg # c.this
         /\ c.pc = "takeNew" => c.arg \in Blocks /\ block[c.arg] = "unused"
<1>1. SharedOp[t] = op[t]
  BY DEF SharedOp
<1> QED
  BY <1>1 DEF WeakInv, Strong!IInv, Strong!CallsOK, Strong!ReleaseOK, Strong!Releasing

\* The calls of other threads go on, and this one stays a call of a shared_ptr.
LEMMA StrongCallStep ==
  ASSUME WeakInv, NEW t \in Threads, Start(t) \/ Continue(t)
  PROVE  /\ \A u \in Threads \ {t} : op'[u] = op[u]
         /\ op[t].kind \notin WeakKinds /\ op[t].pc \notin WeakPcs
         /\ op'[t].kind \notin WeakKinds /\ op'[t].pc \notin WeakPcs
         /\ SharedOp[t] = op[t] /\ SharedOp'[t] = op'[t]
         /\ Continue(t) => \/ op'[t] = Idle
                           \/ /\ op'[t].this = op[t].this /\ op'[t].arg = op[t].arg
                              /\ op'[t].kind = op[t].kind
<1> USE DEF WeakInv, WeakTypeOK
<1>1. CASE Start(t)
  <2>1. op[t] = Idle
    BY <1>1, StrongStart
  <2>2. /\ \A u \in Threads \ {t} : op'[u] = op[u]
        /\ op'[t].kind \in Kinds /\ op'[t].pc \in Pcs
    BY <1>1, <2>1
       DEF Start, Construct, MoveConstruct, Swap, CopyConstruct, BeginCopy, CopyAssign,
           MoveAssign, Reset, ResetNew, Begin, Call, Idle, Kinds, Pcs
  <2>3. Continue(t) => FALSE
    <3>1. Continue(t) => op[t].pc # "idle"
      BY DEF Continue, ReleaseNull, ReleaseDec, DeleteObject, LoadWeak, FreeBlock,
             AddStrong, Steal, TakeNew
    <3> QED
      BY <2>1, <3>1 DEF Idle
  <2> QED
    BY <2>1, <2>2, <2>3 DEF Kinds, WeakKinds, Pcs, WeakPcs, Idle, SharedOp
<1>2. CASE Continue(t)
  <2>1. op[t].kind \notin WeakKinds /\ op[t].pc \notin WeakPcs
    BY <1>2, StrongContinue
  <2>2. /\ \A u \in Threads \ {t} : op'[u] = op[u]
        /\ \/ op'[t] = Idle
           \/ \E pc \in Pcs : op'[t] = [op[t] EXCEPT !.pc = pc]
    BY <1>2
       DEF Continue, ReleaseNull, ReleaseDec, DeleteObject, LoadWeak, FreeBlock,
           AddStrong, Steal, TakeNew, Return, AfterRelease, Pcs
  <2>3. op'[t].kind \notin WeakKinds /\ op'[t].pc \notin WeakPcs
    BY <2>1, <2>2 DEF WeakKinds, Pcs, WeakPcs, Idle
  <2>4. \/ op'[t] = Idle
        \/ /\ op'[t].this = op[t].this /\ op'[t].arg = op[t].arg
           /\ op'[t].kind = op[t].kind
    BY <2>2
  <2> QED
    BY <2>1, <2>2, <2>3, <2>4 DEF SharedOp
<1> QED
  BY <1>1, <1>2

LEMMA StrongTypes ==
  ASSUME WeakInv, NEW t \in Threads, Start(t) \/ Continue(t), UNCHANGED wp,
         Strong!IInv'
  PROVE  WeakTypeOK'
<1>1. HeapTypeOK'
  BY DEF Strong!IInv, Strong!TypeOK, Strong!HeapTypeOK, HeapTypeOK
<1>2. SharedOp'[t] \in [kind : Kinds, pc : Pcs, this : SharedPtrs \cup {Null},
                        arg : SharedPtrs \cup Blocks \cup {Null}]
  BY DEF Strong!IInv, Strong!TypeOK, Strong!Kinds, Strong!Pcs, Kinds, Pcs
<1>3. op' = [op EXCEPT ![t] = SharedOp'[t]]
  <2>1. /\ DOMAIN op = Threads /\ op = [u \in Threads |-> op[u]] 
    BY DEF WeakInv, WeakTypeOK
  <2>2. \E c : op' = [op EXCEPT ![t] = c]
    <3>1. op = [op EXCEPT ![t] = op[t]]
      BY <2>1
    <3>2. CASE Start(t)
      BY <3>1, <3>2
         DEF Start, Construct, MoveConstruct, Swap, CopyConstruct, BeginCopy, CopyAssign,
             MoveAssign, Reset, ResetNew, Begin
    <3>3. CASE Continue(t)
      <4>1. ASSUME NEW v, Return(t, v) PROVE \E c : op' = [op EXCEPT ![t] = c]
        BY <4>1 DEF Return
      <4> QED
        BY <3>3, <4>1
           DEF Continue, ReleaseNull, ReleaseDec, DeleteObject, LoadWeak, FreeBlock,
               AddStrong, Steal, TakeNew
    <3> QED
      BY <3>2, <3>3
  <2> QED
    BY <2>1, <2>2, StrongCallStep, ZenonT(30)
<1> QED
  BY <1>1, <1>2, <1>3 DEF WeakInv, WeakTypeOK

LEMMA StrongExclusive ==
  ASSUME WeakInv, NEW t \in Threads, Start(t) \/ Continue(t)
  PROVE  WeakExclusive'
<1>1. CASE Continue(t)
  <2>1. \/ op'[t] = Idle
        \/ /\ op'[t].this = op[t].this /\ op'[t].arg = op[t].arg
           /\ op'[t].kind = op[t].kind
    BY <1>1, StrongCallStep
  <2>2. \A u \in Threads \ {t} : op'[u] = op[u]
    BY StrongCallStep
  <2>3. \A u \in Threads : op[u].kind = "moveAssign" => op[u].arg # Null
    BY SharedPtrAssumption
       DEF WeakInv, Strong!IInv, Strong!CallsOK, SharedOp, WeakKinds
  <2> QED
    BY <2>1, <2>2, <2>3 DEF WeakInv, WeakExclusive, Idle
<1>2. CASE Start(t) /\ UNCHANGED op
  BY <1>2 DEF WeakInv, WeakExclusive
<1>3. CASE Start(t) /\ ~UNCHANGED op
  <2>1. /\ op'[t].this \in SharedPtrs /\ Writable(op'[t].this)
        /\ \/ /\ op'[t].arg \in SharedPtrs /\ Readable(op'[t].arg)
              /\ op'[t].kind = "moveAssign" => Writable(op'[t].arg)
           \/ op'[t].arg \in Blocks \cup {Null} /\ op'[t].kind # "moveAssign"
    BY <1>3, SMTT(20)
       DEF WeakInv, WeakTypeOK, Start, Construct, MoveConstruct, Swap, CopyConstruct,
           BeginCopy, CopyAssign, MoveAssign, Reset, ResetNew, Begin, Call, Readable, Writable
  <2>2. \A u \in Threads \ {t} :
          /\ op'[u] = op[u] /\ op[u].this \in SharedPtrs \cup WeakPtrs \cup {Null}
          /\ op[u].kind = "moveAssign" => op[u].arg \in SharedPtrs
    BY StrongCallStep
       DEF WeakInv, WeakTypeOK, Strong!IInv, Strong!CallsOK, SharedOp, WeakKinds
  <2>3. ASSUME NEW u \in Threads \ {t}
        PROVE  /\ op'[t].this # op[u].this /\ op'[t].this # op[u].arg
               /\ op'[t].kind = "moveAssign" => op'[t].arg # op[u].arg
               /\ op[u].this # Null => op[u].this # op'[t].arg
               /\ op[u].kind = "moveAssign" => op[u].arg # op'[t].arg
    <3>1. op'[t].this # op[u].this /\ op'[t].this # op[u].arg
      BY <2>1 DEF Writable
    <3>2. CASE op'[t].arg \in SharedPtrs
      BY <2>1, <2>2, <3>2, SharedPtrAssumption, <3>1 DEF Readable, Writable
    <3>3. CASE op'[t].arg \in Blocks \cup {Null}
      BY <2>1, <2>2, <3>1, <3>3, SharedPtrAssumption, WeakPtrAssumption
    <3> QED
      BY <2>1, <3>2, <3>3
  <2> QED
    BY <2>2, <2>3 DEF WeakInv, WeakExclusive
<1> QED
  BY <1>1, <1>2, <1>3

\* A shared_ptr a call of another thread uses is not written.
LEMMA StrongMembers ==
  ASSUME WeakInv, NEW t \in Threads, Start(t) \/ Continue(t)
  PROVE  \A u \in Threads \ {t}, h \in SharedPtrs :
           h = op[u].this \/ h = op[u].arg => sp'[h] = sp[h]
<1> SUFFICES ASSUME NEW u \in Threads \ {t}, NEW h \in SharedPtrs,
                    h = op[u].this \/ h = op[u].arg
             PROVE  sp'[h] = sp[h]
  OBVIOUS
<1>1. ~Writable(h) /\ sp \in [SharedPtrs -> [ptr : Blocks \cup {Null}, cb : Blocks \cup {Null}]]
  BY DEF Writable, WeakInv, WeakTypeOK, HeapTypeOK
<1>2. CASE Start(t)
  BY <1>1, <1>2
     DEF Start, Construct, Adopt, MoveConstruct, Swap, CopyConstruct, BeginCopy,
         CopyAssign, MoveAssign, Reset, ResetNew, Begin
<1>3. CASE Continue(t)
  <2>1. op[t].pc # "idle" /\ op[t].kind \notin WeakKinds
    BY <1>3, StrongContinue
       DEF Continue, ReleaseNull, ReleaseDec, DeleteObject, LoadWeak, FreeBlock,
           AddStrong, Steal, TakeNew
  <2>2. op[t].this \in SharedPtrs /\ (op[t].pc = "steal" => op[t].kind = "moveAssign")
    BY <2>1, StrongCall
  <2>3. h # op[t].this /\ (op[t].kind = "moveAssign" => h # op[t].arg \/ op[u].this = h)
    BY <2>2, SharedPtrAssumption DEF WeakInv, WeakExclusive
  <2>4. op[t].kind = "moveAssign" => h # op[t].arg
    BY <2>3, SharedPtrAssumption DEF WeakInv, WeakExclusive
  <2> QED
    BY <1>1, <1>3, <2>2, <2>3, <2>4
       DEF Continue, ReleaseNull, ReleaseDec, DeleteObject, LoadWeak, FreeBlock,
           AddStrong, Steal, TakeNew, Adopt, Return
<1> QED
  BY <1>2, <1>3

\* weakCnt is set when a block comes into use, and by the weak_ptrs.
LEMMA StrongBlocks ==
  ASSUME WeakInv, NEW t \in Threads, Start(t) \/ Continue(t), NEW b \in Blocks
  PROVE  /\ block[b] = "live" =>
              /\ weakCnt'[b] = weakCnt[b]
              /\ block'[b] = "live" \/ (op[t].pc = "freeBlock" /\ sp[op[t].this].cb = b)
         /\ block'[b] = "live" /\ block[b] # "live" => block[b] = "unused" /\ weakCnt'[b] = 0
         /\ block'[b] = "unused" => block[b] = "unused"
<1>1. /\ weakCnt \in [Blocks -> 0 .. CntMod - 1]
      /\ block \in [Blocks -> {"unused", "live", "freed"}]
      /\ object[b] = "unused" => block[b] = "unused"
  BY DEF WeakInv, WeakTypeOK, HeapTypeOK, Strong!IInv, Strong!UnusedOK
<1>2. CASE UNCHANGED <<block, weakCnt>>
  BY <1>1, <1>2
<1>3. ASSUME NEW h \in SharedPtrs, NEW c \in Blocks, Adopt(h, c), block[c] = "unused"
      PROVE  /\ block[b] = "live" => weakCnt'[b] = weakCnt[b] /\ block'[b] = "live"
             /\ block'[b] = "live" /\ block[b] # "live" =>
                  block[b] = "unused" /\ weakCnt'[b] = 0
             /\ block'[b] = "unused" => block[b] = "unused"
  BY <1>1, <1>3 DEF Adopt
<1>4. ASSUME NEW h \in SharedPtrs, NEW c \in Blocks, Construct(t, h, c)
      PROVE  Adopt(h, c) /\ block[c] = "unused"
  BY <1>4 DEF Construct, WeakInv, Strong!IInv, Strong!UnusedOK
<1>5. CASE TakeNew(t)
  <2>1. op[t].this \in SharedPtrs /\ op[t].arg \in Blocks /\ block[op[t].arg] = "unused"
    BY <1>5, StrongContinue, StrongCall DEF TakeNew, Continue
  <2> QED
    BY <1>3, <1>5, <2>1 DEF TakeNew
<1>6. CASE FreeBlock(t)
  BY <1>1, <1>6 DEF FreeBlock
<1> QED
  BY <1>2, <1>3, <1>4, <1>5, <1>6
     DEF Start, MoveConstruct, Swap, CopyConstruct, BeginCopy, CopyAssign, MoveAssign,
         Reset, ResetNew, Begin, Continue, ReleaseNull, ReleaseDec, DeleteObject,
         LoadWeak, AddStrong, Steal

\* Only a release() makes strongCnt zero, and nobody leaves zero.
LEMMA StrongZero ==
  ASSUME WeakInv, WeakTypeOK', WeakCallsOK', Strong!IInv',
         NEW t \in Threads, Start(t) \/ Continue(t),
         NEW b \in Blocks, block[b] = "live", block'[b] = "live", ~Releasing(t, b)
  PROVE  strongCnt'[b] = 0 <=> strongCnt[b] = 0
<1>1. strongCnt \in [Blocks -> 0 .. CntMod - 1]
      /\ (object[b] = "unused" => block[b] = "unused")
  BY DEF WeakInv, WeakTypeOK, HeapTypeOK, Strong!IInv, Strong!UnusedOK
<1>2. CASE Start(t)
  BY <1>1, <1>2
     DEF Start, Construct, Adopt, MoveConstruct, Swap, CopyConstruct, BeginCopy,
         CopyAssign, MoveAssign, Reset, ResetNew, Begin
<1>3. CASE ReleaseDec(t)
  BY <1>1, <1>3 DEF ReleaseDec, Releasing
<1>4. CASE TakeNew(t)
  <2>1. op[t].arg # b
    BY <1>4, StrongContinue, StrongCall DEF TakeNew, Continue
  <2> QED
    BY <1>1, <1>4, <2>1 DEF TakeNew, Adopt
<1>5. CASE AddStrong(t)
  <2>1. CASE sp[op[t].arg].cb # b
    BY <1>1, <1>5, <2>1 DEF AddStrong
  <2>2. CASE sp[op[t].arg].cb = b
    <3> DEFINE a == op[t].arg
    <3>1. /\ a \in SharedPtrs /\ a # op[t].this /\ op[t].this \in SharedPtrs
          /\ op[t].kind \notin WeakKinds
      BY <1>5, StrongContinue, StrongCall DEF AddStrong, Continue
    <3>2. \A u \in Threads : op[u].this # a
      BY <3>1, SharedPtrAssumption DEF WeakInv, WeakExclusive
    <3>3. op' = [op EXCEPT ![t] = Idle] /\ sp' = [sp EXCEPT ![op[t].this] = sp[a]]
      BY <1>5 DEF AddStrong
    <3>4. \A u \in Threads : op'[u].this # a
      BY <3>1, <3>2, <3>3, SharedPtrAssumption DEF WeakInv, WeakTypeOK, Idle
    <3> HIDE DEF a
    <3>5. OwnedBy[a] = b
      BY <2>2, <3>1, <3>2 DEF OwnedBy, GaveUp, a
    <3>6. sp'[a].cb = b
      BY <2>2, <3>1, <3>3 DEF WeakInv, WeakTypeOK, HeapTypeOK, a
    <3>7. OwnedBy'[a] = b
      BY <3>1, <3>4, <3>6 DEF OwnedBy, GaveUp
    <3>8. strongCnt[b] # 0
      BY <3>1, <3>5, OwnersCounted DEF WeakInv, OwnersAreCounted
    <3>9. strongCnt'[b] # 0
      <4>1. WeakTypeOK' /\ WeakCallsOK' /\ Strong!IInv' => OwnersAreCounted'
        BY OwnersCounted, PTL
      <4> QED
        BY <3>1, <3>7, <4>1 DEF OwnersAreCounted
    <3> QED
      BY <3>8, <3>9
  <2> QED
    BY <2>1, <2>2
<1>6. CASE UNCHANGED strongCnt
  BY <1>6
<1> QED
  BY <1>2, <1>3, <1>4, <1>5, <1>6
     DEF Continue, ReleaseNull, DeleteObject, LoadWeak, FreeBlock, Steal

LEMMA StrongFree ==
  ASSUME WeakInv, NEW t \in Threads, Start(t) \/ Continue(t)
  PROVE  FreeOK'
<1> SUFFICES ASSUME NEW u \in Threads, op'[u].pc = "freeBlock"
             PROVE  weakCnt'[sp'[op'[u].this].cb] = 0
  BY DEF FreeOK
<1>1. CASE u # t
  <2>1. op'[u] = op[u] /\ op[u].kind \notin WeakKinds
    BY <1>1, StrongCallStep DEF WeakInv, WeakCallsOK, WeakPcs
  <2>2. /\ op[u].this \in SharedPtrs
        /\ sp[op[u].this].cb \in Blocks /\ block[sp[op[u].this].cb] = "live"
    BY <2>1, StrongCall
  <2>3. sp'[op[u].this] = sp[op[u].this]
    BY <1>1, <2>2, StrongMembers
  <2>4. weakCnt[sp[op[u].this].cb] = 0
    BY <2>1 DEF WeakInv, FreeOK
  <2> QED
    BY <2>1, <2>2, <2>3, <2>4, StrongBlocks
<1>2. CASE u = t
  <2>1. LoadWeak(t) /\ weakCnt[sp[op[t].this].cb] = 0
    <3>1. /\ DOMAIN op = Threads
          /\ \A c : [op EXCEPT ![t] = c][t] = c
          /\ \A pc : [op EXCEPT ![t].pc = pc][t].pc = pc
      BY DEF WeakInv, WeakTypeOK
    <3>2. ASSUME NEW v, Return(t, v) PROVE op'[t].pc # "freeBlock"
      <4>1. PICK next : next = AfterRelease(op[t].kind) /\ next # "freeBlock"
        BY DEF AfterRelease
      <4>2. op' = [op EXCEPT ![t] = IF next = "idle" THEN Idle ELSE [op[t] EXCEPT !.pc = next]]
        BY <3>2, <4>1 DEF Return
      <4>3. op'[t] = IF next = "idle" THEN Idle ELSE [op[t] EXCEPT !.pc = next]
        BY <3>1, <4>2
      <4>4. [op[t] EXCEPT !.pc = next].pc = next
        BY DEF WeakInv, WeakTypeOK
      <4> QED
        BY <4>1, <4>3, <4>4 DEF Idle
    <3>3. ~Start(t)
      BY <1>2, <3>1
         DEF Start, Construct, MoveConstruct, Swap, CopyConstruct, BeginCopy, CopyAssign,
             MoveAssign, Reset, ResetNew, Begin, Call, Idle
    <3>4. op'[t].pc = "freeBlock" /\ Continue(t)
      BY <1>2, <3>3
    <3>5. ~ReleaseDec(t) /\ ~DeleteObject(t)
      BY <3>1, <3>2, <3>4 DEF ReleaseDec, DeleteObject
    <3>6. ~ReleaseNull(t) /\ ~FreeBlock(t)
      BY <3>2, <3>4 DEF ReleaseNull, FreeBlock
    <3>7. ~AddStrong(t) /\ ~Steal(t) /\ ~TakeNew(t)
      BY <3>1, <3>2, <3>4 DEF AddStrong, Steal, TakeNew, Idle
    <3>8. LoadWeak(t)
      BY <3>4, <3>5, <3>6, <3>7 DEF Continue
    <3> QED
      BY <3>2, <3>4, <3>8 DEF LoadWeak
  <2> QED
    BY <1>2, <2>1 DEF LoadWeak, WeakInv, WeakTypeOK
<1> QED
  BY <1>1, <1>2

-----------------------------------------------------------------------------
(* The invariant of the weak_ptrs.                                         *)

LEMMA WeakCounted ==
  ASSUME WeakCountExact, NEW b \in Blocks, block[b] = "live"
  PROVE  weakCnt[b] = 0 <=> WeakOwners(b) = {}
<1>1. IsFiniteSet(WeakOwners(b))
  BY WeakPtrAssumption, FS_Subset DEF WeakOwners
<1> QED
  BY <1>1, FS_EmptySet DEF WeakCountExact

\* A weak_ptr that a call reads counts.
LEMMA ReadCounts ==
  ASSUME WeakInv, NEW t \in Threads, op[t].pc \in WeakPcs, op[t].arg \in WeakPtrs
  PROVE  ~WeakGaveUp(op[t].arg)
<1>1. op[t].this # op[t].arg
  BY WeakPtrAssumption DEF WeakInv, WeakCallsOK, WeakKinds, WeakPcs, ForgetPcs
<1>2. \A u \in Threads : op[u].this # op[t].arg
  BY <1>1, WeakPtrAssumption DEF WeakInv, WeakExclusive
<1> QED
  BY <1>2 DEF WeakGaveUp

\* Steps of the shared_ptrs keep it.
LEMMA StrongKeeps ==
  ASSUME WeakInv, NEW t \in Threads, Start(t) \/ Continue(t), UNCHANGED wp, Serialised'
  PROVE  WeakInv'
<1>1. Strong!IInv'
  BY StrongStart, StrongContinue, StrongStep DEF WeakInv, Strong!Next
<1>2. WeakTypeOK' /\ WeakExclusive' /\ FreeOK'
  BY <1>1, StrongTypes, StrongExclusive, StrongFree
<1>3. /\ \A u \in Threads \ {t} : op'[u] = op[u]
      /\ op[t].kind \notin WeakKinds /\ op[t].pc \notin WeakPcs
      /\ op'[t].kind \notin WeakKinds /\ op'[t].pc \notin WeakPcs
  BY StrongCallStep
<1>4. WeakCallsOK'
  <2> SUFFICES ASSUME NEW u \in Threads \ {t}, op[u].kind \in WeakKinds
               PROVE  op[u].this \in SharedPtrs => sp'[op[u].this] = sp[op[u].this]
    BY <1>3 DEF WeakInv, WeakCallsOK, WeakKinds, WeakPcs
  <2> QED
    BY StrongMembers
<1>5. \A w \in WeakPtrs : WeakGaveUp(w)' <=> WeakGaveUp(w)
  BY <1>3 DEF WeakGaveUp, WeakPcs
<1>6. ASSUME NEW u \in Threads \ {t}, NEW b \in Blocks, Forgetting(u, b) \/ Locking(u, b),
             block[b] = "live"
      PROVE  /\ block'[b] = "live" /\ weakCnt'[b] = weakCnt[b]
             /\ strongCnt'[b] = 0 <=> strongCnt[b] = 0
  <2>1. ~Releasing(t, b)
    BY <1>6 DEF WeakInv, Serialised
  <2>2. block'[b] = "live" /\ weakCnt'[b] = weakCnt[b]
    BY <1>6, <2>1, StrongBlocks DEF Releasing
  <2> QED
    BY <1>1, <1>2, <1>4, <1>6, <2>1, <2>2, StrongZero
<1>7. ForgetOK'
  <2> SUFFICES ASSUME NEW u \in Threads \ {t}, op[u].pc \in ForgetPcs
               PROVE  LET b == wp[op[u].this].cb IN
                      /\ b \in Blocks /\ block'[b] = "live"
                      /\ op[u].pc = "loadStrongLast" => weakCnt'[b] = 0 \/ strongCnt'[b] # 0
                      /\ op[u].pc = "weakFree" => weakCnt'[b] = 0 /\ strongCnt'[b] = 0
    BY <1>3 DEF ForgetOK, ForgetPcs, WeakPcs
  <2>1. PICK b \in Blocks : b = wp[op[u].this].cb /\ block[b] = "live"
    BY DEF WeakInv, ForgetOK
  <2>2. Forgetting(u, b)
    BY <2>1 DEF Forgetting, ForgetPcs
  <2> QED
    BY <1>6, <2>1, <2>2 DEF WeakInv, ForgetOK
<1>8. LockOK'
  <2> SUFFICES ASSUME NEW u \in Threads \ {t}, op[u].pc = "lockAdd"
               PROVE  wp[op[u].arg].cb \in Blocks /\ strongCnt'[wp[op[u].arg].cb] # 0
    BY <1>3 DEF LockOK, WeakPcs
  <2>1. PICK b \in Blocks : b = wp[op[u].arg].cb /\ strongCnt[b] # 0
    BY DEF WeakInv, LockOK
  <2>2. op[u].arg \in WeakPtrs /\ ~WeakGaveUp(op[u].arg)
    BY ReadCounts DEF WeakInv, WeakCallsOK, WeakKinds, WeakPcs, ForgetPcs
  <2>3. block[b] = "live" /\ Locking(u, b)
    BY <2>1, <2>2 DEF WeakInv, WeakOwnersOK, Locking
  <2> QED
    BY <1>6, <2>1, <2>3
<1>9. WeakOwnersOK'
  <2> SUFFICES ASSUME NEW w \in WeakPtrs, NEW b \in Blocks, wp[w].cb = b
               PROVE  /\ ~WeakGaveUp(w) => wp[w].ptr = b /\ block'[b] = "live"
                      /\ block'[b] # "unused"
    BY <1>5 DEF WeakOwnersOK
  <2>1. ASSUME ~WeakGaveUp(w) PROVE wp[w].ptr = b /\ block'[b] = "live"
    <3>1. wp[w].ptr = b /\ block[b] = "live"
      BY <2>1 DEF WeakInv, WeakOwnersOK
    <3>2. weakCnt[b] # 0
      BY <2>1, <3>1, WeakCounted DEF WeakInv, WeakOwners
    <3> QED
      BY <3>1, <3>2, StrongBlocks DEF WeakInv, FreeOK
  <2>2. block'[b] # "unused"
    BY StrongBlocks DEF WeakInv, WeakOwnersOK
  <2> QED
    BY <2>1, <2>2
<1>10. WeakCountExact'
  <2> SUFFICES ASSUME NEW b \in Blocks, block'[b] = "live"
               PROVE  weakCnt'[b] = Cardinality(WeakOwners(b)')
    BY DEF WeakCountExact
  <2>1. WeakOwners(b)' = WeakOwners(b)
    BY <1>5 DEF WeakOwners
  <2>2. CASE block[b] = "live"
    BY <2>1, <2>2, StrongBlocks DEF WeakInv, WeakCountExact
  <2>3. CASE block[b] # "live"
    <3>1. block[b] = "unused" /\ weakCnt'[b] = 0
      BY <2>3, StrongBlocks
    <3>2. WeakOwners(b) = {}
      BY <3>1 DEF WeakInv, WeakOwnersOK, WeakOwners
    <3> QED
      BY <2>1, <3>1, <3>2, FS_EmptySet
  <2> QED
    BY <2>2, <2>3
<1> QED
  BY <1>1, <1>2, <1>4, <1>7, <1>8, <1>9, <1>10 DEF WeakInv

-----------------------------------------------------------------------------
(* Calls of the weak_ptrs begin.                                           *)

\* To the shared_ptrs a call of a weak_ptr is no call.
LEMMA SharedOpKept ==
  ASSUME NEW t \in Threads,
         \A u \in Threads \ {t} : op'[u] = op[u],
         op[t] = Idle \/ op[t].kind \in WeakKinds,
         op'[t] = Idle \/ op'[t].kind \in WeakKinds
  PROVE  SharedOp' = SharedOp
  BY DEF SharedOp, Idle

LEMMA WeakBeginKeeps ==
  ASSUME WeakInv, Serialised', NEW t \in Threads,
         NEW kind \in WeakKinds \ {"weakReset"}, NEW pc \in {"weakAdd", "weakDec", "expired"},
         NEW this \in SharedPtrs \cup WeakPtrs,
         NEW arg \in SharedPtrs \cup WeakPtrs \cup {Null},
         Writable(this), arg # Null => Readable(arg),
         kind = "lock" => /\ pc = "expired" /\ this \in SharedPtrs /\ sp[this] = NullPtr
                          /\ arg \in WeakPtrs,
         kind = "weakConstruct" => pc = "weakAdd" /\ this \in WeakPtrs /\ arg # Null,
         kind = "weakAssign" => pc = "weakDec" /\ this \in WeakPtrs /\ arg \in SharedPtrs,
         kind = "weakDestroy" => pc = "weakDec" /\ this \in WeakPtrs /\ arg = Null,
         pc = "weakAdd" => wp[this] = NullPtr /\ this # arg,
         WBegin(t, Call(kind, pc, this, arg))
  PROVE  WeakInv'
<1>1. /\ op[t] = Idle /\ op' = [op EXCEPT ![t] = Call(kind, pc, this, arg)]
      /\ UNCHANGED <<sp, strongCnt, weakCnt, block, object, wp>>
  BY DEF WBegin, Begin
<1>2. /\ \A u \in Threads \ {t} : op'[u] = op[u]
      /\ op'[t].kind = kind /\ op'[t].pc = pc /\ op'[t].this = this /\ op'[t].arg = arg
  BY <1>1 DEF WeakInv, WeakTypeOK, Call
<1>3. SharedOp' = SharedOp
  BY <1>1, <1>2, SharedOpKept
<1>4. Strong!IInv'
  BY <1>1, <1>3, StrongStep DEF WeakInv, Strong!vars
<1>5. WeakTypeOK'
  BY <1>1 DEF WeakInv, WeakTypeOK, HeapTypeOK, Call, WeakPcs
<1>6. WeakCallsOK'
  BY <1>1, <1>2, SharedPtrAssumption, WeakPtrAssumption
     DEF WeakInv, WeakCallsOK, WeakKinds, WeakPcs
<1>7. WeakExclusive'
  <2>1. \A u \in Threads :
          op[u].kind = "moveAssign" => op[u].arg \in SharedPtrs
    BY DEF WeakInv, Strong!IInv, Strong!CallsOK, SharedOp, WeakKinds
  <2>2. ASSUME NEW u \in Threads \ {t}
        PROVE  /\ this # op[u].this /\ this # op[u].arg
               /\ op[u].this # Null => op[u].this # arg
               /\ op[u].kind = "moveAssign" => op[u].arg # arg
    BY <2>1, SharedPtrAssumption DEF Writable, Readable
  <2> QED
    BY <1>2, <2>2 DEF WeakInv, WeakExclusive, WeakKinds
<1>8. \A w \in WeakPtrs : WeakGaveUp(w)' <=> WeakGaveUp(w)
  BY <1>1, <1>2 DEF WeakGaveUp, Idle
<1>9. ForgetOK' /\ LockOK' /\ FreeOK'
  BY <1>1, <1>2 DEF WeakInv, ForgetOK, LockOK, FreeOK, ForgetPcs
<1>10. WeakOwnersOK'
  BY <1>1, <1>8 DEF WeakInv, WeakOwnersOK
<1>11. WeakCountExact'
  <2>1. \A b \in Blocks : WeakOwners(b)' = WeakOwners(b)
    BY <1>1, <1>8 DEF WeakOwners
  <2> QED
    BY <1>1, <2>1 DEF WeakInv, WeakCountExact
<1> QED
  BY <1>4, <1>5, <1>6, <1>7, <1>9, <1>10, <1>11 DEF WeakInv

LEMMA WeakOwnersFinite == \A b : IsFiniteSet(WeakOwners(b))
  BY WeakPtrAssumption, FS_Subset DEF WeakOwners

LEMMA ExchangedCount ==
  ASSUME NEW T, IsFiniteSet(T), NEW x \in T, NEW y, y \notin T
  PROVE  Cardinality((T \ {x}) \cup {y}) = Cardinality(T)
<1>1. /\ IsFiniteSet(T \ {x}) /\ y \notin T \ {x} /\ Cardinality(T) \in Nat
      /\ Cardinality(T \ {x}) = Cardinality(T) - 1
  BY FS_RemoveElement, FS_CardinalityType
<1>2. Cardinality((T \ {x}) \cup {y}) = Cardinality(T \ {x}) + 1
  BY <1>1, FS_AddElement
<1> QED
  BY <1>1, <1>2

LEMMA WeakStartKeeps ==
  ASSUME WeakInv, Serialised', NEW t \in Threads, WeakStart(t)
  PROVE  WeakInv'
<1> USE SharedPtrAssumption, WeakPtrAssumption DEF WeakKinds
<1>1. ASSUME NEW w \in WeakPtrs, NEW src \in SharedPtrs \cup WeakPtrs, WeakConstruct(t, w, src)
      PROVE  WeakInv'
  BY <1>1, WeakBeginKeeps DEF WeakConstruct
<1>2. ASSUME NEW w \in WeakPtrs, NEW src \in SharedPtrs, WeakAssign(t, w, src)
      PROVE  WeakInv'
  BY <1>2, WeakBeginKeeps DEF WeakAssign
<1>3. ASSUME NEW w \in WeakPtrs, WeakDestroy(t, w)
      PROVE  WeakInv'
  BY <1>3, WeakBeginKeeps DEF WeakDestroy
<1>4. ASSUME NEW h \in SharedPtrs, NEW w \in WeakPtrs, Lock(t, h, w)
      PROVE  WeakInv'
  BY <1>4, WeakBeginKeeps DEF Lock
<1>5. ASSUME NEW w \in WeakPtrs, NEW other \in WeakPtrs, WeakSwap(t, w, other)
      PROVE  WeakInv'
  <2>1. /\ \A u \in Threads : /\ w # op[u].this /\ w # op[u].arg
                              /\ other # op[u].this /\ other # op[u].arg
        /\ wp' = [wp EXCEPT ![w] = wp[other], ![other] = wp[w]]
        /\ UNCHANGED <<sp, op, strongCnt, weakCnt, block, object>>
    BY <1>5 DEF WeakSwap, Writable, vars
  <2>2. \A x \in WeakPtrs : wp'[x] = IF x = w THEN wp[other] ELSE IF x = other THEN wp[w] ELSE wp[x]
    BY <2>1 DEF WeakInv, WeakTypeOK
  <2>3. SharedOp' = SharedOp
    BY <2>1 DEF SharedOp
  <2>4. Strong!IInv'
    BY <2>1, <2>3, StrongStep DEF WeakInv, Strong!vars
  <2>5. WeakTypeOK' /\ WeakExclusive' /\ FreeOK'
    BY <2>1 DEF WeakInv, WeakTypeOK, HeapTypeOK, WeakExclusive, FreeOK
  <2>6. \A x \in WeakPtrs : WeakGaveUp(x)' <=> WeakGaveUp(x)
    BY <2>1 DEF WeakGaveUp
  <2>7. ~WeakGaveUp(w) /\ ~WeakGaveUp(other)
    BY <2>1 DEF WeakGaveUp
  <2>8. WeakCallsOK' /\ ForgetOK' /\ LockOK'
    <3>1. \A u \in Threads :
            /\ op[u].this \in WeakPtrs => wp'[op[u].this] = wp[op[u].this]
            /\ op[u].arg \in WeakPtrs => wp'[op[u].arg] = wp[op[u].arg]
      BY <2>1, <2>2
    <3>2. \A u \in Threads :
            /\ op[u].pc \in ForgetPcs \cup {"weakAdd"} => op[u].this \in WeakPtrs
            /\ op[u].pc = "lockAdd" => op[u].arg \in WeakPtrs
      BY DEF WeakInv, WeakCallsOK, ForgetPcs, WeakPcs
    <3>3. WeakCallsOK'
      BY <2>1, <3>1, <3>2 DEF WeakInv, WeakCallsOK
    <3>4. ForgetOK'
      <4>1. \A u \in Threads : op[u].pc \in ForgetPcs => wp'[op[u].this] = wp[op[u].this]
        BY <3>1, <3>2
      <4>2. ForgetOK
        BY DEF WeakInv
      <4>3. UNCHANGED <<op, strongCnt, weakCnt, block>>
        BY <2>1
      <4> QED
        BY <4>1, <4>2, <4>3 DEF ForgetOK
    <3>5. LockOK'
      <4>1. \A u \in Threads : op[u].pc = "lockAdd" => wp'[op[u].arg] = wp[op[u].arg]
        BY <3>1, <3>2
      <4> QED
        BY <2>1, <4>1 DEF WeakInv, LockOK
    <3> QED
      BY <3>3, <3>4, <3>5
  <2>9. WeakOwnersOK'
    <3> SUFFICES ASSUME NEW x \in WeakPtrs, NEW b \in Blocks
                 PROVE  /\ wp'[x].cb = b /\ ~WeakGaveUp(x) => wp'[x].ptr = b /\ block[b] = "live"
                        /\ block[b] = "unused" => wp'[x].cb # b
      BY <2>1, <2>6 DEF WeakOwnersOK
    <3>1. \E y \in WeakPtrs : wp'[x] = wp[y] /\ (WeakGaveUp(y) => WeakGaveUp(x))
      BY <2>2, <2>7
    <3> QED
      BY <3>1 DEF WeakInv, WeakOwnersOK
  <2>10. WeakCountExact'
    <3> SUFFICES ASSUME NEW b \in Blocks, block[b] = "live"
                 PROVE  Cardinality(WeakOwners(b)') = Cardinality(WeakOwners(b))
      BY <2>1 DEF WeakInv, WeakCountExact
    <3>1. CASE wp[w].cb = b <=> wp[other].cb = b
      <4>1. WeakOwners(b)' = WeakOwners(b)
        BY <2>2, <2>6, <2>7, <3>1 DEF WeakOwners
      <4> QED
        BY <4>1
    <3>2. ASSUME NEW x \in {w, other}, NEW y \in {w, other},
                 wp[x].cb = b, wp[y].cb # b, \A z \in {w, other} : z = x \/ z = y
          PROVE  Cardinality(WeakOwners(b)') = Cardinality(WeakOwners(b))
      <4>1. /\ WeakOwners(b)' = (WeakOwners(b) \ {x}) \cup {y}
            /\ x \in WeakOwners(b) /\ y \notin WeakOwners(b)
        BY <2>2, <2>6, <2>7, <3>2 DEF WeakOwners
      <4> QED
        BY <4>1, WeakOwnersFinite, ExchangedCount
    <3> QED
      BY <3>1, <3>2
  <2> QED
    BY <2>4, <2>5, <2>8, <2>9, <2>10 DEF WeakInv
<1> QED
  BY <1>1, <1>2, <1>3, <1>4, <1>5 DEF WeakStart

-----------------------------------------------------------------------------
(* Calls of the weak_ptrs go on.                                           *)

WeakSteps(t) ==
  \/ WeakResetNull(t) \/ WeakDec(t) \/ LoadStrong(t) \/ WeakFree(t)
  \/ WeakAdd(t) \/ Expired(t) \/ LockAdd(t)

LEMMA WeakCall ==
  ASSUME WeakInv, NEW t \in Threads, op[t].pc \in WeakPcs
  PROVE  /\ op[t].kind \in WeakKinds \ {"weakReset"}
         /\ op[t].pc \in ForgetPcs \cup {"weakDec"} =>
              op[t].kind \in {"weakAssign", "weakDestroy"} /\ op[t].this \in WeakPtrs
         /\ op[t].pc = "weakAdd" =>
              /\ op[t].this \in WeakPtrs /\ op[t].arg \in SharedPtrs \cup WeakPtrs
              /\ wp[op[t].this] = NullPtr
         /\ op[t].pc \in {"expired", "lockAdd"} =>
              /\ op[t].kind = "lock" /\ op[t].this \in SharedPtrs /\ op[t].arg \in WeakPtrs
              /\ sp[op[t].this] = NullPtr
         /\ \A u \in Threads \ {t} : op[u].this # op[t].this /\ op[u].arg # op[t].this
<1>1. op[t].this # Null
  BY SharedPtrAssumption, WeakPtrAssumption
     DEF WeakInv, WeakCallsOK, WeakKinds, WeakPcs, ForgetPcs
<1> QED
  BY <1>1 DEF WeakInv, WeakCallsOK, WeakExclusive, WeakKinds, WeakPcs, ForgetPcs

OpOK ==
  op \in [Threads -> [kind : Kinds \cup WeakKinds, pc : Pcs \cup WeakPcs,
                      this : SharedPtrs \cup WeakPtrs \cup {Null},
                      arg : SharedPtrs \cup WeakPtrs \cup Blocks \cup {Null}]]

\* A call goes on or returns, and writes only its own weak_ptr.
LEMMA WeakFrame ==
  ASSUME WeakInv, NEW t \in Threads, WeakSteps(t)
  PROVE  /\ op[t].pc \in WeakPcs /\ UNCHANGED object
         /\ \A u \in Threads \ {t} : op'[u] = op[u]
         /\ \/ op'[t] = Idle
            \/ /\ op'[t].this = op[t].this /\ op'[t].arg = op[t].arg
               /\ op'[t].kind = op[t].kind /\ op'[t].pc \in WeakPcs
         /\ \A w \in WeakPtrs : w # op[t].this => wp'[w] = wp[w]
         /\ OpOK' /\ SharedOp' = SharedOp /\ WeakExclusive'
<1>1. op[t].pc \in WeakPcs /\ UNCHANGED object
  BY DEF WeakSteps, WeakResetNull, WeakDec, LoadStrong, WeakFree, WeakAdd, Expired,
         LockAdd, WeakPcs
<1>2. \/ op' = [op EXCEPT ![t] = Idle]
      \/ \E pc \in WeakPcs : op' = [op EXCEPT ![t].pc = pc]
  BY DEF WeakSteps, WeakResetNull, WeakDec, LoadStrong, WeakFree, WeakAdd, Expired,
         LockAdd, WeakPcs, WeakReturn
<1>3. /\ \A u \in Threads \ {t} : op'[u] = op[u]
      /\ \/ op'[t] = Idle
         \/ /\ op'[t].this = op[t].this /\ op'[t].arg = op[t].arg
            /\ op'[t].kind = op[t].kind /\ op'[t].pc \in WeakPcs
  BY <1>2 DEF WeakInv, WeakTypeOK
<1>4. op[t].kind \in WeakKinds
  BY <1>1, WeakCall
<1>5. op'[t] = Idle \/ op'[t].kind \in WeakKinds
  BY <1>3, <1>4
<1>6. SharedOp' = SharedOp
  BY <1>3, <1>4, <1>5, SharedOpKept
<1>7. WeakExclusive'
  <2>1. \A u \in Threads : op[u].kind = "moveAssign" => op[u].arg # Null
    BY SharedPtrAssumption DEF WeakInv, Strong!IInv, Strong!CallsOK, SharedOp, WeakKinds
  <2> QED
    BY <1>3, <2>1 DEF WeakInv, WeakExclusive, Idle
<1>8. \A w \in WeakPtrs : w # op[t].this => wp'[w] = wp[w]
  BY DEF WeakInv, WeakTypeOK, WeakSteps, WeakResetNull, WeakDec, LoadStrong, WeakFree,
         WeakAdd, Expired, LockAdd, WeakReturn
<1>9. OpOK'
  BY <1>2 DEF OpOK, WeakInv, WeakTypeOK, Idle, Kinds, Pcs
<1> QED
  BY <1>1, <1>3, <1>6, <1>7, <1>8, <1>9

LEMMA WeakCallsStep ==
  ASSUME WeakInv, NEW t \in Threads, WeakSteps(t)
  PROVE  WeakCallsOK'
<1>1. /\ op[t].pc \in WeakPcs /\ \A u \in Threads \ {t} : op'[u] = op[u]
      /\ \A w \in WeakPtrs : w # op[t].this => wp'[w] = wp[w]
  BY WeakFrame
<1>2. /\ op[t].kind \in WeakKinds \ {"weakReset"}
      /\ \A u \in Threads \ {t} : op[u].this # op[t].this
  BY <1>1, WeakCall
<1>3. \A h \in SharedPtrs : h # op[t].this => sp'[h] = sp[h]
  BY DEF WeakInv, WeakTypeOK, HeapTypeOK, WeakSteps, WeakResetNull, WeakDec, LoadStrong,
         WeakFree, WeakAdd, Expired, LockAdd
<1>4. \/ op'[t] = Idle
      \/ /\ op'[t].this = op[t].this /\ op'[t].arg = op[t].arg
         /\ op'[t].kind = op[t].kind
         /\ \/ /\ op[t].kind = "lock" /\ op'[t].pc = "lockAdd" /\ UNCHANGED sp
            \/ op[t].kind \in {"weakAssign", "weakDestroy"} /\ op'[t].pc \in ForgetPcs
            \/ /\ op[t].kind = "weakAssign" /\ op'[t].pc = "weakAdd"
               /\ wp'[op[t].this] = NullPtr
  <2>1. CASE WeakResetNull(t) \/ WeakDec(t) \/ LoadStrong(t) \/ WeakFree(t)
    <3>1. op[t].pc \in ForgetPcs \cup {"weakDec"}
      BY <2>1 DEF WeakResetNull, WeakDec, LoadStrong, WeakFree, ForgetPcs
    <3>2. op[t].kind \in {"weakAssign", "weakDestroy"} /\ op[t].this \in WeakPtrs
      BY <1>1, <3>1, WeakCall
    <3> QED
      BY <2>1, <3>2 DEF WeakInv, WeakTypeOK, WeakResetNull, WeakDec, LoadStrong, WeakFree,
                        WeakReturn, ForgetPcs
  <2>2. CASE WeakAdd(t) \/ LockAdd(t)
    BY <2>2 DEF WeakAdd, LockAdd, WeakInv, WeakTypeOK
  <2>3. CASE Expired(t)
    <3>1. op[t].kind = "lock"
      BY <1>1, <2>3, WeakCall DEF Expired
    <3> QED
      BY <2>3, <3>1 DEF Expired, WeakInv, WeakTypeOK
  <2> QED
    BY <2>1, <2>2, <2>3 DEF WeakSteps
<1>5. ASSUME NEW u \in Threads \ {t}
      PROVE  /\ op[u].this \in SharedPtrs => sp'[op[u].this] = sp[op[u].this]
             /\ op[u].this \in WeakPtrs => wp'[op[u].this] = wp[op[u].this]
  BY <1>1, <1>2, <1>3
<1> SUFFICES ASSUME NEW u \in Threads
             PROVE  LET c == op'[u] IN
                    /\ c.kind \in WeakKinds <=> c.pc \in WeakPcs
                    /\ c.kind # "weakReset"
                    /\ c.kind = "lock" =>
                         /\ c.pc \in {"expired", "lockAdd"}
                         /\ c.this \in SharedPtrs /\ sp'[c.this] = NullPtr /\ c.arg \in WeakPtrs
                    /\ c.kind = "weakConstruct" =>
                         /\ c.pc = "weakAdd" /\ c.this \in WeakPtrs
                         /\ c.arg \in SharedPtrs \cup WeakPtrs
                    /\ c.kind = "weakAssign" =>
                         /\ c.pc \in ForgetPcs \cup {"weakDec", "weakAdd"}
                         /\ c.this \in WeakPtrs /\ c.arg \in SharedPtrs
                    /\ c.kind = "weakDestroy" =>
                         c.pc \in ForgetPcs \cup {"weakDec"} /\ c.this \in WeakPtrs /\ c.arg = Null
                    /\ c.pc = "weakAdd" => wp'[c.this] = NullPtr /\ c.this # c.arg
  BY DEF WeakCallsOK
<1>6. CASE u # t
  <2>1. op[u].pc = "weakAdd" => op[u].this \in WeakPtrs
    BY WeakCall DEF WeakPcs
  <2> QED
    BY <1>1, <1>5, <1>6, <2>1 DEF WeakInv, WeakCallsOK
<1>7. CASE u = t
  BY <1>2, <1>4, <1>7, WeakPtrAssumption DEF WeakInv, WeakCallsOK, Idle, WeakKinds, WeakPcs, ForgetPcs
<1> QED
  BY <1>6, <1>7

\* Whether a weak_ptr counts changes only with its own call.
LEMMA WeakGaveUpStep ==
  ASSUME WeakInv, NEW t \in Threads, WeakSteps(t), NEW w \in WeakPtrs
  PROVE  /\ w # op[t].this => (WeakGaveUp(w)' <=> WeakGaveUp(w))
         /\ w = op[t].this => /\ WeakGaveUp(w) <=> op[t].pc \in ForgetPcs
                              /\ WeakGaveUp(w)' <=> op'[t].pc \in ForgetPcs
<1>1. /\ op[t].pc \in WeakPcs /\ \A u \in Threads \ {t} : op'[u] = op[u]
      /\ op'[t] = Idle \/ op'[t].this = op[t].this
  BY WeakFrame
<1>2. \A u \in Threads \ {t} : op[u].this # op[t].this
  BY <1>1, WeakCall
<1>3. WeakGaveUp(w)' <=> \E u \in Threads : op'[u].this = w /\ op'[u].pc \in ForgetPcs
  BY DEF WeakGaveUp, ForgetPcs
<1>4. WeakGaveUp(w) <=> \E u \in Threads : op[u].this = w /\ op[u].pc \in ForgetPcs
  BY DEF WeakGaveUp, ForgetPcs
<1> QED
  BY <1>1, <1>2, <1>3, <1>4, WeakPtrAssumption DEF Idle, ForgetPcs

\* What the calls of the other threads read of the weak_ptrs is not written.
LEMMA WeakOthers ==
  ASSUME WeakInv, NEW t \in Threads, WeakSteps(t), NEW u \in Threads \ {t}
  PROVE  /\ op'[u] = op[u]
         /\ op[u].pc \in ForgetPcs =>
              op[u].this \in WeakPtrs /\ wp'[op[u].this] = wp[op[u].this]
         /\ op[u].pc = "lockAdd" =>
              op[u].arg \in WeakPtrs /\ wp'[op[u].arg] = wp[op[u].arg]
<1>1. /\ op[t].pc \in WeakPcs /\ op'[u] = op[u]
      /\ \A w \in WeakPtrs : w # op[t].this => wp'[w] = wp[w]
  BY WeakFrame
<1>2. op[u].this # op[t].this /\ op[u].arg # op[t].this
  BY <1>1, WeakCall
<1>3. /\ op[u].pc \in ForgetPcs => op[u].this \in WeakPtrs
      /\ op[u].pc = "lockAdd" => op[u].arg \in WeakPtrs
  BY WeakCall DEF ForgetPcs, WeakPcs
<1> QED
  BY <1>1, <1>2, <1>3

\* A step that changes neither the reference of its own weak_ptr nor the
\* blocks and weakCnt leaves the owners as they are.
LEMMA SameWeakOwners ==
  ASSUME WeakInv, NEW t \in Threads, WeakSteps(t), UNCHANGED <<weakCnt, block>>,
         op[t].this \in WeakPtrs =>
           LET this == op[t].this IN
           \/ /\ wp'[this] = wp[this]
              /\ op'[t].pc \in ForgetPcs <=> op[t].pc \in ForgetPcs
           \/ /\ wp'[this].cb = Null
              /\ op[t].pc \in ForgetPcs \/ wp[this].cb = Null
  PROVE  WeakOwnersOK' /\ WeakCountExact'
<1>1. ASSUME NEW w \in WeakPtrs
      PROVE  \/ wp'[w] = wp[w] /\ (WeakGaveUp(w)' <=> WeakGaveUp(w))
             \/ wp'[w].cb = Null /\ (WeakGaveUp(w) \/ wp[w].cb = Null)
  <2>1. CASE w # op[t].this
    BY <2>1, WeakFrame, WeakGaveUpStep
  <2>2. CASE w = op[t].this
    BY <2>2, WeakGaveUpStep
  <2> QED
    BY <2>1, <2>2
<1>2. Null \notin Blocks
  BY SharedPtrAssumption
<1>3. \A b \in Blocks : WeakOwners(b)' = WeakOwners(b)
  BY <1>1, <1>2 DEF WeakOwners
<1>4. WeakCountExact'
  BY <1>3 DEF WeakInv, WeakCountExact
<1>5. WeakOwnersOK'
  BY <1>1, <1>2 DEF WeakInv, WeakOwnersOK
<1> QED
  BY <1>4, <1>5

\* Steps that change no counter and no block.
LEMMA QuietKeeps ==
  ASSUME WeakInv, Serialised', NEW t \in Threads,
         WeakResetNull(t) \/ LoadStrong(t) \/ Expired(t)
  PROVE  WeakInv'
<1>1. /\ WeakSteps(t) /\ UNCHANGED <<sp, strongCnt, weakCnt, block, object>>
      /\ op[t].pc \in WeakPcs
  BY DEF WeakSteps, WeakResetNull, LoadStrong, Expired, WeakPcs
<1>2. /\ OpOK' /\ SharedOp' = SharedOp /\ WeakExclusive' /\ WeakCallsOK'
      /\ op'[t] = Idle \/ op'[t].pc \in WeakPcs
  BY <1>1, WeakFrame, WeakCallsStep
<1>3. Strong!IInv'
  BY <1>1, <1>2, StrongStep DEF WeakInv, Strong!vars
<1>4. wp' \in [WeakPtrs -> [ptr : Blocks \cup {Null}, cb : Blocks \cup {Null}]]
  BY DEF WeakInv, WeakTypeOK, WeakResetNull, LoadStrong, Expired, WeakReturn, NullPtr
<1>5. WeakTypeOK'
  BY <1>1, <1>2, <1>4 DEF WeakInv, WeakTypeOK, HeapTypeOK, OpOK
<1>6. \/ /\ UNCHANGED wp /\ op[t].this \in SharedPtrs
         /\ \/ op'[t].pc = "idle"
            \/ /\ op'[t].pc = "lockAdd" /\ op'[t].arg = op[t].arg
               /\ wp[op[t].arg].cb \in Blocks /\ strongCnt[wp[op[t].arg].cb] # 0
      \/ /\ UNCHANGED wp /\ op'[t].pc = "weakFree" /\ op'[t].this = op[t].this
         /\ op[t].pc = "loadStrongLast" /\ strongCnt[wp[op[t].this].cb] = 0
      \/ /\ wp'[op[t].this] = NullPtr /\ op'[t].pc \in {"idle", "weakAdd"}
         /\ op[t].pc \in ForgetPcs \/ wp[op[t].this].cb = Null
  <2>1. CASE Expired(t)
    BY <1>1, <2>1, WeakCall DEF Expired, WeakInv, WeakTypeOK, Idle
  <2>2. CASE WeakResetNull(t) \/ LoadStrong(t)
    <3>1. op[t].pc \in ForgetPcs \cup {"weakDec"}
      BY <2>2 DEF WeakResetNull, LoadStrong, ForgetPcs
    <3>2. op[t].this \in WeakPtrs /\ op[t].kind # "weakReset"
      BY <1>1, <3>1, WeakCall
    <3> QED
      BY <2>2, <3>2
         DEF WeakResetNull, LoadStrong, WeakReturn, WeakInv, WeakTypeOK, Idle, ForgetPcs
  <2> QED
    BY <2>1, <2>2
<1>7. ForgetOK'
  <2> SUFFICES ASSUME NEW u \in Threads, op'[u].pc \in ForgetPcs
               PROVE  LET b == wp'[op'[u].this].cb IN
                      /\ b \in Blocks /\ block[b] = "live"
                      /\ op'[u].pc = "loadStrongLast" => weakCnt[b] = 0 \/ strongCnt[b] # 0
                      /\ op'[u].pc = "weakFree" => weakCnt[b] = 0 /\ strongCnt[b] = 0
    BY <1>1 DEF ForgetOK
  <2>1. CASE u # t
    BY <1>1, <2>1, WeakOthers DEF WeakInv, ForgetOK
  <2>2. CASE u = t
    BY <1>6, <2>2 DEF WeakInv, ForgetOK, ForgetPcs
  <2> QED
    BY <2>1, <2>2
<1>8. LockOK'
  <2> SUFFICES ASSUME NEW u \in Threads, op'[u].pc = "lockAdd"
               PROVE  LET b == wp'[op'[u].arg].cb IN b \in Blocks /\ strongCnt[b] # 0
    BY <1>1 DEF LockOK
  <2>1. CASE u # t
    BY <1>1, <2>1, WeakOthers DEF WeakInv, LockOK
  <2>2. CASE u = t
    BY <1>6, <2>2
  <2> QED
    BY <2>1, <2>2
<1>9. FreeOK'
  BY <1>1, <1>2, WeakOthers DEF WeakInv, FreeOK, Idle, WeakPcs
<1>10. WeakOwnersOK' /\ WeakCountExact'
  <2>1. op[t].this \in SharedPtrs => op[t].this \notin WeakPtrs
    BY WeakPtrAssumption
  <2> QED
    BY <1>1, <1>6, <2>1, SameWeakOwners DEF NullPtr, ForgetPcs
<1> QED
  BY <1>2, <1>3, <1>5, <1>7, <1>8, <1>9, <1>10 DEF WeakInv

LEMMA CountRange ==
  ASSUME NEW n \in 0 .. CntMod - 1
  PROVE  /\ n # 0 => Dec(n) = n - 1 /\ Dec(n) \in 0 .. CntMod - 1
         /\ n + 1 < CntMod => Inc(n) = n + 1 /\ Inc(n) \in 0 .. CntMod - 1
BY SharedPtrAssumption DEF Inc, Dec

\* The shared_ptrs do not depend on weakCnt.
LEMMA StrongIgnoresWeakCnt ==
  ASSUME Strong!IInv, weakCnt' \in [Blocks -> 0 .. CntMod - 1],
         UNCHANGED <<sp, SharedOp, strongCnt, block, object>>
  PROVE  Strong!IInv'
<1>1. Strong!TypeOK' /\ Strong!CallsOK' /\ Strong!Exclusive' /\ Strong!ReleaseOK'
      /\ Strong!UnusedOK'
  BY DEF Strong!IInv, Strong!TypeOK, Strong!HeapTypeOK, Strong!CallsOK, Strong!Exclusive,
         Strong!ReleaseOK, Strong!UnusedOK
<1>2. Strong!OwnedBy' = Strong!OwnedBy
  BY DEF Strong!OwnedBy, Strong!GaveUp
<1>3. Strong!CountExact' /\ Strong!OwnerSeesLiveObject'
  BY <1>2 DEF Strong!IInv, Strong!CountExact, Strong!Owners, Strong!OwnerSeesLiveObject
<1> QED
  BY <1>1, <1>3 DEF Strong!IInv

\* No call is about to free a block that a weak_ptr counts in.
LEMMA CountedNotFreed ==
  ASSUME WeakInv, NEW t \in Threads, op[t].pc = "freeBlock"
  PROVE  LET c == sp[op[t].this].cb IN
         /\ op[t].this \in SharedPtrs /\ c \in Blocks
         /\ weakCnt[c] = 0 /\ WeakOwners(c) = {}
<1>1. op[t].kind \notin WeakKinds
  BY DEF WeakInv, WeakCallsOK, WeakPcs
<1> QED
  BY <1>1, StrongCall, WeakCounted DEF WeakInv, FreeOK

LEMMA WeakDecKeeps ==
  ASSUME WeakInv, Serialised', NEW t \in Threads, WeakDec(t)
  PROVE  WeakInv'
<1>1. /\ WeakSteps(t) /\ UNCHANGED <<sp, strongCnt, block, object>>
      /\ op[t].pc = "weakDec" /\ op[t].pc \in WeakPcs
  BY DEF WeakSteps, WeakDec, WeakPcs
<1>2. /\ OpOK' /\ SharedOp' = SharedOp /\ WeakExclusive' /\ WeakCallsOK'
      /\ op'[t] = Idle \/ op'[t].pc \in WeakPcs
  BY <1>1, WeakFrame, WeakCallsStep
<1>3. PICK this \in WeakPtrs : this = op[t].this
  BY <1>1, WeakCall
<1>4. PICK b \in Blocks : b = wp[this].cb
  BY <1>3 DEF WeakDec, WeakInv, WeakTypeOK
<1>5. /\ block[b] = "live"
      /\ weakCnt' = [weakCnt EXCEPT ![b] = Dec(weakCnt[b])]
      /\ wp' = [wp EXCEPT ![this].ptr = Null]
      /\ op'[t].this = this
      /\ op'[t].pc = IF weakCnt[b] = 1 THEN "loadStrongLast" ELSE "loadStrong"
  BY <1>3, <1>4 DEF WeakDec, WeakInv, WeakTypeOK, HeapTypeOK
<1>6. wp'[this].cb = b /\ \A w \in WeakPtrs \ {this} : wp'[w] = wp[w]
  BY <1>4, <1>5 DEF WeakInv, WeakTypeOK
<1>7. ~WeakGaveUp(this) /\ WeakGaveUp(this)'
      /\ \A w \in WeakPtrs \ {this} : WeakGaveUp(w)' <=> WeakGaveUp(w)
  BY <1>1, <1>3, <1>5, WeakGaveUpStep DEF ForgetPcs
<1>8. /\ this \in WeakOwners(b) /\ WeakOwners(b)' = WeakOwners(b) \ {this}
      /\ \A c \in Blocks \ {b} : WeakOwners(c)' = WeakOwners(c)
  BY <1>4, <1>6, <1>7 DEF WeakOwners
<1>9. /\ weakCnt[b] = Cardinality(WeakOwners(b)) /\ weakCnt[b] # 0
      /\ weakCnt[b] \in 0 .. CntMod - 1
  <2>1. weakCnt[b] # 0
    BY <1>5, <1>8, WeakCounted DEF WeakInv
  <2> QED
    BY <1>5, <2>1 DEF WeakInv, WeakTypeOK, HeapTypeOK, WeakCountExact
<1>10. /\ weakCnt' \in [Blocks -> 0 .. CntMod - 1] /\ weakCnt'[b] = weakCnt[b] - 1
       /\ \A c \in Blocks \ {b} : weakCnt'[c] = weakCnt[c]
  BY <1>5, <1>9, CountRange DEF WeakInv, WeakTypeOK, HeapTypeOK
<1>11. Strong!IInv'
  BY <1>1, <1>2, <1>10, StrongIgnoresWeakCnt DEF WeakInv
<1>12. WeakTypeOK'
  BY <1>1, <1>2, <1>5, <1>10 DEF WeakInv, WeakTypeOK, HeapTypeOK, OpOK
<1>13. Forgetting(t, b)
  BY <1>1, <1>3, <1>4 DEF Forgetting
<1>14. ForgetOK'
  <2> SUFFICES ASSUME NEW u \in Threads, op'[u].pc \in ForgetPcs
               PROVE  LET c == wp'[op'[u].this].cb IN
                      /\ c \in Blocks /\ block[c] = "live"
                      /\ op'[u].pc = "loadStrongLast" => weakCnt'[c] = 0 \/ strongCnt[c] # 0
                      /\ op'[u].pc = "weakFree" => weakCnt'[c] = 0 /\ strongCnt[c] = 0
    BY <1>1 DEF ForgetOK
  <2>1. CASE u # t
    <3>1. /\ op'[u] = op[u] /\ wp'[op[u].this] = wp[op[u].this] /\ op[u].pc \in ForgetPcs
      BY <1>1, <2>1, WeakOthers
    <3>2. PICK c \in Blocks : c = wp[op[u].this].cb
      BY <3>1 DEF WeakInv, ForgetOK
    <3>3. c # b
      BY <1>13, <2>1, <3>1, <3>2 DEF WeakInv, Serialised, Forgetting, ForgetPcs
    <3> QED
      BY <1>10, <3>1, <3>2, <3>3 DEF WeakInv, ForgetOK
  <2>2. CASE u = t
    BY <1>5, <1>6, <1>10, <2>2
  <2> QED
    BY <2>1, <2>2
<1>15. LockOK'
  <2> SUFFICES ASSUME NEW u \in Threads, op'[u].pc = "lockAdd"
               PROVE  LET c == wp'[op'[u].arg].cb IN c \in Blocks /\ strongCnt[c] # 0
    BY <1>1 DEF LockOK
  <2>1. u # t
    BY <1>5
  <2> QED
    BY <1>1, <2>1, WeakOthers DEF WeakInv, LockOK
<1>16. FreeOK'
  <2> SUFFICES ASSUME NEW u \in Threads, op'[u].pc = "freeBlock"
               PROVE  weakCnt'[sp[op'[u].this].cb] = 0
    BY <1>1 DEF FreeOK
  <2>1. u # t /\ op'[u] = op[u]
    BY <1>1, <1>5, WeakOthers
  <2> QED
    BY <1>9, <1>10, <2>1, CountedNotFreed
<1>17. WeakOwnersOK'
  BY <1>1, <1>4, <1>6, <1>7 DEF WeakInv, WeakOwnersOK
<1>18. WeakCountExact'
  <2>1. Cardinality(WeakOwners(b)') = Cardinality(WeakOwners(b)) - 1
    BY <1>8, WeakOwnersFinite, FS_RemoveElement
  <2> QED
    BY <1>1, <1>8, <1>9, <1>10, <2>1 DEF WeakInv, WeakCountExact
<1> QED
  BY <1>2, <1>11, <1>12, <1>14, <1>15, <1>16, <1>17, <1>18 DEF WeakInv

\* The thread that deletes the control block is the last to know of it.
LEMMA WeakFreeKeeps ==
  ASSUME WeakInv, Serialised', NEW t \in Threads, WeakFree(t)
  PROVE  WeakInv'
<1>1. /\ WeakSteps(t) /\ UNCHANGED <<sp, strongCnt, weakCnt, object>>
      /\ op[t].pc = "weakFree" /\ op[t].pc \in WeakPcs
  BY DEF WeakSteps, WeakFree, WeakPcs
<1>2. /\ OpOK' /\ SharedOp' = SharedOp /\ WeakExclusive' /\ WeakCallsOK'
      /\ op'[t] = Idle \/ op'[t].pc \in WeakPcs
  BY <1>1, WeakFrame, WeakCallsStep
<1>3. PICK this \in WeakPtrs : this = op[t].this /\ op[t].kind # "weakReset"
  BY <1>1, WeakCall DEF ForgetPcs
<1>4. PICK b \in Blocks : b = wp[this].cb /\ weakCnt[b] = 0 /\ strongCnt[b] = 0
  BY <1>1, <1>3 DEF WeakInv, ForgetOK, ForgetPcs
<1>5. /\ block[b] = "live" /\ block' = [block EXCEPT ![b] = "freed"]
      /\ wp' = [wp EXCEPT ![this] = NullPtr]
      /\ op'[t].pc \in {"idle", "weakAdd"}
  BY <1>3, <1>4 DEF WeakFree, WeakReturn, WeakInv, WeakTypeOK, Idle
<1>6. /\ wp'[this] = NullPtr /\ \A w \in WeakPtrs \ {this} : wp'[w] = wp[w]
      /\ \A c \in Blocks \ {b} : block'[c] = block[c]
      /\ block'[b] = "freed"
  BY <1>5 DEF WeakInv, WeakTypeOK, HeapTypeOK
<1>7. /\ \A h \in SharedPtrs : OwnedBy[h] # b
      /\ WeakOwners(b) = {}
  BY <1>4, <1>5, OwnersCounted, WeakCounted DEF WeakInv, OwnersAreCounted
<1>8. \A u \in Threads \ {t} : ~Forgetting(u, b) /\ ~Releasing(u, b)
  BY <1>1, <1>3, <1>4 DEF WeakInv, Serialised, Forgetting
<1>9. Strong!IInv'
  <2> USE DEF WeakInv, Strong!IInv
  <2>1. Strong!TypeOK' /\ Strong!CallsOK' /\ Strong!Exclusive'
    BY <1>1, <1>2, <1>5 
       DEF Strong!TypeOK, Strong!HeapTypeOK, Strong!CallsOK, Strong!Exclusive
  <2>2. Strong!UnusedOK'
    BY <1>1, <1>5, <1>6 DEF Strong!UnusedOK
  <2>3. Strong!OwnedBy' = Strong!OwnedBy /\ Strong!OwnedBy = OwnedBy
    <3>1. Strong!OwnedBy = OwnedBy
      BY OwnersCounted DEF OwnersAreCounted
    <3> QED
      BY <1>1, <1>2, <3>1 DEF Strong!OwnedBy, Strong!GaveUp
  <2>4. Strong!CountExact'
    BY <1>1, <1>6, <2>3 DEF Strong!CountExact, Strong!Owners
  <2>5. Strong!OwnerSeesLiveObject'
    BY <1>1, <1>6, <1>7, <2>3 DEF Strong!OwnerSeesLiveObject
  <2>6. \A u \in Threads : SharedOp[u].pc \in Strong!Releasing => sp[SharedOp[u].this].cb # b
    <3> SUFFICES ASSUME NEW u \in Threads, SharedOp[u].pc \in Strong!Releasing,
                        sp[SharedOp[u].this].cb = b
                 PROVE  FALSE
      OBVIOUS
    <3>1. SharedOp[u] = op[u] /\ op[u].pc \in {"delete", "loadWeak", "freeBlock"}
      BY DEF SharedOp, Strong!Releasing, Idle
    <3>2. u # t /\ Releasing(u, b)
      BY <1>1, <3>1 DEF Releasing
    <3> QED
      BY <1>8, <3>2
  <2>7. Strong!ReleaseOK'
    BY <1>1, <1>2, <1>6, <2>6 DEF Strong!ReleaseOK
  <2> QED
    BY <2>1, <2>2, <2>4, <2>5, <2>7
<1>10. WeakTypeOK'
  BY <1>1, <1>2, <1>5 DEF WeakInv, WeakTypeOK, HeapTypeOK, OpOK, NullPtr
<1>11. ForgetOK'
  <2> SUFFICES ASSUME NEW u \in Threads, op'[u].pc \in ForgetPcs
               PROVE  LET c == wp'[op'[u].this].cb IN
                      /\ c \in Blocks /\ block'[c] = "live"
                      /\ op'[u].pc = "loadStrongLast" => weakCnt[c] = 0 \/ strongCnt[c] # 0
                      /\ op'[u].pc = "weakFree" => weakCnt[c] = 0 /\ strongCnt[c] = 0
    BY <1>1 DEF ForgetOK
  <2>1. u # t
    BY <1>5 DEF ForgetPcs
  <2>2. /\ op'[u] = op[u] /\ wp'[op[u].this] = wp[op[u].this] /\ op[u].pc \in ForgetPcs
    BY <1>1, <2>1, WeakOthers
  <2>3. PICK c \in Blocks : c = wp[op[u].this].cb
    BY <2>2 DEF WeakInv, ForgetOK
  <2>4. c # b
    BY <1>8, <2>1, <2>2, <2>3 DEF Forgetting, ForgetPcs
  <2> QED
    BY <1>6, <2>2, <2>3, <2>4 DEF WeakInv, ForgetOK
<1>12. LockOK'
  <2> SUFFICES ASSUME NEW u \in Threads, op'[u].pc = "lockAdd"
               PROVE  LET c == wp'[op'[u].arg].cb IN c \in Blocks /\ strongCnt[c] # 0
    BY <1>1 DEF LockOK
  <2>1. u # t
    BY <1>5
  <2> QED
    BY <1>1, <2>1, WeakOthers DEF WeakInv, LockOK
<1>13. FreeOK'
  BY <1>1, <1>5, WeakOthers DEF WeakInv, FreeOK
<1>14. \A w \in WeakPtrs \ {this} : WeakGaveUp(w)' <=> WeakGaveUp(w)
  BY <1>1, <1>3, WeakGaveUpStep
<1>15. WeakGaveUp(this)
  BY <1>1, <1>3 DEF WeakGaveUp
<1>16. WeakOwnersOK'
  <2> SUFFICES ASSUME NEW w \in WeakPtrs, NEW c \in Blocks, wp'[w].cb = c
               PROVE  /\ ~WeakGaveUp(w)' => wp'[w].ptr = c /\ block'[c] = "live"
                      /\ block'[c] # "unused"
    BY DEF WeakOwnersOK
  <2>1. w # this
    BY <1>6, SharedPtrAssumption DEF NullPtr
  <2>2. c = b => WeakGaveUp(w)
    BY <1>6, <1>7, <2>1 DEF WeakOwners
  <2> QED
    BY <1>6, <1>14, <2>1, <2>2 DEF WeakInv, WeakOwnersOK
<1>17. WeakCountExact'
  <2>1. \A c \in Blocks \ {b} : WeakOwners(c)' = WeakOwners(c)
    BY <1>4, <1>6, <1>14, SharedPtrAssumption DEF WeakOwners, NullPtr
  <2> QED
    BY <1>1, <1>6, <2>1 DEF WeakInv, WeakCountExact
<1> QED
  BY <1>2, <1>9, <1>10, <1>11, <1>12, <1>13, <1>16, <1>17 DEF WeakInv

\* The pointer that a weak_ptr is made from counts in the block, so the block
\* stays.
LEMMA SourceCounts ==
  ASSUME WeakInv, NEW t \in Threads, op[t].pc = "weakAdd",
         NEW b \in Blocks, Members(op[t].arg).cb = b
  PROVE  /\ block[b] = "live" /\ Members(op[t].arg).ptr = b
         /\ weakCnt[b] # 0 \/ strongCnt[b] # 0
<1> DEFINE a == op[t].arg
<1>1. /\ op[t].this \in WeakPtrs /\ a \in SharedPtrs \cup WeakPtrs
      /\ op[t].pc \in WeakPcs
  BY WeakCall DEF WeakPcs
<1>2. CASE a \in WeakPtrs
  <2>1. ~WeakGaveUp(a) /\ wp[a].cb = b /\ Members(a) = wp[a]
    BY <1>1, <1>2, ReadCounts DEF Members
  <2>2. block[b] = "live" /\ wp[a].ptr = b
    BY <1>2, <2>1 DEF WeakInv, WeakOwnersOK
  <2>3. weakCnt[b] # 0
    BY <1>2, <2>1, <2>2, WeakCounted DEF WeakInv, WeakOwners
  <2> QED
    BY <2>1, <2>2, <2>3
<1>3. CASE a \in SharedPtrs
  <2>1. a \notin WeakPtrs /\ a # Null
    BY <1>3, SharedPtrAssumption, WeakPtrAssumption
  <2>2. \A u \in Threads : op[u].this # a
    BY <1>1, <2>1 DEF WeakInv, WeakExclusive
  <2>3. OwnedBy[a] = b /\ Members(a) = sp[a]
    BY <1>3, <2>1, <2>2 DEF OwnedBy, GaveUp, Members
  <2>4. OwnersAreCounted
    BY OwnersCounted DEF WeakInv
  <2>5. sp[a].ptr = b /\ block[b] = "live"
    BY <1>3, <2>3, <2>4 DEF WeakInv, Strong!IInv, Strong!OwnerSeesLiveObject, OwnersAreCounted
  <2>6. strongCnt[b] # 0
    BY <1>3, <2>3, <2>4, <2>5 DEF OwnersAreCounted
  <2> QED
    BY <2>3, <2>5, <2>6
<1> QED
  BY <1>1, <1>2, <1>3

LEMMA WeakAddKeeps ==
  ASSUME WeakInv, Serialised', NEW t \in Threads, WeakAdd(t)
  PROVE  WeakInv'
<1> DEFINE from == Members(op[t].arg)
<1>1. /\ WeakSteps(t) /\ UNCHANGED <<sp, strongCnt, block, object>>
      /\ op[t].pc = "weakAdd" /\ op[t].pc \in WeakPcs
  BY DEF WeakSteps, WeakAdd, WeakPcs
<1>2. /\ OpOK' /\ SharedOp' = SharedOp /\ WeakExclusive' /\ WeakCallsOK'
  BY <1>1, WeakFrame, WeakCallsStep
<1>3. PICK this \in WeakPtrs : this = op[t].this
  BY <1>1, WeakCall
<1>4. /\ wp[this] = NullPtr /\ op'[t] = Idle
      /\ wp' = [wp EXCEPT ![this] = from]
      /\ weakCnt' = IF from.cb = Null THEN weakCnt
                    ELSE [weakCnt EXCEPT ![from.cb] = Inc(weakCnt[from.cb])]
  <2>1. wp[this] = NullPtr
    BY <1>1, <1>3, WeakCall
  <2>2. op'[t] = Idle /\ wp' = [wp EXCEPT ![this] = from]
    BY <1>3 DEF WeakAdd, WeakInv, WeakTypeOK
  <2>3. weakCnt' = IF from.cb = Null THEN weakCnt
                    ELSE [weakCnt EXCEPT ![from.cb] = Inc(weakCnt[from.cb])]
    BY DEF WeakAdd
  <2> QED
    BY <2>1, <2>2, <2>3
<1>5. from \in [ptr : Blocks \cup {Null}, cb : Blocks \cup {Null}]
  <2>1. op[t].arg \in SharedPtrs \cup WeakPtrs
    BY <1>1, WeakCall
  <2> QED
    BY <2>1 DEF Members, WeakInv, WeakTypeOK, HeapTypeOK
<1>6. \A b \in Blocks : from.cb = b =>
        /\ block[b] = "live" /\ from.ptr = b
        /\ weakCnt[b] # 0 \/ strongCnt[b] # 0
  BY <1>1, SourceCounts
<1> HIDE DEF from
<1>7. /\ wp'[this] = from /\ \A w \in WeakPtrs \ {this} : wp'[w] = wp[w]
      /\ wp' \in [WeakPtrs -> [ptr : Blocks \cup {Null}, cb : Blocks \cup {Null}]]
  BY <1>4, <1>5 DEF WeakInv, WeakTypeOK
<1>8. \A u \in Threads : op'[u].pc \in ForgetPcs \cup {"lockAdd", "freeBlock"} => u # t
  BY <1>4 DEF Idle, ForgetPcs
<1>9. LockOK'
  BY <1>1, <1>8, WeakOthers DEF WeakInv, LockOK
<1>10. /\ ~WeakGaveUp(this)' /\ ~WeakGaveUp(this)
       /\ \A w \in WeakPtrs \ {this} : WeakGaveUp(w)' <=> WeakGaveUp(w)
  BY <1>1, <1>3, <1>4, WeakGaveUpStep DEF ForgetPcs, Idle
<1>11. CASE from.cb = Null
  <2>1. weakCnt' = weakCnt
    BY <1>4, <1>11
  <2>2. Strong!IInv'
    BY <1>1, <1>2, <2>1, StrongStep DEF WeakInv, Strong!vars
  <2>3. WeakTypeOK'
    BY <1>1, <1>2, <1>7, <2>1 DEF WeakInv, WeakTypeOK, HeapTypeOK, OpOK
  <2>4. WeakOwnersOK' /\ WeakCountExact'
    BY <1>1, <1>3, <1>4, <1>7, <1>11, <2>1, SameWeakOwners DEF NullPtr
  <2>5. ForgetOK' /\ FreeOK'
    BY <1>1, <1>8, <2>1, WeakOthers DEF WeakInv, ForgetOK, FreeOK
  <2> QED
    BY <1>2, <1>9, <2>2, <2>3, <2>4, <2>5 DEF WeakInv
<1>12. CASE from.cb # Null
  <2>1. PICK b \in Blocks : b = from.cb
    BY <1>5, <1>12
  <2>2. /\ block[b] = "live" /\ from.ptr = b
        /\ weakCnt[b] # 0 \/ strongCnt[b] # 0
    BY <1>6, <2>1
  <2>3. /\ WeakOwners(b)' = WeakOwners(b) \cup {this} /\ this \notin WeakOwners(b)
        /\ \A c \in Blocks \ {b} : WeakOwners(c)' = WeakOwners(c)
    BY <1>4, <1>7, <1>10, <2>1, SharedPtrAssumption DEF WeakOwners, NullPtr
  <2>4. /\ Cardinality(WeakOwners(b)') = Cardinality(WeakOwners(b)) + 1
        /\ weakCnt[b] = Cardinality(WeakOwners(b))
    BY <2>2, <2>3, WeakOwnersFinite, FS_AddElement, ZenonT(30) DEF WeakInv, WeakCountExact
  <2>5. weakCnt[b] \in 0 .. CntMod - 1 /\ weakCnt[b] + 1 < CntMod
    <3>1. WeakOwners(b) \cup {this} \subseteq WeakPtrs
      BY DEF WeakOwners
    <3>2. Cardinality(WeakOwners(b) \cup {this}) <= Cardinality(WeakPtrs)
      BY <3>1, WeakPtrAssumption, FS_Subset
    <3>3. /\ Cardinality(WeakPtrs) \in Nat /\ Cardinality(WeakPtrs) < CntMod
          /\ CntMod \in Nat
      BY WeakPtrAssumption, SharedPtrAssumption, FS_CardinalityType
    <3>4. weakCnt[b] \in 0 .. CntMod - 1
      BY DEF WeakInv, WeakTypeOK, HeapTypeOK
    <3> QED
      BY <2>3, <2>4, <3>2, <3>3, <3>4
  <2>6. /\ weakCnt' \in [Blocks -> 0 .. CntMod - 1] /\ weakCnt'[b] = weakCnt[b] + 1
        /\ \A c \in Blocks \ {b} : weakCnt'[c] = weakCnt[c]
    BY <1>4, <1>12, <2>1, <2>5, CountRange DEF WeakInv, WeakTypeOK, HeapTypeOK
  <2>7. Strong!IInv'
    BY <1>1, <1>2, <2>6, StrongIgnoresWeakCnt DEF WeakInv
  <2>8. WeakTypeOK'
    BY <1>1, <1>2, <1>7, <2>6 DEF WeakInv, WeakTypeOK, HeapTypeOK, OpOK
  <2>9. ForgetOK'
    <3> SUFFICES ASSUME NEW u \in Threads, op'[u].pc \in ForgetPcs
                 PROVE  LET c == wp'[op'[u].this].cb IN
                        /\ c \in Blocks /\ block[c] = "live"
                        /\ op'[u].pc = "loadStrongLast" => weakCnt'[c] = 0 \/ strongCnt[c] # 0
                        /\ op'[u].pc = "weakFree" => weakCnt'[c] = 0 /\ strongCnt[c] = 0
      BY <1>1 DEF ForgetOK
    <3>1. /\ op'[u] = op[u] /\ wp'[op[u].this] = wp[op[u].this] /\ op[u].pc \in ForgetPcs
      BY <1>1, <1>8, WeakOthers
    <3>2. PICK c \in Blocks : c = wp[op[u].this].cb
      BY <3>1 DEF WeakInv, ForgetOK
    <3>3. /\ block[c] = "live"
          /\ op[u].pc = "loadStrongLast" => weakCnt[c] = 0 \/ strongCnt[c] # 0
          /\ op[u].pc = "weakFree" => weakCnt[c] = 0 /\ strongCnt[c] = 0
      BY <3>1, <3>2 DEF WeakInv, ForgetOK
    <3> QED
      BY <2>2, <2>6, <3>1, <3>2, <3>3
  <2>10. FreeOK'
    <3> SUFFICES ASSUME NEW u \in Threads, op'[u].pc = "freeBlock"
                 PROVE  weakCnt'[sp[op'[u].this].cb] = 0
      BY <1>1 DEF FreeOK
    <3>1. op'[u] = op[u]
      BY <1>1, <1>8, WeakOthers
    <3>2. PICK c \in Blocks : c = sp[op[u].this].cb /\ weakCnt[c] = 0
      BY <3>1, CountedNotFreed
    <3>3. strongCnt[c] = 0
      BY <3>1, <3>2, StrongCall DEF WeakInv, WeakCallsOK, WeakPcs
    <3> QED
      BY <2>2, <2>6, <3>1, <3>2, <3>3
  <2>11. WeakOwnersOK'
    <3> SUFFICES ASSUME NEW w \in WeakPtrs, NEW c \in Blocks, wp'[w].cb = c
                 PROVE  /\ ~WeakGaveUp(w)' => wp'[w].ptr = c /\ block[c] = "live"
                        /\ block[c] # "unused"
      BY <1>1 DEF WeakOwnersOK
    <3> QED
      BY <1>7, <1>10, <2>1, <2>2 DEF WeakInv, WeakOwnersOK
  <2>12. WeakCountExact'
    BY <1>1, <2>3, <2>4, <2>6 DEF WeakInv, WeakCountExact
  <2> QED
    BY <1>2, <1>9, <2>7, <2>8, <2>9, <2>10, <2>11, <2>12 DEF WeakInv
<1> QED
  BY <1>11, <1>12

\* lock() adds an owner to an object that has one.
LEMMA LockAddKeeps ==
  ASSUME WeakInv, Serialised', NEW t \in Threads, LockAdd(t)
  PROVE  /\ WeakInv'
         /\ \E h \in SharedPtrs, q \in SharedPtrs :
              /\ Strong!OwnedBy[h] = Null /\ Strong!OwnedBy[q] \in Blocks
              /\ Strong!OwnedBy' = [Strong!OwnedBy EXCEPT ![h] = Strong!OwnedBy[q]]
<1>1. /\ WeakSteps(t) /\ UNCHANGED <<weakCnt, block, object, wp>>
      /\ op[t].pc = "lockAdd" /\ op[t].pc \in WeakPcs
  BY DEF WeakSteps, LockAdd, WeakPcs
<1>2. /\ OpOK' /\ SharedOp' = SharedOp /\ WeakExclusive' /\ WeakCallsOK'
  BY <1>1, WeakFrame, WeakCallsStep
<1>3. PICK h \in SharedPtrs : h = op[t].this /\ sp[h] = NullPtr
  BY <1>1, WeakCall
<1>4. PICK a \in WeakPtrs : a = op[t].arg /\ ~WeakGaveUp(a)
  BY <1>1, WeakCall, ReadCounts
<1>5. PICK b \in Blocks : b = wp[a].cb /\ strongCnt[b] # 0
  BY <1>1, <1>4 DEF WeakInv, LockOK
<1>6. block[b] = "live" /\ wp[a].ptr = b
  BY <1>4, <1>5 DEF WeakInv, WeakOwnersOK
<1>7. /\ sp' = [sp EXCEPT ![h] = wp[a]] /\ op'[t] = Idle
      /\ strongCnt' = [strongCnt EXCEPT ![b] = Inc(strongCnt[b])]
  BY <1>3, <1>4, <1>5 DEF LockAdd, WeakInv, WeakTypeOK
<1>8. /\ sp'[h].ptr = b /\ sp'[h].cb = b
      /\ \A x \in SharedPtrs \ {h} : sp'[x] = sp[x]
      /\ sp' \in [SharedPtrs -> [ptr : Blocks \cup {Null}, cb : Blocks \cup {Null}]]
  BY <1>5, <1>6, <1>7 DEF WeakInv, WeakTypeOK, HeapTypeOK
<1>9. \A u \in Threads \ {t} : op[u].this # h /\ op[u].arg # h
  BY <1>1, <1>3, WeakCall
<1>10. \A u \in Threads : SharedOp[u].this # h
  BY <1>1, <1>9, WeakCall, SharedPtrAssumption DEF SharedOp, Idle
<1> USE DEF WeakInv, Strong!IInv
<1>11. /\ Strong!OwnedBy[h] = Null
       /\ Strong!OwnedBy' = [Strong!OwnedBy EXCEPT ![h] = b]
  <2>1. ~Strong!GaveUp(h) /\ ~Strong!GaveUp(h)'
    BY <1>2, <1>10 DEF Strong!GaveUp
  <2>2. \A x \in SharedPtrs : Strong!GaveUp(x)' <=> Strong!GaveUp(x)
    BY <1>2 DEF Strong!GaveUp
  <2> QED
    BY <1>3, <1>8, <2>1, <2>2 DEF Strong!OwnedBy, NullPtr
<1>12. PICK q \in SharedPtrs : Strong!OwnedBy[q] = b
  BY <1>5, <1>6, OwnersCounted DEF OwnersAreCounted
<1>13. object[b] = "live"
  BY <1>12 DEF Strong!OwnerSeesLiveObject
<1>14. /\ Cardinality(Strong!Owners(b)') = Cardinality(Strong!Owners(b)) + 1
       /\ \A c \in Blocks \ {b} : Strong!Owners(c)' = Strong!Owners(c)
       /\ Cardinality(Strong!Owners(b)') < CntMod
  <2>1. /\ Strong!Cardinality(Strong!Owners(b)') = Strong!Cardinality(Strong!Owners(b)) + 1
        /\ \A c \in Blocks \ {b} : Strong!Owners(c)' = Strong!Owners(c)
    BY <1>11, SharedPtrAssumption, StrongFinite, Strong!OwnersGain
  <2>2. Strong!Cardinality(Strong!Owners(b)') < CntMod
    BY SharedPtrAssumption, StrongFinite, Strong!OwnersFinite
  <2> QED
    BY <2>1, <2>2, StrongFinite
<1>15. strongCnt[b] = Cardinality(Strong!Owners(b)) /\ strongCnt[b] \in 0 .. CntMod - 1
  BY <1>6, StrongFinite DEF Strong!CountExact, WeakTypeOK, HeapTypeOK
<1>16. /\ strongCnt' \in [Blocks -> 0 .. CntMod - 1] /\ strongCnt'[b] = strongCnt[b] + 1
       /\ \A c \in Blocks \ {b} : strongCnt'[c] = strongCnt[c]
       /\ strongCnt'[b] # 0
  BY <1>7, <1>14, <1>15, CountRange DEF WeakTypeOK, HeapTypeOK
<1>17. Strong!IInv'
  <2>1. Strong!TypeOK'
    BY <1>1, <1>2, <1>8, <1>16 DEF Strong!TypeOK, Strong!HeapTypeOK
  <2>2. Strong!CallsOK'
    BY <1>1, <1>2, <1>8, <1>10 DEF Strong!CallsOK
  <2>3. Strong!Exclusive'
    BY <1>2 DEF Strong!Exclusive
  <2>4. Strong!UnusedOK'
    BY <1>1, <1>6, <1>8 DEF Strong!UnusedOK
  <2>5. Strong!ReleaseOK'
    <3>1. ASSUME NEW u \in Threads, SharedOp[u].pc \in Strong!Releasing
          PROVE  /\ sp'[SharedOp[u].this] = sp[SharedOp[u].this]
                 /\ strongCnt'[sp[SharedOp[u].this].cb] = 0
      <4>1. SharedOp[u].this \in SharedPtrs
        BY <3>1 DEF Strong!CallsOK, Strong!Releasing
      <4>2. sp'[SharedOp[u].this] = sp[SharedOp[u].this]
        BY <1>8, <1>10, <4>1
      <4>3. sp[SharedOp[u].this].cb \in Blocks \ {b} /\ strongCnt[sp[SharedOp[u].this].cb] = 0
        BY <1>5, <3>1 DEF Strong!ReleaseOK
      <4> QED
        BY <1>16, <4>2, <4>3
    <3> QED
      BY <1>1, <1>2, <3>1 DEF Strong!ReleaseOK
  <2>6. Strong!CountExact'
    BY <1>1, <1>14, <1>15, <1>16, StrongFinite DEF Strong!CountExact
  <2>7. Strong!OwnerSeesLiveObject'
    <3> SUFFICES ASSUME NEW x \in SharedPtrs, NEW c \in Blocks, (Strong!OwnedBy')[x] = c
                 PROVE  sp'[x].ptr = c /\ object[c] = "live" /\ block[c] = "live"
      BY <1>1 DEF Strong!OwnerSeesLiveObject
    <3>1. CASE x = h
      <4>1. c = b
        BY <1>11, <3>1 DEF Strong!OwnedBy
      <4> QED
        BY <1>6, <1>8, <1>13, <3>1, <4>1
    <3>2. CASE x # h
      <4>1. Strong!OwnedBy[x] = c
        BY <1>11, <3>2 DEF Strong!OwnedBy
      <4>2. sp[x].ptr = c /\ object[c] = "live" /\ block[c] = "live"
        BY <4>1 DEF Strong!OwnerSeesLiveObject
      <4> QED
        BY <1>8, <3>2, <4>2
    <3> QED
      BY <3>1, <3>2
  <2> QED
    BY <2>1, <2>2, <2>3, <2>4, <2>5, <2>6, <2>7
<1>18. WeakTypeOK'
  BY <1>1, <1>2, <1>8, <1>16 DEF WeakTypeOK, HeapTypeOK, OpOK
<1>19. \A u \in Threads : op'[u].pc \in ForgetPcs \cup {"lockAdd", "freeBlock"} => u # t
  BY <1>7 DEF Idle, ForgetPcs
<1>20. \A c \in Blocks : strongCnt'[c] = 0 <=> strongCnt[c] = 0
  BY <1>5, <1>16
<1>21. ForgetOK'
  <2> SUFFICES ASSUME NEW u \in Threads \ {t}, op[u].pc \in ForgetPcs
               PROVE  LET c == wp[op[u].this].cb IN
                      /\ c \in Blocks /\ block[c] = "live"
                      /\ op[u].pc = "loadStrongLast" => weakCnt[c] = 0 \/ strongCnt'[c] # 0
                      /\ op[u].pc = "weakFree" => weakCnt[c] = 0 /\ strongCnt'[c] = 0
    BY <1>1, <1>19, WeakOthers DEF ForgetOK
  <2> QED
    BY <1>20 DEF ForgetOK
<1>22. LockOK'
  <2> SUFFICES ASSUME NEW u \in Threads \ {t}, op[u].pc = "lockAdd"
               PROVE  LET c == wp[op[u].arg].cb IN c \in Blocks /\ strongCnt'[c] # 0
    BY <1>1, <1>19, WeakOthers DEF LockOK
  <2> QED
    BY <1>20 DEF LockOK
<1>23. FreeOK'
  <2> SUFFICES ASSUME NEW u \in Threads \ {t}, op[u].pc = "freeBlock"
               PROVE  weakCnt[sp'[op[u].this].cb] = 0
    BY <1>1, <1>19, WeakOthers DEF FreeOK
  <2> QED
    BY <1>8, <1>9, CountedNotFreed
<1>24. WeakOwnersOK' /\ WeakCountExact'
  <2>1. op[t].this \notin WeakPtrs
    BY <1>3, WeakPtrAssumption
  <2> QED
    BY <1>1, <2>1, SameWeakOwners
<1> QED
  BY <1>2, <1>11, <1>12, <1>17, <1>18, <1>21, <1>22, <1>23, <1>24

-----------------------------------------------------------------------------
(* The theorems.                                                           *)

LEMMA WeakInvInit == WeakInit => WeakInv
<1> SUFFICES ASSUME WeakInit
             PROVE  WeakInv
  OBVIOUS
<1> USE SharedPtrAssumption, WeakPtrAssumption DEF WeakInit, Init
<1>1. SharedOp = [t \in Threads |-> Idle]
  BY DEF SharedOp, Idle, WeakKinds
<1>2. Strong!Init
  BY <1>1 DEF Strong!Init, Strong!NullPtr, Strong!Idle, NullPtr, Idle
<1>3. Strong!IInv
  BY <1>2, StrongFinite, Strong!IInvInit
<1>4. WeakTypeOK
  <2>1. HeapTypeOK
    BY <1>3 DEF Strong!IInv, Strong!TypeOK, Strong!HeapTypeOK, HeapTypeOK
  <2> QED
    BY <2>1 DEF WeakTypeOK, NullPtr, Idle, Kinds, Pcs
<1>5. Serialised /\ WeakCallsOK /\ WeakExclusive /\ ForgetOK /\ LockOK /\ FreeOK
  BY DEF Idle, Serialised, Forgetting, Locking, WeakCallsOK, WeakExclusive, ForgetOK,
         LockOK, FreeOK, ForgetPcs, WeakKinds, WeakPcs
<1>6. WeakOwnersOK /\ WeakCountExact
  BY DEF WeakOwnersOK, WeakCountExact, NullPtr
<1> QED
  BY <1>3, <1>4, <1>5, <1>6 DEF WeakInv

LEMMA WeakInvNext == WeakInv /\ [WeakNext /\ Serialised']_wvars => WeakInv'
<1> SUFFICES ASSUME WeakInv, [WeakNext /\ Serialised']_wvars
             PROVE  WeakInv'
  OBVIOUS
<1>1. ASSUME NEW t \in Threads, Start(t) \/ Continue(t), UNCHANGED wp, Serialised'
      PROVE  WeakInv'
  BY <1>1, StrongKeeps
<1>2. ASSUME NEW t \in Threads, WeakStart(t), Serialised'
      PROVE  WeakInv'
  BY <1>2, WeakStartKeeps
<1>3. ASSUME NEW t \in Threads, WeakSteps(t), Serialised'
      PROVE  WeakInv'
  BY <1>3, QuietKeeps, WeakDecKeeps, WeakFreeKeeps, WeakAddKeeps, LockAddKeeps
     DEF WeakSteps
<1>4. CASE UNCHANGED wvars
  <2>1. UNCHANGED <<sp, op, strongCnt, weakCnt, block, object, wp, SharedOp>>
    BY <1>4 DEF wvars, vars, SharedOp
  <2>2. Strong!IInv'
    BY <2>1, StrongStep DEF WeakInv, Strong!vars
  <2>3. WeakTypeOK' /\ Serialised' /\ WeakCallsOK' /\ WeakExclusive'
    BY <2>1 DEF WeakInv, WeakTypeOK, HeapTypeOK, Serialised, Forgetting, Releasing,
                Locking, WeakCallsOK, WeakExclusive
  <2>4. ForgetOK' /\ LockOK' /\ FreeOK'
    BY <2>1 DEF WeakInv, ForgetOK, LockOK, FreeOK
  <2>5. WeakOwnersOK' /\ WeakCountExact'
    BY <2>1 DEF WeakInv, WeakOwnersOK, WeakCountExact, WeakOwners, WeakGaveUp
  <2> QED
    BY <2>2, <2>3, <2>4, <2>5 DEF WeakInv
<1> QED
  BY <1>1, <1>2, <1>3, <1>4 DEF WeakNext, WeakContinue, WeakSteps

\* The invariant holds in every reachable state of a program that keeps apart
\* what Serialised names.
THEOREM WeakInductiveInvariant == SerialisedSpec => []WeakInv
<1>1. WeakInit /\ [][WeakNext /\ Serialised']_wvars => []WeakInv
  BY WeakInvInit, WeakInvNext, PTL
<1> QED
  BY <1>1, PTL DEF SerialisedSpec

\* Every variable of the translation has its type.
THEOREM WeakTypeCorrect == SerialisedSpec => []WeakTypeOK
BY WeakInductiveInvariant, PTL DEF WeakInv

\* weakCnt is the number of weak_ptrs that hold the block, between any two atomic
\* steps of any threads.
THEOREM WeakCountsAreExact == SerialisedSpec => []WeakCountExact
BY WeakInductiveInvariant, PTL DEF WeakInv

LEMMA WeakInvNoUseAfterFree == WeakInv => NoWeakUseAfterFree
<1> SUFFICES ASSUME WeakInv
             PROVE  NoWeakUseAfterFree
  OBVIOUS
<1>1. NoUseAfterFree
  <2>1. Strong!NoUseAfterFree
    BY SharedPtrAssumption, StrongFinite, Strong!IInvNoUseAfterFree DEF WeakInv
  <2>2. \A t \in Threads :
          op[t].pc \in {"dec", "delete", "loadWeak", "freeBlock", "add"} => SharedOp[t] = op[t]
    BY DEF WeakInv, WeakCallsOK, WeakPcs, SharedOp
  <2> QED
    BY <2>1, <2>2 DEF NoUseAfterFree, Strong!NoUseAfterFree
<1>2. ASSUME NEW t \in Threads, op[t].pc = "weakDec", wp[op[t].this].cb # Null
      PROVE  block[wp[op[t].this].cb] = "live"
  <2>1. /\ op[t].this \in WeakPtrs
        /\ \A u \in Threads \ {t} : op[u].this # op[t].this
    BY <1>2, WeakCall DEF WeakPcs
  <2>2. ~WeakGaveUp(op[t].this) /\ wp[op[t].this].cb \in Blocks
    BY <1>2, <2>1 DEF WeakGaveUp, WeakInv, WeakTypeOK
  <2> QED
    BY <2>1, <2>2 DEF WeakInv, WeakOwnersOK
<1>3. ASSUME NEW t \in Threads, op[t].pc \in ForgetPcs
      PROVE  block[wp[op[t].this].cb] = "live"
  BY <1>3 DEF WeakInv, ForgetOK
<1>4. ASSUME NEW t \in Threads, op[t].pc \in {"weakAdd", "expired", "lockAdd"},
             Members(op[t].arg).cb # Null
      PROVE  block[Members(op[t].arg).cb] = "live"
  <2>1. op[t].arg \in SharedPtrs \cup WeakPtrs
    BY <1>4, WeakCall DEF WeakPcs
  <2>2. PICK b \in Blocks : Members(op[t].arg).cb = b
    BY <1>4, <2>1 DEF Members, WeakInv, WeakTypeOK, HeapTypeOK
  <2>3. CASE op[t].pc = "weakAdd"
    BY <2>2, <2>3, SourceCounts
  <2>4. CASE op[t].pc \in {"expired", "lockAdd"}
    <3>1. op[t].arg \in WeakPtrs /\ ~WeakGaveUp(op[t].arg)
      BY <2>4, WeakCall, ReadCounts DEF WeakPcs
    <3> QED
      BY <2>2, <3>1 DEF Members, WeakInv, WeakOwnersOK
  <2> QED
    BY <1>4, <2>3, <2>4
<1> QED
  BY <1>1, <1>2, <1>3, <1>4 DEF NoWeakUseAfterFree, ForgetPcs

\* No access of either class is to freed memory: the calls that Serialised
\* keeps apart are all that can go wrong.
THEOREM WeakAccessesAreSafe == SerialisedSpec => []NoWeakUseAfterFree
BY WeakInductiveInvariant, WeakInvNoUseAfterFree, PTL

\* What Ownership shows of the heap.
LifeOf == [b \in Blocks |-> IF block[b] = "unused" THEN "unused" ELSE object[b]]

LEMMA WeakRefinesInit == WeakInit => Ownership!Init
<1> SUFFICES ASSUME WeakInit
             PROVE  Ownership!Init
  OBVIOUS
<1>1. OwnedBy = [h \in SharedPtrs |-> Null]
  BY DEF WeakInit, Init, OwnedBy, NullPtr
<1>2. LifeOf = [b \in Blocks |-> "unused"]
  BY DEF WeakInit, Init, LifeOf
<1> QED
  BY <1>1, <1>2 DEF Ownership!Init, LifeOf

LEMMA InvOwnersCounted == WeakInv => OwnersAreCounted
BY OwnersCounted DEF WeakInv

\* The abstract view is the one of the shared_ptrs.
LEMMA SameView ==
  ASSUME WeakInv, WeakInv', [Strong!Ownership!Next]_(Strong!Ownership!vars)
  PROVE  [Ownership!Next]_(Ownership!vars)
<1>1. OwnedBy = Strong!OwnedBy /\ OwnedBy' = Strong!OwnedBy'
  <2>1. WeakInv' => OwnersAreCounted'
    BY InvOwnersCounted, PTL
  <2> QED
    BY <2>1, InvOwnersCounted DEF OwnersAreCounted
<1>2. \A p \in SharedPtrs, b \in Blocks : Strong!Ownership!Create(p, b) => Ownership!Create(p, b)
  BY <1>1 DEF Strong!Ownership!Create, Ownership!Create
<1>3. \A p, q \in SharedPtrs :
        /\ Strong!Ownership!Share(p, q) => Ownership!Share(p, q)
        /\ Strong!Ownership!Exchange(p, q) => Ownership!Exchange(p, q)
  BY <1>1 DEF Strong!Ownership!Share, Ownership!Share, Strong!Ownership!Exchange,
              Ownership!Exchange
<1>4. \A p \in SharedPtrs : Strong!Ownership!LetGo(p) => Ownership!LetGo(p)
  BY <1>1 DEF Strong!Ownership!LetGo, Ownership!LetGo
<1>5. \A b \in Blocks : Strong!Ownership!Destroy(b) => Ownership!Destroy(b)
  BY <1>1 DEF Strong!Ownership!Destroy, Ownership!Destroy, Strong!Ownership!Abandoned,
              Ownership!Abandoned
<1>6. UNCHANGED Strong!Ownership!vars => UNCHANGED Ownership!vars
  BY <1>1 DEF Strong!Ownership!vars, Ownership!vars
<1> QED
  BY <1>2, <1>3, <1>4, <1>5, <1>6 DEF Strong!Ownership!Next, Ownership!Next

\* A step of a weak_ptr shows nothing of itself, but for lock(), which shares.
LEMMA WeakRefinesSteps ==
  ASSUME WeakInv, Serialised', NEW t \in Threads, WeakStart(t) \/ WeakSteps(t)
  PROVE  [Strong!Ownership!Next]_(Strong!Ownership!vars)
<1>1. CASE LockAdd(t)
  <2>1. PICK h \in SharedPtrs, q \in SharedPtrs :
          /\ Strong!OwnedBy[h] = Null /\ Strong!OwnedBy[q] \in Blocks
          /\ Strong!OwnedBy' = [Strong!OwnedBy EXCEPT ![h] = Strong!OwnedBy[q]]
    BY <1>1, LockAddKeeps
  <2>2. Strong!Ownership!Share(h, q)
    BY <1>1, <2>1, SharedPtrAssumption DEF LockAdd, Strong!Ownership!Share
  <2> QED
    BY <2>2 DEF Strong!Ownership!Next
<1>2. CASE ~LockAdd(t)
  <2>1. UNCHANGED <<sp, object, SharedOp>>
    <3>1. CASE WeakStart(t)
      <4>1. UNCHANGED <<sp, object>>
        BY <3>1 DEF WeakStart, WeakConstruct, WeakAssign, WeakDestroy, Lock, WeakSwap,
                    WBegin, Begin, vars
      <4>2. /\ op[t] = Idle /\ \A u \in Threads \ {t} : op'[u] = op[u]
            /\ op'[t] = Idle \/ op'[t].kind \in WeakKinds
        BY <3>1 DEF WeakStart, WeakConstruct, WeakAssign, WeakDestroy, Lock, WeakSwap,
                    WBegin, Begin, vars, Call, WeakKinds, WeakInv, WeakTypeOK
      <4> QED
        BY <4>1, <4>2, SharedOpKept
    <3>2. CASE WeakSteps(t)
      BY <1>2, <3>2, WeakFrame
         DEF WeakSteps, WeakResetNull, WeakDec, LoadStrong, WeakFree, WeakAdd, Expired
    <3> QED
      BY <3>1, <3>2
  <2>2. Strong!OwnedBy' = Strong!OwnedBy
    BY <2>1 DEF Strong!OwnedBy, Strong!GaveUp
  <2>3. \A b \in Blocks : block'[b] = "unused" <=> block[b] = "unused"
    <3>1. CASE WeakFree(t)
      <4>1. op[t].this \in WeakPtrs /\ op[t].pc = "weakFree"
        BY <3>1, WeakCall DEF WeakFree, WeakPcs, ForgetPcs
      <4> QED
        BY <3>1, <4>1 DEF WeakFree, WeakInv, WeakTypeOK, HeapTypeOK
    <3>2. CASE ~WeakFree(t)
      BY <1>2, <3>2
         DEF WeakStart, WeakConstruct, WeakAssign, WeakDestroy, Lock, WeakSwap,
             WBegin, Begin, vars,
             WeakSteps, WeakResetNull, WeakDec, LoadStrong, WeakAdd, Expired
    <3> QED
      BY <3>1, <3>2
  <2> QED
    BY <2>1, <2>2, <2>3 DEF Strong!Ownership!vars
<1> QED
  BY <1>1, <1>2

LEMMA WeakRefinesNext ==
  WeakInv /\ WeakInv' /\ [WeakNext /\ Serialised']_wvars
    => [Ownership!Next]_(Ownership!vars)
<1> SUFFICES ASSUME WeakInv, WeakInv', [WeakNext /\ Serialised']_wvars
             PROVE  [Strong!Ownership!Next]_(Strong!Ownership!vars)
  BY SameView
<1>1. ASSUME NEW t \in Threads, Start(t)
      PROVE  [Strong!Ownership!Next]_(Strong!Ownership!vars)
  BY <1>1, StrongStart, SharedPtrAssumption, StrongFinite, Strong!RefinesStart DEF WeakInv
<1>2. ASSUME NEW t \in Threads, Continue(t)
      PROVE  [Strong!Ownership!Next]_(Strong!Ownership!vars)
  BY <1>2, StrongContinue, SharedPtrAssumption, StrongFinite, Strong!RefinesContinue
     DEF WeakInv
<1>3. ASSUME NEW t \in Threads, WeakStart(t) \/ WeakSteps(t), Serialised'
      PROVE  [Strong!Ownership!Next]_(Strong!Ownership!vars)
  BY <1>3, WeakRefinesSteps
<1>4. CASE UNCHANGED wvars
  BY <1>4 DEF wvars, vars, Strong!Ownership!vars, Strong!OwnedBy, Strong!GaveUp, SharedOp
<1> QED
  BY <1>1, <1>2, <1>3, <1>4 DEF WeakNext, WeakContinue, WeakSteps

\* Pointers of both classes together implement shared ownership: lock() only
\* ever joins the owners of an object that still has one.
THEOREM WeakRefinement == SerialisedSpec => ImplementsOwnership
<1>1. WeakInit /\ [][WeakNext /\ Serialised']_wvars => Ownership!Spec
  BY WeakInvInit, WeakInvNext, WeakRefinesInit, WeakRefinesNext, PTL DEF Ownership!Spec
<1> QED
  BY <1>1, PTL DEF SerialisedSpec, ImplementsOwnership
=============================================================================
