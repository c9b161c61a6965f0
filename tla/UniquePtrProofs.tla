--------------------------- MODULE UniquePtrProofs ---------------------------
(***************************************************************************)
(* Proofs about UniquePtr, for any variables and objects: ownership is     *)
(* exclusive, the destructors that run down a chain free each object once, *)
(* and no object is lost.                                                  *)
(*                                                                         *)
(* The argument rests on the pointers being acyclic.  That is stated       *)
(* without recursion (no set of slots is closed under ptr), and the        *)
(* recursive Chain is connected with it by induction over Nat, which is    *)
(* proved here in the form of sets of numbers.                             *)
(***************************************************************************)
EXTENDS UniquePtr, FiniteSetTheorems, SequenceTheorems, TLAPS

PtrOK == ptr \in [Slots -> Objects \cup {Null}]

\* Following the pointers f from any slot comes to an end.
AcyclicPtrs(f) == \A S \in SUBSET Slots : S # {} => \E s \in S : f[s] \notin S

Acyclic == AcyclicPtrs(ptr)

\* What slot s owns; dead objects keep their pointers.
Holds(s) == IF life[s] \in {"live", "dying"} THEN ptr[s] ELSE Null

\* What reset(newPtr) owns until it is stored.
NewPtr == IF ~Idle /\ stack[1].fn = "reset" THEN stack[1].arg ELSE Null

\* A call with *this = s is behind its delete expression.
Behind(s) == \E i \in DOMAIN stack : stack[i].this = s /\ stack[i].pc = "rest"

UnbornIsEmpty == \A s \in Slots : life[s] = "unborn" => ptr[s] = Null

\* An object has one holder at most.
Exclusive ==
  /\ \A s, u \in Slots : Holds(s) = Holds(u) /\ Holds(s) # Null => s = u
  /\ \A s \in Slots : Holds(s) \notin raw
  /\ NewPtr # Null => NewPtr \notin raw /\ \A s \in Slots : Holds(s) # NewPtr

LiveIsHeld ==
  \A o \in Objects :
    life[o] = "live" => o \in raw \/ o = NewPtr \/ \E s \in Slots : Holds(s) = o

\* What is held is live, unless its holder is deleting it or has done so.
HeldIsLive ==
  /\ \A p \in raw : life[p] = "live"
  /\ NewPtr # Null => life[NewPtr] = "live"
  /\ \A s \in Slots : Holds(s) # Null => life[Holds(s)] = "live" \/ Behind(s)

\* Behind a delete expression the pointee is being destroyed or is dead.
DeletedIsNotLive ==
  \A i \in DOMAIN stack :
    LET o == ptr[stack[i].this] IN
    stack[i].pc = "rest" /\ o # Null => life[o] # "live"

DyingOnStack ==
  \A s \in Slots :
    life[s] = "dying" => \E i \in DOMAIN stack : stack[i].fn = "destroy" /\ stack[i].this = s

\* The frames are the destructors of a chain, which the call at the bottom has
\* begun to free.
Frames ==
  \A i \in DOMAIN stack :
    /\ life[stack[i].this] = IF stack[i].fn = "destroy" THEN "dying" ELSE "live"
    /\ i > 1 => stack[i].fn = "destroy" /\ stack[i].this \in Chain(stack[1].this)
    /\ i < Len(stack) => stack[i].pc = "rest"
    /\ \A j \in DOMAIN stack : stack[i].this = stack[j].this => i = j

\* What is to be stored is neither above nor below *this.
Separate ==
  LET f == stack[1] IN
  ~Idle =>
    /\ f.fn = "reset" /\ f.arg # Null =>
         f.arg \in Objects /\ f.arg # f.this /\ f.this \notin Chain(f.arg)
    /\ f.fn = "moveAssign" =>
         /\ f.arg \in Slots /\ life[f.arg] = "live"
         /\ f.arg # f.this /\ f.this \notin Chain(f.arg) /\ f.arg \notin Chain(f.this)

IInv ==
  /\ TypeOK /\ Acyclic /\ UnbornIsEmpty
  /\ Exclusive /\ LiveIsHeld /\ HeldIsLive
  /\ DeletedIsNotLive /\ DyingOnStack /\ Frames /\ Separate

-----------------------------------------------------------------------------
LEMMA Least ==
  ASSUME NEW S, S \subseteq Nat, S # {}
  PROVE  \E n \in S : \A m \in S : n <= m
<1> DEFINE T == {0 .. n : n \in S}
<1>1. \A n \in S : 0 .. n \in FiniteSubsetsOf(Nat)
  BY FS_Interval, 0 \in Int DEF FiniteSubsetsOf
<1>2. PICK x \in T : \A y \in T : <<y, x>> \notin StrictSubsetOrdering(Nat)
  <2> HIDE DEF T
  <2>1. T # {} /\ T \subseteq FiniteSubsetsOf(Nat)
    BY <1>1 DEF T
  <2> QED 
    BY <2>1, WFMin, FS_StrictSubsetOrderingWellFounded
<1>3. PICK n \in S : x = 0 .. n
  OBVIOUS
<1>4. ASSUME NEW m \in S, m < n PROVE FALSE
  <2>1. 0 .. m \in T /\ 0 .. m \in SUBSET Nat /\ 0 .. n \in SUBSET Nat
    OBVIOUS
  <2>2. 0 .. m \subseteq 0 .. n /\ n \in 0 .. n /\ n \notin 0 .. m
    BY <1>4
  <2> QED BY <1>2, <1>3, <2>1, <2>2 DEF StrictSubsetOrdering
<1> QED BY <1>4

LEMMA NatInd ==
  ASSUME NEW S, S \subseteq Nat, 0 \in S, \A n \in S : n + 1 \in S
  PROVE S = Nat
<1> SUFFICES ASSUME Nat \ S # {} PROVE FALSE
  OBVIOUS
<1>1. PICK n \in Nat \ S : \A m \in Nat \ S : n <= m
  BY Least
<1> QED BY <1>1

\* p follows the pointers for k steps.
Path(p, k) ==
  /\ p \in [0 .. k -> Slots]
  /\ \A i \in 0 .. k - 1 : ptr[p[i]] = p[i + 1]

\* The recursion for Below has a solution: what a path of length 1 .. n reaches.
LEMMA BelowEquation ==
  ASSUME PtrOK
  PROVE  \A n \in Nat, s \in Slots :
           Below[n][s] = IF n = 0 \/ ptr[s] = Null THEN {}
                         ELSE {ptr[s]} \cup Below[n - 1][ptr[s]]
<1> DEFINE Ends(n, s) == {o \in Objects :
              \E k \in 1 .. n : \E p : Path(p, k) /\ p[0] = s /\ p[k] = o}
           F == [n \in Nat |-> [s \in Slots |-> Ends(n, s)]]
           Step(f) == [n \in Nat |-> [s \in Slots |->
              IF n = 0 \/ ptr[s] = Null THEN {} ELSE {ptr[s]} \cup f[n - 1][ptr[s]]]]
<1>1. ASSUME NEW n \in Nat, NEW s \in Slots, n = 0 \/ ptr[s] = Null
      PROVE  Ends(n, s) = {}
  <2> SUFFICES ASSUME NEW k \in 1 .. n, NEW p, Path(p, k), p[0] = s PROVE FALSE
    OBVIOUS
  <2>1. n # 0 /\ ptr[s] = p[1] /\ p[1] \in Slots
    BY DEF Path
  <2> QED
    BY <2>1, <1>1, UniquePtrAssumption DEF Slots
<1>2. ASSUME NEW n \in Nat, NEW s \in Slots, n # 0, ptr[s] # Null
      PROVE  Ends(n, s) = {ptr[s]} \cup Ends(n - 1, ptr[s])
  <2>0. ptr[s] \in Objects /\ ptr[s] \in Slots
    BY <1>2 DEF PtrOK, Slots
  <2>1. ptr[s] \in Ends(n, s)
    <3> DEFINE p == [i \in 0 .. 1 |-> IF i = 0 THEN s ELSE ptr[s]]
    <3>1. Path(p, 1) /\ p[0] = s /\ p[1] = ptr[s]
      BY <2>0 DEF Path
    <3> QED
      BY <2>0, <3>1, <1>2
  <2>2. ASSUME NEW o \in Ends(n - 1, ptr[s]) PROVE o \in Ends(n, s)
    <3>0. PICK k \in 1 .. n - 1 : \E p : Path(p, k) /\ p[0] = ptr[s] /\ p[k] = o
      OBVIOUS
    <3>1. PICK p : Path(p, k) /\ p[0] = ptr[s] /\ p[k] = o
      BY <3>0
    <3> DEFINE q == [i \in 0 .. k + 1 |-> IF i = 0 THEN s ELSE p[i - 1]]
    <3>2. q \in [0 .. k + 1 -> Slots] /\ q[0] = s /\ q[k + 1] = o
      BY <3>1 DEF Path
    <3>3. ASSUME NEW i \in 0 .. k PROVE ptr[q[i]] = q[i + 1]
      <4>1. CASE i = 0
        BY <4>1, <3>1
      <4>2. CASE i # 0
        <5>1. i - 1 \in 0 .. k - 1 /\ (i - 1) + 1 = i
          BY <4>2
        <5>2. ptr[p[i - 1]] = p[i]
          BY <5>1, <3>1 DEF Path
        <5> QED
          BY <5>1, <5>2, <4>2
      <4> QED
        BY <4>1, <4>2
    <3>4. Path(q, k + 1)
      <4>1. (k + 1) - 1 = k
        OBVIOUS
      <4> HIDE DEF q
      <4> QED
        BY <4>1, <3>2, <3>3 DEF Path
    <3>5. k + 1 \in 1 .. n /\ o \in Objects
      OBVIOUS
    <3> QED
      BY <3>2, <3>4, <3>5
  <2>3. ASSUME NEW o \in Ends(n, s), o # ptr[s] PROVE o \in Ends(n - 1, ptr[s])
    <3>0. PICK k \in 1 .. n : \E p : Path(p, k) /\ p[0] = s /\ p[k] = o
      OBVIOUS
    <3>1. PICK p : Path(p, k) /\ p[0] = s /\ p[k] = o
      BY <3>0
    <3>2. p[1] = ptr[s]
      BY <3>1 DEF Path
    <3>3. k - 1 \in 1 .. n - 1
      BY <3>1, <3>2, <2>3
    <3> DEFINE q == [i \in 0 .. k - 1 |-> p[i + 1]]
    <3>4. Path(q, k - 1) /\ q[0] = ptr[s] /\ q[k - 1] = o
      BY <3>1, <3>2, <3>3 DEF Path
    <3>5. o \in Objects
      OBVIOUS
    <3> QED
      BY <3>3, <3>4, <3>5
  <2> HIDE DEF Ends
  <2> QED
    BY <2>1, <2>2, <2>3
<1>3. F = Step(F)
  <2> DEFINE Equation(n, s) == IF n = 0 \/ ptr[s] = Null THEN {}
                               ELSE {ptr[s]} \cup F[n - 1][ptr[s]]
             Row(n) == [s \in Slots |-> Ends(n, s)]
             StepRow(n) == [s \in Slots |-> Equation(n, s)]
  <2>1. ASSUME NEW n \in Nat, NEW s \in Slots
        PROVE  Ends(n, s) = Equation(n, s)
    <3> HIDE DEF Ends
    <3>1. CASE n = 0 \/ ptr[s] = Null
      BY <1>1, <3>1
    <3>2. CASE ~(n = 0 \/ ptr[s] = Null)
      <4>1. n - 1 \in Nat /\ ptr[s] \in Slots
        BY <3>2 DEF PtrOK, Slots
      <4>2. F[n - 1][ptr[s]] = Ends(n - 1, ptr[s])
        BY <4>1
      <4>3. Ends(n, s) = {ptr[s]} \cup Ends(n - 1, ptr[s])
        BY <3>2, <1>2
      <4> HIDE DEF F
      <4> QED
        BY <3>2, <4>2, <4>3
    <3> QED
      BY <3>1, <3>2
  <2>2. ASSUME NEW n \in Nat PROVE Row(n) = StepRow(n)
    <3> HIDE DEF Ends, Equation
    <3> QED
      BY <2>1
  <2>3. F = [n \in Nat |-> Row(n)] /\ Step(F) = [n \in Nat |-> StepRow(n)]
    OBVIOUS
  <2> HIDE DEF F, Step, Row, StepRow
  <2> QED
    BY <2>2, <2>3
<1>4. Below = Step(Below)
  <2>1. \E f : f = Step(f)
    <3> HIDE DEF F, Step
    <3> QED
      BY <1>3
  <2> QED
    BY <2>1, Zenon DEF Below
<1> SUFFICES ASSUME NEW n \in Nat, NEW s \in Slots
             PROVE  Below[n][s] = IF n = 0 \/ ptr[s] = Null THEN {}
                                  ELSE {ptr[s]} \cup Below[n - 1][ptr[s]]
  OBVIOUS
<1>5. Step(Below)[n][s] = IF n = 0 \/ ptr[s] = Null THEN {}
                          ELSE {ptr[s]} \cup Below[n - 1][ptr[s]]
  OBVIOUS
<1> HIDE DEF Step
<1> QED
  BY <1>4, <1>5

LEMMA BelowInObjects ==
  ASSUME PtrOK
  PROVE  \A n \in Nat : \A s \in Slots : Below[n][s] \subseteq Objects
<1> DEFINE S == {n \in Nat : \A s \in Slots : Below[n][s] \subseteq Objects}
<1>1. 0 \in S
  BY BelowEquation
<1>2. ASSUME NEW n \in S PROVE n + 1 \in S
  <2> SUFFICES ASSUME NEW s \in Slots PROVE Below[n + 1][s] \subseteq Objects
    OBVIOUS
  <2>1. n + 1 \in Nat /\ n + 1 # 0 /\ (n + 1) - 1 = n
    OBVIOUS
  <2>2. Below[n + 1][s] = IF ptr[s] = Null THEN {} ELSE {ptr[s]} \cup Below[n][ptr[s]]
    BY <2>1, BelowEquation
  <2>3. CASE ptr[s] = Null
    BY <2>2, <2>3
  <2>4. CASE ptr[s] # Null
    <3>1. ptr[s] \in Objects /\ ptr[s] \in Slots
      BY <2>4 DEF PtrOK, Slots
    <3> QED
      BY <3>1, <2>2, <2>4
  <2> QED
    BY <2>3, <2>4
<1> HIDE DEF S
<1>3. S = Nat
  <2>1. S \subseteq Nat
    BY DEF S
  <2> QED
    BY <1>1, <1>2, <2>1, NatInd
<1> QED
  BY <1>3 DEF S

\* Nobody is below itself.
LEMMA NotBelowItself ==
  ASSUME PtrOK, AcyclicPtrs(ptr), NEW n \in Nat, NEW s \in Slots
  PROVE  s \notin Below[n][s]
<1> SUFFICES ASSUME s \in Below[n][s] PROVE FALSE
  OBVIOUS
<1> DEFINE S == {y \in Slots : \E m \in Nat : s \in Below[m][y]}
<1>1. s \in S /\ S \in SUBSET Slots
  OBVIOUS
<1>2. ASSUME NEW y \in S PROVE ptr[y] \in S
  <2>1. PICK m \in Nat : s \in Below[m][y]
    OBVIOUS
  <2>2. m # 0 /\ ptr[y] # Null /\ s \in {ptr[y]} \cup Below[m - 1][ptr[y]]
    BY <2>1, BelowEquation
  <2>3. ptr[y] \in Slots /\ m - 1 \in Nat
    BY <2>2 DEF PtrOK, Slots
  <2>4. CASE s = ptr[y]
    BY <1>1, <2>4
  <2>5. CASE s \in Below[m - 1][ptr[y]]
    BY <2>3, <2>5
  <2> QED
    BY <2>2, <2>4, <2>5
<1> QED
  <2> HIDE DEF S
  <2> QED
    BY <1>1, <1>2 DEF AcyclicPtrs

\* B has what s points to, and what its members point to.
ClosedBelow(B, s) == \A x \in B \cup {s} : ptr[x] # Null => ptr[x] \in B

\* Unless Below[n][s] is all there is below s, it has n objects at least.
LEMMA BelowClosedOrLong ==
  ASSUME PtrOK, AcyclicPtrs(ptr)
  PROVE  \A n \in Nat : \A s \in Slots :
           ClosedBelow(Below[n][s], s) \/ Cardinality(Below[n][s]) >= n
<1> DEFINE S == {n \in Nat : \A s \in Slots :
                    ClosedBelow(Below[n][s], s) \/ Cardinality(Below[n][s]) >= n}
<1>1. 0 \in S
  <2>1. \A s \in Slots : Below[0][s] = {}
    BY BelowEquation
  <2>2. Cardinality({}) >= 0
    BY FS_EmptySet
  <2> QED
    BY <2>1, <2>2
<1>2. ASSUME NEW n \in S PROVE n + 1 \in S
  <2> SUFFICES ASSUME NEW s \in Slots
               PROVE  \/ ClosedBelow(Below[n + 1][s], s)
                      \/ Cardinality(Below[n + 1][s]) >= n + 1
    OBVIOUS
  <2>1. n + 1 \in Nat /\ n + 1 # 0 /\ (n + 1) - 1 = n
    OBVIOUS
  <2>2. Below[n + 1][s] = IF ptr[s] = Null THEN {} ELSE {ptr[s]} \cup Below[n][ptr[s]]
    BY <2>1, BelowEquation, ZenonT(30)
  <2>3. CASE ptr[s] = Null
    BY <2>2, <2>3 DEF ClosedBelow
  <2>4. CASE ptr[s] # Null
    <3> DEFINE o == ptr[s]
               B == Below[n][o]
    <3>1. o \in Objects /\ o \in Slots
      BY <2>4 DEF PtrOK, Slots
    <3>2. Below[n + 1][s] = B \cup {o}
      BY <2>2, <2>4
    <3>3. CASE ClosedBelow(B, o)
      BY <3>1, <3>2, <3>3 DEF ClosedBelow
    <3>4. CASE Cardinality(B) >= n
      <4>1. IsFiniteSet(B)
        BY <3>1, BelowInObjects, FS_Subset, UniquePtrAssumption
      <4>2. o \notin B
        BY <3>1, NotBelowItself
      <4>3. Cardinality(B \cup {o}) = Cardinality(B) + 1 /\ Cardinality(B) \in Nat
        BY <4>1, <4>2, FS_AddElement, FS_CardinalityType
      <4> HIDE DEF B, o
      <4> QED
        BY <3>2, <3>4, <4>3
    <3> QED
      BY <3>1, <3>3, <3>4
  <2> QED
    BY <2>3, <2>4
<1> HIDE DEF S
<1>3. S = Nat
  <2>1. S \subseteq Nat
    BY DEF S
  <2> QED
    BY <1>1, <1>2, <2>1, NatInd
<1> QED
  BY <1>3 DEF S

\* The chain of s has all that is below s, and not s itself.
LEMMA ChainClosed ==
  ASSUME PtrOK, AcyclicPtrs(ptr), NEW s \in Slots
  PROVE  Chain(s) \subseteq Objects /\ s \notin Chain(s) /\ ClosedBelow(Chain(s), s)
<1> DEFINE n == Cardinality(Objects)
<1>1. n \in Nat
  BY FS_CardinalityType, UniquePtrAssumption
<1>2. Chain(s) \subseteq Objects /\ s \notin Chain(s)
  BY <1>1, BelowInObjects, NotBelowItself DEF Chain
<1>3. CASE Cardinality(Chain(s)) >= n
  <2>1. Chain(s) = Objects
    <3>1. IsFiniteSet(Chain(s)) /\ Cardinality(Chain(s)) <= n
      BY <1>2, FS_Subset, UniquePtrAssumption
    <3>2. Cardinality(Chain(s)) = n
      BY <1>1, <1>3, <3>1, FS_CardinalityType
    <3> QED
      BY <1>2, <3>2, FS_Subset, UniquePtrAssumption
  <2> QED
    BY <1>2, <2>1 DEF ClosedBelow, PtrOK, Slots
<1> QED
  BY <1>1, <1>2, <1>3, BelowClosedOrLong DEF Chain

-----------------------------------------------------------------------------
(* Assignments that keep the pointers acyclic.                             *)

PtrFns == [Slots -> Objects \cup {Null}]

LEMMA ClearedAcyclic ==
  ASSUME NEW f \in PtrFns, AcyclicPtrs(f), NEW s \in Slots
  PROVE  /\ [f EXCEPT ![s] = Null] \in PtrFns
         /\ AcyclicPtrs([f EXCEPT ![s] = Null])
<1> DEFINE g == [f EXCEPT ![s] = Null]
<1>1. g \in PtrFns
  BY DEF PtrFns
<1>2. ASSUME NEW S \in SUBSET Slots, S # {}, \A x \in S : g[x] \in S PROVE FALSE
  <2>1. Null \notin S
    BY UniquePtrAssumption DEF Slots
  <2>2. \A x \in S : f[x] \in S
    BY <1>2, <2>1 DEF PtrFns
  <2> QED
    BY <1>2, <2>2 DEF AcyclicPtrs
<1> QED
  BY <1>1, <1>2 DEF AcyclicPtrs

\* s may point to p if a set that is closed under the pointers has p and not s.
LEMMA LinkedAcyclic ==
  ASSUME NEW f \in PtrFns, AcyclicPtrs(f), NEW s \in Slots, NEW p \in Objects,
         NEW C \in SUBSET Slots, p \in C, s \notin C,
         \A x \in C : f[x] # Null => f[x] \in C
  PROVE  /\ [f EXCEPT ![s] = p] \in PtrFns
         /\ AcyclicPtrs([f EXCEPT ![s] = p])
<1> DEFINE g == [f EXCEPT ![s] = p]
<1>1. g \in PtrFns
  BY DEF PtrFns
<1>2. ASSUME NEW S \in SUBSET Slots, S # {}, \A x \in S : g[x] \in S PROVE FALSE
  <2>1. Null \notin S
    BY UniquePtrAssumption DEF Slots
  <2>2. CASE s \notin S
    <3>1. \A x \in S : f[x] \in S
      BY <1>2, <2>2 DEF PtrFns
    <3> QED
      BY <1>2, <3>1 DEF AcyclicPtrs
  <2>3. CASE s \in S
    <3> DEFINE D == S \cap C
    <3>1. p \in D
      BY <1>2, <2>3 DEF PtrFns
    <3>2. \A x \in D : f[x] \in D
      BY <1>2, <2>1 DEF PtrFns
    <3> QED
      BY <3>1, <3>2 DEF AcyclicPtrs
  <2> QED
    BY <2>2, <2>3
<1> QED
  BY <1>1, <1>2 DEF AcyclicPtrs

\* Nobody points to a variable, which may point to anything.
LEMMA RootLinkedAcyclic ==
  ASSUME NEW f \in PtrFns, AcyclicPtrs(f), NEW s \in Roots, NEW p \in Objects \cup {Null}
  PROVE  /\ [f EXCEPT ![s] = p] \in PtrFns
         /\ AcyclicPtrs([f EXCEPT ![s] = p])
<1>1. s \in Slots
  BY DEF Slots
<1>2. CASE p = Null
  BY <1>1, <1>2, ClearedAcyclic
<1>3. CASE p \in Objects
  <2> DEFINE C == Objects
  <2>1. C \in SUBSET Slots /\ s \notin C /\ \A x \in C : f[x] # Null => f[x] \in C
    BY UniquePtrAssumption DEF Slots, PtrFns
  <2> HIDE DEF C
  <2>2. p \in C
    BY <1>3 DEF C
  <2> QED
    BY <1>1, <1>3, <2>1, <2>2, LinkedAcyclic
<1> QED
  BY <1>2, <1>3

-----------------------------------------------------------------------------
(* Calls of one step.                                                      *)

\* Between calls nothing is being destroyed.
LEMMA IdleState ==
  ASSUME IInv, Idle
  PROVE  /\ \A s \in Slots : life[s] # "dying" /\ ~Behind(s)
         /\ NewPtr = Null
         /\ \A s \in Slots : Holds(s) = IF life[s] = "live" THEN ptr[s] ELSE Null
         /\ ptr \in PtrFns
<1>1. DOMAIN stack = {}
  BY DEF Idle
<1>2. \A s \in Slots : life[s] # "dying" /\ ~Behind(s)
  BY <1>1 DEF IInv, DyingOnStack, Behind
<1> QED
  BY <1>2 DEF NewPtr, Holds, IInv, TypeOK, PtrFns

\* What the invariant says of a stack without frames.
LEMMA IdleRest ==
  ASSUME Idle
  PROVE  /\ DeletedIsNotLive /\ Frames /\ Separate /\ NewPtr = Null
         /\ stack \in Seq([fn : {"reset", "moveAssign", "destroy"}, pc : {"delete", "rest"},
                           this : Slots, arg : Slots \cup {Null}])
<1>1. DOMAIN stack = {} /\ stack = <<>>
  BY DEF Idle
<1> QED
  BY <1>1 DEF DeletedIsNotLive, Frames, Separate, NewPtr, Idle

LEMMA InitInv == Init => IInv
<1> SUFFICES ASSUME Init PROVE IInv
  OBVIOUS
<1>1. Idle /\ DeletedIsNotLive /\ Frames /\ Separate /\ NewPtr = Null
  BY IdleRest DEF Init, Idle
<1>2. TypeOK
  BY <1>1, IdleRest DEF Init, TypeOK
<1>3. Acyclic
  <2> SUFFICES ASSUME NEW S \in SUBSET Slots, S # {} PROVE \E s \in S : ptr[s] \notin S
    BY DEF Acyclic, AcyclicPtrs
  <2> QED
    BY UniquePtrAssumption DEF Init, Slots
<1>4. \A s \in Slots : Holds(s) = Null
  BY DEF Init, Holds
<1>5. UnbornIsEmpty /\ LiveIsHeld /\ DyingOnStack
  BY DEF Init, UnbornIsEmpty, LiveIsHeld, DyingOnStack, Slots
<1>6. Exclusive /\ HeldIsLive
  BY <1>1, <1>4, UniquePtrAssumption DEF Init, Exclusive, HeldIsLive
<1> QED
  BY <1>1, <1>2, <1>3, <1>5, <1>6 DEF IInv

\* A call that begins and ends with an empty stack
LEMMA QuietCall ==
  ASSUME Idle, UNCHANGED stack
  PROVE  DeletedIsNotLive' /\ Frames' /\ Separate' /\ NewPtr' = Null
<1>1. DOMAIN stack' = {} /\ stack' = <<>>
  BY DEF Idle
<1> QED
  BY <1>1 DEF DeletedIsNotLive, Frames, Separate, NewPtr, Idle

LEMMA NewKeeps ==
  ASSUME IInv, NEW o \in Objects, New(o)
  PROVE  IInv'
<1> USE DEF New
<1>2. DeletedIsNotLive' /\ Frames' /\ Separate' /\ NewPtr' = Null
  BY QuietCall
<1>3. o \in Slots /\ ptr[o] = Null /\ Null \notin Objects
  BY UniquePtrAssumption DEF IInv, UnbornIsEmpty, Slots
<1>4. \A s \in Slots : Holds(s)' = Holds(s)
  BY <1>3, IdleState DEF Holds, IInv, TypeOK
<1>5. TypeOK'
  BY <1>3 DEF IInv, TypeOK
<1>6. Acyclic' /\ UnbornIsEmpty'
  BY <1>3 DEF IInv, TypeOK, Acyclic, UnbornIsEmpty
<1>7. Exclusive'
  BY <1>2, <1>3, <1>4, IdleState DEF IInv, Exclusive, HeldIsLive
<1>8. LiveIsHeld'
  BY <1>2, <1>3, <1>4, IdleState DEF IInv, TypeOK, LiveIsHeld
<1>9. HeldIsLive' /\ DyingOnStack'
  BY <1>2, <1>3, <1>4, IdleState DEF IInv, TypeOK, HeldIsLive, DyingOnStack
<1> QED
  BY <1>2, <1>5, <1>6, <1>7, <1>8, <1>9 DEF IInv

LEMMA ConstructKeeps ==
  ASSUME IInv, NEW s \in Roots, NEW p \in raw \cup {Null}, Construct(s, p)
  PROVE  IInv'
<1> USE DEF Construct, Fresh
<1>1. DeletedIsNotLive' /\ Frames' /\ Separate' /\ NewPtr' = Null
  BY QuietCall
<1>2. s \in Slots /\ p \in Objects \cup {Null} /\ raw \subseteq Objects /\ Null \notin Objects
  BY UniquePtrAssumption DEF IInv, TypeOK, Slots
<1>3. \A x \in Slots : Holds(x)' = IF x = s THEN p ELSE Holds(x)
  BY <1>2 DEF Holds, IInv, TypeOK
<1>4. TypeOK'
  BY <1>2 DEF IInv, TypeOK
<1>5. Acyclic'
  BY <1>2, IdleState, RootLinkedAcyclic DEF IInv, Acyclic
<1>6. UnbornIsEmpty'
  BY <1>2 DEF IInv, TypeOK, UnbornIsEmpty
<1>7. Exclusive'
  BY <1>1, <1>2, <1>3, IdleState DEF IInv, Exclusive
<1>8. LiveIsHeld'
  BY <1>1, <1>2, <1>3, IdleState, UniquePtrAssumption DEF IInv, TypeOK, LiveIsHeld
<1>9. HeldIsLive' /\ DyingOnStack'
  BY <1>1, <1>2, <1>3, IdleState DEF IInv, TypeOK, HeldIsLive, DyingOnStack
<1> QED
  BY <1>1, <1>4, <1>5, <1>6, <1>7, <1>8, <1>9 DEF IInv

LEMMA MakeUniqueKeeps ==
  ASSUME IInv, NEW s \in Roots, NEW o \in Objects, MakeUnique(s, o)
  PROVE  IInv'
<1> USE DEF MakeUnique, Fresh
<1>1. DeletedIsNotLive' /\ Frames' /\ Separate' /\ NewPtr' = Null
  BY QuietCall
<1>2. s \in Slots /\ o \in Slots /\ s # o /\ Null \notin Objects /\ ptr[o] = Null
  BY UniquePtrAssumption DEF IInv, UnbornIsEmpty, Slots
<1>3. \A x \in Slots : Holds(x)' = IF x = s THEN o ELSE Holds(x)
  BY <1>2 DEF Holds, IInv, TypeOK
<1>4. o \notin raw /\ \A x \in Slots : Holds(x) # o
  BY <1>2, IdleState DEF IInv, HeldIsLive
<1>5. TypeOK'
  BY <1>2 DEF IInv, TypeOK
<1>6. Acyclic'
  BY <1>2, IdleState, RootLinkedAcyclic DEF IInv, Acyclic
<1>7. UnbornIsEmpty'
  BY <1>2 DEF IInv, TypeOK, UnbornIsEmpty
<1>8. Exclusive'
  BY <1>1, <1>2, <1>3, <1>4, IdleState DEF IInv, Exclusive
<1>9. LiveIsHeld'
  <2> SUFFICES ASSUME NEW q \in Objects, life'[q] = "live"
               PROVE  q \in raw' \/ \E x \in Slots : Holds(x)' = q
    BY DEF LiveIsHeld
  <2>1. CASE q = o
    BY <1>2, <1>3, <2>1
  <2>2. CASE q # o
    <3>1. life[q] = "live" /\ Holds(s) = Null /\ NewPtr = Null
      BY <1>2, <2>2, IdleState, UniquePtrAssumption DEF IInv, TypeOK, Slots
    <3>2. q \in raw \/ \E x \in Slots : Holds(x) = q
      BY <1>2, <3>1 DEF IInv, LiveIsHeld
    <3> QED
      BY <1>2, <1>3, <3>1, <3>2
  <2> QED
    BY <2>1, <2>2
<1>10. HeldIsLive' /\ DyingOnStack'
  BY <1>1, <1>2, <1>3, IdleState DEF IInv, TypeOK, HeldIsLive, DyingOnStack, Slots
<1> QED
  BY <1>1, <1>5, <1>6, <1>7, <1>8, <1>9, <1>10 DEF IInv

LEMMA MoveConstructKeeps ==
  ASSUME IInv, NEW s \in Roots, NEW other \in Slots, MoveConstruct(s, other)
  PROVE  IInv'
<1> USE DEF MoveConstruct, Fresh, Usable
<1>1. DeletedIsNotLive' /\ Frames' /\ Separate' /\ NewPtr' = Null
  BY QuietCall
<1>2. s \in Slots /\ s # other /\ Null \notin Objects /\ ptr[other] \in Objects \cup {Null}
  BY UniquePtrAssumption DEF IInv, TypeOK, Slots
<1>3. \A x \in Slots :
        Holds(x)' = IF x = s THEN ptr[other] ELSE IF x = other THEN Null ELSE Holds(x)
  BY <1>2 DEF Holds, IInv, TypeOK
<1>4. TypeOK'
  BY <1>2 DEF IInv, TypeOK
<1>5. Acyclic'
  <2> DEFINE g == [ptr EXCEPT ![s] = ptr[other]]
  <2>1. g \in PtrFns /\ AcyclicPtrs(g)
    BY <1>2, IdleState, RootLinkedAcyclic DEF IInv, Acyclic
  <2>2. ptr' = [g EXCEPT ![other] = Null]
    BY <1>2 DEF IInv, TypeOK
  <2> HIDE DEF g
  <2> QED
    BY <2>1, <2>2, ClearedAcyclic DEF Acyclic
<1>6. UnbornIsEmpty'
  BY <1>2 DEF IInv, TypeOK, UnbornIsEmpty
<1>7. Exclusive'
  BY <1>1, <1>2, <1>3, IdleState DEF IInv, Exclusive
<1>8. LiveIsHeld'
  BY <1>1, <1>2, <1>3, IdleState, UniquePtrAssumption DEF IInv, TypeOK, LiveIsHeld
<1>9. HeldIsLive' /\ DyingOnStack'
  BY <1>1, <1>2, <1>3, IdleState DEF IInv, TypeOK, HeldIsLive, DyingOnStack
<1> QED
  BY <1>1, <1>4, <1>5, <1>6, <1>7, <1>8, <1>9 DEF IInv

LEMMA ReleaseKeeps ==
  ASSUME IInv, NEW s \in Slots, Release(s)
  PROVE  IInv'
<1> USE DEF Release, Usable
<1>1. DeletedIsNotLive' /\ Frames' /\ Separate' /\ NewPtr' = Null
  BY QuietCall
<1>2. Null \notin Objects /\ ptr[s] \in Objects \cup {Null}
  BY UniquePtrAssumption DEF IInv, TypeOK
<1>3. \A x \in Slots : Holds(x)' = IF x = s THEN Null ELSE Holds(x)
  BY <1>2 DEF Holds, IInv, TypeOK
<1>4. TypeOK'
  BY <1>2 DEF IInv, TypeOK
<1>5. Acyclic'
  BY <1>2, IdleState, ClearedAcyclic DEF IInv, Acyclic
<1>6. UnbornIsEmpty'
  BY <1>2 DEF IInv, TypeOK, UnbornIsEmpty
<1>7. Exclusive'
  BY <1>1, <1>2, <1>3, IdleState DEF IInv, TypeOK, Exclusive
<1>8. LiveIsHeld'
  BY <1>1, <1>2, <1>3, IdleState DEF IInv, TypeOK, LiveIsHeld
<1>9. HeldIsLive' /\ DyingOnStack'
  BY <1>1, <1>2, <1>3, IdleState DEF IInv, TypeOK, HeldIsLive, DyingOnStack
<1> QED
  BY <1>1, <1>4, <1>5, <1>6, <1>7, <1>8, <1>9 DEF IInv

\* Two chains that are not part of each other are exchanged.
LEMMA SwappedAcyclic ==
  ASSUME PtrOK, Acyclic, NEW s \in Slots, NEW other \in Slots, s # other,
         s \notin Chain(other), other \notin Chain(s)
  PROVE  AcyclicPtrs([ptr EXCEPT ![s] = ptr[other], ![other] = ptr[s]])
<1> DEFINE f == [[ptr EXCEPT ![s] = Null] EXCEPT ![other] = Null]
           g == [f EXCEPT ![s] = ptr[other]]
           h == [g EXCEPT ![other] = ptr[s]]
<1>1. f \in PtrFns /\ AcyclicPtrs(f)
  BY ClearedAcyclic DEF PtrOK, PtrFns, Acyclic
<1>2. \A x \in {s, other} : /\ Chain(x) \subseteq Objects /\ x \notin Chain(x)
                            /\ ClosedBelow(Chain(x), x)
  BY ChainClosed DEF Acyclic
<1>3. \A x \in Slots : f[x] = IF x \in {s, other} THEN Null ELSE ptr[x]
  BY DEF PtrOK
<1>4. g \in PtrFns /\ AcyclicPtrs(g)
  <2>1. CASE ptr[other] = Null
    BY <1>1, <2>1, ClearedAcyclic
  <2>2. CASE ptr[other] # Null
    <3> DEFINE C == Chain(other)
    <3>1. ptr[other] \in Objects /\ ptr[other] \in C
      BY <1>2, <2>2 DEF ClosedBelow, PtrOK
    <3>2. C \in SUBSET Slots /\ s \notin C /\ \A x \in C : f[x] # Null => f[x] \in C
      BY <1>2, <1>3 DEF ClosedBelow, Slots
    <3> HIDE DEF C, f
    <3> QED
      BY <1>1, <3>1, <3>2, LinkedAcyclic
  <2> QED
    BY <2>1, <2>2
<1>5. \A x \in Slots : g[x] = IF x = s THEN ptr[other] ELSE f[x]
  BY <1>1 DEF PtrFns
<1>6. AcyclicPtrs(h)
  <2>1. CASE ptr[s] = Null
    <3> HIDE DEF g
    <3> QED
      BY <1>4, <2>1, ClearedAcyclic
  <2>2. CASE ptr[s] # Null
    <3> DEFINE C == Chain(s)
    <3>1. ptr[s] \in Objects /\ ptr[s] \in C
      BY <1>2, <2>2 DEF ClosedBelow, PtrOK
    <3>2. C \in SUBSET Slots /\ other \notin C /\ \A x \in C : g[x] # Null => g[x] \in C
      BY <1>2, <1>3, <1>5 DEF ClosedBelow, Slots
    <3> HIDE DEF C, g
    <3> QED
      BY <1>4, <3>1, <3>2, LinkedAcyclic
  <2> QED
    BY <2>1, <2>2
<1>7. h = [ptr EXCEPT ![s] = ptr[other], ![other] = ptr[s]]
  BY DEF PtrOK
<1> QED
  BY <1>6, <1>7

LEMMA SwapKeeps ==
  ASSUME IInv, NEW s \in Slots, NEW other \in Slots, Swap(s, other)
  PROVE  IInv'
<1> USE DEF Swap, Usable
<1>1. DeletedIsNotLive' /\ Frames' /\ Separate' /\ NewPtr' = Null
  BY QuietCall
<1>2. Null \notin Objects /\ ptr[s] \in Objects \cup {Null} /\ ptr[other] \in Objects \cup {Null}
  BY UniquePtrAssumption DEF IInv, TypeOK
<1>3. \A x \in Slots :
        Holds(x)' = IF x = s THEN ptr[other] ELSE IF x = other THEN ptr[s] ELSE Holds(x)
  BY <1>2 DEF Holds, IInv, TypeOK
<1>4. TypeOK'
  BY <1>2 DEF IInv, TypeOK
<1>5. Acyclic'
  <2>1. CASE s = other
    <3>1. ptr' = ptr
      BY <2>1 DEF IInv, TypeOK
    <3> QED
      BY <3>1 DEF IInv, Acyclic
  <2>2. CASE s # other
    <3>1. PtrOK /\ Acyclic
      BY DEF IInv, TypeOK, PtrOK
    <3> QED
      BY <2>2, <3>1, SwappedAcyclic DEF Acyclic
  <2> QED
    BY <2>1, <2>2
<1>6. UnbornIsEmpty'
  BY <1>2 DEF IInv, TypeOK, UnbornIsEmpty
<1>7. Exclusive'
  BY <1>1, <1>2, <1>3, IdleState DEF IInv, Exclusive
<1>8. LiveIsHeld'
  BY <1>1, <1>2, <1>3, IdleState, UniquePtrAssumption DEF IInv, TypeOK, LiveIsHeld
<1>9. HeldIsLive' /\ DyingOnStack'
  BY <1>1, <1>2, <1>3, IdleState DEF IInv, TypeOK, HeldIsLive, DyingOnStack
<1> QED
  BY <1>1, <1>4, <1>5, <1>6, <1>7, <1>8, <1>9 DEF IInv

-----------------------------------------------------------------------------
(* Calls that delete.                                                      *)

FrameSet == [fn : {"reset", "moveAssign", "destroy"}, pc : {"delete", "rest"},
             this : Slots, arg : Slots \cup {Null}]

\* Chain depends on the pointers only.
LEMMA ChainUnchanged ==
  ASSUME UNCHANGED ptr, NEW s \in Slots
  PROVE  Chain(s)' = Chain(s)
  BY DEF Chain, Below

\* The stack of a call that begins: nothing is deleted or dying yet.
LEMMA CallBegun ==
  ASSUME IInv, Idle, NEW fn, NEW this \in Slots, NEW arg \in Slots \cup {Null},
         fn \in {"reset", "moveAssign", "destroy"}, Call(fn, this, arg)
  PROVE  /\ DOMAIN stack' = {1} /\ stack'[1] = Frame(fn, this, arg) /\ ~Idle' /\ Len(stack') = 1
         /\ stack' \in Seq(FrameSet)
         /\ ptr' = ptr /\ Acyclic' /\ DeletedIsNotLive'
         /\ NewPtr' = IF fn = "reset" THEN arg ELSE Null
<1>1. /\ DOMAIN stack' = {1} /\ stack'[1] = Frame(fn, this, arg) /\ ~Idle' /\ Len(stack') = 1
      /\ ptr' = ptr
  BY DEF Call, Idle, Frame
<1>2. Frame(fn, this, arg) \in FrameSet
  BY DEF Frame, FrameSet
<1>3. stack' \in Seq(FrameSet)
  BY <1>2 DEF Call
<1>4. Acyclic'
  BY <1>1 DEF IInv, Acyclic
<1> QED
  BY <1>1, <1>3, <1>4 DEF Frame, DeletedIsNotLive, NewPtr, Idle

LEMMA ResetKeeps ==
  ASSUME IInv, NEW s \in Slots, NEW p \in raw \cup {Null}, Reset(s, p)
  PROVE  IInv'
<1> USE DEF Reset, Usable
<1>1. raw \subseteq Objects /\ Null \notin Slots /\ p \in Slots \cup {Null}
  BY UniquePtrAssumption DEF IInv, TypeOK, Slots
<1>2. /\ DOMAIN stack' = {1} /\ stack'[1] = Frame("reset", s, p) /\ ~Idle' /\ Len(stack') = 1
      /\ stack' \in Seq(FrameSet)
      /\ ptr' = ptr /\ Acyclic' /\ DeletedIsNotLive' /\ NewPtr' = p
  BY <1>1, CallBegun
<1>3. TypeOK'
  BY <1>2 DEF IInv, TypeOK, FrameSet
<1>4. \A x \in Slots : Holds(x)' = Holds(x)
  BY <1>2 DEF Holds
<1>5. UnbornIsEmpty' /\ DyingOnStack'
  BY <1>2, IdleState DEF IInv, UnbornIsEmpty, DyingOnStack
<1>6. Exclusive'
  BY <1>2, <1>4, IdleState DEF IInv, Exclusive
<1>7. LiveIsHeld'
  <2> SUFFICES ASSUME NEW q \in Objects, life[q] = "live"
               PROVE  q \in raw' \/ q = NewPtr' \/ \E x \in Slots : Holds(x)' = q
    BY DEF LiveIsHeld
  <2>1. q \in raw \/ \E x \in Slots : Holds(x) = q
    BY UniquePtrAssumption, IdleState DEF IInv, LiveIsHeld
  <2> QED
    BY <1>2, <1>4, <2>1
<1>8. HeldIsLive'
  BY <1>1, <1>2, <1>4, IdleState DEF IInv, HeldIsLive
<1>9. Frames' /\ Separate'
  BY <1>1, <1>2, ChainUnchanged DEF Frames, Separate, Frame
<1> QED
  BY <1>2, <1>3, <1>5, <1>6, <1>7, <1>8, <1>9 DEF IInv

LEMMA MoveAssignKeeps ==
  ASSUME IInv, NEW s \in Slots, NEW other \in Slots, AssignFromOutside(s, other)
  PROVE  IInv'
<1> USE DEF AssignFromOutside, MoveAssign, Usable
<1>1. Null \notin Slots
  BY UniquePtrAssumption DEF Slots
<1>2. /\ DOMAIN stack' = {1} /\ stack'[1] = Frame("moveAssign", s, other) /\ ~Idle'
      /\ Len(stack') = 1 /\ stack' \in Seq(FrameSet)
      /\ ptr' = ptr /\ Acyclic' /\ DeletedIsNotLive' /\ NewPtr' = Null
  BY CallBegun
<1>3. TypeOK'
  BY <1>2 DEF IInv, TypeOK, FrameSet
<1>4. \A x \in Slots : Holds(x)' = Holds(x)
  BY <1>2 DEF Holds
<1>5. UnbornIsEmpty' /\ DyingOnStack'
  BY <1>2, IdleState DEF IInv, UnbornIsEmpty, DyingOnStack
<1>6. Exclusive' /\ LiveIsHeld' /\ HeldIsLive'
  BY <1>2, <1>4, IdleState DEF IInv, Exclusive, LiveIsHeld, HeldIsLive
<1>7. Frames' /\ Separate'
  BY <1>1, <1>2, ChainUnchanged DEF Frames, Separate, Frame
<1> QED
  BY <1>2, <1>3, <1>5, <1>6, <1>7 DEF IInv

LEMMA DestroyKeeps ==
  ASSUME IInv, NEW s \in Slots, Destroy(s)
  PROVE  IInv'
<1> USE DEF Destroy, Usable
<1>1. Null \notin Slots /\ raw \subseteq Objects
  BY UniquePtrAssumption DEF IInv, TypeOK, Slots
<1>2. /\ DOMAIN stack' = {1} /\ stack'[1] = Frame("destroy", s, Null) /\ ~Idle'
      /\ Len(stack') = 1 /\ stack' \in Seq(FrameSet)
      /\ ptr' = ptr /\ Acyclic' /\ DeletedIsNotLive' /\ NewPtr' = Null
  BY CallBegun
<1>3. TypeOK'
  BY <1>2 DEF IInv, TypeOK, FrameSet
<1>4. \A x \in Slots : Holds(x)' = Holds(x)
  BY <1>2 DEF Holds, IInv, TypeOK
<1>5. UnbornIsEmpty' /\ DyingOnStack'
  BY <1>2, IdleState DEF IInv, TypeOK, UnbornIsEmpty, DyingOnStack, Frame
<1>6. Exclusive'
  BY <1>2, <1>4, IdleState DEF IInv, Exclusive
<1>7. LiveIsHeld'
  BY <1>2, <1>4, IdleState DEF IInv, TypeOK, LiveIsHeld
<1>8. HeldIsLive'
  \* Nobody holds s: it is a variable, or the program's raw pointer.
  <2>1. \A x \in Slots : Holds(x) # s
    BY <1>1, UniquePtrAssumption, IdleState DEF IInv, TypeOK, Exclusive, PtrFns
  <2> QED
    BY <1>1, <1>2, <1>4, <2>1, IdleState DEF IInv, TypeOK, HeldIsLive
<1>9. Frames' /\ Separate'
  BY <1>1, <1>2, ChainUnchanged DEF IInv, TypeOK, Frames, Separate, Frame
<1> QED
  BY <1>2, <1>3, <1>5, <1>6, <1>7, <1>8, <1>9 DEF IInv

-----------------------------------------------------------------------------
(* The steps of these calls.                                               *)

\* The frame on top: it is alone in using its slot, and whatever it is about
\* to delete is below the slot of the bottom frame.
LEMMA TopFrame ==
  ASSUME IInv, ~Idle
  PROVE  /\ Len(stack) \in Nat /\ Len(stack) # 0 /\ DOMAIN stack = 1 .. Len(stack)
         /\ \A i \in DOMAIN stack : stack[i] \in FrameSet
         /\ life[Top.this] = IF Top.fn = "destroy" THEN "dying" ELSE "live"
         /\ Top.pc = "delete" => ~Behind(Top.this)
         /\ ptr[Top.this] # Null => ptr[Top.this] \in Chain(stack[1].this)
         /\ Chain(stack[1].this) \subseteq Objects /\ stack[1].this \notin Chain(stack[1].this)
<1>1. stack \in Seq(FrameSet) /\ stack # <<>>
  BY DEF IInv, TypeOK, FrameSet, Idle
<1>2. /\ Len(stack) \in Nat /\ Len(stack) # 0 /\ DOMAIN stack = 1 .. Len(stack)
      /\ \A i \in DOMAIN stack : stack[i] \in FrameSet
  BY <1>1
<1>3. Top \in FrameSet /\ Top.this \in Slots /\ stack[1].this \in Slots
  BY <1>2 DEF Top, FrameSet
<1>4. life[Top.this] = IF Top.fn = "destroy" THEN "dying" ELSE "live"
  BY <1>2 DEF IInv, Frames, Top
<1>5. Top.pc = "delete" => ~Behind(Top.this)
  BY <1>2 DEF IInv, Frames, Top, Behind
<1>6. /\ Chain(stack[1].this) \subseteq Objects /\ stack[1].this \notin Chain(stack[1].this)
      /\ ClosedBelow(Chain(stack[1].this), stack[1].this)
  BY <1>3, ChainClosed DEF IInv, TypeOK, PtrOK, Acyclic
<1>7. Len(stack) = 1 \/ Top.this \in Chain(stack[1].this)
  BY <1>2 DEF IInv, Frames, Top
<1>8. ptr[Top.this] # Null => ptr[Top.this] \in Chain(stack[1].this)
  BY <1>6, <1>7 DEF ClosedBelow, Top
<1> QED
  BY <1>2, <1>4, <1>5, <1>6, <1>8

\* delete of a null pointer
LEMMA DeleteNullKeeps ==
  ASSUME IInv, Delete, ptr[Top.this] = Null
  PROVE  IInv'
<1> DEFINE n == Len(stack)
<1>1. ~Idle /\ Top.pc = "delete" /\ UNCHANGED <<ptr, life, raw>>
      /\ stack' = [stack EXCEPT ![n].pc = "rest"]
  BY DEF Delete
<1>2. /\ n \in Nat /\ n # 0 /\ DOMAIN stack = 1 .. n
      /\ \A i \in DOMAIN stack : stack[i] \in FrameSet
  BY <1>1, TopFrame
<1>3. /\ stack' \in Seq(FrameSet) /\ DOMAIN stack' = 1 .. n /\ Len(stack') = n /\ ~Idle'
      /\ \A i \in 1 .. n :
           stack'[i] = IF i = n THEN [stack[i] EXCEPT !.pc = "rest"] ELSE stack[i]
  BY <1>1, <1>2 DEF IInv, TypeOK, FrameSet, Idle
<1>4. \A i \in 1 .. n : /\ stack'[i].this = stack[i].this /\ stack'[i].fn = stack[i].fn
                        /\ stack'[i].arg = stack[i].arg
                        /\ stack'[i].pc = IF i = n THEN "rest" ELSE stack[i].pc
  BY <1>2, <1>3 DEF FrameSet
<1> HIDE DEF n
<1>5. TypeOK'
  BY <1>1, <1>3 DEF IInv, TypeOK, FrameSet
<1>6. \A x \in Slots : Holds(x)' = Holds(x)
  BY <1>1 DEF Holds
<1>7. NewPtr' = NewPtr
  BY <1>1, <1>2, <1>3, <1>4 DEF NewPtr
<1>8. Acyclic' /\ UnbornIsEmpty' /\ Exclusive' /\ LiveIsHeld'
  BY <1>1, <1>6, <1>7 DEF IInv, Acyclic, UnbornIsEmpty, Exclusive, LiveIsHeld
<1>9. \A x \in Slots : Behind(x) => Behind(x)'
  BY <1>2, <1>3, <1>4 DEF Behind
<1>10. HeldIsLive'
  BY <1>1, <1>6, <1>7, <1>9 DEF IInv, HeldIsLive
<1>11. DeletedIsNotLive'
  BY <1>1, <1>2, <1>3, <1>4 DEF IInv, DeletedIsNotLive, Top, n
<1>12. DyingOnStack'
  BY <1>1, <1>2, <1>3, <1>4 DEF IInv, DyingOnStack
<1>13. \A s \in Slots : Chain(s)' = Chain(s)
  BY <1>1, ChainUnchanged
<1>14. Frames'
  <2>1. \A i \in 1 .. n : stack[i].this \in Slots
    BY <1>2 DEF FrameSet
  <2> QED
    BY <1>1, <1>2, <1>3, <1>4, <1>13, <2>1 DEF IInv, Frames, n
<1>15. Separate'
  <2>1. stack[1].this \in Slots /\ stack[1].arg \in Slots \cup {Null}
    BY <1>2 DEF FrameSet
  <2> QED
    BY <1>1, <1>2, <1>3, <1>4, <1>13, <2>1 DEF IInv, Separate, Slots
<1> QED
  BY <1>5, <1>8, <1>10, <1>11, <1>12, <1>14, <1>15 DEF IInv

\* delete of an object: its destructor is the new top frame.
LEMMA DeleteObjectKeeps ==
  ASSUME IInv, Delete, ptr[Top.this] # Null
  PROVE  IInv'
<1> DEFINE n == Len(stack)
           o == ptr[Top.this]
           behind == [stack EXCEPT ![n].pc = "rest"]
<1>1. /\ ~Idle /\ Top.pc = "delete" /\ UNCHANGED <<ptr, raw>>
      /\ stack' = Append(behind, Frame("destroy", o, Null))
      /\ life' = [life EXCEPT ![o] = "dying"]
  BY DEF Delete
<1>2. /\ n \in Nat /\ n # 0 /\ DOMAIN stack = 1 .. n
      /\ \A i \in DOMAIN stack : stack[i] \in FrameSet
      /\ o \in Objects /\ o \in Chain(stack[1].this) /\ o # stack[1].this
  BY <1>1, TopFrame
<1>3. Top.this \in Slots /\ o \in Slots /\ Null \notin Slots
  BY <1>2, UniquePtrAssumption DEF Top, FrameSet, Slots
<1>4. Holds(Top.this) = o
  BY <1>1, <1>3, TopFrame DEF Holds
<1>5. life[o] = "live"
  BY <1>1, <1>2, <1>3, <1>4, TopFrame, UniquePtrAssumption DEF IInv, HeldIsLive
<1>6. /\ stack' \in Seq(FrameSet) /\ DOMAIN stack' = 1 .. n + 1 /\ Len(stack') = n + 1 /\ ~Idle'
      /\ stack'[n + 1] = Frame("destroy", o, Null)
      /\ \A i \in 1 .. n :
           stack'[i] = IF i = n THEN [stack[i] EXCEPT !.pc = "rest"] ELSE stack[i]
  <2>1. behind \in Seq(FrameSet) /\ Len(behind) = n
    <3>1. stack \in Seq(FrameSet) /\ n \in 1 .. Len(stack)
      BY <1>2 DEF IInv, TypeOK, FrameSet
    <3>2. [stack[n] EXCEPT !.pc = "rest"] \in FrameSet
      BY <1>2 DEF FrameSet
    <3> QED
      BY <3>1, <3>2
  <2>2. \A i \in 1 .. n :
          behind[i] = IF i = n THEN [stack[i] EXCEPT !.pc = "rest"] ELSE stack[i]
    BY <1>2
  <2>3. Frame("destroy", o, Null) \in FrameSet
    BY <1>3 DEF Frame, FrameSet
  <2> HIDE DEF behind, n, o
  <2> QED
    BY <1>1, <1>2, <2>1, <2>2, <2>3 DEF Idle
<1>7. \A i \in 1 .. n : /\ stack'[i].this = stack[i].this /\ stack'[i].fn = stack[i].fn
                        /\ stack'[i].arg = stack[i].arg
                        /\ stack'[i].pc = IF i = n THEN "rest" ELSE stack[i].pc
  BY <1>2, <1>6 DEF FrameSet
<1>8. /\ stack'[n + 1].this = o /\ stack'[n + 1].fn = "destroy" /\ stack'[n + 1].arg = Null
      /\ stack'[n + 1].pc = "delete"
  BY <1>6 DEF Frame
<1>9. \A i \in 1 .. n : stack[i].this \in Slots /\ stack[i].this # o
  <2>1. \A i \in 1 .. n : stack[i].this \in Slots
    BY <1>2 DEF FrameSet
  <2>2. \A i \in 1 .. n : i # 1 => life[stack[i].this] = "dying"
    BY <1>2 DEF IInv, Frames
  <2> QED
    BY <1>2, <1>5, <2>1, <2>2
<1> HIDE DEF n, o, behind
<1>10. TypeOK'
  BY <1>1, <1>3, <1>6 DEF IInv, TypeOK, FrameSet
<1>11. \A x \in Slots : Holds(x)' = Holds(x)
  BY <1>1, <1>3, <1>5 DEF Holds, IInv, TypeOK
<1>12. NewPtr' = NewPtr
  BY <1>1, <1>2, <1>6, <1>7 DEF NewPtr
<1>13. Acyclic' /\ UnbornIsEmpty' /\ Exclusive' /\ LiveIsHeld'
  BY <1>1, <1>3, <1>11, <1>12
     DEF IInv, TypeOK, Acyclic, UnbornIsEmpty, Exclusive, LiveIsHeld
<1>14. HeldIsLive'
  <2>1. \A x \in Slots : x = Top.this => Behind(x)'
    BY <1>2, <1>6, <1>7 DEF Behind, Top, n
  <2>2. \A x \in Slots : Behind(x) => Behind(x)'
    BY <1>2, <1>6, <1>7 DEF Behind
  <2>3. /\ \A p \in raw : p # o
        /\ NewPtr # Null => NewPtr # o
        /\ \A x \in Slots : Holds(x) = o => x = Top.this
    BY <1>2, <1>3, <1>4, UniquePtrAssumption DEF IInv, Exclusive
  <2>4. \A q \in Slots : life[q] = "live" /\ q # o => life'[q] = "live"
    BY <1>1 DEF IInv, TypeOK
  <2>5. raw \subseteq Slots /\ \A x \in Slots : Holds(x) # Null => Holds(x) \in Slots
    BY DEF IInv, TypeOK, Holds, Slots
  <2>6. NewPtr # Null => NewPtr \in Slots
    BY <1>2 DEF NewPtr, FrameSet
  <2>7. \A p \in raw' : life'[p] = "live"
    BY <1>1, <2>3, <2>4, <2>5 DEF IInv, HeldIsLive
  <2>8. NewPtr' # Null => life'[NewPtr'] = "live"
    BY <1>12, <2>3, <2>4, <2>6 DEF IInv, HeldIsLive
  <2>9. ASSUME NEW x \in Slots, Holds(x) # Null
        PROVE  life'[Holds(x)] = "live" \/ Behind(x)'
    BY <2>1, <2>2, <2>3, <2>4, <2>5, <2>9 DEF IInv, HeldIsLive
  <2> QED
    BY <1>11, <2>7, <2>8, <2>9 DEF HeldIsLive
<1>15. DeletedIsNotLive'
  <2>1. \A q \in Slots : life[q] # "live" => life'[q] # "live"
    BY <1>1 DEF IInv, TypeOK
  <2>2. life'[o] # "live"
    BY <1>1, <1>3 DEF IInv, TypeOK
  <2>3. \A i \in 1 .. n : ptr[stack[i].this] # Null => ptr[stack[i].this] \in Slots
    BY <1>9 DEF IInv, TypeOK, Slots
  <2>4. ptr[stack[n].this] = o
    BY DEF o, n, Top
  <2> SUFFICES ASSUME NEW i \in 1 .. n + 1, stack'[i].pc = "rest", ptr[stack'[i].this] # Null
               PROVE  life'[ptr[stack'[i].this]] # "live"
    BY <1>1, <1>6 DEF DeletedIsNotLive
  <2>5. i \in 1 .. n
    BY <1>2, <1>8
  <2>6. CASE i = n
    BY <1>7, <2>2, <2>4, <2>5, <2>6
  <2>7. CASE i # n
    BY <1>2, <1>7, <2>1, <2>3, <2>5, <2>7 DEF IInv, DeletedIsNotLive
  <2> QED
    BY <2>6, <2>7
<1>16. DyingOnStack'
  <2> SUFFICES ASSUME NEW x \in Slots, life'[x] = "dying"
               PROVE  \E i \in 1 .. n + 1 : stack'[i].fn = "destroy" /\ stack'[i].this = x
    BY <1>6 DEF DyingOnStack
  <2>1. CASE x = o
    BY <1>2, <1>8, <2>1
  <2>2. CASE x # o
    <3>1. life[x] = "dying"
      BY <1>1, <2>2 DEF IInv, TypeOK
    <3>2. PICK i \in 1 .. n : stack[i].fn = "destroy" /\ stack[i].this = x
      BY <1>2, <3>1 DEF IInv, DyingOnStack
    <3> QED
      BY <1>2, <1>7, <3>2
  <2> QED
    BY <2>1, <2>2
<1>17. \A s \in Slots : Chain(s)' = Chain(s)
  BY <1>1, ChainUnchanged
<1>18. Frames'
  <2>1. \A i \in 1 .. n : life'[stack[i].this] = life[stack[i].this]
    BY <1>1, <1>9 DEF IInv, TypeOK
  <2>2. life'[o] = "dying"
    BY <1>1, <1>3 DEF IInv, TypeOK
  <2> SUFFICES ASSUME NEW i \in 1 .. n + 1
               PROVE  /\ life'[stack'[i].this] = IF stack'[i].fn = "destroy" THEN "dying" ELSE "live"
                      /\ i > 1 => /\ stack'[i].fn = "destroy"
                                  /\ stack'[i].this \in Chain(stack[1].this)
                      /\ i < n + 1 => stack'[i].pc = "rest"
                      /\ \A j \in 1 .. n + 1 : stack'[i].this = stack'[j].this => i = j
    BY <1>2, <1>6, <1>7, <1>9, <1>17 DEF Frames
  <2>3. CASE i = n + 1
    BY <1>2, <1>7, <1>8, <1>9, <2>2, <2>3
  <2>4. CASE i # n + 1
    <3>1. i \in 1 .. n
      BY <1>2, <2>4
    <3>2. i # n => i < Len(stack)
      BY <1>2, <3>1 DEF n
    <3>3. /\ life[stack[i].this] = IF stack[i].fn = "destroy" THEN "dying" ELSE "live"
          /\ i > 1 => stack[i].fn = "destroy" /\ stack[i].this \in Chain(stack[1].this)
          /\ i # n => stack[i].pc = "rest"
          /\ \A j \in 1 .. n : stack[i].this = stack[j].this => i = j
      BY <1>2, <3>1, <3>2 DEF IInv, Frames
    <3> QED
      BY <1>2, <1>7, <1>8, <1>9, <2>1, <3>1, <3>3
  <2> QED
    BY <2>3, <2>4
<1>19. Separate'
  <2>1. /\ stack[1].this \in Slots /\ stack[1].arg \in Slots \cup {Null}
        /\ 1 \in 1 .. n /\ stack'[1].this = stack[1].this
        /\ stack'[1].fn = stack[1].fn /\ stack'[1].arg = stack[1].arg
    BY <1>2, <1>7 DEF FrameSet
  <2>2. stack[1].fn = "moveAssign" => stack[1].arg # o
    BY <1>1, <1>2 DEF IInv, Separate
  <2>3. \A q \in Slots : life[q] = "live" /\ q # o => life'[q] = "live"
    BY <1>1 DEF IInv, TypeOK
  <2> QED
    BY <1>1, <1>6, <1>17, <2>1, <2>2, <2>3 DEF IInv, Separate, Slots
<1> QED
  BY <1>10, <1>13, <1>14, <1>15, <1>16, <1>18, <1>19 DEF IInv

\* A frame is removed, those below it remain.
LEMMA Popped ==
  ASSUME IInv, ~Idle, stack' = Pop
  PROVE  /\ stack' \in Seq(FrameSet)
         /\ Len(stack') = Len(stack) - 1 /\ DOMAIN stack' = 1 .. Len(stack) - 1
         /\ \A i \in 1 .. Len(stack) - 1 : stack'[i] = stack[i]
         /\ Idle' <=> Len(stack) = 1
<1>1. stack \in Seq(FrameSet) /\ Len(stack) \in Nat /\ Len(stack) # 0
  BY TopFrame DEF IInv, TypeOK, FrameSet
<1> DEFINE n == Len(stack)
<1>2. stack' = SubSeq(stack, 1, n - 1) /\ \A i \in 1 .. n : stack[i] \in FrameSet
  BY <1>1 DEF Pop
<1>3. n \in Nat /\ n # 0 /\ n - 1 \in Nat
  BY <1>1
<1>4. stack' \in Seq(FrameSet) /\ Len(stack') = n - 1
  <2>1. 1 \in Int /\ n - 1 \in Int /\ \A i \in 1 .. n - 1 : stack[i] \in FrameSet
    BY <1>2, <1>3
  <2> HIDE DEF n
  <2>2. /\ SubSeq(stack, 1, n - 1) \in Seq(FrameSet)
        /\ Len(SubSeq(stack, 1, n - 1)) = IF 1 <= n - 1 THEN n - 1 - 1 + 1 ELSE 0
    BY ONLY <2>1, SubSeqProperties
  <2> QED
    BY <1>2, <1>3, <2>2
<1>5. \A i \in 1 .. n - 1 : stack'[i] = stack[i]
  BY <1>1, <1>2, <1>3, SubSeqProperties
<1>6. DOMAIN stack' = 1 .. n - 1
  BY <1>4
<1>7. Idle' <=> n = 1
  BY <1>3, <1>4, EmptySeq DEF Idle
<1> QED
  BY <1>4, <1>5, <1>6, <1>7

\* The call at the bottom is the only one that is not a destructor.
LEMMA BottomOnly ==
  ASSUME IInv, ~Idle, Top.fn # "destroy"
  PROVE  Len(stack) = 1 /\ Top = stack[1]
<1>1. Len(stack) \in DOMAIN stack /\ Len(stack) \in Nat /\ Len(stack) # 0
  BY TopFrame
<1>2. Len(stack) > 1 => stack[Len(stack)].fn = "destroy"
  BY <1>1 DEF IInv, Frames
<1> QED
  BY <1>1, <1>2 DEF Top

LEMMA FinishDestroyKeeps ==
  ASSUME IInv, FinishDestroy
  PROVE  IInv'
<1> DEFINE n == Len(stack)
           x == Top.this
<1>1. /\ ~Idle /\ Top.pc = "rest" /\ Top.fn = "destroy" /\ stack' = Pop /\ raw' = raw
      /\ life' = [life EXCEPT ![x] = IF x \in Roots THEN "unborn" ELSE "dead"]
      /\ ptr' = IF x \in Roots THEN [ptr EXCEPT ![x] = Null] ELSE ptr
  BY DEF FinishDestroy
<1>2. /\ n \in Nat /\ n # 0 /\ DOMAIN stack = 1 .. n
      /\ \A i \in DOMAIN stack : stack[i] \in FrameSet
      /\ life[x] = "dying" /\ Chain(stack[1].this) \subseteq Objects
  BY <1>1, TopFrame
<1>3. /\ stack' \in Seq(FrameSet) /\ Len(stack') = n - 1 /\ DOMAIN stack' = 1 .. n - 1
      /\ \A i \in 1 .. n - 1 : stack'[i] = stack[i]
      /\ Idle' <=> n = 1
  BY <1>1, Popped
<1>4. x \in Slots /\ x = stack[n].this /\ Null \notin Slots
  BY <1>2, UniquePtrAssumption DEF Top, FrameSet, Slots
<1>5. x \in Roots => n = 1
  BY <1>2, <1>4, UniquePtrAssumption DEF IInv, Frames
<1>6. \A i \in 1 .. n - 1 : stack[i].this \in Slots /\ stack[i].this # x
  BY <1>2, <1>4 DEF IInv, Frames, FrameSet
<1> HIDE DEF n, x
<1>7. TypeOK'
  BY <1>1, <1>3, <1>4 DEF IInv, TypeOK, FrameSet
<1>8. \A y \in Slots : Holds(y)' = IF y = x THEN Null ELSE Holds(y)
  BY <1>1, <1>4 DEF IInv, TypeOK, Holds
<1>9. NewPtr' = NewPtr
  <2>1. CASE n = 1
    BY <1>1, <1>3, <2>1 DEF NewPtr, Top, n
  <2>2. CASE n # 1
    BY <1>1, <1>2, <1>3, <2>2 DEF NewPtr
  <2> QED
    BY <2>1, <2>2
<1>10. Acyclic'
  <2>1. ptr \in PtrFns
    BY DEF IInv, TypeOK, PtrFns
  <2> QED
    BY <1>1, <1>4, <2>1, ClearedAcyclic DEF IInv, Acyclic
<1>11. UnbornIsEmpty'
  BY <1>1, <1>4 DEF IInv, TypeOK, UnbornIsEmpty
<1>12. Exclusive'
  BY <1>1, <1>4, <1>8, <1>9, UniquePtrAssumption DEF IInv, TypeOK, Exclusive, Slots
<1>13. LiveIsHeld'
  <2> SUFFICES ASSUME NEW q \in Objects, life'[q] = "live"
               PROVE  q \in raw' \/ q = NewPtr' \/ \E y \in Slots : Holds(y)' = q
    BY DEF LiveIsHeld
  <2>1. life[q] = "live"
    BY <1>1, <1>4 DEF IInv, TypeOK, Slots
  <2>2. Holds(x) # q
    BY <1>1, <1>2, <1>4, <2>1, UniquePtrAssumption DEF IInv, DeletedIsNotLive, Holds, Top, n
  <2>3. q \in raw \/ q = NewPtr \/ \E y \in Slots : Holds(y) = q
    BY <2>1 DEF IInv, LiveIsHeld
  <2> QED
    BY <1>1, <1>8, <1>9, <2>2, <2>3
<1>14. HeldIsLive'
  <2>1. \A q \in Slots : life[q] = "live" => life'[q] = "live"
    BY <1>1, <1>2, <1>4 DEF IInv, TypeOK
  <2>2. \A y \in Slots : y # x /\ Behind(y) => Behind(y)'
    BY <1>2, <1>3, <1>4 DEF Behind
  <2>3. raw \subseteq Slots /\ \A y \in Slots : Holds(y) # Null => Holds(y) \in Slots
    BY DEF IInv, TypeOK, Holds, Slots
  <2>4. NewPtr # Null => NewPtr \in Slots
    BY <1>2 DEF NewPtr, FrameSet
  <2>5. ASSUME NEW y \in Slots, Holds(y)' # Null
        PROVE  life'[Holds(y)'] = "live" \/ Behind(y)'
    BY <1>8, <2>1, <2>2, <2>3, <2>5 DEF IInv, HeldIsLive
  <2>6. \A p \in raw' : life'[p] = "live"
    BY <1>1, <2>1, <2>3 DEF IInv, HeldIsLive
  <2>7. NewPtr' # Null => life'[NewPtr'] = "live"
    BY <1>9, <2>1, <2>4 DEF IInv, HeldIsLive
  <2> QED
    BY <2>5, <2>6, <2>7 DEF HeldIsLive
<1>15. DeletedIsNotLive'
  <2> SUFFICES ASSUME NEW i \in 1 .. n - 1, stack[i].pc = "rest", ptr[stack[i].this] # Null
               PROVE  life'[ptr[stack[i].this]] # "live"
    BY <1>1, <1>3, <1>4, <1>6 DEF IInv, TypeOK, DeletedIsNotLive
  <2>1. ptr[stack[i].this] \in Slots /\ life[ptr[stack[i].this]] # "live"
    BY <1>2, <1>6 DEF IInv, TypeOK, DeletedIsNotLive, Slots
  <2> QED
    BY <1>1, <1>4, <2>1 DEF IInv, TypeOK
<1>16. DyingOnStack'
  <2> SUFFICES ASSUME NEW y \in Slots, life'[y] = "dying"
               PROVE  \E i \in 1 .. n - 1 : stack[i].fn = "destroy" /\ stack[i].this = y
    BY <1>3 DEF DyingOnStack
  <2>1. y # x /\ life[y] = "dying"
    BY <1>1, <1>4 DEF IInv, TypeOK
  <2>2. PICK i \in 1 .. n : stack[i].fn = "destroy" /\ stack[i].this = y
    BY <1>2, <2>1 DEF IInv, DyingOnStack
  <2>3. i # n
    BY <1>4, <2>1, <2>2
  <2> QED
    BY <1>2, <2>2, <2>3
<1>17. Frames' /\ Separate'
  <2>1. CASE n = 1
    BY <1>3, <2>1 DEF Frames, Separate
  <2>2. CASE n # 1
    <3>1. ptr' = ptr
      BY <1>1, <1>5, <2>2
    <3>2. \A s \in Slots : Chain(s)' = Chain(s)
      BY <3>1, ChainUnchanged
    <3>3. 1 \in 1 .. n - 1 /\ stack[1].this \in Slots /\ stack[1].arg \in Slots \cup {Null}
      BY <1>2, <2>2 DEF FrameSet
    <3>4. \A q \in Slots : q # x => life'[q] = life[q]
      BY <1>1 DEF IInv, TypeOK
    <3>5. Frames'
      <4>1. n - 1 < n /\ 1 .. n - 1 \subseteq 1 .. n /\ \A i \in 1 .. n - 1 : i < Len(stack)
        BY <1>2 DEF n
      <4> SUFFICES ASSUME NEW i \in 1 .. n - 1
                   PROVE  /\ life'[stack[i].this] = IF stack[i].fn = "destroy" THEN "dying" ELSE "live"
                          /\ i > 1 => /\ stack[i].fn = "destroy"
                                      /\ stack[i].this \in Chain(stack[1].this)
                          /\ i < n - 1 => stack[i].pc = "rest"
                          /\ \A j \in 1 .. n - 1 : stack[i].this = stack[j].this => i = j
        BY <1>3, <3>2, <3>3 DEF Frames
      <4>2. /\ life[stack[i].this] = IF stack[i].fn = "destroy" THEN "dying" ELSE "live"
            /\ i > 1 => stack[i].fn = "destroy" /\ stack[i].this \in Chain(stack[1].this)
            /\ stack[i].pc = "rest"
            /\ \A j \in 1 .. n : stack[i].this = stack[j].this => i = j
        BY <1>2, <4>1 DEF IInv, Frames
      <4> QED
        BY <1>6, <3>4, <4>1, <4>2
    <3>6. Separate'
      <4>1. life[stack[1].arg] = "live" => stack[1].arg # x
        BY <1>2
      <4>2. ~Idle /\ stack'[1] = stack[1]
        BY <1>1, <1>3, <3>3
      <4> QED
        BY <3>2, <3>3, <3>4, <4>1, <4>2 DEF IInv, Separate, Slots
    <3> QED
      BY <3>5, <3>6
  <2> QED
    BY <2>1, <2>2
<1> QED
  BY <1>7, <1>10, <1>11, <1>12, <1>13, <1>14, <1>15, <1>16, <1>17 DEF IInv

LEMMA FinishResetKeeps ==
  ASSUME IInv, FinishReset
  PROVE  IInv'
<1> DEFINE x == Top.this
           p == Top.arg
<1>1. /\ ~Idle /\ Top.pc = "rest" /\ Top.fn = "reset" /\ stack' = Pop
      /\ ptr' = [ptr EXCEPT ![x] = p] /\ UNCHANGED <<life, raw>>
  BY DEF FinishReset
<1>2. Len(stack) = 1 /\ Top = stack[1] /\ DOMAIN stack = {1} /\ Top \in FrameSet
  BY <1>1, BottomOnly, TopFrame
<1>3. stack' \in Seq(FrameSet) /\ DOMAIN stack' = {} /\ Idle'
  BY <1>1, <1>2, Popped
<1>4. /\ x \in Slots /\ Null \notin Slots /\ life[x] = "live"
      /\ NewPtr = p /\ p \in Objects \cup {Null}
      /\ p # Null => p # x /\ x \notin Chain(p)
  BY <1>1, <1>2, TopFrame, UniquePtrAssumption DEF IInv, Separate, NewPtr, FrameSet, Slots
<1>5. \A y \in Slots : life[y] # "dying"
  BY <1>1, <1>2 DEF IInv, DyingOnStack
<1>6. ptr[x] # Null => life[ptr[x]] # "live"
  BY <1>1, <1>2 DEF IInv, DeletedIsNotLive
<1>7. \A y \in Slots : y # x => ~Behind(y)
  BY <1>2 DEF Behind
<1> HIDE DEF x, p
<1>8. TypeOK'
  BY <1>1, <1>3, <1>4 DEF IInv, TypeOK, FrameSet
<1>9. \A y \in Slots : Holds(y)' = IF y = x THEN p ELSE Holds(y)
  BY <1>1, <1>4 DEF IInv, TypeOK, Holds
<1>10. NewPtr' = Null /\ DeletedIsNotLive' /\ Frames' /\ Separate' /\ DyingOnStack'
  BY <1>1, <1>3, <1>5 DEF NewPtr, DeletedIsNotLive, Frames, Separate, DyingOnStack
<1>11. Acyclic'
  <2>1. ptr \in PtrFns /\ AcyclicPtrs(ptr)
    BY DEF IInv, TypeOK, PtrFns, Acyclic
  <2>2. CASE p = Null
    BY <1>1, <1>4, <2>1, <2>2, ClearedAcyclic DEF Acyclic
  <2>3. CASE p # Null
    <3> DEFINE C == {p} \cup Chain(p)
    <3>1. p \in Slots /\ Chain(p) \subseteq Objects /\ ClosedBelow(Chain(p), p)
      BY <1>4, <2>1, <2>3, ChainClosed DEF PtrFns, PtrOK, Slots
    <3>2. C \in SUBSET Slots /\ p \in C /\ x \notin C
          /\ \A y \in C : ptr[y] # Null => ptr[y] \in C
      BY <1>4, <2>3, <3>1 DEF ClosedBelow, Slots
    <3> HIDE DEF C
    <3>3. p \in Objects
      BY <1>4, <2>3
    <3> QED
      BY <1>1, <1>4, <2>1, <3>2, <3>3, LinkedAcyclic DEF Acyclic
  <2> QED
    BY <2>2, <2>3
<1>12. UnbornIsEmpty'
  BY <1>1, <1>4 DEF IInv, TypeOK, UnbornIsEmpty
<1>13. Exclusive'
  <2>1. \A y \in Slots : Holds(y) \notin raw
    BY DEF IInv, Exclusive
  <2>2. p \notin raw
    BY <1>4, UniquePtrAssumption DEF IInv, TypeOK, Exclusive
  <2>3. p # Null => \A y \in Slots : Holds(y) # p
    BY <1>4 DEF IInv, Exclusive
  <2>4. \A y, z \in Slots : Holds(y) = Holds(z) /\ Holds(y) # Null => y = z
    BY DEF IInv, Exclusive
  <2>5. \A y, z \in Slots : Holds(y)' = Holds(z)' /\ Holds(y)' # Null => y = z
    BY <1>9, <2>3, <2>4
  <2>6. \A y \in Slots : Holds(y)' \notin raw'
    BY <1>1, <1>9, <2>1, <2>2
  <2> QED
    BY <1>10, <2>5, <2>6 DEF Exclusive
<1>14. LiveIsHeld'
  <2> SUFFICES ASSUME NEW q \in Objects, life[q] = "live"
               PROVE  q \in raw \/ \E y \in Slots : Holds(y)' = q
    BY <1>1 DEF LiveIsHeld
  <2>1. Holds(x) # q
    BY <1>4, <1>6, UniquePtrAssumption DEF Holds
  <2>2. q \in raw \/ q = p \/ \E y \in Slots : Holds(y) = q
    BY <1>4 DEF IInv, LiveIsHeld
  <2> QED
    BY <1>4, <1>9, <2>1, <2>2
<1>15. HeldIsLive'
  BY <1>1, <1>4, <1>7, <1>9, <1>10 DEF IInv, HeldIsLive
<1> QED
  BY <1>8, <1>10, <1>11, <1>12, <1>13, <1>14, <1>15 DEF IInv

LEMMA FinishMoveAssignKeeps ==
  ASSUME IInv, FinishMoveAssign
  PROVE  IInv'
<1> DEFINE x == Top.this
           a == Top.arg
<1>1. /\ ~Idle /\ Top.pc = "rest" /\ Top.fn = "moveAssign" /\ stack' = Pop
      /\ ptr' = [ptr EXCEPT ![x] = ptr[a], ![a] = Null] /\ UNCHANGED <<life, raw>>
  BY DEF FinishMoveAssign
<1>2. Len(stack) = 1 /\ Top = stack[1] /\ DOMAIN stack = {1} /\ Top \in FrameSet
  BY <1>1, BottomOnly, TopFrame
<1>3. stack' \in Seq(FrameSet) /\ DOMAIN stack' = {} /\ Idle'
  BY <1>1, <1>2, Popped
<1>4. /\ x \in Slots /\ Null \notin Slots /\ life[x] = "live" /\ NewPtr = Null
      /\ a \in Slots /\ life[a] = "live" /\ a # x /\ x \notin Chain(a)
  BY <1>1, <1>2, TopFrame, UniquePtrAssumption DEF IInv, Separate, NewPtr, FrameSet, Slots
<1>5. \A y \in Slots : life[y] # "dying"
  BY <1>1, <1>2 DEF IInv, DyingOnStack
<1>6. ptr[x] # Null => life[ptr[x]] # "live"
  BY <1>1, <1>2 DEF IInv, DeletedIsNotLive
<1>7. \A y \in Slots : y # x => ~Behind(y)
  BY <1>2 DEF Behind
<1> HIDE DEF x, a
<1>8. TypeOK'
  BY <1>1, <1>3, <1>4 DEF IInv, TypeOK, FrameSet
<1>9. \A y \in Slots :
        Holds(y)' = IF y = x THEN Holds(a) ELSE IF y = a THEN Null ELSE Holds(y)
  BY <1>1, <1>4 DEF IInv, TypeOK, Holds
<1>10. NewPtr' = Null /\ DeletedIsNotLive' /\ Frames' /\ Separate' /\ DyingOnStack'
  BY <1>1, <1>3, <1>5 DEF NewPtr, DeletedIsNotLive, Frames, Separate, DyingOnStack
<1>11. Acyclic'
  <2> DEFINE g == [ptr EXCEPT ![x] = ptr[a]]
  <2>1. ptr \in PtrFns /\ AcyclicPtrs(ptr)
    BY DEF IInv, TypeOK, PtrFns, Acyclic
  <2>2. g \in PtrFns /\ AcyclicPtrs(g)
    <3>1. CASE ptr[a] = Null
      BY <1>4, <2>1, <3>1, ClearedAcyclic
    <3>2. CASE ptr[a] # Null
      <4> DEFINE C == Chain(a)
      <4>1. C \subseteq Objects /\ ClosedBelow(C, a) /\ ptr[a] \in Objects
        BY <1>4, <2>1, <3>2, ChainClosed DEF PtrFns, PtrOK
      <4>2. C \in SUBSET Slots /\ ptr[a] \in C /\ x \notin C
            /\ \A y \in C : ptr[y] # Null => ptr[y] \in C
        BY <1>4, <3>2, <4>1 DEF ClosedBelow, Slots
      <4> HIDE DEF C
      <4> QED
        BY <1>4, <2>1, <4>1, <4>2, LinkedAcyclic
    <3> QED
      BY <3>1, <3>2
  <2>3. ptr' = [g EXCEPT ![a] = Null]
    BY <1>1
  <2> HIDE DEF g
  <2> QED
    BY <1>4, <2>2, <2>3, ClearedAcyclic DEF Acyclic
<1>12. UnbornIsEmpty'
  BY <1>1, <1>4 DEF IInv, TypeOK, UnbornIsEmpty
<1>13. Exclusive'
  <2>1. \A y \in Slots : Holds(y) \notin raw
    BY DEF IInv, Exclusive
  <2>2. Null \notin raw
    BY UniquePtrAssumption DEF IInv, TypeOK
  <2>3. \A y, z \in Slots : Holds(y) = Holds(z) /\ Holds(y) # Null => y = z
    BY DEF IInv, Exclusive
  <2>4. \A y, z \in Slots : Holds(y)' = Holds(z)' /\ Holds(y)' # Null => y = z
    BY <1>4, <1>9, <2>3
  <2>5. \A y \in Slots : Holds(y)' \notin raw'
    BY <1>1, <1>4, <1>9, <2>1, <2>2
  <2> QED
    BY <1>10, <2>4, <2>5 DEF Exclusive
<1>14. LiveIsHeld'
  <2> SUFFICES ASSUME NEW q \in Objects, life[q] = "live"
               PROVE  q \in raw \/ \E y \in Slots : Holds(y)' = q
    BY <1>1 DEF LiveIsHeld
  <2>1. Holds(x) # q /\ q # Null
    BY <1>4, <1>6, UniquePtrAssumption DEF Holds
  <2>2. q \in raw \/ \E y \in Slots : Holds(y) = q
    BY <1>4, <2>1 DEF IInv, LiveIsHeld
  <2> QED
    BY <1>4, <1>9, <2>1, <2>2
<1>15. HeldIsLive'
  BY <1>1, <1>4, <1>7, <1>9, <1>10 DEF IInv, HeldIsLive
<1> QED
  BY <1>8, <1>10, <1>11, <1>12, <1>13, <1>14, <1>15 DEF IInv

-----------------------------------------------------------------------------
LEMMA StutterKeeps ==
  ASSUME IInv, UNCHANGED vars
  PROVE  IInv'
<1>1. \A s \in Slots : Chain(s)' = Chain(s)
  BY ChainUnchanged DEF vars
<1>2. \A s \in Slots : Holds(s)' = Holds(s) /\ (Behind(s) => Behind(s)')
  BY DEF vars, Holds, Behind
<1>3. NewPtr' = NewPtr /\ Idle' = Idle
  BY DEF vars, NewPtr, Idle
<1>4. TypeOK' /\ Acyclic' /\ UnbornIsEmpty' /\ DeletedIsNotLive' /\ DyingOnStack'
  BY DEF vars, IInv, TypeOK, Acyclic, UnbornIsEmpty, DeletedIsNotLive, DyingOnStack
<1>5. Exclusive' /\ LiveIsHeld' /\ HeldIsLive'
  BY <1>2, <1>3 DEF vars, IInv, Exclusive, LiveIsHeld, HeldIsLive
<1>6. /\ \A i \in DOMAIN stack : stack[i].this \in Slots
      /\ ~Idle => 1 \in DOMAIN stack /\ stack[1].arg \in Slots \cup {Null}
  BY TopFrame DEF FrameSet, Idle
<1>7. Frames' /\ Separate'
  BY <1>1, <1>3, <1>6 DEF vars, IInv, Frames, Separate, Slots
<1> QED
  BY <1>4, <1>5, <1>7 DEF IInv

\* Every step of Next keeps the inductive invariant.
LEMMA NextKeeps == IInv /\ [Next]_vars => IInv'
<1> SUFFICES ASSUME IInv, [Next]_vars PROVE IInv'
  OBVIOUS
<1>1. CASE Calls
  BY <1>1, NewKeeps, ConstructKeeps, MakeUniqueKeeps, MoveConstructKeeps, ReleaseKeeps,
     DestroyKeeps, ResetKeeps, SwapKeeps DEF Calls
<1>2. CASE \E s, other \in Slots : AssignFromOutside(s, other)
  BY <1>2, MoveAssignKeeps
<1>3. CASE Steps
  BY <1>3, DeleteNullKeeps, DeleteObjectKeeps, FinishDestroyKeeps, FinishResetKeeps,
     FinishMoveAssignKeeps DEF Steps
<1>4. CASE UNCHANGED vars
  BY <1>4, StutterKeeps
<1> QED
  BY <1>1, <1>2, <1>3, <1>4 DEF Next

\* The invariant the others follow from: exclusive ownership, and a stack of
\* destructors that runs down an acyclic chain.
THEOREM InductiveInvariant == Spec => []IInv
  BY InitInv, NextKeeps, PTL DEF Spec

\* The values the variables range over.
THEOREM TypeCorrect == Spec => []TypeOK
<1>1. IInv => TypeOK
  BY DEF IInv
<1> QED
  BY <1>1, InductiveInvariant, PTL

-----------------------------------------------------------------------------
(* The properties.                                                         *)

LEMMA OneHolder == IInv => ExactlyOneHolder
<1> SUFFICES ASSUME IInv, NEW o \in Objects, life[o] = "live"
             PROVE  \E h : Holders(o) = {h}
  BY FS_Singleton DEF ExactlyOneHolder
<1>1. o # Null /\ raw \subseteq Objects
  BY UniquePtrAssumption DEF IInv, TypeOK
<1>2. \A s \in Slots : life[s] \in {"live", "dying"} /\ ptr[s] = o <=> Holds(s) = o
  BY <1>1 DEF Holds
<1>3. \A i \in DOMAIN stack : stack[i].fn = "reset" => i = 1
  <2>1. CASE Idle
    BY <2>1 DEF Idle
  <2>2. CASE ~Idle
    BY <2>2, TopFrame DEF IInv, Frames
  <2> QED
    BY <2>1, <2>2
<1>4. {i \in DOMAIN stack : stack[i].fn = "reset" /\ stack[i].arg = o}
      = IF NewPtr = o THEN {1} ELSE {}
  <2>1. Idle => DOMAIN stack = {}
    BY DEF Idle
  <2>2. ~Idle => 1 \in DOMAIN stack
    BY TopFrame
  <2> QED
    BY <1>1, <1>3, <2>1, <2>2 DEF NewPtr
<1>5. Holders(o) = {<<"slot", s>> : s \in {x \in Slots : Holds(x) = o}}
                   \cup {<<"raw", p>> : p \in raw \cap {o}}
                   \cup {<<"newPtr", i>> : i \in IF NewPtr = o THEN {1} ELSE {}}
  BY <1>2, <1>4 DEF Holders
<1>6. CASE o \in raw
  <2>1. {x \in Slots : Holds(x) = o} = {} /\ NewPtr # o
    BY <1>1, <1>6 DEF IInv, Exclusive
  <2>2. Holders(o) = {<<"raw", o>>}
    BY <1>5, <1>6, <2>1
  <2> QED
    BY <2>2
<1>7. CASE NewPtr = o
  <2>1. {x \in Slots : Holds(x) = o} = {} /\ raw \cap {o} = {}
    BY <1>1, <1>7 DEF IInv, Exclusive
  <2>2. Holders(o) = {<<"newPtr", 1>>}
    BY <1>5, <1>7, <2>1
  <2> QED
    BY <2>2
<1>8. CASE o \notin raw /\ NewPtr # o
  <2>1. PICK s \in Slots : Holds(s) = o
    BY <1>8 DEF IInv, LiveIsHeld
  <2>2. {x \in Slots : Holds(x) = o} = {s} /\ raw \cap {o} = {}
    BY <1>1, <1>8, <2>1 DEF IInv, Exclusive
  <2>3. Holders(o) = {<<"slot", s>>}
    BY <1>5, <1>8, <2>2
  <2> QED
    BY <2>3
<1> QED
  BY <1>6, <1>7, <1>8

\* Ownership is exclusive and never gets lost: at every step of every call of
\* unique_ptr a live object has exactly one holder.
THEOREM OwnershipIsExclusive == Spec => []ExactlyOneHolder
  BY OneHolder, InductiveInvariant, PTL

\* No call of unique_ptr deletes an object twice, nor goes on after its own
\* pointer, or the one it moves from, has been freed.
THEOREM NothingFreedIsUsed == Spec => []NoUseAfterFree
<1>1. ASSUME IInv, ~Idle PROVE NoUseAfterFree
  <2>1. /\ Top.this \in Slots /\ life[Top.this] \in {"live", "dying"}
        /\ Top.pc = "delete" => ~Behind(Top.this)
    BY <1>1, TopFrame DEF FrameSet, Top
  <2>2. Top.pc = "delete" /\ ptr[Top.this] # Null => life[ptr[Top.this]] = "live"
    BY <1>1, <2>1 DEF IInv, HeldIsLive, Holds
  <2>3. Top.fn = "moveAssign" => life[Top.arg] # "dead"
    BY <1>1, BottomOnly DEF IInv, Separate
  <2> QED
    BY <2>1, <2>2, <2>3 DEF NoUseAfterFree
<1>2. IInv => NoUseAfterFree
  BY <1>1 DEF NoUseAfterFree
<1> QED
  BY <1>2, InductiveInvariant, PTL

\* Objects that nobody reaches would hold each other in a ring.
LEMMA NothingLeaks == IInv => NoLeak
<1> SUFFICES ASSUME IInv, Idle PROVE NoLeak
  BY DEF NoLeak
<1> DEFINE Lost(o) == /\ life[o] = "live" /\ o \notin raw
                      /\ \A s \in Roots \cup raw : life[s] = "live" => o \notin Chain(s)
           U == {o \in Objects : Lost(o)}
<1> SUFFICES ASSUME U # {} PROVE FALSE
  BY DEF NoLeak
<1>1. /\ PtrOK /\ AcyclicPtrs(ptr) /\ raw \subseteq Objects
      /\ Null \notin Objects /\ U \subseteq Objects
      /\ \A s \in Slots : Holds(s) = IF life[s] = "live" THEN ptr[s] ELSE Null
      /\ NewPtr = Null
  BY IdleState, UniquePtrAssumption DEF IInv, TypeOK, Acyclic, PtrOK
<1>2. \A s \in Slots : ClosedBelow(Chain(s), s)
  BY <1>1, ChainClosed
<1>3. ASSUME NEW o \in U PROVE \E s \in U : ptr[s] = o
  <2>1. o \in Objects /\ o # Null
    BY <1>1
  <2>2. PICK s \in Slots : life[s] = "live" /\ ptr[s] = o
    BY <1>1, <2>1 DEF IInv, LiveIsHeld
  <2>3. o \in Chain(s)
    BY <1>2, <2>1, <2>2 DEF ClosedBelow
  <2>4. s \in Objects /\ s \notin raw
    BY <2>2, <2>3 DEF Slots
  <2>5. ASSUME NEW t \in Roots \cup raw, life[t] = "live", s \in Chain(t) PROVE FALSE
    <3>1. t \in Slots
      BY <1>1 DEF Slots
    <3>2. o \in Chain(t)
      BY <1>2, <2>1, <2>2, <2>5, <3>1 DEF ClosedBelow
    <3> QED
      BY <2>5, <3>2
  <2> QED
    BY <2>2, <2>4, <2>5
<1> HIDE DEF U
<1> DEFINE h == [o \in U |-> CHOOSE s \in U : ptr[s] = o]
<1>4. h \in [U -> U] /\ \A o \in U : ptr[h[o]] = o
  BY <1>3
<1> HIDE DEF h
<1>5. h \in Injection(U, U)
  BY <1>4 DEF Injection, IsInjective
<1>6. IsFiniteSet(U)
  BY <1>1, UniquePtrAssumption, FS_Subset
<1>7. h \in Surjection(U, U)
  BY <1>5, <1>6, FS_Injection
<1>8. \A y \in U : ptr[y] \in U
  BY <1>4, <1>7 DEF Surjection
<1> QED
  BY <1>1, <1>8 DEF AcyclicPtrs, Slots

\* Between calls of unique_ptr every live object is still reached from a
\* variable or a raw pointer of the program, and so can be freed.
THEOREM NoObjectIsLost == Spec => []NoLeak
  BY NothingLeaks, InductiveInvariant, PTL
=============================================================================
