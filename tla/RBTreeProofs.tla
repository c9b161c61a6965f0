----------------------------- MODULE RBTreeProofs -----------------------------
(***************************************************************************)
(* Proofs about RBTree, for any finite set of keys.  A tree comes with the *)
(* set of nodes under each of its nodes, which rotations and erasures      *)
(* change in a known way; what a walk through it finds follows from an     *)
(* argument from the leaves up or from the root down.  Shape holds with    *)
(* erase(), Balance as long as nothing is erased.                          *)
(***************************************************************************)
EXTENDS RBTree, FiniteSetTheorems, TLAPS

\* Types, and one field of one node changed.
Addrs == Keys \cup {Sentinel}

Ptrs == {"left", "right", "parent"}

NodeType ==
  [key : Keys \cup {Null}, parent : Addresses, left : Addresses, right : Addresses,
   colour : {"BLACK", "RED", "SENTINEL"}]

TreeType == [root : Keys \cup {Null}, node : [Addrs -> NodeType]]

FieldType(f) ==
  IF f \in Ptrs THEN Addresses
  ELSE IF f = "key" THEN Keys \cup {Null} ELSE {"BLACK", "RED", "SENTINEL"}

Fields == Ptrs \cup {"key", "colour"}

LEMMA AtType ==
  ASSUME NEW t \in TreeType, NEW n \in Addrs
  PROVE  At(t, n) \in NodeType /\ \A f \in Fields : At(t, n)[f] \in FieldType(f)
<1>1. At(t, n) \in NodeType
  BY DEF TreeType, At
<1> QED
  BY <1>1 DEF Fields, FieldType, Ptrs, NodeType

LEMMA NodeSet ==
  ASSUME NEW r \in NodeType, NEW f \in Fields, NEW v \in FieldType(f)
  PROVE  /\ [r EXCEPT ![f] = v] \in NodeType
         /\ \A g \in Fields : [r EXCEPT ![f] = v][g] = IF g = f THEN v ELSE r[g]
<1>1. CASE f = "key"
  BY <1>1 DEF FieldType, Ptrs, NodeType, Fields
<1>2. CASE f = "colour"
  BY <1>2 DEF FieldType, Ptrs, NodeType, Fields
<1>3. CASE f = "left"
  BY <1>3 DEF FieldType, Ptrs, NodeType, Fields
<1>4. CASE f = "right"
  BY <1>4 DEF FieldType, Ptrs, NodeType, Fields
<1>5. CASE f = "parent"
  BY <1>5 DEF FieldType, Ptrs, NodeType, Fields
<1> QED
  BY <1>1, <1>2, <1>3, <1>4, <1>5 DEF Fields, Ptrs

LEMMA SetAt ==
  ASSUME NEW t \in TreeType, NEW n \in Addrs, NEW f \in Fields, NEW v \in FieldType(f)
  PROVE  /\ Set(t, n, f, v) \in TreeType
         /\ Set(t, n, f, v).root = t.root
         /\ \A m \in Addrs, g \in Fields :
              At(Set(t, n, f, v), m)[g] = IF m = n /\ g = f THEN v ELSE At(t, m)[g]
<1> DEFINE r == [t.node[n] EXCEPT ![f] = v]
           nodes == [t.node EXCEPT ![n] = r]
<1>1. t.node \in [Addrs -> NodeType] /\ t.node[n] \in NodeType /\ t.root \in Keys \cup {Null}
  BY DEF TreeType
<1>2. r \in NodeType /\ \A g \in Fields : r[g] = IF g = f THEN v ELSE t.node[n][g]
  BY <1>1, NodeSet
<1>3. Set(t, n, f, v) = [t EXCEPT !.node = nodes]
  BY DEF Set
<1> HIDE DEF r
<1>4. nodes \in [Addrs -> NodeType] /\ \A m \in Addrs : nodes[m] = IF m = n THEN r ELSE t.node[m]
  BY <1>1, <1>2
<1> HIDE DEF nodes
<1>5. /\ Set(t, n, f, v) \in TreeType
      /\ Set(t, n, f, v).root = t.root
      /\ Set(t, n, f, v).node = nodes
  BY <1>1, <1>3, <1>4 DEF TreeType
<1> QED
  BY <1>2, <1>4, <1>5 DEF At

-----------------------------------------------------------------------------
(* Trees: nodes that are linked, and the set of nodes under each of them.  *)

\* a is on the given side of b.
Ahead(side, a, b) == IF side = "left" THEN a < b ELSE a > b

Linked(t, L) ==
  /\ t \in TreeType /\ L \subseteq Keys /\ t.root \in L
  /\ At(t, t.root).parent \in {Sentinel, Null}
  /\ \A n \in L : At(t, n).key \in Keys
  /\ \A n \in L, s \in Sides :
       LET c == At(t, n)[s] IN
       c # Null => c \in L /\ At(t, c).parent = n /\ At(t, n)[Other(s)] # c
  /\ \A n \in L \ {t.root} :
       At(t, n).parent \in L /\ \E s \in Sides : At(t, At(t, n).parent)[s] = n

\* sub[n] are the nodes of the subtree under n.
Ordered(t, L, sub) ==
  /\ sub \in [L \cup {Null} -> SUBSET L]
  /\ sub[Null] = {}
  /\ \A n \in L : sub[n] = {n} \cup sub[At(t, n).left] \cup sub[At(t, n).right]
  /\ \A n \in L, s \in Sides :
       \A m \in sub[At(t, n)[s]] : Ahead(s, At(t, m).key, At(t, n).key)

Tree(t, L, sub) == Linked(t, L) /\ Ordered(t, L, sub)

LEMMA AheadFacts ==
  \A s \in Sides : \A a, b, c \in Keys :
    /\ ~Ahead(s, a, a)
    /\ ~(Ahead(s, a, b) /\ Ahead(s, b, a))
    /\ a # b => Ahead(s, a, b) \/ Ahead(s, b, a)
    /\ Ahead(s, a, b) /\ Ahead(s, b, c) => Ahead(s, a, c)
    /\ Ahead(Other(s), a, b) <=> Ahead(s, b, a)
BY RBTreeAssumption DEF Ahead, Sides, Other

LEMMA SideFacts ==
  /\ \A s \in Sides : Other(s) \in Sides /\ Other(s) # s /\ Other(Other(s)) = s
  /\ \A s, o \in Sides : s = o \/ s = Other(o)
  /\ Sides = {"left", "right"}
BY DEF Sides, Other

LEMMA LinkedFacts ==
  ASSUME NEW t, NEW L, Linked(t, L)
  PROVE  /\ t \in TreeType /\ L \subseteq Keys /\ t.root \in L
         /\ Null \notin L /\ Sentinel \notin L /\ Null # Sentinel
         /\ At(t, t.root).parent \in {Sentinel, Null}
         /\ \A n \in L : At(t, n).key \in Keys
         /\ \A n \in L, s \in Sides :
              /\ At(t, n)[s] \in L \cup {Null}
              /\ At(t, n)[s] # Null =>
                   /\ At(t, n)[s] \in L /\ At(t, At(t, n)[s]).parent = n
                   /\ At(t, n)[Other(s)] # At(t, n)[s]
                   /\ At(t, n)[s] # t.root
         /\ \A n \in L \ {t.root} :
              At(t, n).parent \in L /\ \E s \in Sides : At(t, At(t, n).parent)[s] = n
<1>1. /\ t \in TreeType /\ L \subseteq Keys /\ t.root \in L
      /\ At(t, t.root).parent \in {Sentinel, Null}
      /\ \A n \in L : At(t, n).key \in Keys
      /\ \A n \in L \ {t.root} :
           At(t, n).parent \in L /\ \E s \in Sides : At(t, At(t, n).parent)[s] = n
  BY DEF Linked
<1>2. Null \notin L /\ Sentinel \notin L /\ Null # Sentinel
  BY <1>1, RBTreeAssumption
<1>3. ASSUME NEW n \in L, NEW s \in Sides, At(t, n)[s] # Null
      PROVE  /\ At(t, n)[s] \in L /\ At(t, At(t, n)[s]).parent = n
             /\ At(t, n)[Other(s)] # At(t, n)[s]
             /\ At(t, n)[s] # t.root
  <2>1. /\ At(t, n)[s] \in L /\ At(t, At(t, n)[s]).parent = n
        /\ At(t, n)[Other(s)] # At(t, n)[s]
    BY <1>3 DEF Linked
  <2> QED
    BY <1>1, <1>2, <2>1
<1> QED
  BY <1>1, <1>2, <1>3

LEMMA OrderedFacts ==
  ASSUME NEW t, NEW L, NEW sub, Tree(t, L, sub), NEW n \in L, NEW s \in Sides
  PROVE  /\ sub[n] \subseteq L /\ n \in sub[n] /\ sub[Null] = {}
         /\ sub[At(t, n)[s]] \subseteq sub[n] /\ n \notin sub[At(t, n)[s]]
         /\ sub[n] = {n} \cup sub[At(t, n)[s]] \cup sub[At(t, n)[Other(s)]]
         /\ \A m \in sub[At(t, n)[s]] : m \in L /\ Ahead(s, At(t, m).key, At(t, n).key)
         /\ sub[At(t, n)[s]] \cap sub[At(t, n)[Other(s)]] = {}
<1>1. At(t, n)[s] \in L \cup {Null} /\ At(t, n)[Other(s)] \in L \cup {Null} /\ At(t, n).key \in Keys
  BY LinkedFacts, SideFacts DEF Tree
<1>2. sub \in [L \cup {Null} -> SUBSET L] /\ sub[Null] = {}
  BY DEF Tree, Ordered
<1>3. sub[n] = {n} \cup sub[At(t, n)[s]] \cup sub[At(t, n)[Other(s)]]
  <2>1. sub[n] = {n} \cup sub[At(t, n).left] \cup sub[At(t, n).right]
    BY DEF Tree, Ordered
  <2> QED
    BY <2>1 DEF Sides, Other
<1>4. /\ \A m \in sub[At(t, n)[s]] : m \in L /\ Ahead(s, At(t, m).key, At(t, n).key)
      /\ \A m \in sub[At(t, n)[Other(s)]] : m \in L /\ Ahead(Other(s), At(t, m).key, At(t, n).key)
  BY <1>1, <1>2, SideFacts DEF Tree, Ordered
<1>5. \A m \in L : At(t, m).key \in Keys
  BY LinkedFacts DEF Tree
<1> QED
  BY <1>1, <1>2, <1>3, <1>4, <1>5, AheadFacts

\* A set of finite sets has a least one.
LEMMA LeastSet ==
  ASSUME NEW U, IsFiniteSet(U), NEW T, T \subseteq SUBSET U, T # {}
  PROVE  \E x \in T : \A y \in T : y \subseteq x => y = x
<1>1. T \subseteq FiniteSubsetsOf(U)
  BY FS_Subset DEF FiniteSubsetsOf
<1>2. PICK x \in T : \A y \in T : <<y, x>> \notin StrictSubsetOrdering(U)
  BY <1>1, WFMin, FS_StrictSubsetOrderingWellFounded
<1> QED
  BY <1>2 DEF StrictSubsetOrdering

LEMMA FiniteNodes ==
  ASSUME NEW t, NEW L, Linked(t, L)
  PROVE  IsFiniteSet(L)
BY LinkedFacts, RBTreeAssumption, FS_Subset

\* Some node of any set of nodes has no child in it, and some has no parent.
LEMMA Bottom ==
  ASSUME NEW t, NEW L, NEW sub, Tree(t, L, sub), NEW S, S \subseteq L, S # {}
  PROVE  \E n \in S : \A s \in Sides : At(t, n)[s] \notin S
<1> DEFINE T == {sub[n] : n \in S}
<1>1. T \subseteq SUBSET L /\ T # {}
  BY OrderedFacts, SideFacts
<1>2. PICK x \in T : \A y \in T : y \subseteq x => y = x
  <2> HIDE DEF T
  <2> QED
    BY <1>1, LeastSet, FiniteNodes DEF Tree
<1>3. PICK n \in S : x = sub[n]
  OBVIOUS
<1>4. ASSUME NEW s \in Sides, At(t, n)[s] \in S PROVE FALSE
  <2>1. sub[At(t, n)[s]] \subseteq sub[n] /\ n \notin sub[At(t, n)[s]] /\ n \in sub[n]
    BY OrderedFacts
  <2> QED
    BY <1>2, <1>3, <1>4, <2>1
<1> QED
  BY <1>4

LEMMA Top ==
  ASSUME NEW t, NEW L, NEW sub, Tree(t, L, sub), NEW S, S \subseteq L, S # {}
  PROVE  \E n \in S : n # t.root => At(t, n).parent \notin S
<1> DEFINE T == {L \ sub[n] : n \in S}
<1>1. T \subseteq SUBSET L /\ T # {}
  OBVIOUS
<1>2. PICK x \in T : \A y \in T : y \subseteq x => y = x
  <2> HIDE DEF T
  <2> QED
    BY <1>1, LeastSet, FiniteNodes DEF Tree
<1>3. PICK n \in S : x = L \ sub[n]
  OBVIOUS
<1>4. ASSUME n # t.root, At(t, n).parent \in S PROVE FALSE
  <2> DEFINE p == At(t, n).parent
  <2>1. PICK s \in Sides : At(t, p)[s] = n
    BY <1>4, LinkedFacts DEF Tree
  <2>2. p \in L
    BY <1>4
  <2>3. sub[n] \subseteq sub[p] /\ p \notin sub[n] /\ p \in sub[p]
    BY <2>1, <2>2, OrderedFacts
  <2>4. L \ sub[p] \in T
    BY <1>4
  <2>5. L \ sub[p] = L \ sub[n]
    <3>1. L \ sub[p] \subseteq L \ sub[n]
      BY <2>3
    <3> QED
      BY <1>2, <1>3, <2>4, <3>1
  <2> QED
    BY <2>2, <2>3, <2>5
<1> QED
  BY <1>4

\* What is under n is under n's children, and all but n has a parent there.
LEMMA UnderParents ==
  ASSUME NEW t, NEW L, NEW sub, Tree(t, L, sub)
  PROVE  \A n \in L : \A m \in sub[n] : m = n \/ (m # t.root /\ At(t, m).parent \in sub[n])
<1> DEFINE OK(n) == \A m \in sub[n] : m = n \/ (m # t.root /\ At(t, m).parent \in sub[n])
           S == {n \in L : ~OK(n)}
<1> SUFFICES ASSUME S # {} PROVE FALSE
  OBVIOUS
<1>1. PICK n \in S : \A s \in Sides : At(t, n)[s] \notin S
  <2> HIDE DEF S
  <2>1. S \subseteq L
    BY DEF S
  <2> QED
    BY <2>1, Bottom
<1>2. n \in L /\ ~OK(n)
  OBVIOUS
<1>3. ASSUME NEW s \in Sides, NEW m \in sub[At(t, n)[s]]
      PROVE  m # t.root /\ At(t, m).parent \in sub[n]
  <2> DEFINE c == At(t, n)[s]
  <2>1. c # Null /\ c \in L /\ At(t, c).parent = n /\ c # t.root
    BY <1>2, LinkedFacts, OrderedFacts DEF Tree
  <2>2. OK(c)
    BY <1>1, <2>1
  <2>3. sub[c] \subseteq sub[n] /\ n \in sub[n]
    BY <1>2, OrderedFacts
  <2> QED
    BY <2>1, <2>2, <2>3
<1>4. \A m \in sub[n] : m = n \/ \E s \in Sides : m \in sub[At(t, n)[s]]
  BY <1>2, OrderedFacts, SideFacts
<1> QED
  BY <1>2, <1>3, <1>4

LEMMA UnderTransitive ==
  ASSUME NEW t, NEW L, NEW sub, Tree(t, L, sub)
  PROVE  \A n \in L : \A m \in sub[n] : sub[m] \subseteq sub[n]
<1> DEFINE OK(n) == \A m \in sub[n] : sub[m] \subseteq sub[n]
           S == {n \in L : ~OK(n)}
<1> SUFFICES ASSUME S # {} PROVE FALSE
  OBVIOUS
<1>1. PICK n \in S : \A s \in Sides : At(t, n)[s] \notin S
  <2> HIDE DEF S
  <2>1. S \subseteq L
    BY DEF S
  <2> QED
    BY <2>1, Bottom
<1>2. n \in L /\ ~OK(n)
  OBVIOUS
<1>3. ASSUME NEW s \in Sides, NEW m \in sub[At(t, n)[s]]
      PROVE  sub[m] \subseteq sub[n]
  <2> DEFINE c == At(t, n)[s]
  <2>1. c # Null /\ c \in L
    BY <1>2, LinkedFacts, OrderedFacts DEF Tree
  <2>2. OK(c)
    BY <1>1, <2>1
  <2>3. sub[c] \subseteq sub[n]
    BY <1>2, OrderedFacts
  <2> QED
    BY <2>2, <2>3
<1>4. \A m \in sub[n] : m = n \/ \E s \in Sides : m \in sub[At(t, n)[s]]
  BY <1>2, OrderedFacts, SideFacts
<1> QED
  BY <1>2, <1>3, <1>4

\* All nodes are under the root.
LEMMA AllUnderRoot ==
  ASSUME NEW t, NEW L, NEW sub, Tree(t, L, sub)
  PROVE  sub[t.root] = L
<1> DEFINE S == L \ sub[t.root]
<1>1. t.root \in L /\ sub[t.root] \subseteq L /\ t.root \in sub[t.root]
  BY LinkedFacts, OrderedFacts, SideFacts DEF Tree
<1> SUFFICES ASSUME S # {} PROVE FALSE
  BY <1>1
<1>2. PICK n \in S : n # t.root => At(t, n).parent \notin S
  <2> HIDE DEF S
  <2>1. S \subseteq L
    BY DEF S
  <2> QED
    BY <2>1, Top
<1>3. n # t.root /\ n \in L
  BY <1>1
<1> DEFINE p == At(t, n).parent
<1>4. p \in L /\ \E s \in Sides : At(t, p)[s] = n
  BY <1>3, LinkedFacts DEF Tree
<1>5. p \in sub[t.root]
  BY <1>2, <1>3, <1>4
<1>6. sub[p] \subseteq sub[t.root]
  BY <1>1, <1>5, UnderTransitive
<1>7. n \in sub[p]
  BY <1>3, <1>4, OrderedFacts
<1> QED
  BY <1>6, <1>7

\* Keys are in the tree once.
LEMMA KeysDistinct ==
  ASSUME NEW t, NEW L, NEW sub, Tree(t, L, sub)
  PROVE  \A m, n \in L : At(t, m).key = At(t, n).key => m = n
<1> DEFINE OK(a) == \A m, n \in sub[a] : At(t, m).key = At(t, n).key => m = n
           S == {a \in L : ~OK(a)}
<1>1. ASSUME S # {} PROVE FALSE
  <2>1. PICK a \in S : \A s \in Sides : At(t, a)[s] \notin S
    <3> HIDE DEF S
    <3>1. S \subseteq L
      BY DEF S
    <3> QED
      BY <1>1, <3>1, Bottom
  <2>2. a \in L /\ ~OK(a)
    OBVIOUS
  <2>3. ASSUME NEW s \in Sides PROVE OK(At(t, a)[s])
    BY <2>1, <2>2, LinkedFacts, OrderedFacts DEF Tree
  <2>4. PICK m \in sub[a], n \in sub[a] : At(t, m).key = At(t, n).key /\ m # n
    BY <2>2
  <2>5. m \in L /\ n \in L /\ At(t, m).key \in Keys /\ At(t, a).key \in Keys
    BY <2>2, OrderedFacts, SideFacts, LinkedFacts DEF Tree
  <2>6. ASSUME NEW s \in Sides PROVE ~(m \in sub[At(t, a)[s]] /\ n \in sub[At(t, a)[s]])
    BY <2>3, <2>4
  <2>7. ASSUME NEW s \in Sides PROVE ~(m \in sub[At(t, a)[s]] /\ n \in sub[At(t, a)[Other(s)]])
    <3> SUFFICES ASSUME m \in sub[At(t, a)[s]], n \in sub[At(t, a)[Other(s)]] PROVE FALSE
      OBVIOUS
    <3>1. Ahead(s, At(t, m).key, At(t, a).key) /\ Ahead(Other(s), At(t, n).key, At(t, a).key)
      BY <2>2, OrderedFacts, SideFacts
    <3> QED
      BY <2>4, <2>5, <3>1, AheadFacts
  <2>8. ASSUME NEW s \in Sides PROVE ~(a \in {m, n} /\ {m, n} \cap sub[At(t, a)[s]] # {})
    <3> SUFFICES ASSUME a \in {m, n}, NEW b \in {m, n}, b \in sub[At(t, a)[s]] PROVE FALSE
      OBVIOUS
    <3>1. Ahead(s, At(t, b).key, At(t, a).key)
      BY <2>2, OrderedFacts
    <3> QED
      BY <2>4, <2>5, <3>1, AheadFacts
  <2>9. \A b \in {m, n} : b = a \/ \E s \in Sides : b \in sub[At(t, a)[s]]
    BY <2>2, OrderedFacts, SideFacts
  <2> QED
    BY <2>4, <2>6, <2>7, <2>8, <2>9, SideFacts
<1>2. OK(t.root)
  BY <1>1, LinkedFacts DEF Tree
<1> QED
  BY <1>2, AllUnderRoot

-----------------------------------------------------------------------------
(* Recursion.  A function that calls itself last has a solution whether or *)
(* not it ends: the value where following next ends, if it does.           *)

Solves(f, D, Stop, val, next) ==
  f = [n \in D |-> IF n \in Stop THEN val[n] ELSE f[next[n]]]

LEMMA TailRecursion ==
  ASSUME NEW D, NEW Stop, NEW val, NEW next, \A n \in D \ Stop : next[n] \in D
  PROVE  \E f : Solves(f, D, Stop, val, next)
<1> DEFINE Closed(S) == \A n \in S \ Stop : next[n] \in S
           Ends(n) == {m \in D \cap Stop : \A S \in SUBSET D : n \in S /\ Closed(S) => m \in S}
           V(n) == val[CHOOSE m : m \in Ends(n)]
           F == [n \in D |-> V(n)]
           Step(f) == [n \in D |-> IF n \in Stop THEN val[n] ELSE f[next[n]]]
<1>1. ASSUME NEW n \in D, n \in Stop PROVE V(n) = val[n]
  <2>1. Ends(n) = {n}
    <3>1. {n} \in SUBSET D /\ Closed({n})
      BY <1>1
    <3> QED
      BY <1>1, <3>1
  <2> HIDE DEF Ends
  <2> QED
    BY <2>1
<1>2. ASSUME NEW n \in D, n \notin Stop PROVE V(n) = V(next[n])
  <2>1. ASSUME NEW m \in Ends(n) PROVE m \in Ends(next[n])
    <3> SUFFICES ASSUME NEW S \in SUBSET D, next[n] \in S, Closed(S) PROVE m \in S
      OBVIOUS
    <3>1. S \cup {n} \in SUBSET D /\ Closed(S \cup {n})
      OBVIOUS
    <3> QED
      BY <1>2, <3>1
  <2>2. ASSUME NEW m \in Ends(next[n]) PROVE m \in Ends(n)
    BY <1>2
  <2>3. Ends(n) = Ends(next[n])
    <3> HIDE DEF Ends
    <3> QED
      BY <2>1, <2>2
  <2> HIDE DEF Ends
  <2> QED
    BY <2>3
<1>3. F = Step(F)
  <2>1. ASSUME NEW n \in D
        PROVE  V(n) = IF n \in Stop THEN val[n] ELSE F[next[n]]
    <3> HIDE DEF V
    <3> QED
      BY <1>1, <1>2
  <2> DEFINE W(n) == IF n \in Stop THEN val[n] ELSE F[next[n]]
  <2>2. F = [n \in D |-> V(n)] /\ Step(F) = [n \in D |-> W(n)]
    OBVIOUS
  <2>3. \A n \in D : V(n) = W(n)
    BY <2>1
  <2> HIDE DEF F, Step, V, W
  <2> QED
    BY <2>2, <2>3
<1> HIDE DEF F, Step
<1>4. \E f : f = Step(f)
  BY <1>3
<1> QED
  BY <1>4 DEF Step, Solves

\* Pointers down the tree lead to nodes, also from nodes outside of it.
ClosedDown(t) == \A n \in Addrs, s \in Sides : At(t, n)[s] \in Keys \cup {Null}

Towards(t, k, n) == IF k < At(t, n).key THEN At(t, n).left ELSE At(t, n).right

Descent(t, k) ==
  CHOOSE f : f = [n \in Keys |->
    IF k = At(t, n).key \/ Towards(t, k, n) = Null THEN n ELSE f[Towards(t, k, n)]]

LEMMA SearchDescent == \A t, k : Search(t, k) = Descent(t, k)[t.root]
BY DEF Search, Descent, Towards

LEMMA DescentEquation ==
  ASSUME NEW t, NEW k, ClosedDown(t)
  PROVE  \A n \in Keys :
           Descent(t, k)[n] = IF k = At(t, n).key \/ Towards(t, k, n) = Null THEN n
                              ELSE Descent(t, k)[Towards(t, k, n)]
<1> DEFINE Stop == {n \in Keys : k = At(t, n).key \/ Towards(t, k, n) = Null}
           val == [n \in Keys |-> n]
           next == [n \in Keys |-> Towards(t, k, n)]
           Step(f) == [n \in Keys |->
             IF k = At(t, n).key \/ Towards(t, k, n) = Null THEN n ELSE f[Towards(t, k, n)]]
<1>1. \A n \in Keys \ Stop : next[n] \in Keys
  BY DEF ClosedDown, Towards, Sides, Addrs
<1>2. \A f : Step(f) = [n \in Keys |-> IF n \in Stop THEN val[n] ELSE f[next[n]]]
  BY DEF Towards
<1>3. \E f : f = Step(f)
  <2> HIDE DEF Stop, val, next, Step
  <2>1. PICK f : Solves(f, Keys, Stop, val, next)
    BY <1>1, TailRecursion
  <2> QED
    BY <1>2, <2>1 DEF Solves
<1>4. Descent(t, k) = Step(Descent(t, k))
  BY <1>3, Zenon DEF Descent
<1>5. \A f : \A n \in Keys :
        Step(f)[n] = IF k = At(t, n).key \/ Towards(t, k, n) = Null THEN n
                     ELSE f[Towards(t, k, n)]
  OBVIOUS
<1> HIDE DEF Step
<1> QED
  BY <1>4, <1>5

OutermostFrom(t, side) ==
  CHOOSE f : f = [m \in Keys |->
    IF At(t, m)[side] = Null THEN m ELSE f[At(t, m)[side]]]

LEMMA OutermostByFunction == \A t, n, side : Outermost(t, n, side) = OutermostFrom(t, side)[n]
BY DEF Outermost, OutermostFrom

LEMMA OutermostEquation ==
  ASSUME NEW t, NEW side \in Sides, ClosedDown(t)
  PROVE  \A n \in Keys :
           OutermostFrom(t, side)[n] =
             IF At(t, n)[side] = Null THEN n ELSE OutermostFrom(t, side)[At(t, n)[side]]
<1> DEFINE Stop == {n \in Keys : At(t, n)[side] = Null}
           val == [n \in Keys |-> n]
           next == [n \in Keys |-> At(t, n)[side]]
           Step(f) == [n \in Keys |-> IF At(t, n)[side] = Null THEN n ELSE f[At(t, n)[side]]]
<1>1. \A n \in Keys \ Stop : next[n] \in Keys
  BY DEF ClosedDown, Addrs
<1>2. \A f : Step(f) = [n \in Keys |-> IF n \in Stop THEN val[n] ELSE f[next[n]]]
  OBVIOUS
<1>3. \E f : f = Step(f)
  <2> HIDE DEF Stop, val, next, Step
  <2>1. PICK f : Solves(f, Keys, Stop, val, next)
    BY <1>1, TailRecursion
  <2> QED
    BY <1>2, <2>1 DEF Solves
<1>4. OutermostFrom(t, side) = Step(OutermostFrom(t, side))
  BY <1>3, Zenon DEF OutermostFrom
<1>5. \A f : \A n \in Keys :
        Step(f)[n] = IF At(t, n)[side] = Null THEN n ELSE f[At(t, n)[side]]
  OBVIOUS
<1> HIDE DEF Step
<1> QED
  BY <1>4, <1>5

ClimbFrom(side) ==
  CHOOSE f : f = [m \in Keys \cup {Sentinel} |->
    LET p == At(tree, m).parent IN
    IF p # Null /\ At(tree, p)[side] = m THEN f[p]
    ELSE IF At(tree, m)[side] # p THEN p ELSE m]

LEMMA NeighbourByFunctions ==
  \A n, side : Neighbour(n, side) =
    IF side = "left" /\ n = Sentinel /\ At(tree, n).parent # Null THEN At(tree, n).right
    ELSE IF At(tree, n)[side] # Null THEN Outermost(tree, At(tree, n)[side], Other(side))
    ELSE ClimbFrom(side)[n]
BY DEF Neighbour, ClimbFrom

LEMMA ClimbEquation ==
  ASSUME NEW side, \A n \in Addrs : At(tree, n).parent \in Addrs \cup {Null}
  PROVE  \A n \in Addrs :
           LET p == At(tree, n).parent IN
           ClimbFrom(side)[n] =
             IF p # Null /\ At(tree, p)[side] = n THEN ClimbFrom(side)[p]
             ELSE IF At(tree, n)[side] # p THEN p ELSE n
<1> DEFINE Up(n) == At(tree, n).parent # Null /\ At(tree, At(tree, n).parent)[side] = n
           End(n) == IF At(tree, n)[side] # At(tree, n).parent THEN At(tree, n).parent ELSE n
           Stop == {n \in Addrs : ~Up(n)}
           val == [n \in Addrs |-> End(n)]
           next == [n \in Addrs |-> At(tree, n).parent]
           Step(f) == [n \in Keys \cup {Sentinel} |->
             IF Up(n) THEN f[At(tree, n).parent] ELSE End(n)]
<1>1. \A n \in Addrs \ Stop : next[n] \in Addrs
  OBVIOUS
<1>2. \A f : Step(f) = [n \in Addrs |-> IF n \in Stop THEN val[n] ELSE f[next[n]]]
  <2> HIDE DEF Up, End
  <2> QED
    BY DEF Addrs
<1>3. \E f : f = Step(f)
  <2> HIDE DEF Stop, val, next, Step
  <2>1. PICK f : Solves(f, Addrs, Stop, val, next)
    BY <1>1, TailRecursion
  <2> QED
    BY <1>2, <2>1 DEF Solves
<1>4. ClimbFrom(side) = Step(ClimbFrom(side))
  BY <1>3, Zenon DEF ClimbFrom
<1>5. \A f : \A n \in Addrs :
        Step(f)[n] = IF Up(n) THEN f[At(tree, n).parent] ELSE End(n)
  <2> HIDE DEF Up, End
  <2> QED
    BY DEF Addrs
<1> HIDE DEF Step
<1> QED
  BY <1>4, <1>5

\* The recursion for Subtree has a solution: what is in every set that is
\* closed under the pointers down.
LEMMA SubtreeEquation ==
  ASSUME tree \in TreeType
  PROVE  \A n \in Addresses :
           Subtree[n] = IF n = Null THEN {}
                        ELSE {n} \cup Subtree[At(tree, n).left] \cup Subtree[At(tree, n).right]
<1> DEFINE Closed(S) == \A n \in S : {At(tree, n).left, At(tree, n).right} \subseteq S \cup {Null}
           Reach(n) == {m \in Addrs : \A S \in SUBSET Addrs : n \in S /\ Closed(S) => m \in S}
           R(n) == IF n = Null THEN {} ELSE Reach(n)
           F == [n \in Addresses |-> R(n)]
           Step(f) == [n \in Addresses |->
             IF n = Null THEN {} ELSE {n} \cup f[At(tree, n).left] \cup f[At(tree, n).right]]
<1>1. /\ Addresses = Addrs \cup {Null} /\ Null \notin Addrs
      /\ \A n \in Addrs : At(tree, n).left \in Addresses /\ At(tree, n).right \in Addresses
  BY AtType, RBTreeAssumption DEF Addresses, Addrs, NodeType
<1>2. ASSUME NEW n \in Addrs, NEW l \in Addresses, NEW r \in Addresses,
             l = At(tree, n).left, r = At(tree, n).right
      PROVE  Reach(n) = {n} \cup R(l) \cup R(r)
  <2>1. n \in Reach(n)
    OBVIOUS
  <2>2. ASSUME NEW c \in {l, r}, c # Null, NEW m \in Reach(c) PROVE m \in Reach(n)
    <3> SUFFICES ASSUME NEW S \in SUBSET Addrs, n \in S, Closed(S) PROVE m \in S
      OBVIOUS
    <3>1. c \in S
      BY <1>2, <2>2
    <3> QED
      BY <3>1
  <2>3. ASSUME NEW m \in Reach(n), m # n, m \notin R(l), m \notin R(r) PROVE FALSE
    <3>1. ASSUME NEW c \in {l, r}
          PROVE  \E S \in SUBSET Addrs : c \in S \cup {Null} /\ Closed(S) /\ m \notin S
      <4>1. CASE c = Null
        <5>1. {} \in SUBSET Addrs /\ Closed({})
          OBVIOUS
        <5> QED
          BY <4>1, <5>1
      <4>2. CASE c # Null
        BY <1>1, <2>3, <3>1, <4>2
      <4> QED
        BY <4>1, <4>2
    <3>2. PICK S \in SUBSET Addrs : l \in S \cup {Null} /\ Closed(S) /\ m \notin S
      BY <3>1
    <3>3. PICK T \in SUBSET Addrs : r \in T \cup {Null} /\ Closed(T) /\ m \notin T
      BY <3>1
    <3>4. /\ S \cup T \cup {n} \in SUBSET Addrs /\ n \in S \cup T \cup {n}
          /\ m \notin S \cup T \cup {n}
      BY <2>3, <3>2, <3>3
    <3>5. Closed(S \cup T \cup {n})
      BY <1>2, <3>2, <3>3
    <3> QED
      BY <3>4, <3>5
  <2>4. Reach(n) \subseteq {n} \cup R(l) \cup R(r)
    <3> HIDE DEF Reach, R
    <3> QED
      BY <2>3
  <2>5. R(l) \subseteq Reach(n) /\ R(r) \subseteq Reach(n)
    <3> HIDE DEF Reach
    <3> QED
      BY <2>2
  <2> HIDE DEF Reach, R
  <2> QED
    BY <2>1, <2>4, <2>5
<1>3. F = Step(F)
  <2> DEFINE W(n) == IF n = Null THEN {}
                     ELSE {n} \cup F[At(tree, n).left] \cup F[At(tree, n).right]
  <2>1. ASSUME NEW n \in Addresses PROVE R(n) = W(n)
    <3>1. CASE n = Null
      BY <3>1
    <3>2. CASE n # Null
      <4>1. n \in Addrs /\ At(tree, n).left \in Addresses /\ At(tree, n).right \in Addresses
        BY <1>1, <3>2
      <4>2. R(n) = {n} \cup R(At(tree, n).left) \cup R(At(tree, n).right)
        <5>1. Reach(n) = {n} \cup R(At(tree, n).left) \cup R(At(tree, n).right)
          <6> HIDE DEF Reach, R
          <6> QED
            BY <1>2, <4>1
        <5> HIDE DEF Reach
        <5> QED
          BY <3>2, <5>1
      <4> HIDE DEF R
      <4> QED
        BY <3>2, <4>1, <4>2
    <3> QED
      BY <3>1, <3>2
  <2>2. F = [n \in Addresses |-> R(n)] /\ Step(F) = [n \in Addresses |-> W(n)]
    OBVIOUS
  <2> HIDE DEF F, Step, R, W
  <2> QED
    BY <2>1, <2>2
<1>4. Subtree = Step(Subtree)
  <2>1. \E f : f = Step(f)
    <3> HIDE DEF F, Step
    <3> QED
      BY <1>3
  <2> QED
    BY <2>1, Zenon DEF Subtree
<1>5. \A f : \A n \in Addresses :
        Step(f)[n] = IF n = Null THEN {}
                     ELSE {n} \cup f[At(tree, n).left] \cup f[At(tree, n).right]
  OBVIOUS
<1> HIDE DEF Step
<1> QED
  BY <1>4, <1>5

LEMMA SubtreeLabels ==
  ASSUME NEW L, NEW sub, Tree(tree, L, sub)
  PROVE  \A n \in L \cup {Null} : Subtree[n] = sub[n]
<1> DEFINE S == {n \in L : Subtree[n] # sub[n]}
<1>1. /\ tree \in TreeType /\ L \subseteq Keys /\ Null \notin L
      /\ \A n \in L, s \in Sides : At(tree, n)[s] \in L \cup {Null}
      /\ sub[Null] = {} /\ Null \in Addresses /\ L \subseteq Addresses
  BY LinkedFacts DEF Tree, Ordered, Addresses
<1>2. Subtree[Null] = sub[Null]
  BY <1>1, SubtreeEquation
<1>3. ASSUME S # {} PROVE FALSE
  <2>1. PICK n \in S : \A s \in Sides : At(tree, n)[s] \notin S
    <3> HIDE DEF S
    <3>1. S \subseteq L
      BY DEF S
    <3> QED
      BY <1>3, <3>1, Bottom
  <2>2. \A s \in Sides : Subtree[At(tree, n)[s]] = sub[At(tree, n)[s]]
    BY <1>1, <1>2, <2>1
  <2>3. Subtree[n] = {n} \cup Subtree[At(tree, n).left] \cup Subtree[At(tree, n).right]
    BY <1>1, SubtreeEquation
  <2>4. sub[n] = {n} \cup sub[At(tree, n).left] \cup sub[At(tree, n).right]
    BY DEF Tree, Ordered
  <2> QED
    BY <2>2, <2>3, <2>4 DEF Sides
<1> QED
  BY <1>2, <1>3

-----------------------------------------------------------------------------
(* Where walks through the tree end.                                       *)

LEMMA OutermostFacts ==
  ASSUME NEW t, NEW L, NEW sub, Tree(t, L, sub), ClosedDown(t), NEW side \in Sides, NEW n \in L
  PROVE  LET o == Outermost(t, n, side) IN
         /\ o \in sub[n] /\ At(t, o)[side] = Null
         /\ \A m \in sub[n] : m = o \/ Ahead(side, At(t, o).key, At(t, m).key)
<1> DEFINE f == OutermostFrom(t, side)
           OK(a) == /\ f[a] \in sub[a] /\ At(t, f[a])[side] = Null
                    /\ \A m \in sub[a] : m = f[a] \/ Ahead(side, At(t, f[a]).key, At(t, m).key)
           S == {a \in L : ~OK(a)}
<1>1. ASSUME S # {} PROVE FALSE
  <2>1. PICK a \in S : \A s \in Sides : At(t, a)[s] \notin S
    <3> HIDE DEF S
    <3>1. S \subseteq L
      BY DEF S
    <3> QED
      BY <1>1, <3>1, Bottom
  <2>2. a \in L /\ ~OK(a) /\ a \in Keys
    BY LinkedFacts DEF Tree
  <2> DEFINE c == At(t, a)[side]
  <2>3. f[a] = IF c = Null THEN a ELSE f[c]
    BY <2>2, OutermostEquation
  <2>4. /\ sub[a] \subseteq L /\ a \in sub[a] /\ sub[c] \subseteq sub[a] /\ sub[Null] = {}
        /\ sub[a] = {a} \cup sub[c] \cup sub[At(t, a)[Other(side)]]
        /\ \A m \in sub[c] : Ahead(side, At(t, m).key, At(t, a).key)
        /\ \A m \in sub[At(t, a)[Other(side)]] : Ahead(Other(side), At(t, m).key, At(t, a).key)
    BY <2>2, OrderedFacts, SideFacts
  <2>5. \A m \in L : At(t, m).key \in Keys
    BY LinkedFacts DEF Tree
  <2>6. \A m \in sub[At(t, a)[Other(side)]] : Ahead(side, At(t, a).key, At(t, m).key)
    BY <2>2, <2>4, <2>5, OrderedFacts, AheadFacts, SideFacts
  <2>7. CASE c = Null
    BY <2>2, <2>3, <2>4, <2>6, <2>7
  <2>8. CASE c # Null
    <3>1. c \in L /\ OK(c) /\ f[a] = f[c]
      BY <2>1, <2>2, <2>3, <2>8, LinkedFacts DEF Tree
    <3>2. f[c] \in sub[c] /\ f[c] \in L /\ Ahead(side, At(t, f[c]).key, At(t, a).key)
      BY <2>4, <3>1
    <3>3. \A m \in sub[At(t, a)[Other(side)]] :
            m \in L /\ Ahead(side, At(t, f[c]).key, At(t, m).key)
      BY <2>2, <2>5, <2>6, <3>2, OrderedFacts, SideFacts, AheadFacts
    <3> HIDE DEF f, c
    <3> QED
      BY <2>2, <2>4, <3>1, <3>2, <3>3
  <2> QED
    BY <2>7, <2>8
<1> HIDE DEF f
<1>2. OK(n)
  BY <1>1
<1> QED
  BY <1>2, OutermostByFunction DEF f

\* Key k belongs under n, if anywhere.
Belongs(t, L, sub, k, n) ==
  /\ \A a \in L, s \in Sides : n \in sub[At(t, a)[s]] => Ahead(s, k, At(t, a).key)
  /\ \A m \in L \ sub[n] : At(t, m).key # k

\* The side of n on which k belongs
SideFor(t, k, n) == IF k < At(t, n).key THEN "left" ELSE "right"

LEMMA SideForFacts ==
  ASSUME NEW t, NEW k \in Keys, NEW n, At(t, n).key \in Keys, At(t, n).key # k
  PROVE  /\ SideFor(t, k, n) \in Sides /\ Ahead(SideFor(t, k, n), k, At(t, n).key)
         /\ Towards(t, k, n) = At(t, n)[SideFor(t, k, n)]
<1>1. PICK q \in Int : q = At(t, n).key /\ k \in Int
  BY RBTreeAssumption
<1>2. CASE k < q
  BY <1>1, <1>2 DEF SideFor, Sides, Ahead, Towards
<1>3. CASE ~(k < q)
  <2>1. k > q
    BY <1>1, <1>3
  <2> QED
    BY <1>1, <1>3, <2>1 DEF SideFor, Sides, Ahead, Towards
<1> QED
  BY <1>2, <1>3

LEMMA BelongsUnderRoot ==
  ASSUME NEW t, NEW L, NEW sub, Tree(t, L, sub), NEW k
  PROVE  Belongs(t, L, sub, k, t.root)
<1>1. ASSUME NEW a \in L, NEW s \in Sides PROVE t.root \notin sub[At(t, a)[s]]
  <2> DEFINE c == At(t, a)[s]
  <2>1. CASE c = Null
    BY <2>1, OrderedFacts
  <2>2. CASE c # Null
    <3>1. c \in L /\ c # t.root
      BY <2>2, LinkedFacts DEF Tree
    <3> QED
      BY <3>1, UnderParents
  <2> QED
    BY <2>1, <2>2
<1> QED
  BY <1>1, AllUnderRoot DEF Belongs

LEMMA BelongsFurther ==
  ASSUME NEW t, NEW L, NEW sub, Tree(t, L, sub), NEW k \in Keys, NEW n \in L,
         Belongs(t, L, sub, k, n), k # At(t, n).key
  PROVE  LET s == SideFor(t, k, n)
             c == At(t, n)[s]
         IN
         /\ s \in Sides /\ Ahead(s, k, At(t, n).key) /\ c = Towards(t, k, n)
         /\ \A m \in L \ sub[c] : At(t, m).key # k
         /\ c # Null => Belongs(t, L, sub, k, c)
<1> DEFINE s == SideFor(t, k, n)
           c == At(t, n)[s]
<1>1. \A m \in L : At(t, m).key \in Keys
  BY LinkedFacts DEF Tree
<1>2. s \in Sides /\ Ahead(s, k, At(t, n).key) /\ c = Towards(t, k, n)
  BY <1>1, SideForFacts
<1> HIDE DEF s
<1>3. ASSUME NEW m \in L \ sub[c] PROVE At(t, m).key # k
  <2>1. CASE m \in sub[n]
    <3>1. m = n \/ m \in sub[At(t, n)[Other(s)]]
      BY <1>2, <2>1, OrderedFacts
    <3>2. m \in sub[At(t, n)[Other(s)]] => Ahead(Other(s), At(t, m).key, At(t, n).key)
      BY <1>2, OrderedFacts, SideFacts
    <3> QED
      BY <1>1, <1>2, <3>1, <3>2, AheadFacts
  <2>2. CASE m \notin sub[n]
    BY <2>2 DEF Belongs
  <2> QED
    BY <2>1, <2>2
<1>4. ASSUME c # Null, NEW a \in L, NEW o \in Sides, c \in sub[At(t, a)[o]]
      PROVE  Ahead(o, k, At(t, a).key)
  <2> DEFINE b == At(t, a)[o]
  <2>1. b \in L /\ c \in L /\ At(t, c).parent = n
    BY <1>2, <1>4, LinkedFacts, OrderedFacts DEF Tree
  <2>2. c = b \/ At(t, c).parent \in sub[b]
    BY <1>4, <2>1, UnderParents
  <2>3. CASE c = b
    <3>1. a = n
      BY <2>1, <2>3, LinkedFacts DEF Tree
    <3>2. o = s
      BY <1>2, <1>4, <2>3, <3>1, LinkedFacts, SideFacts DEF Tree
    <3> QED
      BY <1>2, <3>1, <3>2
  <2>4. CASE n \in sub[b]
    BY <2>4 DEF Belongs
  <2> QED
    BY <2>1, <2>2, <2>3, <2>4
<1>5. c # Null => Belongs(t, L, sub, k, c)
  BY <1>3, <1>4 DEF Belongs
<1> QED
  BY <1>2, <1>3, <1>5 DEF s

\* A search ends at the node with the key, or where the key is to be attached
\* when there is none.
LEMMA SearchFacts ==
  ASSUME NEW t, NEW L, NEW sub, Tree(t, L, sub), ClosedDown(t), NEW k \in Keys
  PROVE  LET n == Search(t, k) IN
         /\ n \in L /\ Belongs(t, L, sub, k, n)
         /\ At(t, n).key # k =>
              /\ SideFor(t, k, n) \in Sides /\ Ahead(SideFor(t, k, n), k, At(t, n).key)
              /\ At(t, n)[SideFor(t, k, n)] = Null
              /\ \A m \in L : At(t, m).key # k
<1> DEFINE f == Descent(t, k)
           Final(n) == /\ n \in L /\ Belongs(t, L, sub, k, n)
                       /\ At(t, n).key # k =>
                            /\ SideFor(t, k, n) \in Sides /\ Ahead(SideFor(t, k, n), k, At(t, n).key)
                            /\ At(t, n)[SideFor(t, k, n)] = Null
                            /\ \A m \in L : At(t, m).key # k
           S == {n \in L : Belongs(t, L, sub, k, n) /\ ~Final(f[n])}
<1>1. ASSUME S # {} PROVE FALSE
  <2>1. PICK n \in S : \A s \in Sides : At(t, n)[s] \notin S
    <3> HIDE DEF S
    <3>1. S \subseteq L
      BY DEF S
    <3> QED
      BY <1>1, <3>1, Bottom
  <2>2. n \in L /\ n \in Keys /\ Belongs(t, L, sub, k, n) /\ ~Final(f[n])
    BY LinkedFacts DEF Tree
  <2>3. f[n] = IF k = At(t, n).key \/ Towards(t, k, n) = Null THEN n ELSE f[Towards(t, k, n)]
    BY <2>2, DescentEquation
  <2> HIDE DEF f
  <2>4. CASE k = At(t, n).key
    BY <2>2, <2>3, <2>4
  <2>5. CASE k # At(t, n).key
    <3> DEFINE s == SideFor(t, k, n)
               c == At(t, n)[s]
    <3>1. /\ s \in Sides /\ Ahead(s, k, At(t, n).key) /\ c = Towards(t, k, n)
          /\ \A m \in L \ sub[c] : At(t, m).key # k
          /\ c # Null => Belongs(t, L, sub, k, c)
      BY <2>2, <2>5, BelongsFurther
    <3>2. CASE c = Null
      <4>1. f[n] = n /\ sub[Null] = {}
        BY <2>3, <3>1, <3>2 DEF Tree, Ordered
      <4> QED
        BY <2>2, <3>1, <3>2, <4>1
    <3>3. CASE c # Null
      <4>1. c \in L
        BY <2>2, <3>1, <3>3, LinkedFacts DEF Tree
      <4>2. f[n] = f[c]
        BY <2>3, <2>5, <3>1, <3>3
      <4>3. Final(f[c])
        <5> HIDE DEF Final
        <5> QED
          BY <2>1, <3>1, <3>3, <4>1
      <4> HIDE DEF Final
      <4> QED
        BY <2>2, <4>2, <4>3
    <3> QED
      BY <3>2, <3>3
  <2> QED
    BY <2>4, <2>5
<1>2. Final(f[t.root])
  <2> HIDE DEF f, Final
  <2> QED
    BY <1>1, BelongsUnderRoot, LinkedFacts DEF Tree
<1> QED
  BY <1>2, SearchDescent DEF f

-----------------------------------------------------------------------------
(* A new leaf.                                                             *)

Attached(t, k, p, side) == [t EXCEPT !.node[k] = Node(k, p, "RED"), !.node[p][side] = k]

\* k is under every node that p is under.
Grown(L, sub, p, k) ==
  [n \in L \cup {k} \cup {Null} |->
     IF n = k THEN {k} ELSE IF p \in sub[n] THEN sub[n] \cup {k} ELSE sub[n]]

LEMMA AttachedAt ==
  ASSUME NEW t \in TreeType, NEW k \in Keys, NEW p \in Keys, p # k, NEW side \in Sides
  PROVE  /\ Attached(t, k, p, side) \in TreeType
         /\ Attached(t, k, p, side).root = t.root
         /\ \A m \in Addrs, g \in Fields :
              At(Attached(t, k, p, side), m)[g] =
                IF m = k THEN Node(k, p, "RED")[g]
                ELSE IF m = p /\ g = side THEN k ELSE At(t, m)[g]
<1> DEFINE u == [t EXCEPT !.node = [t.node EXCEPT ![k] = Node(k, p, "RED")]]
<1>1. t.node \in [Addrs -> NodeType] /\ t.root \in Keys \cup {Null} /\ k \in Addrs /\ p \in Addrs
  BY DEF TreeType, Addrs
<1>2. Node(k, p, "RED") \in NodeType
  BY DEF Node, NodeType, Addresses
<1>3. [t.node EXCEPT ![k] = Node(k, p, "RED")] \in [Addrs -> NodeType]
  BY <1>1, <1>2
<1>4. /\ u \in TreeType /\ u.root = t.root
      /\ \A m \in Addrs : At(u, m) = IF m = k THEN Node(k, p, "RED") ELSE At(t, m)
  BY <1>1, <1>3 DEF TreeType, At
<1>5. side \in Fields /\ k \in FieldType(side)
  BY DEF Sides, Fields, Ptrs, FieldType, Addresses
<1>6. Attached(t, k, p, side) = Set(u, p, side, k)
  BY <1>1 DEF Attached, Set, TreeType
<1> HIDE DEF u
<1> QED
  BY <1>1, <1>4, <1>5, <1>6, SetAt

LEMMA FieldNames ==
  /\ Sides \subseteq Fields /\ "parent" \in Fields /\ "key" \in Fields /\ "colour" \in Fields
  /\ "left" \in Fields /\ "right" \in Fields /\ "left" \in Sides /\ "right" \in Sides
  /\ "parent" \notin Sides /\ "key" \notin Sides /\ "colour" \notin Sides
BY DEF Sides, Fields, Ptrs

LEMMA NodeFields ==
  \A k, p, c : /\ Node(k, p, c).key = k /\ Node(k, p, c).parent = p /\ Node(k, p, c).colour = c
               /\ \A s \in Sides : Node(k, p, c)[s] = Null
BY DEF Node, Sides

LEMMA AttachedTree ==
  ASSUME NEW t, NEW L, NEW sub, Tree(t, L, sub), NEW k \in Keys \ L, NEW p \in L, NEW side \in Sides,
         Belongs(t, L, sub, k, p), Ahead(side, k, At(t, p).key), At(t, p)[side] = Null
  PROVE  Tree(Attached(t, k, p, side), L \cup {k}, Grown(L, sub, p, k))
<1> DEFINE u == Attached(t, k, p, side)
           gs == Grown(L, sub, p, k)
           M == L \cup {k}
<1>1. /\ t \in TreeType /\ L \subseteq Keys /\ t.root \in L
      /\ Null \notin L /\ Sentinel \notin L /\ Null # Sentinel
      /\ At(t, t.root).parent \in {Sentinel, Null}
      /\ \A n \in L : At(t, n).key \in Keys
      /\ \A n \in L, s \in Sides :
           /\ At(t, n)[s] \in L \cup {Null}
           /\ At(t, n)[s] # Null =>
                /\ At(t, n)[s] \in L /\ At(t, At(t, n)[s]).parent = n
                /\ At(t, n)[Other(s)] # At(t, n)[s]
      /\ \A n \in L \ {t.root} :
           At(t, n).parent \in L /\ \E s \in Sides : At(t, At(t, n).parent)[s] = n
  BY LinkedFacts DEF Tree
<1>2. p \in Keys /\ p # k /\ k \notin L /\ k # Null /\ k # Sentinel /\ k \in Addrs /\ L \subseteq Addrs
  BY <1>1, RBTreeAssumption DEF Addrs
<1>3. /\ u \in TreeType /\ u.root = t.root
      /\ \A m \in Addrs, g \in Fields :
           At(u, m)[g] = IF m = k THEN Node(k, p, "RED")[g]
                         ELSE IF m = p /\ g = side THEN k ELSE At(t, m)[g]
  BY <1>1, <1>2, AttachedAt
<1> HIDE DEF u
<1>4. /\ At(u, k).key = k /\ At(u, k).parent = p /\ \A s \in Sides : At(u, k)[s] = Null
      /\ \A n \in L : /\ At(u, n).key = At(t, n).key /\ At(u, n).parent = At(t, n).parent
                      /\ \A s \in Sides : At(u, n)[s] = IF n = p /\ s = side THEN k ELSE At(t, n)[s]
  <2>1. /\ \A g \in Fields : At(u, k)[g] = Node(k, p, "RED")[g]
        /\ \A n \in L, g \in Fields :
             At(u, n)[g] = IF n = p /\ g = side THEN k ELSE At(t, n)[g]
    BY <1>2, <1>3
  <2>2. /\ At(u, k)["key"] = k /\ At(u, k)["parent"] = p
        /\ \A s \in Sides : At(u, k)[s] = Null
    BY <2>1, NodeFields, FieldNames
  <2>3. \A n \in L : /\ At(u, n)["key"] = At(t, n)["key"] /\ At(u, n)["parent"] = At(t, n)["parent"]
                     /\ \A s \in Sides : At(u, n)[s] = IF n = p /\ s = side THEN k ELSE At(t, n)[s]
    BY <2>1, FieldNames
  <2> QED
    BY <2>2, <2>3
<1>5. Linked(u, M)
  <2>1. u \in TreeType /\ M \subseteq Keys /\ u.root \in M /\ At(u, u.root).parent \in {Sentinel, Null}
    BY <1>1, <1>3, <1>4
  <2>2. \A n \in M : At(u, n).key \in Keys
    BY <1>1, <1>4
  <2>3. ASSUME NEW n \in M, NEW s \in Sides, At(u, n)[s] # Null
        PROVE  /\ At(u, n)[s] \in M /\ At(u, At(u, n)[s]).parent = n
               /\ At(u, n)[Other(s)] # At(u, n)[s]
    <3>1. n \in L
      BY <1>4, <2>3
    <3>2. CASE n = p /\ s = side
      <4>1. At(u, n)[s] = k /\ At(u, n)[Other(s)] = At(t, n)[Other(s)]
        BY <1>4, <3>1, <3>2, SideFacts
      <4>2. At(t, n)[Other(s)] # k
        BY <1>1, <1>2, <3>1, SideFacts
      <4> QED
        BY <1>4, <3>2, <4>1, <4>2
    <3>3. CASE ~(n = p /\ s = side)
      <4>1. At(u, n)[s] = At(t, n)[s]
        BY <1>4, <3>1, <3>3
      <4>2. At(t, n)[s] \in L /\ At(t, At(t, n)[s]).parent = n /\ At(t, n)[Other(s)] # At(t, n)[s]
        BY <1>1, <2>3, <3>1, <4>1
      <4>3. At(u, n)[Other(s)] \in {k, At(t, n)[Other(s)]}
        BY <1>4, <3>1, SideFacts
      <4> QED
        BY <1>2, <1>4, <4>1, <4>2, <4>3
    <3> QED
      BY <3>2, <3>3
  <2>4. ASSUME NEW n \in M \ {u.root}
        PROVE  At(u, n).parent \in M /\ \E s \in Sides : At(u, At(u, n).parent)[s] = n
    <3>1. CASE n = k
      BY <1>4, <3>1
    <3>2. CASE n # k
      <4>1. At(u, n).parent = At(t, n).parent /\ At(t, n).parent \in L
        BY <1>1, <1>3, <1>4, <3>2
      <4>2. PICK s \in Sides : At(t, At(t, n).parent)[s] = n
        BY <1>1, <1>3, <3>2
      <4>3. At(u, At(t, n).parent)[s] = n
        BY <1>1, <1>4, <3>2, <4>1, <4>2
      <4> QED
        BY <4>1, <4>2, <4>3
    <3> QED
      BY <3>1, <3>2
  <2> QED
    BY <2>1, <2>2, <2>3, <2>4 DEF Linked
<1>6. /\ sub \in [L \cup {Null} -> SUBSET L] /\ sub[Null] = {}
      /\ \A n \in L : sub[n] = {n} \cup sub[At(t, n).left] \cup sub[At(t, n).right]
  BY DEF Tree, Ordered
<1>7. /\ gs \in [M \cup {Null} -> SUBSET M] /\ gs[Null] = {} /\ gs[k] = {k}
      /\ \A n \in L \cup {Null} : gs[n] = IF p \in sub[n] THEN sub[n] \cup {k} ELSE sub[n]
  BY <1>2, <1>6 DEF Grown
<1> HIDE DEF gs
<1>8. ASSUME NEW n \in M
      PROVE  gs[n] = {n} \cup gs[At(u, n).left] \cup gs[At(u, n).right]
  <2>1. CASE n = k
    BY <1>4, <1>7, <2>1, FieldNames
  <2>2. CASE n = p
    <3>1. sub[n] = {n} \cup sub[At(t, n)[side]] \cup sub[At(t, n)[Other(side)]]
      BY OrderedFacts, <2>2
    <3>2. p \notin sub[At(t, p)[Other(side)]] /\ p \in sub[p]
      BY OrderedFacts, SideFacts
    <3>3. At(u, p)[side] = k /\ At(u, p)[Other(side)] = At(t, p)[Other(side)]
      BY <1>4, SideFacts
    <3>4. At(t, p)[Other(side)] \in L \cup {Null}
      BY <1>1, SideFacts
    <3>5. gs[p] = {p} \cup gs[At(u, p)[side]] \cup gs[At(u, p)[Other(side)]]
      <4>1. PICK a \in L \cup {Null} : a = At(t, p)[Other(side)]
        BY <3>4
      <4>2. gs[p] = sub[p] \cup {k} /\ gs[a] = sub[a] /\ sub[p] = {p} \cup sub[a]
        BY <1>6, <1>7, <2>2, <3>1, <3>2, <4>1
      <4> QED
        BY <1>7, <3>3, <4>1, <4>2
    <3> QED
      BY <2>2, <3>5 DEF Sides, Other
  <2>3. CASE n \notin {k, p}
    <3>1. n \in L /\ At(u, n).left = At(t, n).left /\ At(u, n).right = At(t, n).right
      BY <1>4, <2>3, FieldNames
    <3>2. At(t, n).left \in L \cup {Null} /\ At(t, n).right \in L \cup {Null}
      BY <1>1, <3>1, FieldNames
    <3>3. PICK a \in L \cup {Null}, b \in L \cup {Null} :
            a = At(t, n).left /\ b = At(t, n).right
      BY <3>2
    <3>4. sub[n] = {n} \cup sub[a] \cup sub[b]
      BY <1>6, <3>1, <3>3
    <3>5. n # p
      BY <2>3
    <3>6. gs[n] = {n} \cup gs[a] \cup gs[b]
      <4>1. \A m \in {n, a, b} : gs[m] = IF p \in sub[m] THEN sub[m] \cup {k} ELSE sub[m]
        BY <1>7, <3>1, <3>3
      <4> QED
        BY <3>4, <3>5, <4>1
    <3> QED
      BY <3>1, <3>3, <3>6
  <2> QED
    BY <2>1, <2>2, <2>3
<1>9. ASSUME NEW n \in M, NEW s \in Sides, NEW m \in gs[At(u, n)[s]]
      PROVE  Ahead(s, At(u, m).key, At(u, n).key)
  <2>1. n \in L
    BY <1>4, <1>7, <1>9
  <2>2. CASE n = p /\ s = side
    BY <1>4, <1>7, <1>9, <2>2
  <2>3. CASE ~(n = p /\ s = side)
    <3>1. At(u, n)[s] = At(t, n)[s] /\ At(t, n)[s] \in L \cup {Null}
      BY <1>1, <1>4, <2>1, <2>3
    <3>2. m \in sub[At(t, n)[s]] \/ (m = k /\ p \in sub[At(t, n)[s]])
      <4>1. PICK a \in L \cup {Null} : a = At(t, n)[s]
        BY <3>1
      <4>2. m \in gs[a]
        BY <3>1, <4>1
      <4>3. gs[a] = sub[a] \/ (p \in sub[a] /\ gs[a] = sub[a] \cup {k})
        BY <1>7
      <4> QED
        BY <4>1, <4>2, <4>3
    <3>3. CASE m \in sub[At(t, n)[s]]
      BY <1>4, <2>1, <3>3, OrderedFacts
    <3>4. CASE m = k /\ p \in sub[At(t, n)[s]]
      BY <1>4, <2>1, <3>4 DEF Belongs
    <3> QED
      BY <3>2, <3>3, <3>4
  <2> QED
    BY <2>2, <2>3
<1>10. Ordered(u, M, gs)
  BY <1>7, <1>8, <1>9 DEF Ordered
<1> QED
  BY <1>5, <1>10 DEF Tree, u, gs

-----------------------------------------------------------------------------
(* Rotations.                                                              *)

\* u is t with one field of a node changed.
Changed(u, t, n, f, v) ==
  /\ u \in TreeType /\ u.root = t.root
  /\ \A m \in Addrs, g \in Fields :
       At(u, m)[g] = IF m = n /\ g = f THEN v ELSE At(t, m)[g]

LEMMA SetPtr ==
  ASSUME NEW t \in TreeType, NEW n \in Addrs, NEW f \in Ptrs, NEW v \in Addresses
  PROVE  Changed(Set(t, n, f, v), t, n, f, v)
<1>1. f \in Fields /\ v \in FieldType(f)
  BY DEF Fields, FieldType
<1> QED
  BY <1>1, SetAt DEF Changed

LEMMA UpdateParentRefAt ==
  ASSUME NEW t \in TreeType, NEW old \in Addrs, NEW new \in Addrs \cup {Null},
         NEW p \in Addrs \cup {Null}, p = At(t, old).parent
  PROVE  /\ UpdateParentRef(t, old, new) \in TreeType
         /\ UpdateParentRef(t, old, new).root = t.root
         /\ \A m \in Addrs, g \in Fields :
              At(UpdateParentRef(t, old, new), m)[g] =
                IF m = new /\ g = "parent" /\ p # Null THEN p
                ELSE IF m = p /\ g \in Sides /\ At(t, p)[g] = old
                        /\ (g = "left" \/ At(t, p).left # old)
                THEN new ELSE At(t, m)[g]
<1> DEFINE linked == IF At(t, p).left = old THEN Set(t, p, "left", new)
                     ELSE IF At(t, p).right = old THEN Set(t, p, "right", new)
                     ELSE t
           u == UpdateParentRef(t, old, new)
<1>1. u = IF p = Null THEN t ELSE IF new = Null THEN linked ELSE Set(linked, new, "parent", p)
  BY DEF UpdateParentRef
<1> HIDE DEF u
<1>2. Addresses = Addrs \cup {Null} /\ Null \notin Addrs
  BY RBTreeAssumption DEF Addresses, Addrs
<1>3. "left" \in Ptrs /\ "right" \in Ptrs /\ "parent" \in Ptrs
  BY DEF Ptrs
<1>4. CASE p = Null
  BY <1>1, <1>2, <1>4 DEF u
<1>5. CASE p # Null
  <2>1. /\ linked \in TreeType /\ linked.root = t.root
        /\ \A m \in Addrs, g \in Fields :
             At(linked, m)[g] =
               IF m = p /\ g \in Sides /\ At(t, p)[g] = old /\ (g = "left" \/ At(t, p).left # old)
               THEN new ELSE At(t, m)[g]
    <3>1. CASE At(t, p).left = old
      <4>1. linked = Set(t, p, "left", new)
        BY <3>1
      <4> HIDE DEF linked
      <4> QED
        <5>1. Changed(linked, t, p, "left", new)
          BY <1>2, <1>3, <1>5, <4>1, SetPtr
        <5> QED
          BY <3>1, <5>1, FieldNames DEF Sides, Changed
    <3>2. CASE At(t, p).left # old /\ At(t, p).right = old
      <4>1. linked = Set(t, p, "right", new)
        BY <3>2
      <4> HIDE DEF linked
      <4> QED
        <5>1. Changed(linked, t, p, "right", new)
          BY <1>2, <1>3, <1>5, <4>1, SetPtr
        <5> QED
          BY <3>2, <5>1, FieldNames DEF Sides, Changed
    <3>3. CASE At(t, p).left # old /\ At(t, p).right # old
      <4>1. linked = t
        BY <3>3
      <4> HIDE DEF linked
      <4> QED
        BY <3>3, <4>1 DEF Sides
    <3> QED
      BY <3>1, <3>2, <3>3
  <2> HIDE DEF linked
  <2>2. CASE new = Null
    BY <1>1, <1>2, <1>5, <2>1, <2>2 DEF u
  <2>3. CASE new # Null
    <3>1. u = Set(linked, new, "parent", p) /\ new \in Addrs /\ p \in Addrs
      BY <1>1, <1>5, <2>3
    <3>2. Changed(u, linked, new, "parent", p)
      BY <1>2, <1>3, <2>1, <3>1, SetPtr
    <3> QED
      BY <1>5, <2>1, <3>2, FieldNames DEF u, Changed
  <2> QED
    BY <2>2, <2>3
<1> QED
  BY <1>4, <1>5

\* The nodes a rotation at x concerns.
LEMMA RotationNodes ==
  ASSUME NEW t, NEW L, NEW sub, Tree(t, L, sub), NEW x \in L, NEW side \in Sides,
         At(t, x)[Other(side)] # Null
  PROVE  LET y == At(t, x)[Other(side)]
             inner == At(t, y)[side]
             p == At(t, x).parent
         IN
         /\ y \in L /\ y # x /\ At(t, y).parent = x
         /\ inner \in L \cup {Null} /\ inner # x /\ inner # y
         /\ inner # Null => At(t, inner).parent = y
         /\ p \in L \cup {Sentinel, Null} /\ p # x /\ p # y
         /\ p # Null => p # inner
         /\ p \in L <=> x # t.root
<1> DEFINE y == At(t, x)[Other(side)]
           inner == At(t, y)[side]
           p == At(t, x).parent
<1>0. Other(side) \in Sides
  BY SideFacts
<1>1. y \in L /\ At(t, y).parent = x /\ y # t.root
  BY <1>0, LinkedFacts DEF Tree
<1>2. sub[y] \subseteq sub[x] /\ x \notin sub[y] /\ y \in sub[y]
  BY <1>0, <1>1, OrderedFacts
<1>3. inner \in L \cup {Null} /\ (inner # Null => At(t, inner).parent = y /\ inner # t.root)
  BY <1>1, LinkedFacts DEF Tree
<1>4. inner # Null => sub[inner] \subseteq sub[y] /\ y \notin sub[inner] /\ inner \in sub[inner]
  BY <1>1, <1>3, OrderedFacts
<1>5. p \in L \cup {Sentinel, Null} /\ (p \in L <=> x # t.root)
  BY LinkedFacts DEF Tree
<1>6. ASSUME p \in L PROVE x \in sub[p] /\ sub[x] \subseteq sub[p] /\ p \notin sub[x]
  <2>1. PICK s \in Sides : At(t, p)[s] = x
    BY <1>5, <1>6, LinkedFacts DEF Tree
  <2> QED
    BY <1>6, <2>1, OrderedFacts
<1>7. Sentinel \notin L /\ Null \notin L
  BY LinkedFacts DEF Tree
<1> HIDE DEF y, inner, p
<1>8. p # x /\ p # y /\ (p # Null => p # inner)
  <2>1. CASE p \in L
    BY <1>1, <1>2, <1>3, <1>4, <1>6, <2>1, OrderedFacts
  <2>2. CASE p \notin L
    BY <1>1, <1>3, <1>5, <1>7, <2>2
  <2> QED
    BY <2>1, <2>2
<1>9. inner # x /\ inner # y /\ y # x
  BY <1>1, <1>2, <1>3, <1>4, <1>7
<1> QED
  BY <1>1, <1>3, <1>5, <1>8, <1>9 DEF y, inner, p

\* Where node fields of a tree change in a rotation.
Turned(t, x, side, m, g) ==
  LET y == At(t, x)[Other(side)]
      inner == At(t, y)[side]
      p == At(t, x).parent
  IN IF m = x /\ g = Other(side) THEN inner
     ELSE IF m = x /\ g = "parent" THEN y
     ELSE IF m = y /\ g = side THEN x
     ELSE IF m = y /\ g = "parent" THEN p
     ELSE IF m = inner /\ g = "parent" THEN x
     ELSE IF m = p /\ g \in Sides /\ At(t, p)[g] = x THEN y
     ELSE At(t, m)[g]

LEMMA RotateAt ==
  ASSUME NEW t, NEW L, NEW sub, Tree(t, L, sub), NEW x \in L, NEW side \in Sides,
         At(t, x)[Other(side)] # Null
  PROVE  LET r == Rotate(t, x, side)
             y == At(t, x)[Other(side)]
         IN
         /\ r \in TreeType
         /\ r.root = IF t.root = x THEN y ELSE t.root
         /\ \A m \in Keys, g \in Fields : At(r, m)[g] = Turned(t, x, side, m, g)
         /\ \A s \in Sides : At(r, Sentinel)[s] \in {At(t, Sentinel)[s], y}
<1> DEFINE far == Other(side)
           y == At(t, x)[far]
           inner == At(t, y)[side]
           p == At(t, x).parent
           t1 == Set(t, x, far, inner)
           t2 == IF inner = Null THEN t1 ELSE Set(t1, inner, "parent", x)
           t2a == Set(t2, y, "parent", At(t2, x).parent)
           t3 == UpdateParentRef(t2a, x, y)
           t3a == Set(t3, y, side, x)
           t4 == Set(t3a, x, "parent", y)
           r == Rotate(t, x, side)
<1>1. r = [t4 EXCEPT !.root = IF @ = x THEN y ELSE @]
  BY DEF Rotate
<1>2. /\ y \in L /\ y # x
      /\ inner \in L \cup {Null} /\ inner # x /\ inner # y
      /\ p \in L \cup {Sentinel, Null} /\ p # x /\ p # y
      /\ p # Null => p # inner
  BY RotationNodes
<1>3. t \in TreeType /\ L \subseteq Keys /\ Null \notin L /\ Sentinel \notin L
  BY LinkedFacts DEF Tree
<1>4. /\ Addresses = Addrs \cup {Null} /\ Null \notin Addrs /\ Addrs = Keys \cup {Sentinel}
      /\ Keys \subseteq Addrs /\ Sentinel \in Addrs /\ Sentinel \notin Keys
  BY RBTreeAssumption DEF Addresses, Addrs
<1>5. \A g \in Ptrs : g \in Fields
  BY DEF Fields
<1>6. /\ far \in Sides /\ far # side /\ far \in Ptrs /\ side \in Ptrs /\ "parent" \in Ptrs
      /\ far # "parent" /\ side # "parent" /\ \A s \in Sides : s = far \/ s = side
  BY SideFacts DEF Ptrs, Sides, Other
<1>7. x \in Addrs /\ y \in Addrs /\ inner \in Addresses /\ p \in Addresses /\ Null \in Addresses
  BY <1>2, <1>3, <1>4
<1>8. \A g \in Sides : p \in L /\ At(t, p)[g] = x => g = "left" \/ At(t, p).left # x
  <2>1. \A g \in Sides : p \in L /\ At(t, p)[g] = x => At(t, p)[Other(g)] # x
    <3>1. x # Null
      BY <1>3
    <3> QED
      BY <3>1, LinkedFacts DEF Tree
  <2> QED
    BY <2>1 DEF Sides, Other
<1> HIDE DEF far, y, inner, p, r
<1>9. /\ t1 \in TreeType /\ t1.root = t.root
      /\ \A m \in Addrs, g \in Fields :
           At(t1, m)[g] = IF m = x /\ g = far THEN inner ELSE At(t, m)[g]
  <2>1. Changed(t1, t, x, far, inner)
    BY <1>3, <1>6, <1>7, SetPtr
  <2> QED
    BY <2>1 DEF Changed
<1> HIDE DEF t1
<1>10. /\ t2 \in TreeType /\ t2.root = t.root
       /\ \A m \in Addrs, g \in Fields :
            At(t2, m)[g] = IF m = x /\ g = far THEN inner
                           ELSE IF m = inner /\ g = "parent" THEN x ELSE At(t, m)[g]
  <2>1. CASE inner = Null
    <3>1. t2 = t1
      BY <2>1
    <3> QED
      BY <1>4, <1>9, <2>1, <3>1
  <2>2. CASE inner # Null
    <3>1. t2 = Set(t1, inner, "parent", x) /\ inner \in Addrs
      BY <1>4, <1>7, <2>2
    <3> HIDE DEF t2
    <3>2. x \in Addresses
      BY <1>4, <1>7
    <3>3. Changed(t2, t1, inner, "parent", x)
      BY <1>6, <1>9, <3>1, <3>2, SetPtr
    <3> QED
      BY <1>6, <1>9, <3>3 DEF Changed
  <2> QED
    BY <2>1, <2>2
<1> HIDE DEF t2
<1>11. At(t2, x)["parent"] = p
  BY <1>2, <1>5, <1>6, <1>7, <1>10 DEF p
<1>12. /\ t2a \in TreeType /\ t2a.root = t.root
       /\ \A m \in Addrs, g \in Fields :
            At(t2a, m)[g] = IF m = y /\ g = "parent" THEN p ELSE At(t2, m)[g]
  <2>1. t2a = Set(t2, y, "parent", p)
    BY <1>11
  <2> HIDE DEF t2a
  <2>2. Changed(t2a, t2, y, "parent", p)
    BY <1>6, <1>7, <1>10, <2>1, SetPtr
  <2> QED
    BY <1>10, <2>2 DEF Changed
<1> HIDE DEF t2a
<1>13. At(t2a, x)["parent"] = p
  BY <1>2, <1>5, <1>6, <1>7, <1>11, <1>12
<1>14. /\ t3 \in TreeType /\ t3.root = t.root
       /\ \A m \in Addrs, g \in Fields :
            At(t3, m)[g] =
              IF m = y /\ g = "parent" /\ p # Null THEN p
              ELSE IF m = p /\ g \in Sides /\ At(t2a, p)[g] = x
                      /\ (g = "left" \/ At(t2a, p).left # x)
              THEN y ELSE At(t2a, m)[g]
  BY <1>4, <1>7, <1>12, <1>13, UpdateParentRefAt
<1> HIDE DEF t3
<1>15. /\ t3a \in TreeType /\ t3a.root = t.root
       /\ \A m \in Addrs, g \in Fields :
            At(t3a, m)[g] = IF m = y /\ g = side THEN x ELSE At(t3, m)[g]
  <2>1. x \in Addresses
    BY <1>4, <1>7
  <2>2. Changed(t3a, t3, y, side, x)
    BY <1>6, <1>7, <1>14, <2>1, SetPtr
  <2> QED
    BY <1>14, <2>2 DEF Changed
<1> HIDE DEF t3a
<1>16. /\ t4 \in TreeType /\ t4.root = t.root
       /\ \A m \in Addrs, g \in Fields :
            At(t4, m)[g] = IF m = x /\ g = "parent" THEN y ELSE At(t3a, m)[g]
  <2>1. y \in Addresses
    BY <1>4, <1>7
  <2>2. Changed(t4, t3a, x, "parent", y)
    BY <1>6, <1>7, <1>15, <2>1, SetPtr
  <2> QED
    BY <1>15, <2>2 DEF Changed
<1> HIDE DEF t4
<1>17. /\ r \in TreeType /\ r.root = IF t.root = x THEN y ELSE t.root
       /\ \A m \in Addrs : At(r, m) = At(t4, m)
  BY <1>1, <1>2, <1>3, <1>16 DEF TreeType, At
<1>18. p # Null => \A g \in Sides : At(t2a, p)[g] = At(t, p)[g]
  <2> SUFFICES ASSUME p # Null, NEW g \in Sides PROVE At(t2a, p)[g] = At(t, p)[g]
    OBVIOUS
  <2>1. p \in Addrs /\ g \in Fields /\ g # "parent"
    BY <1>4, <1>7, FieldNames
  <2> QED
    BY <1>2, <1>10, <1>12, <2>1
<1>19. ASSUME NEW m \in Keys, NEW g \in Fields
       PROVE  At(r, m)[g] = Turned(t, x, side, m, g)
  <2>1. m \in Addrs /\ (m = p => p \in L)
    BY <1>2, <1>4, RBTreeAssumption
  <2>2. m = p => (At(t2a, p)[g] = x /\ (g = "left" \/ At(t2a, p).left # x) /\ g \in Sides
                  <=> At(t, p)[g] = x /\ g \in Sides)
    BY <1>3, <1>8, <1>18, <2>1, FieldNames
  <2>3. Turned(t, x, side, m, g) =
          IF m = x /\ g = far THEN inner
          ELSE IF m = x /\ g = "parent" THEN y
          ELSE IF m = y /\ g = side THEN x
          ELSE IF m = y /\ g = "parent" THEN p
          ELSE IF m = inner /\ g = "parent" THEN x
          ELSE IF m = p /\ g \in Sides /\ At(t, p)[g] = x THEN y
          ELSE At(t, m)[g]
    BY DEF Turned, far, y, inner, p
  <2>4. At(r, m)[g] = IF m = x /\ g = "parent" THEN y
                      ELSE IF m = y /\ g = side THEN x
                      ELSE At(t3, m)[g]
    BY <1>15, <1>16, <1>17, <2>1
  <2>5. At(t3, m)[g] = IF m = y /\ g = "parent" /\ p # Null THEN p
                       ELSE IF m = p /\ g \in Sides /\ At(t, p)[g] = x THEN y
                       ELSE At(t2a, m)[g]
    BY <1>14, <2>1, <2>2
  <2>6. At(t2a, m)[g] = IF m = y /\ g = "parent" THEN p
                        ELSE IF m = x /\ g = far THEN inner
                        ELSE IF m = inner /\ g = "parent" THEN x ELSE At(t, m)[g]
    BY <1>10, <1>12, <2>1
  <2> QED
    BY <1>2, <1>3, <1>6, <2>1, <2>3, <2>4, <2>5, <2>6, FieldNames
<1>20. ASSUME NEW s \in Sides PROVE At(r, Sentinel)[s] \in {At(t, Sentinel)[s], y}
  <2>1. s \in Fields /\ s # "parent" /\ Sentinel # x /\ Sentinel # y
    BY <1>2, <1>3, FieldNames
  <2>2. At(t2a, Sentinel)[s] = At(t, Sentinel)[s]
    BY <1>4, <1>10, <1>12, <2>1
  <2>3. At(r, Sentinel)[s] = At(t3, Sentinel)[s]
    BY <1>4, <1>15, <1>16, <1>17, <2>1
  <2> QED
    BY <1>4, <1>14, <2>1, <2>2, <2>3
<1> QED
  BY <1>17, <1>19, <1>20 DEF r, y, far

\* The set of nodes under x and y after the rotation
TurnedSub(t, sub, x, side) ==
  LET y == At(t, x)[Other(side)]
      inner == At(t, y)[side]
  IN [sub EXCEPT ![x] = {x} \cup sub[At(t, x)[side]] \cup sub[inner], ![y] = sub[x]]

\* What is at the nodes when x has gone down to the given side and y up.
TurnedRound(r, t, L, x, y, side, a, b, i) ==
  /\ At(r, x)[Other(side)] = i /\ At(r, x)[side] = a
  /\ At(r, y)[side] = x /\ At(r, y)[Other(side)] = b
  /\ At(r, x)["parent"] = y /\ At(r, y)["parent"] = At(t, x)["parent"]
  /\ i # Null => At(r, i)["parent"] = x
  /\ \A n \in L \ {x, y, i} : At(r, n)["parent"] = At(t, n)["parent"]
  /\ \A n \in L \ {x, y}, s \in Sides :
       At(r, n)[s] = IF At(t, n)[s] = x THEN y ELSE At(t, n)[s]
  /\ \A n \in L : /\ At(r, n)["key"] = At(t, n)["key"]
                  /\ At(r, n)["colour"] = At(t, n)["colour"]
  /\ x # y /\ i # x /\ i # y /\ a # x /\ a # y /\ b # x /\ b # y
  /\ (a # Null => a # i) /\ (i # Null => i # b)

LEMMA TurnedFacts ==
  ASSUME NEW t, NEW L, NEW sub, Tree(t, L, sub), NEW x \in L, NEW side \in Sides,
         NEW y \in L, y = At(t, x)[Other(side)],
         NEW a \in L \cup {Null}, a = At(t, x)[side],
         NEW b \in L \cup {Null}, b = At(t, y)[Other(side)],
         NEW i \in L \cup {Null}, i = At(t, y)[side],
         NEW r, r = Rotate(t, x, side)
  PROVE  TurnedRound(r, t, L, x, y, side, a, b, i)
<1>1. L \subseteq Keys /\ y # Null /\ Null \notin L /\ Sentinel \notin L /\ x # Null
  BY LinkedFacts DEF Tree
<1>2. /\ \A m \in Keys, g \in Fields : At(r, m)[g] = Turned(t, x, side, m, g)
      /\ r.root = IF t.root = x THEN y ELSE t.root
  BY <1>1, RotateAt
<1>3. /\ y # x /\ At(t, y)["parent"] = x /\ i # x /\ i # y
      /\ i # Null => At(t, i)["parent"] = y
      /\ At(t, x)["parent"] \in L \cup {Sentinel, Null}
      /\ At(t, x)["parent"] # x /\ At(t, x)["parent"] # y
  BY <1>1, RotationNodes
<1> DEFINE p == At(t, x)["parent"]
<1>4. \A m \in Keys, g \in Fields : At(r, m)[g] =
        IF m = x /\ g = Other(side) THEN i
        ELSE IF m = x /\ g = "parent" THEN y
        ELSE IF m = y /\ g = side THEN x
        ELSE IF m = y /\ g = "parent" THEN p
        ELSE IF m = i /\ g = "parent" THEN x
        ELSE IF m = p /\ g \in Sides /\ At(t, p)[g] = x THEN y
        ELSE At(t, m)[g]
  BY <1>2 DEF Turned
<1>5. /\ Other(side) \in Sides /\ Other(side) # side /\ Other(Other(side)) = side
      /\ \A s \in Sides : s = side \/ s = Other(side)
  BY SideFacts
<1>6. \A n \in L, s \in Sides : At(t, n)[s] = x => n = p
  BY <1>1, LinkedFacts DEF Tree
<1>7. /\ a # Null => At(t, a)["parent"] = x /\ a # y
      /\ b # Null => At(t, b)["parent"] = y /\ b # i
  BY <1>1, <1>5, LinkedFacts DEF Tree
<1>8. a # x /\ a # y /\ b # x /\ b # y /\ (a # Null => a # i) /\ (i # Null => i # b)
  BY <1>1, <1>3, <1>7
<1> HIDE DEF p
<1>9. ASSUME NEW n \in L \ {x, y}, NEW s \in Sides
      PROVE  At(r, n)[s] = IF At(t, n)[s] = x THEN y ELSE At(t, n)[s]
  <2>1. n \in Keys /\ s \in Fields /\ s # "parent"
    BY <1>1, FieldNames
  <2> QED
    BY <1>4, <1>6, <2>1
<1>10. \A n \in L \ {x, y, i} : At(r, n)["parent"] = At(t, n)["parent"]
  BY <1>1, <1>4, FieldNames
<1>11. /\ At(r, x)[Other(side)] = i
       /\ At(r, y)[side] = x
       /\ At(r, x)["parent"] = y /\ At(r, y)["parent"] = p
       /\ i # Null => At(r, i)["parent"] = x
  BY <1>1, <1>3, <1>4, <1>5, FieldNames
<1>12. /\ At(r, x)[side] = a
       /\ At(r, y)[Other(side)] = b
  BY <1>1, <1>3, <1>4, <1>5, FieldNames DEF p
<1>13. \A n \in L : /\ At(r, n)["key"] = At(t, n)["key"]
                    /\ At(r, n)["colour"] = At(t, n)["colour"]
  <2>1. /\ "key" # Other(side) /\ "key" # side /\ "key" # "parent"
        /\ "colour" # Other(side) /\ "colour" # side /\ "colour" # "parent"
    BY <1>5, FieldNames
  <2> QED
    BY <1>1, <1>4, <2>1, FieldNames
<1> QED
  BY <1>3, <1>8, <1>9, <1>10, <1>11, <1>12, <1>13 DEF p, TurnedRound

LEMMA RotatedTree ==
  ASSUME NEW t, NEW L, NEW sub, Tree(t, L, sub), NEW x \in L, NEW side \in Sides,
         At(t, x)[Other(side)] # Null
  PROVE  Tree(Rotate(t, x, side), L, TurnedSub(t, sub, x, side))
<1> DEFINE r == Rotate(t, x, side)
           sr == TurnedSub(t, sub, x, side)
<1>0. /\ Other(side) \in Sides /\ Other(side) # side /\ Other(Other(side)) = side
      /\ \A s \in Sides : s = side \/ s = Other(side)
      /\ \A s \in Sides : Other(s) \in Sides /\ Other(Other(s)) = s
  BY SideFacts
<1>1. /\ \A n \in L, s \in Sides :
           /\ At(t, n)[s] \in L \cup {Null}
           /\ At(t, n)[s] # Null =>
                /\ At(t, n)[s] \in L /\ At(t, At(t, n)[s])["parent"] = n
                /\ At(t, n)[Other(s)] # At(t, n)[s] /\ At(t, n)[s] # t.root
      /\ \A n \in L \ {t.root} :
           At(t, n)["parent"] \in L /\ \E s \in Sides : At(t, At(t, n)["parent"])[s] = n
      /\ t.root \in L /\ At(t, t.root)["parent"] \in {Sentinel, Null} /\ Null \notin L
      /\ Sentinel \notin L /\ L \subseteq Keys
      /\ \A n \in L : At(t, n)["key"] \in Keys
  BY LinkedFacts DEF Tree
<1>2. PICK y \in L : y = At(t, x)[Other(side)]
  BY <1>0, <1>1
<1>3. PICK a \in L \cup {Null}, b \in L \cup {Null}, i \in L \cup {Null} :
        a = At(t, x)[side] /\ b = At(t, y)[Other(side)] /\ i = At(t, y)[side]
  BY <1>0, <1>1
<1>4. /\ At(r, x)[Other(side)] = i /\ At(r, x)[side] = a
      /\ At(r, y)[side] = x /\ At(r, y)[Other(side)] = b
      /\ At(r, x)["parent"] = y /\ At(r, y)["parent"] = At(t, x)["parent"]
      /\ i # Null => At(r, i)["parent"] = x
      /\ \A n \in L \ {x, y, i} : At(r, n)["parent"] = At(t, n)["parent"]
      /\ \A n \in L \ {x, y}, s \in Sides :
           At(r, n)[s] = IF At(t, n)[s] = x THEN y ELSE At(t, n)[s]
      /\ \A n \in L : At(r, n)["key"] = At(t, n)["key"]
      /\ x # y /\ i # x /\ i # y /\ a # x /\ a # y /\ b # x /\ b # y
      /\ (a # Null => a # i) /\ (i # Null => i # b)
  BY <1>2, <1>3, TurnedFacts DEF TurnedRound
<1>5. r \in TreeType /\ r.root = IF t.root = x THEN y ELSE t.root
  BY <1>2, RotateAt
<1> HIDE DEF r
<1>6. /\ sub \in [L \cup {Null} -> SUBSET L] /\ sub[Null] = {}
      /\ sr = [sub EXCEPT ![x] = {x} \cup sub[a] \cup sub[i], ![y] = sub[x]]
  BY <1>2, <1>3 DEF TurnedSub, Tree, Ordered
<1>7. /\ sr \in [L \cup {Null} -> SUBSET L] /\ sr[Null] = {}
      /\ sr[x] = {x} \cup sub[a] \cup sub[i] /\ sr[y] = sub[x]
      /\ \A n \in (L \cup {Null}) \ {x, y} : sr[n] = sub[n]
  BY <1>1, <1>4, <1>6
<1> HIDE DEF sr
<1>8. At(t, y)["parent"] = x /\ (i # Null => At(t, i)["parent"] = y) /\ y # t.root
  BY <1>0, <1>1, <1>2, <1>3
<1>9. At(r, r.root)["parent"] \in {Sentinel, Null}
  <2>1. CASE t.root = x
    BY <1>1, <1>4, <1>5, <2>1
  <2>2. CASE t.root # x
    <3>1. t.root # y /\ t.root # i
      BY <1>0, <1>1, <1>3, <1>8
    <3> QED
      BY <1>1, <1>4, <1>5, <2>2, <3>1
  <2> QED
    BY <2>1, <2>2
<1>10. ASSUME NEW n \in L, NEW s \in Sides, NEW c, c = At(r, n)[s], c # Null
       PROVE  c \in L /\ At(r, c)["parent"] = n /\ At(r, n)[Other(s)] # c
  <2>1. CASE n = x /\ s = Other(side)
    BY <1>0, <1>4, <1>10, <2>1
  <2>2. CASE n = x /\ s = side
    <3>1. c = a /\ a \in L /\ At(t, a)["parent"] = x
      BY <1>1, <1>3, <1>4, <1>10, <2>2
    <3> QED
      BY <1>4, <1>10, <2>2, <3>1
  <2>3. CASE n = y /\ s = side
    BY <1>0, <1>4, <1>10, <2>3
  <2>4. CASE n = y /\ s = Other(side)
    <3>1. c = b /\ b \in L /\ At(t, b)["parent"] = y
      BY <1>0, <1>1, <1>3, <1>4, <1>10, <2>4
    <3> QED
      BY <1>0, <1>4, <1>10, <2>4, <3>1
  <2>5. CASE n \notin {x, y} /\ At(t, n)[s] = x
    <3>1. c = y /\ At(t, x)["parent"] = n /\ At(t, n)[Other(s)] # x
      BY <1>1, <1>4, <1>10, <2>5
    <3>2. At(t, n)[Other(s)] # y
      BY <1>0, <1>1, <1>8, <2>5
    <3>3. At(r, n)[Other(s)] = At(t, n)[Other(s)]
      BY <1>0, <1>4, <2>5, <3>1
    <3> QED
      BY <1>4, <3>1, <3>2, <3>3
  <2>6. CASE n \notin {x, y} /\ At(t, n)[s] # x
    <3>1. /\ c = At(t, n)[s] /\ c \in L /\ At(t, c)["parent"] = n /\ c # x
          /\ At(t, n)[Other(s)] # c
      BY <1>1, <1>4, <1>10, <2>6
    <3>2. c # y /\ c # i
      BY <1>1, <1>8, <2>6, <3>1
    <3>3. At(r, n)[Other(s)] # c
      BY <1>0, <1>4, <2>6, <3>1, <3>2
    <3> QED
      BY <1>4, <3>1, <3>2, <3>3
  <2> QED
    BY <1>0, <2>1, <2>2, <2>3, <2>4, <2>5, <2>6
<1>11. ASSUME NEW n \in L, n # r.root
       PROVE  At(r, n)["parent"] \in L /\ \E s \in Sides : At(r, At(r, n)["parent"])[s] = n
  <2>1. CASE n = x
    BY <1>4, <2>1
  <2>2. CASE n = y
    <3>1. t.root # x
      BY <1>5, <1>11, <2>2
    <3>2. PICK p \in L : p = At(t, x)["parent"]
      BY <1>1, <3>1
    <3>3. PICK s \in Sides : At(t, p)[s] = x
      BY <1>1, <3>1, <3>2
    <3>4. p # x /\ p # y
      BY <1>2, <3>2, RotationNodes
    <3> QED
      BY <1>4, <2>2, <3>2, <3>3, <3>4
  <2>3. CASE n = i
    BY <1>0, <1>1, <1>4, <1>11, <2>3
  <2>4. CASE n \notin {x, y, i}
    <3>1. n # t.root
      BY <1>5, <1>11, <2>4
    <3>2. PICK p \in L : p = At(t, n)["parent"]
      BY <1>1, <3>1
    <3>3. PICK s \in Sides : At(t, p)[s] = n
      BY <1>1, <3>1, <3>2
    <3>4. At(r, n)["parent"] = p
      BY <1>4, <2>4, <3>2
    <3>5. At(r, p)[s] = n
      <4>1. CASE p = x
        BY <1>0, <1>2, <1>3, <1>4, <2>4, <3>3, <4>1
      <4>2. CASE p = y
        BY <1>0, <1>3, <1>4, <2>4, <3>3, <4>2
      <4>3. CASE p \notin {x, y}
        BY <1>4, <2>4, <3>3, <4>3
      <4> QED
        BY <4>1, <4>2, <4>3
    <3> QED
      BY <3>4, <3>5
  <2> QED
    BY <2>1, <2>2, <2>3, <2>4
<1>12. Linked(r, L)
  <2>1. r.root \in L /\ \A n \in L : At(r, n)["key"] \in Keys
    BY <1>1, <1>4, <1>5
  <2> QED
    BY <1>1, <1>5, <1>9, <1>10, <1>11, <2>1 DEF Linked
<1>13. /\ sub[x] = {x} \cup sub[a] \cup sub[y] /\ sub[y] = {y} \cup sub[i] \cup sub[b]
       /\ x \in sub[x] /\ sub[x] \subseteq L /\ sub[y] \subseteq L
       /\ \A m \in sub[a] : Ahead(side, At(t, m)["key"], At(t, x)["key"])
       /\ \A m \in sub[y] : Ahead(Other(side), At(t, m)["key"], At(t, x)["key"])
       /\ \A m \in sub[i] : Ahead(side, At(t, m)["key"], At(t, y)["key"])
       /\ \A m \in sub[b] : Ahead(Other(side), At(t, m)["key"], At(t, y)["key"])
  <2>1. /\ sub[x] = {x} \cup sub[a] \cup sub[y] /\ x \in sub[x] /\ sub[x] \subseteq L
        /\ \A m \in sub[a] : Ahead(side, At(t, m)["key"], At(t, x)["key"])
    BY <1>2, <1>3, OrderedFacts
  <2>2. /\ sub[y] = {y} \cup sub[i] \cup sub[b] /\ sub[y] \subseteq L
        /\ \A m \in sub[i] : Ahead(side, At(t, m)["key"], At(t, y)["key"])
    BY <1>2, <1>3, OrderedFacts
  <2>3. \A m \in sub[y] : Ahead(Other(side), At(t, m)["key"], At(t, x)["key"])
    BY <1>0, <1>2, <1>3, OrderedFacts
  <2>4. \A m \in sub[b] : Ahead(Other(side), At(t, m)["key"], At(t, y)["key"])
    BY <1>0, <1>2, <1>3, OrderedFacts
  <2> QED
    BY <2>1, <2>2, <2>3, <2>4
<1>14. ASSUME NEW n \in L
       PROVE  sr[n] = {n} \cup sr[At(r, n)["left"]] \cup sr[At(r, n)["right"]]
  <2>1. ASSUME sr[n] = {n} \cup sr[At(r, n)[side]] \cup sr[At(r, n)[Other(side)]]
        PROVE  sr[n] = {n} \cup sr[At(r, n)["left"]] \cup sr[At(r, n)["right"]]
    <3>1. CASE side = "left"
      BY <2>1, <3>1 DEF Other
    <3>2. CASE side = "right"
      BY <2>1, <3>2 DEF Other
    <3> QED
      BY <3>1, <3>2 DEF Sides
  <2>2. CASE n = x
    <3>1. sr[a] = sub[a] /\ sr[i] = sub[i]
      BY <1>4, <1>7
    <3> QED
      BY <1>4, <1>7, <2>1, <2>2, <3>1
  <2>3. CASE n = y
    <3>1. sr[b] = sub[b]
      BY <1>4, <1>7
    <3>2. sr[y] = {y} \cup sr[x] \cup sub[b]
      BY <1>7, <1>13
    <3> QED
      BY <1>4, <2>1, <2>3, <3>1, <3>2
  <2>4. CASE n \notin {x, y}
    <3>1. ASSUME NEW s \in Sides PROVE sr[At(r, n)[s]] = sub[At(t, n)[s]]
      <4>1. PICK c \in L \cup {Null} : c = At(t, n)[s]
        BY <1>1
      <4>2. c # y
        BY <1>1, <1>8, <2>4, <4>1
      <4>3. At(r, n)[s] = IF c = x THEN y ELSE c
        BY <1>4, <2>4, <4>1
      <4> QED
        BY <1>7, <4>1, <4>2, <4>3
    <3>2. sub[n] = {n} \cup sub[At(t, n)["left"]] \cup sub[At(t, n)["right"]]
      BY DEF Tree, Ordered
    <3>3. sr[n] = sub[n]
      BY <1>7, <2>4
    <3> QED
      BY <3>1, <3>2, <3>3, FieldNames
  <2> QED
    BY <2>2, <2>3, <2>4
<1>15. ASSUME NEW n \in L, NEW s \in Sides, NEW m \in sr[At(r, n)[s]]
       PROVE  Ahead(s, At(r, m)["key"], At(r, n)["key"])
  <2>1. ASSUME m \in L, Ahead(s, At(t, m)["key"], At(t, n)["key"])
        PROVE  Ahead(s, At(r, m)["key"], At(r, n)["key"])
    BY <1>4, <2>1
  <2>2. CASE n = x /\ s = Other(side)
    <3>1. m \in sub[i] /\ m \in sub[y]
      BY <1>4, <1>7, <1>13, <1>15, <2>2
    <3> QED
      BY <1>13, <2>1, <2>2, <3>1
  <2>3. CASE n = x /\ s = side
    <3>1. m \in sub[a] /\ m \in sub[x]
      BY <1>4, <1>7, <1>13, <1>15, <2>3
    <3> QED
      BY <1>13, <2>1, <2>3, <3>1
  <2>4. CASE n = y /\ s = side
    <3>1. m \in {x} \cup sub[a] \cup sub[i] /\ m \in L
      <4>1. m \in sr[x]
        BY <1>4, <1>15, <2>4
      <4> QED
        BY <1>7, <4>1
    <3>2. Ahead(side, At(t, x)["key"], At(t, y)["key"])
      <4>1. Ahead(Other(side), At(t, y)["key"], At(t, x)["key"])
        BY <1>13
      <4> QED
        BY <1>1, <4>1, AheadFacts
    <3>3. m \in sub[a] => Ahead(side, At(t, m)["key"], At(t, y)["key"])
      <4> SUFFICES ASSUME m \in sub[a] PROVE Ahead(side, At(t, m)["key"], At(t, y)["key"])
        OBVIOUS
      <4>1. Ahead(side, At(t, m)["key"], At(t, x)["key"])
        BY <1>13
      <4> QED
        BY <1>1, <3>1, <3>2, <4>1, AheadFacts
    <3> QED
      BY <1>13, <2>1, <2>4, <3>1, <3>2, <3>3
  <2>5. CASE n = y /\ s = Other(side)
    <3>1. m \in sub[b] /\ m \in sub[y]
      BY <1>4, <1>7, <1>13, <1>15, <2>5
    <3> QED
      BY <1>13, <2>1, <2>5, <3>1
  <2>6. CASE n \notin {x, y}
    <3>1. sr[At(r, n)[s]] = sub[At(t, n)[s]]
      <4>1. PICK c \in L \cup {Null} : c = At(t, n)[s]
        BY <1>1
      <4>2. c # y
        BY <1>1, <1>8, <2>6, <4>1
      <4>3. At(r, n)[s] = IF c = x THEN y ELSE c
        BY <1>4, <2>6, <4>1
      <4> QED
        BY <1>7, <4>1, <4>2, <4>3
    <3>2. m \in sub[At(t, n)[s]] /\ m \in L
      BY <1>15, <3>1, OrderedFacts
    <3>3. Ahead(s, At(t, m)["key"], At(t, n)["key"])
      BY <3>2, OrderedFacts
    <3> QED
      BY <2>1, <3>2, <3>3
  <2> QED
    BY <1>0, <2>2, <2>3, <2>4, <2>5, <2>6
<1>16. Ordered(r, L, sr)
  BY <1>7, <1>14, <1>15 DEF Ordered
<1> QED
  BY <1>12, <1>16 DEF Tree, r, sr

LEMMA RotatedClosedDown ==
  ASSUME NEW t, NEW L, NEW sub, Tree(t, L, sub), NEW x \in L, NEW side \in Sides,
         At(t, x)[Other(side)] # Null, ClosedDown(t)
  PROVE  ClosedDown(Rotate(t, x, side))
<1> DEFINE r == Rotate(t, x, side)
           y == At(t, x)[Other(side)]
           i == At(t, y)[side]
<1>1. /\ \A m \in Keys, g \in Fields : At(r, m)[g] = Turned(t, x, side, m, g)
      /\ \A s \in Sides : At(r, Sentinel)[s] \in {At(t, Sentinel)[s], y}
  BY RotateAt
<1>2. y \in Keys /\ x \in Keys /\ i \in Keys \cup {Null}
  BY RotationNodes, LinkedFacts DEF Tree
<1> HIDE DEF r
<1>3. ASSUME NEW m \in Keys, NEW s \in Sides PROVE At(r, m)[s] \in {i, x, y, At(t, m)[s]}
  <2>1. s \in Fields /\ s # "parent"
    BY FieldNames
  <2> QED
    BY <1>1, <2>1 DEF Turned
<1>4. \A m \in Addrs, s \in Sides : At(t, m)[s] \in Keys \cup {Null}
  BY DEF ClosedDown
<1> HIDE DEF y, i
<1> QED
  BY <1>1, <1>2, <1>3, <1>4 DEF ClosedDown, Addrs, r

-----------------------------------------------------------------------------
(* The end of insert(), and changes of colours.                            *)

LEMMA SameShape ==
  ASSUME NEW t, NEW L, NEW sub, Tree(t, L, sub), NEW u \in TreeType,
         u.root = t.root, At(u, t.root)["parent"] \in {Sentinel, Null},
         \A n \in L : /\ At(u, n)["key"] = At(t, n)["key"]
                      /\ At(u, n)["left"] = At(t, n)["left"]
                      /\ At(u, n)["right"] = At(t, n)["right"],
         \A n \in L \ {t.root} : At(u, n)["parent"] = At(t, n)["parent"]
  PROVE  Tree(u, L, sub)
<1>1. /\ \A n \in L, s \in Sides :
           /\ At(t, n)[s] \in L \cup {Null}
           /\ At(t, n)[s] # Null =>
                /\ At(t, n)[s] \in L /\ At(t, At(t, n)[s])["parent"] = n
                /\ At(t, n)[Other(s)] # At(t, n)[s] /\ At(t, n)[s] # t.root
      /\ \A n \in L \ {t.root} :
           At(t, n)["parent"] \in L /\ \E s \in Sides : At(t, At(t, n)["parent"])[s] = n
      /\ t.root \in L /\ Null \notin L /\ L \subseteq Keys
      /\ \A n \in L : At(t, n)["key"] \in Keys
  BY LinkedFacts DEF Tree
<1>2. \A n \in L, s \in Sides : At(u, n)[s] = At(t, n)[s]
  BY DEF Sides
<1>3. ASSUME NEW n \in L, NEW s \in Sides, NEW c, c = At(u, n)[s], c # Null
      PROVE  c \in L /\ At(u, c)["parent"] = n /\ At(u, n)[Other(s)] # c
  BY <1>1, <1>2, <1>3, SideFacts
<1>4. Linked(u, L)
  BY <1>1, <1>2, <1>3 DEF Linked
<1>5. /\ sub \in [L \cup {Null} -> SUBSET L] /\ sub[Null] = {}
      /\ \A n \in L : sub[n] = {n} \cup sub[At(t, n)["left"]] \cup sub[At(t, n)["right"]]
      /\ \A n \in L, s \in Sides :
           \A m \in sub[At(t, n)[s]] : m \in L /\ Ahead(s, At(t, m)["key"], At(t, n)["key"])
  BY OrderedFacts DEF Tree, Ordered
<1>6. Ordered(u, L, sub)
  <2>1. \A n \in L, s \in Sides :
          \A m \in sub[At(u, n)[s]] : Ahead(s, At(u, m)["key"], At(u, n)["key"])
    BY <1>2, <1>5
  <2> QED
    BY <1>5, <2>1 DEF Ordered
<1> QED
  BY <1>4, <1>6 DEF Tree

LEMMA FinishedAt ==
  ASSUME NEW t, NEW L, NEW sub, Tree(t, L, sub), ClosedDown(t)
  PROVE  /\ Finished(t) \in TreeType
         /\ Finished(t).root = t.root
         /\ \A m \in Keys, g \in Fields :
              At(Finished(t), m)[g] = IF m = t.root /\ g = "colour" THEN "BLACK"
                                      ELSE IF m = t.root /\ g = "parent" THEN Sentinel
                                      ELSE At(t, m)[g]
         /\ At(Finished(t), Sentinel) =
              [parent |-> t.root, key |-> Null, colour |-> "SENTINEL",
               left |-> Outermost(t, t.root, "left"), right |-> Outermost(t, t.root, "right")]
         /\ \A s \in Sides : At(Finished(t), Sentinel)[s] = Outermost(t, t.root, s)
<1> DEFINE b == Set(t, t.root, "colour", "BLACK")
           c == Set(b, t.root, "parent", Sentinel)
           ends == [parent |-> t.root, key |-> Null, colour |-> "SENTINEL",
                    left |-> Outermost(t, t.root, "left"),
                    right |-> Outermost(t, t.root, "right")]
           f == Finished(t)
<1>1. t \in TreeType /\ t.root \in L /\ t.root \in Keys /\ L \subseteq Keys
  BY LinkedFacts DEF Tree
<1>2. \A s \in Sides : Outermost(t, t.root, s) \in Keys
  BY <1>1, OutermostFacts, AllUnderRoot
<1>3. ends \in NodeType
  BY <1>1, <1>2, FieldNames DEF NodeType, Addresses
<1>4. f = [c EXCEPT !.node[Sentinel] = ends]
  BY DEF Finished
<1>5. \A s \in Sides : ends[s] = Outermost(t, t.root, s)
  BY DEF Sides
<1>6. ends.colour = "SENTINEL"
  OBVIOUS
<1> HIDE DEF ends, f
<1>7. /\ b \in TreeType /\ b.root = t.root
      /\ \A m \in Addrs, g \in Fields :
           At(b, m)[g] = IF m = t.root /\ g = "colour" THEN "BLACK" ELSE At(t, m)[g]
  BY <1>1, SetAt, FieldNames DEF FieldType, Ptrs, Addrs
<1> HIDE DEF b
<1>8. /\ c \in TreeType /\ c.root = t.root
      /\ \A m \in Addrs, g \in Fields :
           At(c, m)[g] = IF m = t.root /\ g = "parent" THEN Sentinel ELSE At(b, m)[g]
  <2>1. Changed(c, b, t.root, "parent", Sentinel)
    BY <1>1, <1>7, SetPtr DEF Addrs, Addresses, Ptrs
  <2> QED
    BY <1>7, <2>1 DEF Changed
<1> HIDE DEF c
<1>9. /\ f \in TreeType /\ f.root = c.root
      /\ \A m \in Addrs : At(f, m) = IF m = Sentinel THEN ends ELSE At(c, m)
  <2>1. Sentinel \in Addrs /\ c.node \in [Addrs -> NodeType] /\ c.root \in Keys \cup {Null}
    BY <1>8 DEF TreeType, Addrs
  <2> DEFINE nodes == [c.node EXCEPT ![Sentinel] = ends]
  <2>2. /\ nodes \in [Addrs -> NodeType]
        /\ \A m \in Addrs : nodes[m] = IF m = Sentinel THEN ends ELSE c.node[m]
    BY <1>3, <2>1
  <2>3. f = [c EXCEPT !.node = nodes]
    BY <1>4
  <2> HIDE DEF nodes
  <2>4. f \in TreeType /\ f.root = c.root /\ f.node = nodes
    BY <1>8, <2>1, <2>2, <2>3 DEF TreeType
  <2> QED
    BY <2>2, <2>4 DEF At
<1>10. \A m \in Keys, g \in Fields :
         At(f, m)[g] = IF m = t.root /\ g = "colour" THEN "BLACK"
                       ELSE IF m = t.root /\ g = "parent" THEN Sentinel ELSE At(t, m)[g]
  BY <1>7, <1>8, <1>9, RBTreeAssumption DEF Addrs
<1>11. At(f, Sentinel) = ends
  BY <1>9 DEF Addrs
<1> QED
  BY <1>5, <1>7, <1>8, <1>9, <1>10, <1>11 DEF f, ends

LEMMA FinishedTree ==
  ASSUME NEW t, NEW L, NEW sub, Tree(t, L, sub), ClosedDown(t)
  PROVE  Tree(Finished(t), L, sub) /\ ClosedDown(Finished(t))
<1> DEFINE f == Finished(t)
<1>1. /\ f \in TreeType /\ f.root = t.root
      /\ \A m \in Keys, g \in Fields :
           At(f, m)[g] = IF m = t.root /\ g = "colour" THEN "BLACK"
                         ELSE IF m = t.root /\ g = "parent" THEN Sentinel
                         ELSE At(t, m)[g]
      /\ \A s \in Sides : At(f, Sentinel)[s] = Outermost(t, t.root, s)
  BY FinishedAt
<1>2. t.root \in L /\ L \subseteq Keys
  BY LinkedFacts DEF Tree
<1> HIDE DEF f
<1>3. Tree(f, L, sub)
  <2>1. \A n \in L : /\ At(f, n)["key"] = At(t, n)["key"]
                     /\ At(f, n)["left"] = At(t, n)["left"]
                     /\ At(f, n)["right"] = At(t, n)["right"]
    BY <1>1, <1>2, FieldNames
  <2>2. \A n \in L \ {t.root} : At(f, n)["parent"] = At(t, n)["parent"]
    BY <1>1, <1>2, FieldNames
  <2>3. At(f, t.root)["parent"] = Sentinel
    BY <1>1, <1>2, FieldNames
  <2> QED
    BY <1>1, <2>1, <2>2, <2>3, SameShape
<1>4. ASSUME NEW n \in Addrs, NEW s \in Sides PROVE At(f, n)[s] \in Keys \cup {Null}
  <2>1. CASE n = Sentinel
    <3>1. Outermost(t, t.root, s) \in L
      BY <1>2, OutermostFacts, AllUnderRoot
    <3> QED
      BY <1>1, <1>2, <2>1, <3>1
  <2>2. CASE n # Sentinel
    <3>1. n \in Keys /\ s \in Fields /\ s # "colour" /\ s # "parent"
      BY <2>2, FieldNames DEF Addrs
    <3>2. At(f, n)[s] = At(t, n)[s]
      BY <1>1, <3>1
    <3> QED
      BY <3>2 DEF ClosedDown
  <2> QED
    BY <2>1, <2>2
<1> QED
  BY <1>3, <1>4 DEF f, ClosedDown

-----------------------------------------------------------------------------
(* Removal of a node with at most one child.                               *)

Unlinked(t, found, node, child, k) ==
  UpdateParentRef([t EXCEPT !.node[found].key = At(t, node).key, !.node[node].key = k], node, child)

\* The node to delete for found, and its only child, if any: found itself, or
\* the next node.
Removable(t, L, sub, found, node, child, k) ==
  /\ found \in L /\ k = At(t, found)["key"]
  /\ node \in L \ {t.root} /\ child \in L \cup {Null}
  /\ \A s \in Sides : At(t, node)[s] \in {child, Null}
  /\ child # Null => \E s \in Sides : At(t, node)[s] = child
  /\ node # found =>
       /\ node \in sub[At(t, found)["right"]]
       /\ \A m \in sub[At(t, found)["right"]] :
            m = node \/ Ahead("left", At(t, node)["key"], At(t, m)["key"])

KeysOf(t, L) == {At(t, m)["key"] : m \in L}

\* u are the nodes of t but one, with the keys of t but k.
Pruned(u, t, L, node, k) ==
  /\ \E s : Tree(u, L \ {node}, s)
  /\ KeysOf(u, L \ {node}) = KeysOf(t, L) \ {k}

\* u is t without the node, which first swaps its key k' with the key k of found.
Removed(u, t, found, node, child, k) ==
  /\ u \in TreeType /\ u.root = t.root
  /\ \A m \in Addrs :
       /\ At(u, m)["key"] = IF m = node THEN k
                            ELSE IF m = found THEN At(t, node)["key"] ELSE At(t, m)["key"]
       /\ At(u, m)["colour"] = At(t, m)["colour"]
       /\ At(u, m)["parent"] = IF m = child THEN At(t, node)["parent"] ELSE At(t, m)["parent"]
       /\ \A s \in Sides :
            At(u, m)[s] = IF m = At(t, node)["parent"] /\ At(t, m)[s] = node THEN child
                          ELSE At(t, m)[s]

LEMMA SetField ==
  ASSUME NEW t \in TreeType, NEW n \in Addrs, NEW f \in Fields, NEW v \in FieldType(f)
  PROVE  Changed(Set(t, n, f, v), t, n, f, v)
BY SetAt DEF Changed

LEMMA RemovedAt ==
  ASSUME NEW t, NEW L, NEW sub, Tree(t, L, sub), NEW found \in L, NEW node \in L \ {t.root},
         NEW child \in L \cup {Null}, NEW k \in Keys
  PROVE  Removed(Unlinked(t, found, node, child, k), t, found, node, child, k)
<1> DEFINE q == At(t, node)["key"]
           w1 == Set(t, found, "key", q)
           w == Set(w1, node, "key", k)
           swapped == [t EXCEPT !.node[found].key = At(t, node).key, !.node[node].key = k]
           p == At(t, node)["parent"]
           u == UpdateParentRef(swapped, node, child)
<1>1. /\ t \in TreeType /\ L \subseteq Keys /\ p \in L /\ Null \notin L /\ q \in Keys
      /\ \A s \in Sides : At(t, p)[s] = node => At(t, p)[Other(s)] # node
  BY LinkedFacts DEF Tree
<1>2. node \in Addrs /\ found \in Addrs /\ p \in Addrs /\ child \in Addrs \cup {Null}
  BY <1>1 DEF Addrs
<1>3. k \in FieldType("key") /\ q \in FieldType("key")
  BY <1>1 DEF FieldType, Ptrs
<1>4. swapped = w
  BY <1>1 DEF Set, TreeType
<1> HIDE DEF swapped
<1>5. /\ w1 \in TreeType /\ w1.root = t.root
      /\ \A m \in Addrs, g \in Fields :
           At(w1, m)[g] = IF m = found /\ g = "key" THEN q ELSE At(t, m)[g]
  <2>1. Changed(w1, t, found, "key", q)
    BY <1>1, <1>2, <1>3, SetField, FieldNames
  <2> QED
    BY <2>1 DEF Changed
<1> HIDE DEF w1
<1>6. /\ w \in TreeType /\ w.root = t.root
      /\ \A m \in Addrs, g \in Fields :
           At(w, m)[g] = IF m = node /\ g = "key" THEN k ELSE At(w1, m)[g]
  <2>1. Changed(w, w1, node, "key", k)
    BY <1>2, <1>3, <1>5, SetField, FieldNames
  <2> QED
    BY <1>5, <2>1 DEF Changed
<1> HIDE DEF w
<1>7. /\ At(w, node)["parent"] = p
      /\ \A s \in Sides : At(w, p)[s] = At(t, p)[s]
  BY <1>2, <1>5, <1>6, FieldNames DEF p
<1> HIDE DEF p, q, u
<1>8. /\ u \in TreeType /\ u.root = w.root
      /\ \A m \in Addrs, g \in Fields :
           At(u, m)[g] = IF m = child /\ g = "parent" /\ p # Null THEN p
                         ELSE IF m = p /\ g \in Sides /\ At(w, p)[g] = node
                                 /\ (g = "left" \/ At(w, p).left # node)
                         THEN child ELSE At(w, m)[g]
  BY <1>2, <1>4, <1>6, <1>7, UpdateParentRefAt DEF u
<1>9. ASSUME NEW m \in Addrs
      PROVE  /\ At(u, m)["key"] = IF m = node THEN k ELSE IF m = found THEN q ELSE At(t, m)["key"]
             /\ At(u, m)["colour"] = At(t, m)["colour"]
  BY <1>5, <1>6, <1>8, FieldNames
<1>10. ASSUME NEW m \in Addrs
       PROVE  At(u, m)["parent"] = IF m = child THEN p ELSE At(t, m)["parent"]
  BY <1>1, <1>2, <1>5, <1>6, <1>8, FieldNames
<1>11. ASSUME NEW m \in Addrs, NEW s \in Sides
       PROVE  At(u, m)[s] = IF m = p /\ At(t, m)[s] = node THEN child ELSE At(t, m)[s]
  <2>1. s \in Fields /\ s # "key" /\ s # "parent"
    BY FieldNames
  <2>2. At(t, p)[s] = node => s = "left" \/ At(t, p)["left"] # node
    <3>1. s = "left" \/ Other(s) = "left"
      BY DEF Sides, Other
    <3> QED
      BY <1>1, <3>1
  <2>3. At(w, p)["left"] = At(t, p)["left"] /\ At(w, p)[s] = At(t, p)[s]
    BY <1>7, FieldNames
  <2>4. At(w, m)[s] = At(t, m)[s]
    BY <1>5, <1>6, <2>1
  <2> QED
    BY <1>8, <2>1, <2>2, <2>3, <2>4
<1> QED
  BY <1>6, <1>8, <1>9, <1>10, <1>11 DEF Removed, Unlinked, p, q, u, swapped

LEMMA RemovedTree ==
  ASSUME NEW t, NEW L, NEW sub, Tree(t, L, sub), NEW found, NEW node, NEW child, NEW k,
         Removable(t, L, sub, found, node, child, k),
         NEW u, Removed(u, t, found, node, child, k)
  PROVE  Pruned(u, t, L, node, k)
<1> DEFINE M == L \ {node}
           su == [n \in M \cup {Null} |-> sub[n] \ {node}]
<1> found \in L /\ node \in L \ {t.root} /\ child \in L \cup {Null}
    /\ k = At(t, found)["key"]
  BY DEF Removable
<1>0. PICK far \in L \cup {Null} :
        /\ far = At(t, found)["right"]
        /\ \A s \in Sides : At(t, node)[s] \in {child, Null}
        /\ child # Null => \E s \in Sides : At(t, node)[s] = child
        /\ node # found => /\ node \in sub[far]
                           /\ \A m \in sub[far] :
                                m = node \/ Ahead("left", At(t, node)["key"], At(t, m)["key"])
  BY LinkedFacts, FieldNames DEF Tree, Removable
<1>1. /\ \A n \in L, s \in Sides :
           /\ At(t, n)[s] \in L \cup {Null}
           /\ At(t, n)[s] # Null =>
                /\ At(t, n)[s] \in L /\ At(t, At(t, n)[s])["parent"] = n
                /\ At(t, n)[Other(s)] # At(t, n)[s] /\ At(t, n)[s] # t.root
      /\ \A n \in L \ {t.root} :
           At(t, n)["parent"] \in L /\ \E s \in Sides : At(t, At(t, n)["parent"])[s] = n
      /\ t.root \in L /\ Null \notin L /\ L \subseteq Keys
      /\ \A n \in L : At(t, n)["key"] \in Keys
      /\ At(t, t.root)["parent"] \in {Sentinel, Null}
  BY LinkedFacts DEF Tree
<1>2. PICK p \in L : p = At(t, node)["parent"]
  BY <1>1
<1>3. /\ u \in TreeType /\ u.root = t.root
      /\ \A m \in L :
           /\ At(u, m)["key"] = IF m = node THEN k
                                ELSE IF m = found THEN At(t, node)["key"] ELSE At(t, m)["key"]
           /\ At(u, m)["parent"] = IF m = child THEN p ELSE At(t, m)["parent"]
           /\ \A s \in Sides :
                At(u, m)[s] = IF m = p /\ At(t, m)[s] = node THEN child ELSE At(t, m)[s]
  BY <1>1, <1>2 DEF Removed, Addrs
<1>4. /\ child # Null => At(t, child)["parent"] = node /\ child \in L /\ child # t.root
      /\ child # node /\ p # node
  <2>1. child # Null => At(t, child)["parent"] = node /\ child \in L /\ child # t.root
    BY <1>0, <1>1
  <2>2. \A s \in Sides : node \notin sub[At(t, node)[s]]
    BY OrderedFacts
  <2>3. child # node
    <3>1. child # Null => child \in sub[child]
      BY OrderedFacts, SideFacts
    <3> QED
      BY <1>0, <1>1, <2>2, <3>1
  <2>4. PICK s \in Sides : At(t, p)[s] = node
    BY <1>1, <1>2
  <2>5. p \notin sub[node] /\ node \in sub[node]
    BY <2>4, OrderedFacts
  <2> QED
    BY <2>1, <2>3, <2>5
<1>5. \A n \in L, s \in Sides : At(t, n)[s] = node => n = p
  BY <1>1, <1>2
<1>6. \A n \in M, s \in Sides :
        At(u, n)[s] = IF At(t, n)[s] = node THEN child ELSE At(t, n)[s]
  BY <1>3, <1>5
<1>7. ASSUME NEW n \in M, NEW s \in Sides, NEW c, c = At(u, n)[s], c # Null
      PROVE  c \in M /\ At(u, c)["parent"] = n /\ At(u, n)[Other(s)] # c
  <2>1. CASE At(t, n)[s] = node
    <3>1. c = child /\ n = p
      BY <1>5, <1>6, <1>7, <2>1
    <3>2. At(t, n)[Other(s)] # node /\ At(t, n)[Other(s)] # child
      BY <1>1, <1>4, <1>7, <2>1, <3>1, SideFacts
    <3>3. At(u, n)[Other(s)] = At(t, n)[Other(s)]
      BY <1>6, <3>2, SideFacts
    <3> QED
      BY <1>3, <1>4, <1>7, <3>1, <3>2, <3>3
  <2>2. CASE At(t, n)[s] # node
    <3>1. c = At(t, n)[s] /\ c \in M /\ At(t, c)["parent"] = n /\ At(t, n)[Other(s)] # c
      BY <1>1, <1>6, <1>7, <2>2
    <3>2. c # child
      BY <1>4, <1>7, <3>1
    <3>3. At(u, n)[Other(s)] # c
      BY <1>6, <3>1, <3>2, SideFacts
    <3> QED
      BY <1>3, <3>1, <3>2, <3>3
  <2> QED
    BY <2>1, <2>2
<1>8. ASSUME NEW n \in M \ {u.root}
      PROVE  At(u, n)["parent"] \in M /\ \E s \in Sides : At(u, At(u, n)["parent"])[s] = n
  <2>1. CASE n = child
    <3>1. At(u, n)["parent"] = p
      BY <1>3, <2>1
    <3>2. PICK s \in Sides : At(t, p)[s] = node
      BY <1>1, <1>2
    <3>3. At(u, p)[s] = n /\ p \in M
      BY <1>4, <1>6, <2>1, <3>2
    <3> QED
      BY <3>1, <3>3
  <2>2. CASE n # child
    <3>1. PICK q \in L : q = At(t, n)["parent"]
      BY <1>1, <1>3
    <3>2. PICK s \in Sides : At(t, q)[s] = n
      BY <1>1, <1>3, <3>1
    <3>3. q # node
      BY <1>0, <1>1, <2>2, <3>2
    <3> QED
      BY <1>3, <1>6, <2>2, <3>1, <3>2, <3>3
  <2> QED
    BY <2>1, <2>2
<1>9. Linked(u, M)
  <2>1. u.root \in M /\ M \subseteq Keys
    BY <1>1, <1>3
  <2>2. At(u, u.root)["parent"] \in {Sentinel, Null}
    BY <1>1, <1>3, <1>4
  <2>3. \A n \in M : At(u, n)["key"] \in Keys
    BY <1>1, <1>3
  <2> QED
    BY <1>3, <1>7, <1>8, <2>1, <2>2, <2>3 DEF Linked
<1>10. sub \in [L \cup {Null} -> SUBSET L] /\ sub[Null] = {}
  BY DEF Tree, Ordered
<1>11. /\ su \in [M \cup {Null} -> SUBSET M] /\ su[Null] = {}
       /\ \A n \in M \cup {Null} : su[n] = sub[n] \ {node}
  BY <1>10
<1> HIDE DEF su
<1>12. sub[node] \ {node} = sub[child] /\ sub[child] = sub[child] \ {node}
  <2>1. /\ sub[node] = {node} \cup sub[At(t, node)["left"]] \cup sub[At(t, node)["right"]]
        /\ \A s \in Sides : node \notin sub[At(t, node)[s]]
    BY OrderedFacts DEF Tree, Ordered
  <2>2. /\ At(t, node)["left"] \in {child, Null} /\ At(t, node)["right"] \in {child, Null}
        /\ child # Null => At(t, node)["left"] = child \/ At(t, node)["right"] = child
    BY <1>0 DEF Sides
  <2>3. /\ node \notin sub[At(t, node)["left"]] /\ node \notin sub[At(t, node)["right"]]
    BY <2>1, FieldNames
  <2> QED
    BY <1>10, <2>1, <2>2, <2>3
<1>13. ASSUME NEW n \in M, NEW s \in Sides
       PROVE  su[At(u, n)[s]] = sub[At(t, n)[s]] \ {node}
  <2>1. PICK c \in L \cup {Null} : c = At(t, n)[s]
    BY <1>1
  <2>2. At(u, n)[s] = IF c = node THEN child ELSE c
    BY <1>6, <2>1
  <2>3. CASE c = node
    <3>1. child \in M \cup {Null}
      BY <1>4
    <3>2. su[child] = sub[child] \ {node}
      BY <1>11, <3>1
    <3> QED
      BY <1>12, <2>1, <2>2, <2>3, <3>2
  <2>4. CASE c # node
    BY <1>11, <2>1, <2>2, <2>4
  <2> QED
    BY <2>3, <2>4
<1>14. ASSUME NEW n \in M
       PROVE  su[n] = {n} \cup su[At(u, n)["left"]] \cup su[At(u, n)["right"]]
  <2>1. sub[n] = {n} \cup sub[At(t, n)["left"]] \cup sub[At(t, n)["right"]]
    BY DEF Tree, Ordered
  <2>2. /\ su[At(u, n)["left"]] = sub[At(t, n)["left"]] \ {node}
        /\ su[At(u, n)["right"]] = sub[At(t, n)["right"]] \ {node}
    BY <1>13, FieldNames
  <2> QED
    BY <1>11, <2>1, <2>2
<1>15. ASSUME NEW n \in M, NEW s \in Sides, NEW m \in su[At(u, n)[s]]
       PROVE  Ahead(s, At(u, m)["key"], At(u, n)["key"])
  <2>1. PICK c \in L \cup {Null} : c = At(t, n)[s]
    BY <1>1
  <2>2. m \in sub[c] /\ m # node /\ m \in L /\ n \in L
    BY <1>13, <1>15, <2>1, OrderedFacts
  <2>3. Ahead(s, At(t, m)["key"], At(t, n)["key"])
    BY <2>1, <2>2, OrderedFacts
  <2>4. CASE n = found
    <3>1. node \in sub[far] /\ node # found
      BY <1>0, <2>4
    <3>2. Ahead("right", At(t, node)["key"], At(t, n)["key"])
      BY <1>0, <2>4, <3>1, OrderedFacts, FieldNames
    <3>3. m # found
      BY <2>1, <2>2, <2>4, OrderedFacts
    <3>4. At(u, m)["key"] = At(t, m)["key"] /\ At(u, n)["key"] = At(t, node)["key"]
      BY <1>3, <2>2, <2>4, <3>1, <3>3
    <3>5. CASE s = "left"
      <4>1. Ahead("left", At(t, n)["key"], At(t, node)["key"])
        BY <1>1, <3>2, AheadFacts, FieldNames DEF Other
      <4> QED
        BY <1>1, <2>2, <2>3, <3>4, <3>5, <4>1, AheadFacts
    <3>6. CASE s = "right"
      <4>1. Ahead("left", At(t, node)["key"], At(t, m)["key"])
        BY <1>0, <2>1, <2>2, <2>4, <3>1, <3>6
      <4>2. Ahead("right", At(t, m)["key"], At(t, node)["key"])
        BY <1>1, <2>2, <4>1, AheadFacts, FieldNames DEF Other
      <4> QED
        BY <3>4, <3>6, <4>2
    <3> QED
      BY <3>5, <3>6 DEF Sides
  <2>5. CASE n # found /\ m = found
    <3>1. node # found /\ node \in sub[far]
      BY <1>0, <2>2, <2>5
    <3>2. sub[far] \subseteq sub[found]
      BY <1>0, OrderedFacts, FieldNames
    <3>3. sub[found] \subseteq sub[c]
      <4>1. c # Null
        BY <1>10, <2>2
      <4> QED
        BY <2>2, <2>5, <4>1, UnderTransitive
    <3>4. Ahead(s, At(t, node)["key"], At(t, n)["key"])
      BY <2>1, <2>2, <3>1, <3>2, <3>3, OrderedFacts
    <3> QED
      BY <1>3, <2>2, <2>5, <3>1, <3>4
  <2>6. CASE n # found /\ m # found
    BY <1>3, <2>2, <2>3, <2>6
  <2> QED
    BY <2>4, <2>5, <2>6
<1>16. Tree(u, M, su)
  BY <1>9, <1>11, <1>14, <1>15 DEF Tree, Ordered
<1>17. {At(u, m)["key"] : m \in M} = {At(t, m)["key"] : m \in L} \ {k}
  <2>1. \A m, n \in L : At(t, m)["key"] = At(t, n)["key"] => m = n
    BY KeysDistinct
  <2>2. CASE node = found
    BY <1>3, <2>1, <2>2
  <2>3. CASE node # found
    <3>1. ASSUME NEW m \in M PROVE \E n \in L : At(u, m)["key"] = At(t, n)["key"] /\ n # found
      BY <1>3, <2>3
    <3>2. ASSUME NEW n \in L, n # found PROVE \E m \in M : At(u, m)["key"] = At(t, n)["key"]
      BY <1>3, <2>3, <3>2
    <3>3. \A n \in L : n # found => At(t, n)["key"] # k
      BY <2>1
    <3>4. {At(u, m)["key"] : m \in M} \subseteq {At(t, m)["key"] : m \in L} \ {k}
      <4> SUFFICES ASSUME NEW m \in M
                   PROVE  At(u, m)["key"] \in {At(t, n)["key"] : n \in L} \ {k}
        OBVIOUS
      <4>1. PICK n \in L : At(u, m)["key"] = At(t, n)["key"] /\ n # found
        BY <3>1
      <4> QED
        BY <3>3, <4>1
    <3>5. {At(t, m)["key"] : m \in L} \ {k} \subseteq {At(u, m)["key"] : m \in M}
      <4> SUFFICES ASSUME NEW n \in L, At(t, n)["key"] # k
                   PROVE  At(t, n)["key"] \in {At(u, m)["key"] : m \in M}
        OBVIOUS
      <4>1. PICK m \in M : At(u, m)["key"] = At(t, n)["key"]
        BY <3>2
      <4> QED
        BY <4>1
    <3> HIDE DEF M
    <3> QED
      BY <3>4, <3>5
  <2> QED
    BY <2>2, <2>3
<1> QED
  BY <1>16, <1>17 DEF KeysOf, Pruned

-----------------------------------------------------------------------------
(* The rotations of fixInsertion().                                        *)

SameLabels(u, t, L) ==
  \A n \in L : /\ At(u, n)["key"] = At(t, n)["key"]
               /\ At(u, n)["colour"] = At(t, n)["colour"]

LEMMA RotateFacts ==
  ASSUME NEW t, NEW L, NEW sub, Tree(t, L, sub), ClosedDown(t),
         NEW x \in L, NEW side \in Sides, NEW y \in L, y = At(t, x)[Other(side)]
  PROVE  LET r == Rotate(t, x, side) IN
         /\ \E s : Tree(r, L, s)
         /\ ClosedDown(r) /\ SameLabels(r, t, L)
         /\ r.root = IF t.root = x THEN y ELSE t.root
         /\ At(r, x)["parent"] = y
         /\ \A n \in L \ {x, y}, s \in Sides :
              At(r, n)[s] = IF At(t, n)[s] = x THEN y ELSE At(t, n)[s]
<1>1. y # Null /\ Null \notin L
  BY LinkedFacts DEF Tree
<1>2. PICK a \in L \cup {Null}, b \in L \cup {Null}, i \in L \cup {Null} :
        a = At(t, x)[side] /\ b = At(t, y)[Other(side)] /\ i = At(t, y)[side]
  BY LinkedFacts, SideFacts DEF Tree
<1>3. /\ \A n \in L : /\ At(Rotate(t, x, side), n)["key"] = At(t, n)["key"]
                      /\ At(Rotate(t, x, side), n)["colour"] = At(t, n)["colour"]
      /\ At(Rotate(t, x, side), x)["parent"] = y
      /\ \A n \in L \ {x, y}, s \in Sides :
           At(Rotate(t, x, side), n)[s] = IF At(t, n)[s] = x THEN y ELSE At(t, n)[s]
  BY <1>2, TurnedFacts DEF TurnedRound
<1>4. ClosedDown(Rotate(t, x, side))
  BY <1>1, RotatedClosedDown
<1>5. Tree(Rotate(t, x, side), L, TurnedSub(t, sub, x, side))
  BY <1>1, RotatedTree
<1>6. Rotate(t, x, side).root = IF t.root = x THEN y ELSE t.root
  BY <1>1, RotateAt
<1> QED
  BY <1>3, <1>4, <1>5, <1>6 DEF SameLabels

\* The node f in the middle of a zig-zag gets above its parent p.
Aligned(t, f, p, side) == IF SideOf(t, f) = side THEN t ELSE Rotate(t, p, side)

LEMMA SideOfFacts ==
  ASSUME NEW t, NEW L, NEW sub, Tree(t, L, sub), NEW n \in L \ {t.root}
  PROVE  SideOf(t, n) \in Sides /\ At(t, At(t, n)["parent"])[SideOf(t, n)] = n
<1>1. \E s \in Sides : At(t, At(t, n)["parent"])[s] = n
  BY LinkedFacts DEF Tree
<1> QED
  BY <1>1 DEF SideOf, Sides

LEMMA AlignedFacts ==
  ASSUME NEW t, NEW L, NEW sub, Tree(t, L, sub), ClosedDown(t),
         NEW f \in L, NEW p \in L, NEW g \in L, f # t.root, p # t.root,
         p = At(t, f)["parent"], g = At(t, p)["parent"],
         NEW side \in Sides, At(t, g)[side] = p
  PROVE  LET a == Aligned(t, f, p, side) IN
         /\ \E s : Tree(a, L, s)
         /\ ClosedDown(a) /\ SameLabels(a, t, L) /\ a.root = t.root
         /\ At(a, g)[side] = (IF SideOf(t, f) = side THEN p ELSE f)
<1>1. SideOf(t, f) \in Sides /\ At(t, p)[SideOf(t, f)] = f
  BY SideOfFacts
<1>2. CASE SideOf(t, f) = side
  BY <1>2 DEF Aligned, SameLabels
<1>3. CASE SideOf(t, f) # side
  <2>1. f = At(t, p)[Other(side)]
    BY <1>1, <1>3, SideFacts
  <2>2. Aligned(t, f, p, side) = Rotate(t, p, side)
    BY <1>3 DEF Aligned
  <2>3. \A n \in L \ {p, f}, s \in Sides :
          At(Rotate(t, p, side), n)[s] = IF At(t, n)[s] = p THEN f ELSE At(t, n)[s]
    BY <2>1, RotateFacts
  <2>4. g # p /\ g # f
    BY <2>1, RotationNodes, LinkedFacts DEF Tree
  <2>5. At(Rotate(t, p, side), g)[side] = f
    BY <2>3, <2>4
  <2> QED
    BY <1>3, <2>1, <2>2, <2>5, RotateFacts
<1> QED
  BY <1>2, <1>3

\* RotateOuter() turns g and the child y, and swaps their colours.
LEMMA RotateOuterFacts ==
  ASSUME NEW t, NEW L, NEW sub, Tree(t, L, sub), ClosedDown(t),
         NEW g \in L, NEW side \in Sides, NEW y \in L, y = At(t, g)[side]
  PROVE  LET o == RotateOuter(t, g, side)
             r == Rotate(t, g, Other(side))
         IN
         /\ \E s : Tree(o, L, s)
         /\ ClosedDown(o)
         /\ o.root = r.root /\ r.root = IF t.root = g THEN y ELSE t.root
         /\ \A n \in Addrs, h \in Fields :
              At(o, n)[h] = IF n = y /\ h = "colour" THEN At(t, g)["colour"]
                            ELSE IF n = g /\ h = "colour" THEN At(t, y)["colour"]
                            ELSE At(r, n)[h]
<1> DEFINE o == RotateOuter(t, g, side)
           r == Rotate(t, g, Other(side))
           p == At(r, g)["parent"]
           cp == At(r, p)["colour"]
           cg == At(r, g)["colour"]
           w == Set(r, g, "colour", cp)
<1>1. Other(side) \in Sides /\ Other(Other(side)) = side
  BY SideFacts
<1>2. PICK s : Tree(r, L, s)
  BY <1>1, RotateFacts
<1>3. /\ ClosedDown(r) /\ SameLabels(r, t, L) /\ p = y
      /\ r.root = IF t.root = g THEN y ELSE t.root
  BY <1>1, RotateFacts
<1>4. o = Set(w, p, "colour", cg)
  BY DEF RotateOuter
<1>5. cg = At(t, g)["colour"] /\ cp = At(t, y)["colour"]
  BY <1>3 DEF SameLabels
<1> HIDE DEF r, o, p, cp, cg
<1>6. r \in TreeType /\ g \in Addrs /\ y \in Addrs /\ g # y
  BY <1>1, <1>2, RotationNodes, LinkedFacts DEF Tree, Addrs
<1>7. cp \in FieldType("colour") /\ cg \in FieldType("colour")
  <2>1. t \in TreeType
    BY LinkedFacts DEF Tree
  <2> QED
    BY <1>5, <1>6, <2>1, AtType, FieldNames
<1>8. Changed(w, r, g, "colour", cp)
  BY <1>6, <1>7, SetField, FieldNames
<1> HIDE DEF w
<1>9. Changed(o, w, y, "colour", cg)
  <2>1. w \in TreeType
    BY <1>8 DEF Changed
  <2> QED
    BY <1>3, <1>4, <1>6, <1>7, <2>1, SetField, FieldNames
<1>10. /\ o \in TreeType /\ o.root = r.root
       /\ \A n \in Addrs, h \in Fields :
            At(o, n)[h] = IF n = y /\ h = "colour" THEN cg
                          ELSE IF n = g /\ h = "colour" THEN cp
                          ELSE At(r, n)[h]
  BY <1>6, <1>8, <1>9 DEF Changed
<1>11. Tree(o, L, s)
  <2>1. \A n \in L : /\ At(o, n)["key"] = At(r, n)["key"]
                     /\ At(o, n)["left"] = At(r, n)["left"]
                     /\ At(o, n)["right"] = At(r, n)["right"]
                     /\ At(o, n)["parent"] = At(r, n)["parent"]
    <3>1. L \subseteq Addrs
      BY LinkedFacts DEF Tree, Addrs
    <3> QED
      BY <1>10, <3>1, FieldNames
  <2>2. At(r, r.root)["parent"] \in {Sentinel, Null} /\ r.root \in L
    BY <1>2, LinkedFacts DEF Tree
  <2>3. At(o, r.root)["parent"] \in {Sentinel, Null}
    BY <2>1, <2>2
  <2> QED
    BY <1>2, <1>10, <2>1, <2>3, SameShape
<1>12. ClosedDown(o)
  <2>1. \A n \in Addrs, h \in Sides : At(o, n)[h] = At(r, n)[h]
    BY <1>10, FieldNames
  <2> QED
    BY <1>3, <2>1 DEF ClosedDown
<1> QED
  BY <1>3, <1>5, <1>10, <1>11, <1>12 DEF o, r

-----------------------------------------------------------------------------
(* The shape of the tree, which erase() keeps too.                         *)

IsTree(t, L) == ClosedDown(t) /\ \E sub : Tree(t, L, sub)

LEMMA IsTreeFacts ==
  ASSUME NEW t, NEW L, IsTree(t, L)
  PROVE  t \in TreeType /\ L # {} /\ t.root \in L /\ L \subseteq Keys /\ t.root # Null
BY LinkedFacts DEF IsTree, Tree

\* The first node.
Planted(t, k) == [t EXCEPT !.root = k, !.node[k] = Node(k, Null, "BLACK")]

LEMMA PlantedTree ==
  ASSUME NEW t \in TreeType, ClosedDown(t), NEW k \in Keys
  PROVE  /\ IsTree(Planted(t, k), {k})
         /\ Planted(t, k).root = k
         /\ \A m \in Addrs :
              At(Planted(t, k), m) = IF m = k THEN Node(k, Null, "BLACK") ELSE At(t, m)
<1> DEFINE u == Planted(t, k)
           nodes == [t.node EXCEPT ![k] = Node(k, Null, "BLACK")]
           sub == [n \in {k} \cup {Null} |-> IF n = Null THEN {} ELSE {k}]
<1>1. t.node \in [Addrs -> NodeType] /\ t.root \in Keys \cup {Null} /\ k \in Addrs /\ k # Null
  BY RBTreeAssumption DEF TreeType, Addrs
<1>2. Node(k, Null, "BLACK") \in NodeType
  BY DEF Node, NodeType, Addresses
<1>3. /\ nodes \in [Addrs -> NodeType]
      /\ \A m \in Addrs : nodes[m] = IF m = k THEN Node(k, Null, "BLACK") ELSE t.node[m]
  BY <1>1, <1>2
<1>4. u \in TreeType /\ u.root = k /\ u.node = nodes
  <2> HIDE DEF nodes
  <2>1. u = [[t EXCEPT !.root = k] EXCEPT !.node = nodes]
    BY DEF Planted, nodes, TreeType
  <2> HIDE DEF u
  <2> QED
    BY <1>3, <2>1 DEF TreeType
<1>5. \A m \in Addrs : At(u, m) = IF m = k THEN Node(k, Null, "BLACK") ELSE At(t, m)
  BY <1>3, <1>4 DEF At
<1> HIDE DEF u
<1>6. At(u, k)["key"] = k /\ At(u, k)["parent"] = Null /\ \A s \in Sides : At(u, k)[s] = Null
  BY <1>1, <1>5, NodeFields
<1>7. ClosedDown(u)
  <2>1. \A m \in Addrs, s \in Sides : At(u, m)[s] = IF m = k THEN Null ELSE At(t, m)[s]
    BY <1>5, <1>6
  <2> QED
    BY <2>1 DEF ClosedDown
<1>8. Linked(u, {k})
  BY <1>4, <1>6 DEF Linked
<1>9. Ordered(u, {k}, sub)
  <2>1. sub[Null] = {} /\ sub[k] = {k} /\ sub \in [{k} \cup {Null} -> SUBSET {k}]
    BY <1>1
  <2> HIDE DEF sub
  <2> QED
    BY <1>6, <2>1, FieldNames DEF Ordered
<1> HIDE DEF sub
<1> QED
  BY <1>4, <1>5, <1>7, <1>8, <1>9 DEF IsTree, Tree, u

\* u is t with a new leaf k under p.
NewLeaf(u, t, L, k, p, side) ==
  /\ p \in L /\ side \in Sides /\ At(t, p)[side] = Null
  /\ \A m \in Addrs, g \in Fields :
       At(u, m)[g] = IF m = k THEN Node(k, p, "RED")[g]
                     ELSE IF m = p /\ g = side THEN k ELSE At(t, m)[g]

LEMMA AttachedIsTree ==
  ASSUME NEW t, NEW L, IsTree(t, L), NEW k \in Keys \ L,
         At(t, Search(t, k))["key"] # k
  PROVE  LET p == Search(t, k)
             side == SideFor(t, k, p)
             u == Attached(t, k, p, side)
         IN
         /\ IsTree(u, L \cup {k}) /\ NewLeaf(u, t, L, k, p, side)
         /\ u.root = t.root /\ k \notin KeysOf(t, L)
<1> DEFINE p == Search(t, k)
           side == SideFor(t, k, p)
           u == Attached(t, k, p, side)
<1>1. PICK sub : Tree(t, L, sub)
  BY DEF IsTree
<1>2. /\ p \in L /\ Belongs(t, L, sub, k, p)
      /\ side \in Sides /\ Ahead(side, k, At(t, p)["key"])
      /\ At(t, p)[side] = Null
      /\ \A m \in L : At(t, m)["key"] # k
  BY <1>1, SearchFacts DEF IsTree
<1> HIDE DEF p, side
<1>3. Tree(u, L \cup {k}, Grown(L, sub, p, k))
  BY <1>1, <1>2, AttachedTree
<1>4. /\ u.root = t.root
      /\ \A m \in Addrs, g \in Fields :
           At(u, m)[g] = IF m = k THEN Node(k, p, "RED")[g]
                         ELSE IF m = p /\ g = side THEN k ELSE At(t, m)[g]
  BY <1>1, <1>2, AttachedAt, LinkedFacts DEF Tree
<1>5. ClosedDown(u)
  <2>1. ASSUME NEW m \in Addrs, NEW s \in Sides PROVE At(u, m)[s] \in {Null, k, At(t, m)[s]}
    BY <1>4, FieldNames, NodeFields
  <2> QED
    BY <2>1 DEF ClosedDown, IsTree
<1> QED
  BY <1>2, <1>3, <1>4, <1>5 DEF IsTree, NewLeaf, KeysOf, u, p, side

LEMMA FinishedIsTree ==
  ASSUME NEW t, NEW L, IsTree(t, L)
  PROVE  /\ IsTree(Finished(t), L)
         /\ Finished(t).root = t.root
         /\ At(Finished(t), t.root)["colour"] = "BLACK"
         /\ \A m \in L : At(Finished(t), m)["key"] = At(t, m)["key"]
<1>1. t.root \in Keys /\ L \subseteq Keys
  BY IsTreeFacts
<1>2. PICK sub : Tree(t, L, sub)
  BY DEF IsTree
<1>3. ClosedDown(t)
  BY DEF IsTree
<1> QED
  BY <1>1, <1>2, <1>3, FinishedAt, FinishedTree, FieldNames DEF IsTree

\* A change of colours
Recoloured(t, p, u, g) ==
  [t EXCEPT !.node[p].colour = "BLACK", !.node[u].colour = "BLACK", !.node[g].colour = "RED"]

OnlyRecoloured(r, t, p, u, g) ==
  \A m \in Addrs, h \in Fields :
    At(r, m)[h] = IF h = "colour" /\ m = g THEN "RED"
                  ELSE IF h = "colour" /\ m \in {p, u} THEN "BLACK" ELSE At(t, m)[h]

LEMMA RecolouredIsTree ==
  ASSUME NEW t, NEW L, IsTree(t, L), NEW p \in L, NEW u \in L, NEW g \in L
  PROVE  LET r == Recoloured(t, p, u, g) IN
         IsTree(r, L) /\ r.root = t.root /\ OnlyRecoloured(r, t, p, u, g)
<1> DEFINE r == Recoloured(t, p, u, g)
           r1 == Set(t, p, "colour", "BLACK")
           r2 == Set(r1, u, "colour", "BLACK")
           r3 == Set(r2, g, "colour", "RED")
<1>1. t \in TreeType /\ L \subseteq Keys /\ t.root \in L
  BY IsTreeFacts
<1>2. p \in Addrs /\ u \in Addrs /\ g \in Addrs
  BY <1>1 DEF Addrs
<1>3. "BLACK" \in FieldType("colour") /\ "RED" \in FieldType("colour")
  BY DEF FieldType, Ptrs
<1>4. r = r3
  BY <1>1 DEF Recoloured, Set, TreeType
<1> HIDE DEF r
<1>5. Changed(r1, t, p, "colour", "BLACK")
  BY <1>1, <1>2, <1>3, SetField, FieldNames
<1> HIDE DEF r1
<1>6. Changed(r2, r1, u, "colour", "BLACK")
  <2>1. r1 \in TreeType
    BY <1>5 DEF Changed
  <2> QED
    BY <1>2, <1>3, <2>1, SetField, FieldNames
<1> HIDE DEF r2
<1>7. Changed(r3, r2, g, "colour", "RED")
  <2>1. r2 \in TreeType
    BY <1>6 DEF Changed
  <2> QED
    BY <1>2, <1>3, <2>1, SetField, FieldNames
<1> HIDE DEF r3
<1>8. /\ r \in TreeType /\ r.root = t.root
      /\ \A m \in Addrs, h \in Fields :
           At(r, m)[h] = IF h = "colour" /\ m = g THEN "RED"
                         ELSE IF h = "colour" /\ m \in {p, u} THEN "BLACK" ELSE At(t, m)[h]
  BY <1>4, <1>5, <1>6, <1>7 DEF Changed
<1>9. PICK sub : Tree(t, L, sub)
  BY DEF IsTree
<1>10. Tree(r, L, sub)
  <2>1. \A m \in L : /\ At(r, m)["key"] = At(t, m)["key"]
                     /\ At(r, m)["left"] = At(t, m)["left"]
                     /\ At(r, m)["right"] = At(t, m)["right"]
                     /\ At(r, m)["parent"] = At(t, m)["parent"]
    BY <1>1, <1>8, FieldNames DEF Addrs
  <2>2. At(t, t.root)["parent"] \in {Sentinel, Null}
    BY <1>9, LinkedFacts DEF Tree
  <2>3. At(r, t.root)["parent"] \in {Sentinel, Null}
    BY <1>1, <2>1, <2>2
  <2> QED
    BY <1>8, <1>9, <2>1, <2>3, SameShape
<1>11. ClosedDown(r)
  <2>1. \A m \in Addrs, s \in Sides : At(r, m)[s] = At(t, m)[s]
    BY <1>8, FieldNames
  <2> QED
    BY <2>1 DEF ClosedDown, IsTree
<1> QED
  BY <1>8, <1>10, <1>11 DEF IsTree, OnlyRecoloured, r

LEMMA FixedIsTree ==
  ASSUME NEW t, NEW L, IsTree(t, L), NEW f \in L, f # t.root,
         NEW p, p = At(t, f)["parent"], p # t.root,
         NEW g, g = At(t, p)["parent"],
         NEW side, side = SideOf(t, p)
  PROVE  LET u == Finished(RotateOuter(Aligned(t, f, p, side), g, side)) IN
         /\ IsTree(u, L) /\ u.root \in L /\ At(u, u.root)["colour"] = "BLACK"
         /\ \A n \in L : At(u, n)["key"] = At(t, n)["key"]
<1> DEFINE a == Aligned(t, f, p, side)
           o == RotateOuter(a, g, side)
<1>1. PICK sub : Tree(t, L, sub)
  BY DEF IsTree
<1>2. /\ p \in L /\ g \in L
      /\ side \in Sides /\ At(t, g)[side] = p
  BY <1>1, SideOfFacts, LinkedFacts DEF Tree
<1>3. PICK sa : Tree(a, L, sa)
  BY <1>1, <1>2, AlignedFacts DEF IsTree
<1>4. /\ ClosedDown(a) /\ SameLabels(a, t, L)
      /\ At(a, g)[side] = p \/ At(a, g)[side] = f
  BY <1>1, <1>2, AlignedFacts DEF IsTree
<1> HIDE DEF a
<1>5. PICK y \in L : y = At(a, g)[side]
  BY <1>2, <1>4
<1> DEFINE r == Rotate(a, g, Other(side))
<1>6. Other(side) \in Sides /\ Other(Other(side)) = side
  BY <1>2, SideFacts
<1>7. SameLabels(r, a, L)
  BY <1>2, <1>3, <1>4, <1>5, <1>6, RotateFacts
<1>8. /\ \E s : Tree(o, L, s)
      /\ ClosedDown(o)
      /\ \A n \in Addrs, h \in Fields :
           At(o, n)[h] = IF n = y /\ h = "colour" THEN At(a, g)["colour"]
                         ELSE IF n = g /\ h = "colour" THEN At(a, y)["colour"]
                         ELSE At(r, n)[h]
  BY <1>2, <1>3, <1>4, <1>5, RotateOuterFacts
<1> HIDE DEF o, r
<1>9. L \subseteq Addrs
  BY IsTreeFacts DEF Addrs
<1>10. \A n \in L : At(o, n)["key"] = At(t, n)["key"]
  BY <1>4, <1>7, <1>8, <1>9, FieldNames DEF SameLabels
<1>11. IsTree(o, L)
  BY <1>8 DEF IsTree
<1>12. o.root \in L
  BY <1>11, IsTreeFacts
<1>13. /\ IsTree(Finished(o), L) /\ Finished(o).root \in L
       /\ At(Finished(o), Finished(o).root)["colour"] = "BLACK"
       /\ \A n \in L : At(Finished(o), n)["key"] = At(t, n)["key"]
  BY <1>10, <1>11, <1>12, FinishedIsTree
<1> QED
  BY <1>13 DEF o, a

Live == {n \in Keys : life[n] = "live"}

RootBlack(t, f) == At(t, t.root)["colour"] = "BLACK" \/ t.root = f

\* The nodes of L form t, whose root is only red while the loop is at it.
Formed(t, L, f) ==
  /\ t \in TreeType /\ ClosedDown(t)
  /\ IF L = {} THEN t.root = Null ELSE IsTree(t, L) /\ RootBlack(t, f)

Shape ==
  /\ Formed(tree, Live, fixing)
  /\ life \in [Keys -> {"unused", "live", "deleted"}]
  /\ mSize \in Nat /\ Cardinality(Live) <= mSize /\ (Live = {} => mSize = 0)
  /\ fixing \in Live \cup {Null}

LEMMA FormedTree ==
  ASSUME NEW t, NEW L, NEW f, IsTree(t, L), RootBlack(t, f)
  PROVE  Formed(t, L, f)
BY IsTreeFacts DEF Formed, IsTree

LEMMA EmptyTree ==
  ASSUME NEW t, t.root = Null, NEW c \in {"BLACK", "SENTINEL"},
         t.node = [n \in Keys \cup {Sentinel} |->
                     IF n = Sentinel THEN Node(Null, Null, c) ELSE Unused],
         t = [root |-> t.root, node |-> t.node]
  PROVE  \A f : Formed(t, {}, f)
<1>1. \A n \in Addrs : At(t, n) \in NodeType /\ \A s \in Sides : At(t, n)[s] = Null
  BY DEF At, Node, Unused, NodeType, Addresses, Addrs, Sides
<1>2. t \in TreeType
  BY <1>1 DEF TreeType, At, Addrs
<1> QED
  BY <1>1, <1>2 DEF Formed, ClosedDown

LEMMA LiveFinite == IsFiniteSet(Live) /\ Live \subseteq Keys
<1>1. Live \subseteq Keys
  BY DEF Live
<1> QED
  BY <1>1, RBTreeAssumption, FS_Subset

LEMMA ShapeFacts ==
  ASSUME Shape
  PROVE  /\ Searchable => Live # {}
         /\ Live # {} => /\ IsTree(tree, Live) /\ RootBlack(tree, fixing)
                         /\ mSize # 0 /\ Searchable
         /\ mSize = 0 => Live = {} /\ tree.root = Null
         /\ Live = {} => fixing = Null
<1>1. Live = {} => tree.root = Null
  BY DEF Shape, Formed
<1>2. mSize = 0 => Live = {}
  <2>1. Cardinality(Live) \in Nat /\ (Cardinality(Live) = 0 <=> Live = {})
    BY LiveFinite, FS_CardinalityType, FS_EmptySet
  <2> QED
    BY <2>1 DEF Shape
<1>3. Searchable => Live # {}
  BY DEF Shape, Searchable
<1> QED
  BY <1>1, <1>2, <1>3, IsTreeFacts DEF Shape, Formed, Searchable, Live

LEMMA ShapeInit == Init => Shape
<1> SUFFICES ASSUME Init PROVE Shape
  OBVIOUS
<1>1. Live = {}
  BY DEF Init, Live
<1>2. Formed(tree, {}, fixing)
  BY EmptyTree DEF Init
<1>3. Cardinality(Live) = 0
  BY <1>1, FS_EmptySet
<1> QED
  BY <1>1, <1>2, <1>3 DEF Init, Shape

LEMMA CreateStep ==
  ASSUME Shape, NEW k \in Keys, Create(k)
  PROVE  /\ fixing = Null /\ k \notin Live
         /\ life' \in [Keys -> {"unused", "live", "deleted"}]
         /\ Live' = Live \cup {k} /\ mSize' \in Nat /\ Cardinality(Live)' <= mSize'
         /\ Cardinality(Live)' = Cardinality(Live) + 1
<1>1. life' = [life EXCEPT ![k] = "live"] /\ mSize' = mSize + 1 /\ fixing = Null /\ life[k] = "unused"
  BY DEF Create
<1>2. k \notin Live /\ Live' = Live \cup {k}
  BY <1>1 DEF Live, Shape
<1>3. Cardinality(Live \cup {k}) = Cardinality(Live) + 1 /\ Cardinality(Live) \in Nat
  BY <1>2, LiveFinite, FS_AddElement, FS_CardinalityType
<1> QED
  BY <1>1, <1>2, <1>3 DEF Shape

LEMMA InsertRootStep ==
  ASSUME Shape, NEW k \in Keys, InsertRoot(k)
  PROVE  /\ Live = {} /\ Live' = {k} /\ fixing' = Null
         /\ tree' = Finished(Planted(tree, k))
         /\ IsTree(tree', {k}) /\ tree'.root = k
         /\ At(tree', k)["colour"] = "BLACK" /\ At(tree', k)["key"] = k
<1>1. /\ Live = {} /\ Live' = {k} /\ fixing = Null /\ fixing' = fixing
      /\ tree' = Finished(Planted(tree, k))
  BY ShapeFacts, CreateStep DEF InsertRoot, Planted
<1>2. IsTree(Planted(tree, k), {k}) /\ Planted(tree, k).root = k
      /\ \A m \in Addrs :
           At(Planted(tree, k), m) = IF m = k THEN Node(k, Null, "BLACK") ELSE At(tree, m)
  BY PlantedTree DEF Shape, Formed
<1>3. At(Planted(tree, k), k)["key"] = k
  BY <1>2, NodeFields DEF Addrs
<1> QED
  BY <1>1, <1>2, <1>3, FinishedIsTree

LEMMA InsertLeafStep ==
  ASSUME Shape, NEW k \in Keys, InsertLeaf(k)
  PROVE  LET p == Search(tree, k)
             side == SideFor(tree, k, p)
         IN
         /\ fixing = Null /\ fixing' = k /\ IsTree(tree, Live) /\ k \in Keys \ Live
         /\ Live' = Live \cup {k} /\ At(tree, p)["key"] # k
         /\ tree' = Attached(tree, k, p, side)
         /\ IsTree(tree', Live \cup {k}) /\ tree'.root = tree.root
         /\ RootBlack(tree', k)
<1> DEFINE p == Search(tree, k)
           side == SideFor(tree, k, p)
<1>1. /\ fixing = Null /\ fixing' = k /\ Live' = Live \cup {k} /\ k \notin Live
      /\ Live # {} /\ At(tree, p)["key"] # k
      /\ tree' = Attached(tree, k, p, side)
  BY CreateStep, ShapeFacts DEF InsertLeaf, Attached, SideFor
<1>2. IsTree(tree, Live) /\ RootBlack(tree, Null)
  BY <1>1, ShapeFacts
<1>3. /\ IsTree(tree', Live \cup {k}) /\ p \in Live /\ side \in Sides
      /\ tree'.root = tree.root
      /\ \A m \in Addrs, g \in Fields :
           At(tree', m)[g] = IF m = k THEN Node(k, p, "RED")[g]
                             ELSE IF m = p /\ g = side THEN k ELSE At(tree, m)[g]
  BY <1>1, <1>2, AttachedIsTree DEF NewLeaf
<1>4. RootBlack(tree', k)
  <2>1. tree.root \in Live /\ tree.root \in Addrs /\ tree.root # Null
    BY <1>2, IsTreeFacts DEF Addrs
  <2>2. At(tree', tree.root)["colour"] = At(tree, tree.root)["colour"]
    BY <1>1, <1>3, <2>1, FieldNames
  <2> QED
    BY <1>2, <1>3, <2>1, <2>2 DEF RootBlack
<1> QED
  BY <1>1, <1>2, <1>3, <1>4

\* The nodes one iteration is about.
LEMMA FixNodes ==
  ASSUME Shape, fixing # Null, Violation
  PROVE  LET p == At(tree, fixing)["parent"]
             g == At(tree, p)["parent"]
             side == SideOf(tree, p)
             uncle == At(tree, g)[Other(side)]
         IN
         /\ IsTree(tree, Live) /\ fixing \in Live /\ fixing # tree.root
         /\ p \in Live /\ p # tree.root /\ g \in Live /\ side \in Sides
         /\ At(tree, g)[side] = p /\ uncle \in Live \cup {Null}
         /\ At(tree, p)["colour"] = "RED"
<1> DEFINE p == At(tree, fixing)["parent"]
           g == At(tree, p)["parent"]
           side == SideOf(tree, p)
<1>1. fixing \in Live /\ fixing # tree.root /\ At(tree, p)["colour"] = "RED"
  BY DEF Shape, Violation
<1>2. IsTree(tree, Live) /\ RootBlack(tree, fixing)
  BY <1>1, ShapeFacts
<1>3. PICK sub : Tree(tree, Live, sub)
  BY <1>2 DEF IsTree
<1>4. p # tree.root
  BY <1>1, <1>2 DEF RootBlack
<1>5. p \in Live /\ g \in Live
  BY <1>1, <1>3, <1>4, LinkedFacts DEF Tree
<1>6. side \in Sides /\ At(tree, g)[side] = p
  BY <1>3, <1>4, <1>5, SideOfFacts
<1>7. At(tree, g)[Other(side)] \in Live \cup {Null}
  BY <1>3, <1>5, <1>6, SideFacts, LinkedFacts DEF Tree
<1> QED
  BY <1>1, <1>2, <1>4, <1>5, <1>6, <1>7

LEMMA FixStep ==
  ASSUME Shape, Fix
  PROVE  /\ IsTree(tree', Live) /\ RootBlack(tree', fixing')
         /\ fixing' \in Live \cup {Null} /\ Live # {} /\ fixing # Null
         /\ \A n \in Live : At(tree', n)["key"] = At(tree, n)["key"]
<1> DEFINE p == At(tree, fixing)["parent"]
           g == At(tree, p)["parent"]
           side == SideOf(tree, p)
           uncle == At(tree, g)[Other(side)]
<1>1. /\ IsTree(tree, Live) /\ fixing \in Live /\ fixing # tree.root
      /\ p \in Live /\ p # tree.root /\ g \in Live /\ side \in Sides
      /\ At(tree, g)[side] = p /\ uncle \in Live \cup {Null} /\ fixing # Null
  BY FixNodes DEF Fix
<1>2. CASE uncle # Null /\ At(tree, uncle)["colour"] = "RED"
  <2>1. tree' = Recoloured(tree, p, uncle, g) /\ fixing' = g
    BY <1>2 DEF Fix, Recoloured
  <2>2. uncle \in Live
    BY <1>1, <1>2
  <2>3. /\ IsTree(tree', Live) /\ tree'.root = tree.root
        /\ \A m \in Addrs, h \in Fields :
             At(tree', m)[h] = IF h = "colour" /\ m = g THEN "RED"
                               ELSE IF h = "colour" /\ m \in {p, uncle} THEN "BLACK"
                               ELSE At(tree, m)[h]
    <3> DEFINE r == Recoloured(tree, p, uncle, g)
    <3> HIDE DEF p, g, uncle
    <3>1. IsTree(r, Live) /\ r.root = tree.root /\ OnlyRecoloured(r, tree, p, uncle, g)
      BY <1>1, <2>2, RecolouredIsTree
    <3> HIDE DEF r
    <3>2. tree' = r
      BY <2>1 DEF r
    <3> QED
      BY <3>1, <3>2 DEF OnlyRecoloured
  <2>4. tree.root \in Live /\ Live \subseteq Addrs
    BY <1>1, IsTreeFacts DEF Addrs
  <2>5. At(tree, tree.root)["colour"] = "BLACK"
    BY <1>1, ShapeFacts DEF RootBlack
  <2>6. RootBlack(tree', g)
    BY <2>3, <2>4, <2>5, FieldNames DEF RootBlack
  <2>7. \A n \in Live : At(tree', n)["key"] = At(tree, n)["key"]
    BY <2>3, <2>4, FieldNames
  <2> QED
    BY <1>1, <2>1, <2>3, <2>6, <2>7
<1>3. CASE ~(uncle # Null /\ At(tree, uncle)["colour"] = "RED")
  <2>1. /\ tree' = Finished(RotateOuter(Aligned(tree, fixing, p, side), g, side))
        /\ fixing' = Null
    BY <1>3 DEF Fix, Aligned
  <2>2. /\ IsTree(tree', Live) /\ At(tree', tree'.root)["colour"] = "BLACK"
        /\ \A n \in Live : At(tree', n)["key"] = At(tree, n)["key"]
    BY <1>1, <2>1, FixedIsTree
  <2> QED
    BY <1>1, <2>1, <2>2 DEF RootBlack
<1> QED
  BY <1>2, <1>3

LEMMA FixDoneStep ==
  ASSUME Shape, FixDone
  PROVE  /\ IsTree(tree', Live) /\ RootBlack(tree', fixing')
         /\ fixing' = Null /\ Live # {} /\ fixing # Null
         /\ \A n \in Live : At(tree', n)["key"] = At(tree, n)["key"]
<1>1. fixing # Null /\ tree' = Finished(tree) /\ fixing' = Null
  BY DEF FixDone
<1>2. IsTree(tree, Live) /\ Live # {}
  BY <1>1, ShapeFacts
<1> QED
  BY <1>1, <1>2, FinishedIsTree DEF RootBlack

LEMMA EraseStep ==
  ASSUME Shape, NEW k \in Keys, EraseBelowRoot(k)
  PROVE  /\ IsTree(tree, Live) /\ IsTree(tree', Live') /\ RootBlack(tree', Null)
         /\ fixing = Null /\ fixing' = Null
         /\ life' \in [Keys -> {"unused", "live", "deleted"}]
         /\ mSize' \in Nat /\ Cardinality(Live)' <= mSize'
         /\ KeysOf(tree', Live') = KeysOf(tree, Live) \ {k}
<1> DEFINE found == Search(tree, k)
           far == At(tree, found)["right"]
           Both(n) == At(tree, n).left # Null /\ At(tree, n).right # Null
           node == IF Both(found) THEN Neighbour(found, "right") ELSE found
           child == IF At(tree, node).left # Null THEN At(tree, node).left ELSE At(tree, node).right
<1>1. /\ fixing = Null /\ fixing' = Null /\ Searchable /\ At(tree, found)["key"] = k
      /\ tree' = Unlinked(tree, found, node, child, k)
      /\ mSize' = IF child = Null THEN mSize ELSE mSize - 1
      /\ life' = [life EXCEPT ![node] = "deleted"]
      /\ life'[tree.root] = "live"
  BY DEF Erase, EraseBelowRoot, Unlinked
<1>2. /\ IsTree(tree, Live) /\ RootBlack(tree, Null)
      /\ life \in [Keys -> {"unused", "live", "deleted"}] /\ mSize \in Nat
      /\ Cardinality(Live) <= mSize
  BY <1>1, ShapeFacts DEF Shape
<1>3. PICK sub : Tree(tree, Live, sub)
  BY <1>2 DEF IsTree
<1>4. ClosedDown(tree)
  BY <1>2 DEF IsTree
<1>5. found \in Live
  BY <1>3, <1>4, SearchFacts
<1>6. /\ At(tree, found)["left"] \in Live \cup {Null} /\ far \in Live \cup {Null}
      /\ Null \notin Live
  BY <1>3, <1>5, LinkedFacts, FieldNames DEF Tree
<1>7. ASSUME Both(found)
      PROVE  /\ node \in sub[far] /\ node \in Live /\ node # found
             /\ At(tree, node)["left"] = Null
             /\ \A m \in sub[far] :
                  m = node \/ Ahead("left", At(tree, node)["key"], At(tree, m)["key"])
  <2>1. node = Outermost(tree, far, "left")
    <3>1. Neighbour(found, "right") = Outermost(tree, far, Other("right"))
      BY <1>7, NeighbourByFunctions
    <3> QED
      BY <1>7, <3>1 DEF Other
  <2>2. far \in Live
    BY <1>6, <1>7
  <2>3. /\ node \in sub[far] /\ At(tree, node)["left"] = Null
        /\ \A m \in sub[far] :
             m = node \/ Ahead("left", At(tree, node)["key"], At(tree, m)["key"])
    <3> HIDE DEF node
    <3> QED
      BY <1>3, <1>4, <2>1, <2>2, OutermostFacts, FieldNames
  <2>4. sub[far] \subseteq Live /\ found \notin sub[far]
    BY <1>3, <1>5, <2>2, OrderedFacts, FieldNames
  <2> HIDE DEF node
  <2> QED
    BY <2>3, <2>4
<1>8. node \in Live /\ (~Both(found) => node = found)
  <2>1. CASE Both(found)
    BY <1>7, <2>1
  <2>2. CASE ~Both(found)
    BY <1>5, <2>2
  <2> QED
    BY <2>1, <2>2
<1>9. At(tree, node)["left"] = Null \/ At(tree, node)["right"] = Null
  <2>1. CASE Both(found)
    BY <1>7, <2>1
  <2>2. CASE ~Both(found)
    BY <1>8, <2>2
  <2> QED
    BY <2>1, <2>2
<1> HIDE DEF node, found, far
<1>10. /\ child \in Live \cup {Null}
       /\ \A s \in Sides : At(tree, node)[s] \in {child, Null}
       /\ child # Null => \E s \in Sides : At(tree, node)[s] = child
  <2>1. /\ At(tree, node)["left"] \in Live \cup {Null}
        /\ At(tree, node)["right"] \in Live \cup {Null}
    BY <1>3, <1>8, LinkedFacts, FieldNames DEF Tree
  <2> QED
    BY <1>9, <2>1 DEF Sides
<1>11. tree.root \in Live /\ node # tree.root
  <2>1. tree.root \in Live
    BY <1>2, IsTreeFacts
  <2>2. Live \subseteq Keys
    BY DEF Live
  <2> QED
    BY <1>1, <1>2, <1>8, <2>1, <2>2
<1> HIDE DEF child
<1>12. Removed(tree', tree, found, node, child, k)
  <2>1. Removed(Unlinked(tree, found, node, child, k), tree, found, node, child, k)
    BY <1>3, <1>5, <1>8, <1>10, <1>11, RemovedAt
  <2> QED
    BY <1>1, <2>1
<1> DEFINE M == Live \ {node}
<1>13. /\ Live' = M /\ life' \in [Keys -> {"unused", "live", "deleted"}]
  BY <1>1, <1>2, <1>8 DEF Live
<1>14. Removable(tree, Live, sub, found, node, child, k)
  <2>1. /\ found \in Live /\ k = At(tree, found)["key"]
        /\ node \in Live \ {tree.root} /\ child \in Live \cup {Null}
    BY <1>1, <1>5, <1>8, <1>10, <1>11
  <2> QED
    BY <1>7, <1>8, <1>10, <2>1 DEF Removable, far
<1>15. /\ \E s : Tree(tree', M, s)
       /\ KeysOf(tree', M) = KeysOf(tree, Live) \ {k}
  <2>1. PICK v : v = tree'
    OBVIOUS
  <2>2. Removed(v, tree, found, node, child, k)
    BY <1>12, <2>1
  <2> HIDE DEF M
  <2>3. Pruned(v, tree, Live, node, k)
    BY <1>3, <1>14, <2>2, RemovedTree
  <2> QED
    BY <2>1, <2>3 DEF M, Pruned
<1>16. ClosedDown(tree')
  <2>1. \A m \in Addrs, s \in Sides : At(tree', m)[s] \in {child, At(tree, m)[s]}
    BY <1>12 DEF Removed
  <2>2. child \in Keys \cup {Null}
    BY <1>10 DEF Live
  <2> QED
    BY <1>4, <2>1, <2>2 DEF ClosedDown
<1>17. RootBlack(tree', Null)
  <2>1. tree'.root = tree.root /\ At(tree', tree.root)["colour"] = At(tree, tree.root)["colour"]
    BY <1>11, <1>12 DEF Removed, Live, Addrs
  <2>2. tree.root # Null
    BY <1>6, <1>11
  <2> QED
    BY <1>2, <2>1, <2>2 DEF RootBlack
<1>18. mSize' \in Nat /\ Cardinality(M) <= mSize'
  <2>1. Cardinality(M) = Cardinality(Live) - 1 /\ Cardinality(M) \in Nat /\ Cardinality(Live) \in Nat
    BY <1>8, LiveFinite, FS_RemoveElement, FS_CardinalityType, FS_Subset
  <2> HIDE DEF M
  <2> QED
    BY <1>1, <1>2, <2>1
<1> QED
  BY <1>1, <1>2, <1>13, <1>15, <1>16, <1>17, <1>18 DEF IsTree

NextOrErase == Next \/ \E k \in Keys : EraseBelowRoot(k)

LEMMA ShapeClear == Shape /\ Clear => Shape'
<1> SUFFICES ASSUME Shape, Clear PROVE Shape'
  OBVIOUS
<1>1. /\ tree' = [root |-> Null, node |-> [n \in Keys \cup {Sentinel} |-> Unused]]
      /\ mSize' = 0 /\ life' = [n \in Keys |-> "unused"] /\ fixing' = fixing /\ fixing = Null
  BY DEF Clear
<1>2. Live' = {}
  BY <1>1 DEF Live
<1>3. Formed(tree', {}, fixing')
  <2>1. PICK v : v = tree'
    OBVIOUS
  <2>2. \A f : Formed(v, {}, f)
    BY <1>1, <2>1, EmptyTree DEF Unused
  <2> QED
    BY <2>1, <2>2
<1>4. Cardinality({}) = 0
  BY FS_EmptySet
<1> QED
  BY <1>1, <1>2, <1>3, <1>4 DEF Shape

LEMMA ShapeKept ==
  ASSUME Shape, IsTree(tree', Live'), RootBlack(tree', fixing'),
         life' \in [Keys -> {"unused", "live", "deleted"}],
         mSize' \in Nat, Cardinality(Live)' <= mSize', fixing' \in Live' \cup {Null}
  PROVE  Shape'
<1>1. PICK v : v = tree'
  OBVIOUS
<1>2. Formed(v, Live', fixing') /\ Live' # {}
  BY <1>1, FormedTree, IsTreeFacts
<1> QED
  BY <1>1, <1>2 DEF Shape

LEMMA ShapeStep == Shape /\ [NextOrErase]_vars => Shape'
<1> SUFFICES ASSUME Shape, [NextOrErase]_vars PROVE Shape'
  OBVIOUS
<1>1. ASSUME NEW k \in Keys, InsertRoot(k) PROVE Shape'
  <2>1. /\ IsTree(tree', {k}) /\ Live' = {k} /\ fixing' = Null /\ RootBlack(tree', fixing')
    BY <1>1, InsertRootStep DEF RootBlack
  <2> QED
    BY <1>1, <2>1, CreateStep, ShapeKept DEF InsertRoot
<1>2. ASSUME NEW k \in Keys, InsertLeaf(k) PROVE Shape'
  BY <1>2, InsertLeafStep, CreateStep, ShapeKept DEF InsertLeaf
<1>3. CASE Fix \/ FixDone
  <2>1. Live' = Live /\ life' = life /\ mSize' = mSize
    BY <1>3 DEF Fix, FixDone, Live
  <2> QED
    BY <1>3, <2>1, FixStep, FixDoneStep, ShapeKept DEF Shape
<1>4. CASE Clear
  BY <1>4, ShapeClear
<1>5. ASSUME NEW k \in Keys, EraseBelowRoot(k) PROVE Shape'
  BY <1>5, EraseStep, ShapeKept
<1>6. CASE UNCHANGED vars
  BY <1>6 DEF vars, Shape, Live
<1> QED
  BY <1>1, <1>2, <1>3, <1>4, <1>5, <1>6 DEF NextOrErase, Next, Insert

LEMMA InTreeIsLive ==
  ASSUME Shape
  PROVE  /\ InTree = Live /\ KeysIn(tree.root) = KeysOf(tree, Live)
         /\ \A sub : Tree(tree, Live, sub) => \A n \in Live \cup {Null} : Subtree[n] = sub[n]
<1>1. tree \in TreeType /\ Null \in Addresses
  BY DEF Shape, Formed, Addresses
<1>2. Subtree[Null] = {}
  BY <1>1, SubtreeEquation
<1>3. CASE Live = {}
  <2>1. tree.root = Null /\ mSize = 0
    BY <1>3 DEF Shape, Formed
  <2>2. \A sub : ~Tree(tree, {}, sub)
    BY LinkedFacts DEF Tree
  <2> QED
    BY <1>2, <1>3, <2>1, <2>2 DEF InTree, KeysIn, KeysOf
<1>4. CASE Live # {}
  <2>1. Searchable /\ IsTree(tree, Live) /\ tree.root \in Live
    BY <1>4, ShapeFacts, IsTreeFacts
  <2>2. PICK sub : Tree(tree, Live, sub)
    BY <2>1 DEF IsTree
  <2>3. Subtree[tree.root] = Live
    BY <2>1, <2>2, SubtreeLabels, AllUnderRoot
  <2>4. \A s : Tree(tree, Live, s) => \A n \in Live \cup {Null} : Subtree[n] = s[n]
    BY SubtreeLabels
  <2> QED
    BY <2>1, <2>3, <2>4 DEF InTree, KeysIn, KeysOf
<1> QED
  BY <1>3, <1>4

LEMMA ShapeSearchTree == Shape => SearchTree
<1> SUFFICES ASSUME Shape, NEW n \in Live
             PROVE  /\ \A k \in KeysIn(At(tree, n)["left"]) : k < At(tree, n)["key"]
                    /\ \A k \in KeysIn(At(tree, n)["right"]) : k > At(tree, n)["key"]
                    /\ \A side \in Sides :
                         LET c == At(tree, n)[side] IN
                         c # Null => At(tree, c)["parent"] = n /\ At(tree, n)[Other(side)] # c
  BY InTreeIsLive DEF SearchTree
<1>1. PICK sub : Tree(tree, Live, sub)
  BY ShapeFacts DEF IsTree
<1>2. ASSUME NEW s \in Sides, NEW k \in KeysIn(At(tree, n)[s])
      PROVE  Ahead(s, k, At(tree, n)["key"])
  <2>1. At(tree, n)[s] \in Live \cup {Null}
    BY <1>1, LinkedFacts DEF Tree
  <2>2. PICK m \in sub[At(tree, n)[s]] : k = At(tree, m)["key"]
    BY <1>1, <2>1, InTreeIsLive DEF KeysIn
  <2> QED
    BY <1>1, <2>2, OrderedFacts
<1>3. \A k \in KeysIn(At(tree, n)["left"]) : k < At(tree, n)["key"]
  BY <1>2, FieldNames DEF Ahead
<1>4. \A k \in KeysIn(At(tree, n)["right"]) : k > At(tree, n)["key"]
  BY <1>2, FieldNames DEF Ahead
<1>5. ASSUME NEW s \in Sides, At(tree, n)[s] # Null
      PROVE  At(tree, At(tree, n)[s])["parent"] = n /\ At(tree, n)[Other(s)] # At(tree, n)[s]
  BY <1>1, <1>5, LinkedFacts DEF Tree
<1> QED
  BY <1>3, <1>4, <1>5

\* What the linked nodes are between any two steps, erase() below the root
\* included: each is reached by one path from the root, points back at its
\* parent, and has the smaller keys on its left and the larger on its right.
THEOREM ShapeInvariant == EraseBelowSpec => []Shape
<1>1. Shape /\ [NextOrErase]_vars => Shape'
  BY ShapeStep
<1> QED
  BY <1>1, ShapeInit, PTL DEF EraseBelowSpec, NextOrErase

\* The nodes are a search tree whatever is inserted and erased, also between
\* the iterations of fixInsertion(): every rotation and every relinking of
\* updateParentRef() keeps the order of the keys and the parent pointers.
THEOREM SearchTreeKept == EraseBelowSpec => []SearchTree
BY ShapeInvariant, ShapeSearchTree, PTL

KeysKnown == KeysIn(tree.root) = KeysOf(tree, Live)

LEMMA KeysInTree == Shape => KeysKnown
BY InTreeIsLive DEF KeysKnown

\* erase(k) removes k from the keys of the tree and nothing else, also when it
\* deletes the node of the next key after moving that key up.
THEOREM EraseRemoves == EraseBelowSpec => EraseRemovesKey
<1>1. Shape /\ KeysKnown /\ KeysKnown' /\ [NextOrErase]_vars
        => [\A k \in Keys :
              EraseBelowRoot(k) => KeysIn(tree.root)' = KeysIn(tree.root) \ {k}]_vars
  <2> SUFFICES ASSUME Shape, KeysKnown, KeysKnown', NEW k \in Keys, EraseBelowRoot(k)
               PROVE  KeysIn(tree.root)' = KeysIn(tree.root) \ {k}
    OBVIOUS
  <2>1. KeysOf(tree, Live)' = KeysOf(tree, Live) \ {k}
    BY EraseStep DEF KeysOf
  <2> QED
    BY <2>1 DEF KeysKnown
<1> QED
  BY <1>1, ShapeInvariant, KeysInTree, PTL DEF EraseBelowSpec, EraseRemovesKey, NextOrErase

-----------------------------------------------------------------------------
(* Balance.                                                                *)

\* bh[n] is the number of black nodes on every path from n down.
Heights(t, L, bh) ==
  /\ bh \in [L \cup {Null} -> Nat]
  /\ bh[Null] = 0
  /\ \A n \in L :
       /\ bh[At(t, n)["left"]] = bh[At(t, n)["right"]]
       /\ bh[n] = bh[At(t, n)["left"]] + IF At(t, n)["colour"] = "BLACK" THEN 1 ELSE 0

\* Only f is a red child of a red node.
Reds(t, L, f) ==
  \A n \in L, s \in Sides :
    LET c == At(t, n)[s] IN
    At(t, n)["colour"] = "RED" /\ c # Null /\ At(t, c)["colour"] = "RED" => c = f

Balanced(t, L, f) ==
  /\ \E bh : Heights(t, L, bh)
  /\ Reds(t, L, f)
  /\ \A n \in L : At(t, n)["colour"] \in {"BLACK", "RED"}

LEMMA HeightsBySide ==
  ASSUME NEW t, NEW L, NEW bh
  PROVE  Heights(t, L, bh) <=>
           /\ bh \in [L \cup {Null} -> Nat]
           /\ bh[Null] = 0
           /\ \A n \in L, s \in Sides :
                bh[n] = bh[At(t, n)[s]] + IF At(t, n)["colour"] = "BLACK" THEN 1 ELSE 0
           /\ \A n \in L : bh[At(t, n)["left"]] = bh[At(t, n)["right"]]
BY FieldNames DEF Heights, Sides

LEMMA PlantedBalanced ==
  ASSUME NEW t \in TreeType, ClosedDown(t), NEW k \in Keys
  PROVE  Balanced(Planted(t, k), {k}, Null)
<1> DEFINE u == Planted(t, k)
           bh == [n \in {k} \cup {Null} |-> IF n = Null THEN 0 ELSE 1]
<1>1. k # Null /\ k \in Addrs
  BY RBTreeAssumption DEF Addrs
<1>2. At(u, k)["colour"] = "BLACK" /\ \A s \in Sides : At(u, k)[s] = Null
  <2>1. At(u, k) = Node(k, Null, "BLACK")
    BY <1>1, PlantedTree
  <2> QED
    BY <2>1, NodeFields
<1> HIDE DEF u
<1>3. bh \in [{k} \cup {Null} -> Nat] /\ bh[Null] = 0 /\ bh[k] = 1
  BY <1>1
<1> HIDE DEF bh
<1>4. Heights(u, {k}, bh)
  BY <1>2, <1>3, FieldNames DEF Heights
<1>5. Reds(u, {k}, Null)
  BY <1>2 DEF Reds
<1> QED
  BY <1>2, <1>4, <1>5 DEF Balanced, u

LEMMA AttachedBalanced ==
  ASSUME NEW t, NEW L, IsTree(t, L), Balanced(t, L, Null), NEW k \in Keys \ L,
         At(t, Search(t, k))["key"] # k
  PROVE  LET p == Search(t, k)
             u == Attached(t, k, p, SideFor(t, k, p))
         IN Balanced(u, L \cup {k}, k) /\ At(u, k)["colour"] = "RED"
<1> DEFINE p == Search(t, k)
           side == SideFor(t, k, p)
           u == Attached(t, k, p, side)
           M == L \cup {k}
<1>1. /\ p \in L /\ side \in Sides /\ At(t, p)[side] = Null
      /\ \A m \in Addrs, g \in Fields :
           At(u, m)[g] = IF m = k THEN Node(k, p, "RED")[g]
                         ELSE IF m = p /\ g = side THEN k ELSE At(t, m)[g]
  <2>1. NewLeaf(u, t, L, k, p, side)
    BY AttachedIsTree
  <2> QED
    BY <2>1 DEF NewLeaf
<1> HIDE DEF p, side, u
<1>2. L \subseteq Addrs /\ k \in Addrs /\ k # Null /\ Null \notin L /\ k \notin L
  BY IsTreeFacts, RBTreeAssumption DEF Addrs
<1>3. /\ At(u, k)["colour"] = "RED" /\ \A s \in Sides : At(u, k)[s] = Null
      /\ \A n \in L : /\ At(u, n)["colour"] = At(t, n)["colour"]
                      /\ \A s \in Sides : At(u, n)[s] = IF n = p /\ s = side THEN k
                                                        ELSE At(t, n)[s]
  BY <1>1, <1>2, FieldNames, NodeFields
<1>4. PICK bh : Heights(t, L, bh)
  BY DEF Balanced
<1>5. \A n \in L, s \in Sides : At(t, n)[s] \in L \cup {Null}
  BY LinkedFacts DEF IsTree, Tree
<1> DEFINE bu == [n \in M \cup {Null} |-> IF n = k THEN 0 ELSE bh[n]]
<1>6. /\ bh \in [L \cup {Null} -> Nat] /\ bh[Null] = 0
      /\ \A n \in L : bh[At(t, n)["left"]] = bh[At(t, n)["right"]]
      /\ \A n \in L : bh[n] = bh[At(t, n)["left"]] + IF At(t, n)["colour"] = "BLACK" THEN 1 ELSE 0
  BY <1>4 DEF Heights
<1>7. /\ bu \in [M \cup {Null} -> Nat] /\ bu[Null] = 0 /\ bu[k] = 0
      /\ \A n \in L \cup {Null} : bu[n] = bh[n]
  BY <1>2, <1>6
<1> HIDE DEF bu
<1>8. \A n \in L, s \in Sides : bu[At(u, n)[s]] = bh[At(t, n)[s]]
  BY <1>1, <1>3, <1>5, <1>6, <1>7
<1>9. Heights(u, M, bu)
  <2>1. ASSUME NEW n \in L
        PROVE  /\ bu[At(u, n)["left"]] = bu[At(u, n)["right"]]
               /\ bu[n] = bu[At(u, n)["left"]] + IF At(u, n)["colour"] = "BLACK" THEN 1 ELSE 0
    <3>1. bu[At(u, n)["left"]] = bh[At(t, n)["left"]] /\ bu[At(u, n)["right"]] = bh[At(t, n)["right"]]
      BY <1>8, FieldNames
    <3> QED
      BY <1>3, <1>6, <1>7, <3>1
  <2>2. /\ bu[At(u, k)["left"]] = bu[At(u, k)["right"]]
        /\ bu[k] = bu[At(u, k)["left"]] + IF At(u, k)["colour"] = "BLACK" THEN 1 ELSE 0
    BY <1>3, <1>7, FieldNames
  <2> QED
    BY <1>7, <2>1, <2>2 DEF Heights
<1>10. Reds(u, M, k)
  <2> SUFFICES ASSUME NEW n \in M, NEW s \in Sides, NEW c, c = At(u, n)[s],
                      At(u, n)["colour"] = "RED", c # Null, At(u, c)["colour"] = "RED", c # k
               PROVE  FALSE
    BY DEF Reds
  <2>1. n \in L /\ c = At(t, n)[s] /\ c \in L
    BY <1>3, <1>5
  <2> QED
    BY <1>3, <2>1 DEF Balanced, Reds
<1>11. \A n \in M : At(u, n)["colour"] \in {"BLACK", "RED"}
  BY <1>3 DEF Balanced
<1> QED
  BY <1>3, <1>9, <1>10, <1>11 DEF Balanced, p, side, u

LEMMA RecolouredBalanced ==
  ASSUME NEW t, NEW L, IsTree(t, L), NEW f \in L, Balanced(t, L, f),
         f # t.root, At(t, f)["colour"] = "RED",
         NEW p \in L, p = At(t, f)["parent"], p # t.root, At(t, p)["colour"] = "RED",
         NEW g \in L, NEW side \in Sides, At(t, g)[side] = p,
         NEW q \in L, q = At(t, g)[Other(side)], At(t, q)["colour"] = "RED"
  PROVE  /\ Balanced(Recoloured(t, p, q, g), L, g)
         /\ At(Recoloured(t, p, q, g), g)["colour"] = "RED"
<1> DEFINE r == Recoloured(t, p, q, g)
<1>1. \A m \in Addrs, h \in Fields :
        At(r, m)[h] = IF h = "colour" /\ m = g THEN "RED"
                      ELSE IF h = "colour" /\ m \in {p, q} THEN "BLACK" ELSE At(t, m)[h]
  <2>1. OnlyRecoloured(r, t, p, q, g)
    BY RecolouredIsTree
  <2> QED
    BY <2>1 DEF OnlyRecoloured
<1> HIDE DEF r
<1>2. PICK sub : Tree(t, L, sub)
  BY DEF IsTree
<1>3. /\ L \subseteq Addrs /\ Null \notin L
      /\ \A n \in L, s \in Sides :
           /\ At(t, n)[s] \in L \cup {Null}
           /\ At(t, n)[s] # Null => At(t, At(t, n)[s])["parent"] = n
  BY <1>2, LinkedFacts DEF Tree, Addrs
<1>4. /\ \A n \in L, s \in Sides : At(r, n)[s] = At(t, n)[s]
      /\ \A n \in L : At(r, n)["colour"] = IF n = g THEN "RED"
                                           ELSE IF n \in {p, q} THEN "BLACK"
                                           ELSE At(t, n)["colour"]
  BY <1>1, <1>3, FieldNames
<1>5. At(t, p)["parent"] = g /\ At(t, q)["parent"] = g
  BY <1>3, SideFacts
<1>6. p # g /\ q # g /\ p # f
  <2>1. g \notin sub[p] /\ g \notin sub[q] /\ p \in sub[p] /\ q \in sub[q]
    BY <1>2, OrderedFacts, SideFacts
  <2>2. PICK s \in Sides : At(t, p)[s] = f
    BY <1>2, LinkedFacts DEF Tree
  <2>3. p \notin sub[f] /\ f \in sub[f]
    BY <1>2, <2>2, OrderedFacts, SideFacts
  <2> QED
    BY <2>1, <2>3
<1>7. At(t, g)["colour"] = "BLACK"
  <2>1. At(t, g)["colour"] # "RED"
    BY <1>3, <1>6 DEF Balanced, Reds
  <2> QED
    BY <2>1 DEF Balanced
<1>8. PICK bh : Heights(t, L, bh)
  BY DEF Balanced
<1>9. /\ bh \in [L \cup {Null} -> Nat] /\ bh[Null] = 0
      /\ \A n \in L, s \in Sides :
           bh[n] = bh[At(t, n)[s]] + IF At(t, n)["colour"] = "BLACK" THEN 1 ELSE 0
      /\ \A n \in L : bh[At(t, n)["left"]] = bh[At(t, n)["right"]]
  BY <1>8, HeightsBySide
<1> DEFINE br == [bh EXCEPT ![p] = bh[p] + 1, ![q] = bh[q] + 1]
<1>10. bh[q] = bh[p] /\ bh[g] = bh[p] + 1 /\ bh[p] \in Nat /\ p # q
  <2>1. bh[g] = bh[p] + 1 /\ bh[g] = bh[q] + 1
    BY <1>7, <1>9, SideFacts
  <2>2. p # q
    BY <1>2, <1>3, LinkedFacts DEF Tree
  <2>3. bh[p] \in Nat /\ bh[q] \in Nat
    BY <1>9
  <2> QED
    BY <2>1, <2>2, <2>3
<1>11. /\ br \in [L \cup {Null} -> Nat] /\ br[Null] = 0
       /\ br[p] = bh[p] + 1 /\ br[q] = bh[p] + 1
       /\ \A n \in (L \cup {Null}) \ {p, q} : br[n] = bh[n]
  BY <1>3, <1>9, <1>10
<1> HIDE DEF br
<1>12. ASSUME NEW n \in L, NEW s \in Sides
       PROVE  br[n] = br[At(r, n)[s]] + IF At(r, n)["colour"] = "BLACK" THEN 1 ELSE 0
  <2>0. PICK c \in L \cup {Null} : c = At(t, n)[s]
    BY <1>3
  <2>1. CASE n = g
    <3>1. c \in {p, q}
      BY <2>0, <2>1, SideFacts
    <3> QED
      BY <1>4, <1>6, <1>9, <1>10, <1>11, <2>0, <2>1, <3>1
  <2>2. CASE n \in {p, q}
    <3>1. c \notin {p, q} /\ n # g
      BY <1>3, <1>5, <1>6, <2>0, <2>2
    <3>2. bh[n] = bh[c]
      <4>1. At(t, n)["colour"] = "RED"
        BY <2>2
      <4>2. bh[n] = bh[c] + 0 /\ bh[c] \in Nat
        BY <1>9, <2>0, <4>1
      <4> QED
        BY <4>2
    <3> QED
      BY <1>4, <1>9, <1>10, <1>11, <2>0, <2>2, <3>1, <3>2
  <2>3. CASE n \notin {p, q, g}
    <3>1. c \notin {p, q}
      BY <1>3, <1>5, <2>0, <2>3
    <3> QED
      BY <1>4, <1>9, <1>11, <2>0, <2>3, <3>1
  <2> QED
    BY <2>1, <2>2, <2>3
<1>13. Heights(r, L, br)
  <2>1. \A n \in L : br[At(r, n)["left"]] = br[At(r, n)["right"]]
    <3> SUFFICES ASSUME NEW n \in L PROVE br[At(r, n)["left"]] = br[At(r, n)["right"]]
      OBVIOUS
    <3>1. /\ br[n] = br[At(r, n)["left"]] + IF At(r, n)["colour"] = "BLACK" THEN 1 ELSE 0
          /\ br[n] = br[At(r, n)["right"]] + IF At(r, n)["colour"] = "BLACK" THEN 1 ELSE 0
      BY <1>12, FieldNames
    <3>2. br[At(r, n)["left"]] \in Nat /\ br[At(r, n)["right"]] \in Nat
      BY <1>3, <1>4, <1>11, FieldNames
    <3> QED
      BY <3>1, <3>2
  <2> QED
    BY <1>11, <1>12, <2>1, HeightsBySide
<1>14. Reds(r, L, g)
  <2> SUFFICES ASSUME NEW n \in L, NEW s \in Sides, NEW c \in L, c = At(t, n)[s],
                      At(r, n)["colour"] = "RED", At(r, c)["colour"] = "RED", c # g
               PROVE  FALSE
    BY <1>3, <1>4 DEF Reds
  <2>1. c \notin {p, q} /\ n \notin {p, q} /\ At(t, c)["colour"] = "RED"
    BY <1>4, <1>6
  <2>2. n # g
    BY <2>1, SideFacts
  <2>3. At(t, n)["colour"] = "RED"
    BY <1>4, <2>1, <2>2
  <2>4. c = f
    BY <1>3, <2>1, <2>3 DEF Balanced, Reds
  <2>5. At(t, c)["parent"] = n
    BY <1>3
  <2>6. n = p
    BY <2>4, <2>5
  <2> QED
    BY <2>1, <2>6
<1>15. \A n \in L : At(r, n)["colour"] \in {"BLACK", "RED"}
  BY <1>4 DEF Balanced
<1>16. At(r, g)["colour"] = "RED"
  BY <1>4
<1> QED
  BY <1>13, <1>14, <1>15, <1>16 DEF Balanced, r

\* Two red nodes in line under a black one: y is the child of g on the side and
\* z the child of y on the same side.
InLine(t, L, g, side, y, z) ==
  /\ y \in L /\ z \in L /\ y = At(t, g)[side] /\ z = At(t, y)[side]
  /\ At(t, y)["colour"] = "RED" /\ At(t, z)["colour"] = "RED"
  /\ Balanced(t, L, z)

LEMMA AlignedBalanced ==
  ASSUME NEW t, NEW L, IsTree(t, L), NEW f \in L, Balanced(t, L, f),
         f # t.root, At(t, f)["colour"] = "RED",
         NEW p \in L, p = At(t, f)["parent"], p # t.root, At(t, p)["colour"] = "RED",
         NEW g \in L, g = At(t, p)["parent"], NEW side \in Sides, At(t, g)[side] = p
  PROVE  LET a == Aligned(t, f, p, side) IN
         /\ \E y, z : InLine(a, L, g, side, y, z)
         /\ At(a, g)[Other(side)] = At(t, g)[Other(side)]
<1>1. PICK sub : Tree(t, L, sub)
  BY DEF IsTree
<1>2. SideOf(t, f) \in Sides /\ At(t, p)[SideOf(t, f)] = f
  BY <1>1, SideOfFacts
<1>3. CASE SideOf(t, f) = side
  <2>1. Aligned(t, f, p, side) = t
    BY <1>3 DEF Aligned
  <2>2. InLine(t, L, g, side, p, f)
    BY <1>2, <1>3 DEF InLine
  <2> QED
    BY <2>1, <2>2
<1>4. CASE SideOf(t, f) # side
  <2> DEFINE r == Rotate(t, p, side)
  <2>1. Aligned(t, f, p, side) = r /\ f = At(t, p)[Other(side)]
    BY <1>2, <1>4, SideFacts DEF Aligned
  <2>2. PICK a \in L \cup {Null}, b \in L \cup {Null}, i \in L \cup {Null} :
          a = At(t, p)[side] /\ b = At(t, f)[Other(side)] /\ i = At(t, f)[side]
    BY <1>1, LinkedFacts, SideFacts DEF Tree
  <2>3. TurnedRound(r, t, L, p, f, side, a, b, i)
    BY <1>1, <2>1, <2>2, TurnedFacts
  <2> HIDE DEF r
  <2>4. /\ At(r, p)[Other(side)] = i /\ At(r, p)[side] = a
        /\ At(r, f)[side] = p /\ At(r, f)[Other(side)] = b
        /\ \A n \in L \ {p, f}, s \in Sides :
             At(r, n)[s] = IF At(t, n)[s] = p THEN f ELSE At(t, n)[s]
        /\ \A n \in L : At(r, n)["colour"] = At(t, n)["colour"]
        /\ p # f /\ i # p /\ i # f /\ a # p /\ a # f /\ b # p /\ b # f
    BY <2>3 DEF TurnedRound
  <2>5. /\ Null \notin L
        /\ \A n \in L, s \in Sides :
             /\ At(t, n)[s] \in L \cup {Null}
             /\ At(t, n)[s] # Null => At(t, At(t, n)[s])["parent"] = n
    BY <1>1, LinkedFacts DEF Tree
  <2>6. /\ Other(side) \in Sides /\ Other(side) # side /\ Other(Other(side)) = side
        /\ \A s \in Sides : s = side \/ s = Other(side)
    BY SideFacts
  <2>7. g # p /\ g # f
    BY <1>1, <2>1, <2>5, RotationNodes
  <2>8. At(r, g)[side] = f /\ At(r, g)[Other(side)] = At(t, g)[Other(side)]
    <3>1. At(t, g)[Other(side)] # p
      BY <1>1, <2>5, <2>6, LinkedFacts DEF Tree
    <3> QED
      BY <2>4, <2>6, <2>7, <3>1
  <2>9. PICK bh : Heights(t, L, bh)
    BY DEF Balanced
  <2>10. /\ bh \in [L \cup {Null} -> Nat] /\ bh[Null] = 0
         /\ \A n \in L, s \in Sides :
              bh[n] = bh[At(t, n)[s]] + IF At(t, n)["colour"] = "BLACK" THEN 1 ELSE 0
         /\ \A n \in L : bh[At(t, n)["left"]] = bh[At(t, n)["right"]]
    BY <2>9, HeightsBySide
  <2>11. bh[a] = bh[p] /\ bh[f] = bh[p] /\ bh[i] = bh[p] /\ bh[b] = bh[p]
    <3>1. bh[p] = bh[a] + 0 /\ bh[p] = bh[f] + 0 /\ bh[f] = bh[i] + 0 /\ bh[f] = bh[b] + 0
      BY <2>1, <2>2, <2>6, <2>10
    <3>2. bh[a] \in Nat /\ bh[f] \in Nat /\ bh[i] \in Nat /\ bh[b] \in Nat
      BY <2>10
    <3> QED
      BY <3>1, <3>2
  <2>12. ASSUME NEW n \in L, NEW s \in Sides PROVE bh[At(r, n)[s]] = bh[At(t, n)[s]]
    <3>1. CASE n = p
      BY <2>1, <2>2, <2>4, <2>6, <2>11, <3>1
    <3>2. CASE n = f
      BY <2>2, <2>4, <2>6, <2>11, <3>2
    <3>3. CASE n \notin {p, f}
      BY <2>4, <2>11, <3>3
    <3> QED
      BY <3>1, <3>2, <3>3
  <2>13. Heights(r, L, bh)
    <3>1. \A n \in L : /\ bh[At(r, n)["left"]] = bh[At(t, n)["left"]]
                       /\ bh[At(r, n)["right"]] = bh[At(t, n)["right"]]
      BY <2>12, FieldNames
    <3>2. \A n \in L : bh[At(r, n)["left"]] = bh[At(r, n)["right"]]
      BY <2>10, <3>1
    <3>3. ASSUME NEW n \in L, NEW s \in Sides
          PROVE  bh[n] = bh[At(r, n)[s]] + IF At(r, n)["colour"] = "BLACK" THEN 1 ELSE 0
      <4>1. bh[n] = bh[At(t, n)[s]] + IF At(t, n)["colour"] = "BLACK" THEN 1 ELSE 0
        BY <2>10
      <4>2. At(r, n)["colour"] = At(t, n)["colour"] /\ bh[At(r, n)[s]] = bh[At(t, n)[s]]
        BY <2>4, <2>12
      <4> QED
        BY <4>1, <4>2
    <3> HIDE DEF r
    <3> QED
      BY <2>10, <3>2, <3>3, HeightsBySide
  <2>14. Reds(r, L, p)
    <3> SUFFICES ASSUME NEW n \in L, NEW s \in Sides, NEW c, c = At(r, n)[s], c # Null,
                        At(r, n)["colour"] = "RED", At(r, c)["colour"] = "RED", c # p
                 PROVE  FALSE
      BY DEF Reds
    <3>0. At(t, n)["colour"] = "RED"
      BY <2>4
    <3>1. CASE n = p
      <4>1. CASE c = i
        <5>1. c \in L /\ At(t, c)["colour"] = "RED" /\ At(t, f)[side] = c
          BY <2>2, <2>4, <4>1
        <5> QED
          BY <2>4, <4>1, <5>1 DEF Balanced, Reds
      <4>2. CASE c = a
        <5>1. c \in L /\ At(t, c)["colour"] = "RED" /\ At(t, p)[side] = c
          BY <2>2, <2>4, <4>2
        <5> QED
          BY <2>4, <4>2, <5>1 DEF Balanced, Reds
      <4> QED
        BY <2>4, <2>6, <3>1, <4>1, <4>2
    <3>2. CASE n = f
      <4>1. c = b
        BY <2>4, <2>6, <3>2
      <4>2. c \in L /\ At(t, c)["colour"] = "RED" /\ At(t, f)[Other(side)] = c
        BY <2>2, <2>4, <4>1
      <4> QED
        BY <2>4, <2>6, <4>1, <4>2 DEF Balanced, Reds
    <3>3. CASE n \notin {p, f} /\ At(t, n)[s] = p
      <4>1. p = f
        BY <2>5, <3>0, <3>3 DEF Balanced, Reds
      <4> QED
        BY <2>4, <4>1
    <3>4. CASE n \notin {p, f} /\ At(t, n)[s] # p
      <4>1. c = At(t, n)[s] /\ c \in L /\ At(t, c)["colour"] = "RED"
        BY <2>4, <2>5, <3>4
      <4>2. c = f
        BY <2>5, <3>0, <4>1 DEF Balanced, Reds
      <4>3. At(t, c)["parent"] = n
        BY <2>5, <4>1
      <4>4. n = p
        BY <4>2, <4>3
      <4> QED
        BY <3>4, <4>4
    <3> QED
      BY <3>1, <3>2, <3>3, <3>4
  <2>15. \A n \in L : At(r, n)["colour"] \in {"BLACK", "RED"}
    BY <2>4 DEF Balanced
  <2>16. InLine(r, L, g, side, f, p)
    BY <2>4, <2>8, <2>13, <2>14, <2>15 DEF InLine, Balanced
  <2> QED
    BY <2>1, <2>8, <2>16
<1> QED
  BY <1>3, <1>4

LEMMA OuterBalanced ==
  ASSUME NEW t, NEW L, IsTree(t, L), NEW g \in L, NEW side \in Sides, NEW y, NEW z,
         InLine(t, L, g, side, y, z), At(t, g)["colour"] = "BLACK",
         NEW q \in L \cup {Null}, q = At(t, g)[Other(side)],
         q # Null => At(t, q)["colour"] = "BLACK"
  PROVE  Balanced(RotateOuter(t, g, side), L, Null)
<1> DEFINE o == RotateOuter(t, g, side)
           r == Rotate(t, g, Other(side))
<1>1. PICK sub : Tree(t, L, sub)
  BY DEF IsTree
<1>2. /\ y \in L /\ z \in L /\ y = At(t, g)[side] /\ z = At(t, y)[side]
      /\ At(t, y)["colour"] = "RED" /\ At(t, z)["colour"] = "RED"
      /\ Balanced(t, L, z)
  BY DEF InLine
<1>3. /\ Other(side) \in Sides /\ Other(side) # side /\ Other(Other(side)) = side
      /\ \A s \in Sides : s = side \/ s = Other(side)
  BY SideFacts
<1>4. PICK i \in L \cup {Null} : i = At(t, y)[Other(side)]
  BY <1>1, <1>2, <1>3, LinkedFacts DEF Tree
<1>5. TurnedRound(r, t, L, g, y, Other(side), q, z, i)
  <2>1. z \in L \cup {Null} /\ y = At(t, g)[Other(Other(side))] /\ z = At(t, y)[Other(Other(side))]
    BY <1>2, <1>3
  <2> QED
    BY <1>1, <1>2, <1>3, <1>4, <2>1, TurnedFacts
<1>6. \A n \in Addrs, h \in Fields :
        At(o, n)[h] = IF n = y /\ h = "colour" THEN At(t, g)["colour"]
                      ELSE IF n = g /\ h = "colour" THEN At(t, y)["colour"]
                      ELSE At(r, n)[h]
  BY <1>1, <1>2, RotateOuterFacts DEF IsTree
<1> HIDE DEF r, o
<1>7. /\ L \subseteq Addrs /\ Null \notin L
      /\ \A n \in L, s \in Sides :
           /\ At(t, n)[s] \in L \cup {Null}
           /\ At(t, n)[s] # Null => At(t, At(t, n)[s])["parent"] = n
  BY <1>1, LinkedFacts DEF Tree, Addrs
<1>8. /\ At(r, g)[side] = i /\ At(r, g)[Other(side)] = q
      /\ At(r, y)[Other(side)] = g /\ At(r, y)[side] = z
      /\ \A n \in L \ {g, y}, s \in Sides :
           At(r, n)[s] = IF At(t, n)[s] = g THEN y ELSE At(t, n)[s]
      /\ \A n \in L : At(r, n)["colour"] = At(t, n)["colour"]
      /\ g # y /\ i # g /\ i # y /\ q # g /\ q # y /\ z # g /\ z # y /\ (i # Null => i # z)
  BY <1>3, <1>5 DEF TurnedRound
<1>9. /\ At(o, g)[side] = i /\ At(o, g)[Other(side)] = q
      /\ At(o, y)[Other(side)] = g /\ At(o, y)[side] = z
      /\ \A n \in L \ {g, y}, s \in Sides :
           At(o, n)[s] = IF At(t, n)[s] = g THEN y ELSE At(t, n)[s]
      /\ \A n \in L : At(o, n)["colour"] = IF n = y THEN "BLACK" ELSE IF n = g THEN "RED"
                                           ELSE At(t, n)["colour"]
  <2>1. \A n \in L, s \in Sides : At(o, n)[s] = At(r, n)[s]
    BY <1>6, <1>7, FieldNames
  <2>2. \A n \in L : At(o, n)["colour"] = IF n = y THEN "BLACK" ELSE IF n = g THEN "RED"
                                          ELSE At(t, n)["colour"]
    BY <1>2, <1>6, <1>7, <1>8, FieldNames
  <2> QED
    BY <1>2, <1>3, <1>8, <2>1, <2>2
<1>10. PICK bh : Heights(t, L, bh)
  BY <1>2 DEF Balanced
<1>11. /\ bh \in [L \cup {Null} -> Nat] /\ bh[Null] = 0
       /\ \A n \in L, s \in Sides :
            bh[n] = bh[At(t, n)[s]] + IF At(t, n)["colour"] = "BLACK" THEN 1 ELSE 0
       /\ \A n \in L : bh[At(t, n)["left"]] = bh[At(t, n)["right"]]
  BY <1>10, HeightsBySide
<1>12. bh[g] = bh[y] + 1 /\ bh[q] = bh[y] /\ bh[i] = bh[y] /\ bh[z] = bh[y] /\ bh[y] \in Nat
  <2>1. bh[g] = bh[y] + 1 /\ bh[g] = bh[q] + 1 /\ bh[y] = bh[z] + 0 /\ bh[y] = bh[i] + 0
    BY <1>2, <1>3, <1>4, <1>11
  <2>2. bh[q] \in Nat /\ bh[y] \in Nat /\ bh[z] \in Nat /\ bh[i] \in Nat
    BY <1>2, <1>11
  <2> QED
    BY <2>1, <2>2
<1> DEFINE bo == [bh EXCEPT ![g] = bh[y], ![y] = bh[g]]
<1>13. /\ bo \in [L \cup {Null} -> Nat] /\ bo[Null] = 0 /\ bo[g] = bh[y] /\ bo[y] = bh[y] + 1
       /\ \A n \in (L \cup {Null}) \ {g, y} : bo[n] = bh[n]
  BY <1>2, <1>7, <1>8, <1>11, <1>12
<1> HIDE DEF bo
<1>14. bo[i] = bh[y] /\ bo[q] = bh[y] /\ bo[z] = bh[y]
  BY <1>2, <1>8, <1>12, <1>13
<1>15. ASSUME NEW n \in L \ {g, y}, NEW s \in Sides PROVE bo[At(o, n)[s]] = bh[At(t, n)[s]]
  <2>1. PICK c \in L \cup {Null} : c = At(t, n)[s]
    BY <1>7
  <2>2. c # y
    BY <1>2, <1>7, <2>1
  <2> QED
    BY <1>9, <1>12, <1>13, <2>1, <2>2
<1>16. Heights(o, L, bo)
  <2>1. ASSUME NEW n \in L
        PROVE  /\ \A s \in Sides :
                    bo[n] = bo[At(o, n)[s]] + IF At(o, n)["colour"] = "BLACK" THEN 1 ELSE 0
               /\ bo[At(o, n)["left"]] = bo[At(o, n)["right"]]
    <3>1. CASE n = g
      <4>1. \A s \in Sides : bo[At(o, g)[s]] = bh[y]
        BY <1>3, <1>9, <1>14
      <4> QED
        BY <1>8, <1>9, <1>12, <1>13, <3>1, <4>1, FieldNames
    <3>2. CASE n = y
      <4>1. \A s \in Sides : bo[At(o, y)[s]] = bh[y]
        BY <1>3, <1>9, <1>13, <1>14
      <4> QED
        BY <1>9, <1>12, <1>13, <3>2, <4>1, FieldNames
    <3>3. CASE n \notin {g, y}
      <4>1. bo[n] = bh[n] /\ At(o, n)["colour"] = At(t, n)["colour"]
        BY <1>9, <1>13, <3>3
      <4>2. \A s \in Sides : bo[At(o, n)[s]] = bh[At(t, n)[s]]
        BY <1>15, <3>3
      <4>3. /\ bo[At(o, n)["left"]] = bh[At(t, n)["left"]]
            /\ bo[At(o, n)["right"]] = bh[At(t, n)["right"]]
        BY <4>2, FieldNames
      <4> QED
        BY <1>11, <4>1, <4>2, <4>3
    <3> QED
      BY <3>1, <3>2, <3>3
  <2> QED
    BY <1>13, <2>1, HeightsBySide
<1>17. Reds(o, L, Null)
  <2> SUFFICES ASSUME NEW n \in L, NEW s \in Sides, NEW c, c = At(o, n)[s], c # Null,
                      At(o, n)["colour"] = "RED", At(o, c)["colour"] = "RED"
               PROVE  FALSE
    BY DEF Reds
  <2>1. n # y
    BY <1>9
  <2>2. CASE n = g
    <3>1. CASE c = i
      <4>1. c \in L /\ At(t, c)["colour"] = "RED"
        BY <1>4, <1>8, <1>9, <3>1
      <4>2. c = z
        BY <1>2, <1>3, <1>4, <3>1, <4>1 DEF Balanced, Reds
      <4> QED
        BY <1>8, <3>1, <4>2
    <3>2. CASE c = q
      BY <1>8, <1>9, <3>2
    <3> QED
      BY <1>3, <1>9, <2>2, <3>1, <3>2
  <2>3. CASE n # g
    <3>1. At(t, n)["colour"] = "RED"
      BY <1>9, <2>1, <2>3
    <3>2. PICK d \in L \cup {Null} : d = At(t, n)[s]
      BY <1>7
    <3>3. c = IF d = g THEN y ELSE d
      BY <1>9, <2>1, <2>3, <3>2
    <3>4. d # g /\ c = d /\ c # y /\ c \in L
      BY <1>2, <1>9, <3>2, <3>3
    <3>5. At(t, c)["colour"] = "RED"
      BY <1>9, <3>4
    <3>6. c = z
      BY <1>2, <3>1, <3>2, <3>4, <3>5 DEF Balanced, Reds
    <3>7. At(t, c)["parent"] = n /\ At(t, z)["parent"] = y
      BY <1>2, <1>7, <3>2, <3>4
    <3> QED
      BY <2>1, <3>6, <3>7
  <2> QED
    BY <2>2, <2>3
<1>18. \A n \in L : At(o, n)["colour"] \in {"BLACK", "RED"}
  BY <1>2, <1>9 DEF Balanced
<1> QED
  BY <1>16, <1>17, <1>18 DEF Balanced, o

LEMMA FinishedBalanced ==
  ASSUME NEW t, NEW L, IsTree(t, L), NEW f \in L \cup {Null}, Balanced(t, L, f),
         f \notin {Null, t.root} => At(t, At(t, f)["parent"])["colour"] # "RED"
  PROVE  Balanced(Finished(t), L, Null)
<1> DEFINE u == Finished(t)
<1>1. PICK sub : Tree(t, L, sub)
  BY DEF IsTree
<1>2. /\ Null \notin L /\ L \subseteq Keys /\ t.root \in L
      /\ \A n \in L, s \in Sides :
           /\ At(t, n)[s] \in L \cup {Null}
           /\ At(t, n)[s] # Null => At(t, At(t, n)[s])["parent"] = n /\ At(t, n)[s] # t.root
  BY <1>1, LinkedFacts DEF Tree
<1>3. /\ \A n \in L, s \in Sides : At(u, n)[s] = At(t, n)[s]
      /\ \A n \in L : At(u, n)["colour"] = IF n = t.root THEN "BLACK" ELSE At(t, n)["colour"]
  <2>1. \A m \in Keys, g \in Fields :
          At(u, m)[g] = IF m = t.root /\ g = "colour" THEN "BLACK"
                        ELSE IF m = t.root /\ g = "parent" THEN Sentinel
                        ELSE At(t, m)[g]
    BY <1>1, FinishedAt DEF IsTree
  <2> QED
    BY <1>2, <2>1, FieldNames
<1> HIDE DEF u
<1>4. PICK bh : Heights(t, L, bh)
  BY DEF Balanced
<1>5. /\ bh \in [L \cup {Null} -> Nat] /\ bh[Null] = 0
      /\ \A n \in L, s \in Sides :
           bh[n] = bh[At(t, n)[s]] + IF At(t, n)["colour"] = "BLACK" THEN 1 ELSE 0
      /\ \A n \in L : bh[At(t, n)["left"]] = bh[At(t, n)["right"]]
  BY <1>4, HeightsBySide
<1>6. PICK a \in L \cup {Null} : a = At(t, t.root)["left"]
  BY <1>2, FieldNames
<1> DEFINE bu == [bh EXCEPT ![t.root] = bh[a] + 1]
<1>7. /\ bu \in [L \cup {Null} -> Nat] /\ bu[Null] = 0 /\ bu[t.root] = bh[a] + 1
      /\ \A n \in (L \cup {Null}) \ {t.root} : bu[n] = bh[n]
  BY <1>2, <1>5
<1> HIDE DEF bu
<1>8. \A n \in L, s \in Sides : bu[At(u, n)[s]] = bh[At(t, n)[s]]
  BY <1>2, <1>3, <1>7
<1>9. \A s \in Sides : bh[At(t, t.root)[s]] = bh[a]
  BY <1>2, <1>5, <1>6 DEF Sides
<1>10. Heights(u, L, bu)
  <2>1. \A n \in L : bu[At(u, n)["left"]] = bu[At(u, n)["right"]]
    BY <1>5, <1>8, FieldNames
  <2>2. ASSUME NEW n \in L, NEW s \in Sides
        PROVE  bu[n] = bu[At(u, n)[s]] + IF At(u, n)["colour"] = "BLACK" THEN 1 ELSE 0
    <3>1. CASE n = t.root
      BY <1>3, <1>7, <1>8, <1>9, <3>1
    <3>2. CASE n # t.root
      <4>1. bh[n] = bh[At(t, n)[s]] + IF At(t, n)["colour"] = "BLACK" THEN 1 ELSE 0
        BY <1>5
      <4>2. bu[n] = bh[n] /\ At(u, n)["colour"] = At(t, n)["colour"]
        BY <1>3, <1>7, <3>2
      <4> QED
        BY <1>8, <4>1, <4>2
    <3> QED
      BY <3>1, <3>2
  <2> QED
    BY <1>7, <2>1, <2>2, HeightsBySide
<1>11. Reds(u, L, Null)
  <2> SUFFICES ASSUME NEW n \in L, NEW s \in Sides, NEW c \in L, c = At(t, n)[s],
                      At(u, n)["colour"] = "RED", At(u, c)["colour"] = "RED"
               PROVE  FALSE
    BY <1>2, <1>3 DEF Reds
  <2>1. n # t.root /\ c # t.root /\ At(t, n)["colour"] = "RED" /\ At(t, c)["colour"] = "RED"
    BY <1>3
  <2>2. c = f
    BY <1>2, <2>1 DEF Balanced, Reds
  <2>3. At(t, c)["parent"] = n
    BY <1>2
  <2> QED
    BY <1>2, <2>1, <2>2, <2>3
<1>12. \A n \in L : At(u, n)["colour"] \in {"BLACK", "RED"}
  BY <1>3 DEF Balanced
<1> QED
  BY <1>10, <1>11, <1>12 DEF Balanced, u

-----------------------------------------------------------------------------
(* The invariant of a tree nothing is erased from.                         *)

Blank(t, L) == \A n \in Keys \ L, s \in Sides : At(t, n)[s] = Null

LEMMA RotateBlank ==
  ASSUME NEW t, NEW L, NEW sub, Tree(t, L, sub), NEW x \in L, NEW side \in Sides,
         At(t, x)[Other(side)] # Null, Blank(t, L)
  PROVE  Blank(Rotate(t, x, side), L)
<1> DEFINE r == Rotate(t, x, side)
           y == At(t, x)[Other(side)]
           i == At(t, y)[side]
           p == At(t, x)["parent"]
<1>1. \A m \in Keys, g \in Fields : At(r, m)[g] = Turned(t, x, side, m, g)
  BY RotateAt
<1>2. y \in L /\ i \in L \cup {Null} /\ p \in L \cup {Sentinel, Null}
  BY RotationNodes
<1> HIDE DEF r
<1>3. ASSUME NEW n \in Keys \ L, NEW s \in Sides PROVE At(r, n)[s] = Null
  <2>1. n \notin {x, y, p} /\ s \in Fields /\ s # "parent"
    BY <1>2, RBTreeAssumption, FieldNames
  <2>2. Turned(t, x, side, n, s) = At(t, n)[s]
    BY <2>1 DEF Turned
  <2> QED
    BY <1>1, <2>1, <2>2 DEF Blank
<1> QED
  BY <1>3 DEF Blank, r

\* The sentinel knows the root, the least and the greatest node.
Ends(t, L) ==
  /\ At(t, t.root)["parent"] = Sentinel /\ At(t, Sentinel)["parent"] = t.root
  /\ \A s \in Sides :
       /\ At(t, Sentinel)[s] \in L
       /\ \A m \in L : m = At(t, Sentinel)[s]
                       \/ Ahead(s, At(t, At(t, Sentinel)[s])["key"], At(t, m)["key"])

\* The nodes of L form t, a red-black tree but for the red node f.
RedBlack(t, L, f) ==
  /\ Blank(t, L)
  /\ \A s \in Sides : At(t, Sentinel)[s] \in L \cup {Null}
  /\ L # {} => /\ Balanced(t, L, f)
               /\ IF f = Null THEN Ends(t, L) ELSE At(t, f)["colour"] = "RED"

LEMMA FinishedRedBlack ==
  ASSUME NEW t, NEW L, IsTree(t, L), NEW f \in L \cup {Null}, Balanced(t, L, f),
         f \notin {Null, t.root} => At(t, At(t, f)["parent"])["colour"] # "RED",
         Blank(t, L)
  PROVE  RedBlack(Finished(t), L, Null)
<1> DEFINE u == Finished(t)
<1>1. PICK sub : Tree(t, L, sub)
  BY DEF IsTree
<1>2. L \subseteq Keys /\ t.root \in L /\ Null \notin L
  BY <1>1, LinkedFacts DEF Tree
<1>3. /\ u.root = t.root
      /\ \A m \in Keys, g \in Fields :
           At(u, m)[g] = IF m = t.root /\ g = "colour" THEN "BLACK"
                         ELSE IF m = t.root /\ g = "parent" THEN Sentinel
                         ELSE At(t, m)[g]
      /\ At(u, Sentinel)["parent"] = t.root
      /\ \A s \in Sides : At(u, Sentinel)[s] = Outermost(t, t.root, s)
  BY <1>1, FinishedAt DEF IsTree
<1>4. Balanced(u, L, Null)
  BY FinishedBalanced
<1> HIDE DEF u
<1>5. Blank(u, L)
  BY <1>2, <1>3, FieldNames DEF Blank
<1>6. ASSUME NEW s \in Sides
      PROVE  /\ At(u, Sentinel)[s] \in L
             /\ \A m \in L : m = At(u, Sentinel)[s]
                             \/ Ahead(s, At(u, At(u, Sentinel)[s])["key"], At(u, m)["key"])
  <2> DEFINE o == Outermost(t, t.root, s)
  <2>1. /\ o \in L
        /\ \A m \in L : m = o \/ Ahead(s, At(t, o)["key"], At(t, m)["key"])
    BY <1>1, <1>2, OutermostFacts, AllUnderRoot DEF IsTree
  <2>2. \A m \in L : At(u, m)["key"] = At(t, m)["key"]
    BY <1>2, <1>3, FieldNames
  <2> HIDE DEF o
  <2>3. At(u, Sentinel)[s] = o
    BY <1>3 DEF o
  <2> QED
    BY <2>1, <2>2, <2>3
<1>7. At(u, t.root)["parent"] = Sentinel
  BY <1>2, <1>3, FieldNames
<1> QED
  BY <1>3, <1>4, <1>5, <1>6, <1>7 DEF RedBlack, Ends, u

LEMMA FixedRedBlack ==
  ASSUME NEW t, NEW L, IsTree(t, L), NEW f \in L, Balanced(t, L, f),
         f # t.root, At(t, f)["colour"] = "RED",
         NEW p \in L, p = At(t, f)["parent"], p # t.root, At(t, p)["colour"] = "RED",
         NEW g \in L, g = At(t, p)["parent"], NEW side \in Sides, At(t, g)[side] = p,
         NEW q \in L \cup {Null}, q = At(t, g)[Other(side)],
         q # Null => At(t, q)["colour"] # "RED",
         Blank(t, L)
  PROVE  RedBlack(Finished(RotateOuter(Aligned(t, f, p, side), g, side)), L, Null)
<1> DEFINE a == Aligned(t, f, p, side)
           o == RotateOuter(a, g, side)
           r == Rotate(a, g, Other(side))
<1>1. PICK sub : Tree(t, L, sub)
  BY DEF IsTree
<1>2. /\ Other(side) \in Sides /\ Other(Other(side)) = side
      /\ SideOf(t, f) \in Sides /\ At(t, p)[SideOf(t, f)] = f
  BY <1>1, SideFacts, SideOfFacts
<1>3. At(t, g)["colour"] = "BLACK"
  <2>1. p # f
    <3>1. p \notin sub[f] /\ f \in sub[f]
      BY <1>1, <1>2, OrderedFacts
    <3> QED
      BY <3>1
  <2>2. p # Null
    BY <1>1, LinkedFacts DEF Tree
  <2>3. At(t, g)["colour"] # "RED"
    BY <2>1, <2>2 DEF Balanced, Reds
  <2> QED
    BY <2>3 DEF Balanced
<1>4. /\ IsTree(a, L) /\ SameLabels(a, t, L)
  BY <1>1, AlignedFacts DEF IsTree
<1>5. Blank(a, L)
  <2>1. CASE SideOf(t, f) = side
    BY <2>1 DEF Aligned
  <2>2. CASE SideOf(t, f) # side
    <3>1. At(t, p)[Other(side)] = f /\ f # Null
      BY <1>1, <1>2, <2>2, SideFacts, LinkedFacts DEF Tree
    <3> QED
      BY <1>1, <2>2, <3>1, RotateBlank DEF Aligned
  <2> QED
    BY <2>1, <2>2
<1>6. PICK y, z : InLine(a, L, g, side, y, z)
  BY AlignedBalanced
<1>7. At(a, g)[Other(side)] = q
  BY AlignedBalanced
<1> HIDE DEF a
<1>8. /\ At(a, g)["colour"] = "BLACK"
      /\ q # Null => At(a, q)["colour"] = "BLACK"
  <2>1. At(a, g)["colour"] = "BLACK"
    BY <1>3, <1>4 DEF SameLabels
  <2>2. ASSUME q # Null PROVE At(a, q)["colour"] = "BLACK"
    <3>1. q \in L /\ At(t, q)["colour"] = "BLACK"
      BY <2>2 DEF Balanced
    <3> QED
      BY <1>4, <3>1 DEF SameLabels
  <2> QED
    BY <2>1, <2>2
<1>9. Balanced(o, L, Null)
  BY <1>4, <1>6, <1>7, <1>8, OuterBalanced
<1>10. PICK sa : Tree(a, L, sa)
  BY <1>4 DEF IsTree
<1>11. y \in L /\ y = At(a, g)[side] /\ y # Null /\ ClosedDown(a)
  BY <1>4, <1>6, <1>10, LinkedFacts DEF InLine, Tree, IsTree
<1>12. /\ IsTree(o, L)
       /\ \A n \in Addrs, h \in Fields :
            At(o, n)[h] = IF n = y /\ h = "colour" THEN At(a, g)["colour"]
                          ELSE IF n = g /\ h = "colour" THEN At(a, y)["colour"]
                          ELSE At(r, n)[h]
  BY <1>10, <1>11, RotateOuterFacts DEF IsTree
<1>13. Blank(r, L)
  BY <1>2, <1>5, <1>10, <1>11, RotateBlank
<1> HIDE DEF o, r
<1>14. Blank(o, L)
  BY <1>12, <1>13, FieldNames DEF Blank, Addrs
<1>15. RedBlack(Finished(o), L, Null)
  BY <1>9, <1>12, <1>14, FinishedRedBlack
<1> QED
  BY <1>15 DEF o, a

Balance ==
  /\ Shape
  /\ mSize = Cardinality(Live)
  /\ sentinel \in {Sentinel, Null} /\ (Live # {} => sentinel = Sentinel)
  /\ RedBlack(tree, Live, fixing)

LEMMA BlankTree ==
  ASSUME NEW t, NEW f, \A n \in Addrs, s \in Sides : At(t, n)[s] = Null
  PROVE  RedBlack(t, {}, f)
BY DEF RedBlack, Blank, Addrs

LEMMA BalanceInit == Init => Balance
<1> SUFFICES ASSUME Init PROVE Balance
  OBVIOUS
<1>1. Live = {}
  BY DEF Init, Live
<1>2. \A n \in Addrs, s \in Sides : At(tree, n)[s] = Null
  BY DEF Init, At, Node, Unused, Addrs, Sides
<1>3. RedBlack(tree, Live, fixing)
  BY <1>1, <1>2, BlankTree
<1>4. Cardinality(Live) = 0
  BY <1>1, FS_EmptySet
<1> QED
  BY <1>3, <1>4, ShapeInit DEF Init, Balance

LEMMA BalanceClear == Balance /\ Clear => Balance'
<1> SUFFICES ASSUME Balance, Clear PROVE Balance'
  OBVIOUS
<1>1. /\ tree' = [root |-> Null, node |-> [n \in Keys \cup {Sentinel} |-> Unused]]
      /\ mSize' = 0 /\ sentinel' = Null /\ Live' = {}
  BY DEF Clear, Live
<1>2. RedBlack(tree', Live', fixing')
  <2>1. PICK v : v = tree'
    OBVIOUS
  <2>2. \A n \in Addrs, s \in Sides : At(v, n)[s] = Null
    BY <1>1, <2>1 DEF At, Node, Unused, Addrs, Sides
  <2> QED
    BY <1>1, <2>1, <2>2, BlankTree
<1>3. Cardinality({}) = 0
  BY FS_EmptySet
<1> QED
  BY <1>1, <1>2, <1>3, ShapeClear DEF Balance

LEMMA BalanceInsertRoot ==
  ASSUME Balance, NEW k \in Keys, InsertRoot(k)
  PROVE  /\ RedBlack(tree', Live', fixing') /\ sentinel' = Sentinel
         /\ mSize' = Cardinality(Live)'
<1>1. Shape /\ mSize = Cardinality(Live) /\ RedBlack(tree, Live, fixing)
  BY DEF Balance
<1>2. /\ Live = {} /\ Live' = {k} /\ fixing' = Null
      /\ tree' = Finished(Planted(tree, k))
  BY <1>1, InsertRootStep
<1>3. Cardinality(Live)' = Cardinality(Live) + 1 /\ mSize' = mSize + 1 /\ sentinel' = Sentinel
  BY <1>1, CreateStep DEF InsertRoot, Create
<1>4. tree \in TreeType /\ ClosedDown(tree)
  BY <1>1 DEF Shape, Formed
<1> DEFINE u == Planted(tree, k)
<1>5. /\ IsTree(u, {k})
      /\ \A m \in Addrs : At(u, m) = IF m = k THEN Node(k, Null, "BLACK") ELSE At(tree, m)
  BY <1>4, PlantedTree
<1>6. Balanced(u, {k}, Null)
  BY <1>4, PlantedBalanced
<1> HIDE DEF u
<1>7. Blank(u, {k})
  BY <1>1, <1>2, <1>5 DEF RedBlack, Blank, Addrs
<1>8. RedBlack(Finished(u), {k}, Null)
  BY <1>5, <1>6, <1>7, FinishedRedBlack
<1> QED
  BY <1>1, <1>2, <1>3, <1>8 DEF u

LEMMA BalanceInsertLeaf ==
  ASSUME Balance, NEW k \in Keys, InsertLeaf(k)
  PROVE  /\ RedBlack(tree', Live', fixing') /\ sentinel' = Sentinel
         /\ mSize' = Cardinality(Live)'
<1> DEFINE p == Search(tree, k)
           side == SideFor(tree, k, p)
           u == Attached(tree, k, p, side)
           M == Live \cup {k}
<1>1. Shape /\ mSize = Cardinality(Live) /\ RedBlack(tree, Live, fixing)
  BY DEF Balance
<1>2. /\ fixing = Null /\ fixing' = k /\ IsTree(tree, Live) /\ k \in Keys \ Live
      /\ Live' = M /\ At(tree, p)["key"] # k /\ tree' = u
  BY <1>1, InsertLeafStep
<1>3. Cardinality(Live)' = Cardinality(Live) + 1 /\ mSize' = mSize + 1 /\ sentinel' = sentinel
  BY <1>1, CreateStep DEF InsertLeaf, Create
<1>4. Live # {}
  BY <1>2, IsTreeFacts
<1>5. NewLeaf(u, tree, Live, k, p, side)
  BY <1>2, AttachedIsTree
<1>6. Balanced(u, M, k) /\ At(u, k)["colour"] = "RED"
  BY <1>1, <1>2, <1>4, AttachedBalanced DEF RedBlack
<1> HIDE DEF u, p, side
<1>7. /\ p \in Live
      /\ \A m \in Addrs, g \in Fields :
           At(u, m)[g] = IF m = k THEN Node(k, p, "RED")[g]
                         ELSE IF m = p /\ g = side THEN k ELSE At(tree, m)[g]
  BY <1>5 DEF NewLeaf
<1>8. Blank(u, M)
  BY <1>1, <1>7, FieldNames DEF RedBlack, Blank, Addrs
<1>9. \A s \in Sides : At(u, Sentinel)[s] \in M \cup {Null}
  <2>1. Sentinel \in Addrs /\ Sentinel # k /\ Sentinel # p
    BY <1>7, RBTreeAssumption DEF Addrs, Live
  <2> QED
    BY <1>1, <1>7, <2>1, FieldNames DEF RedBlack
<1>10. k # Null
  BY RBTreeAssumption
<1>11. RedBlack(u, M, k)
  BY <1>6, <1>8, <1>9, <1>10 DEF RedBlack
<1> QED
  BY <1>1, <1>2, <1>3, <1>4, <1>11 DEF Balance

LEMMA BalanceFix ==
  ASSUME Balance, Fix
  PROVE  RedBlack(tree', Live, fixing')
<1> DEFINE p == At(tree, fixing)["parent"]
           g == At(tree, p)["parent"]
           side == SideOf(tree, p)
           uncle == At(tree, g)[Other(side)]
<1>1. Shape /\ RedBlack(tree, Live, fixing) /\ fixing # Null
  BY DEF Balance, Fix
<1>2. /\ IsTree(tree, Live) /\ fixing \in Live /\ fixing # tree.root
      /\ p \in Live /\ p # tree.root /\ g \in Live /\ side \in Sides
      /\ At(tree, g)[side] = p /\ uncle \in Live \cup {Null}
      /\ At(tree, p)["colour"] = "RED"
  BY <1>1, FixNodes DEF Fix
<1>3. /\ Blank(tree, Live) /\ Balanced(tree, Live, fixing)
      /\ At(tree, fixing)["colour"] = "RED"
      /\ \A s \in Sides : At(tree, Sentinel)[s] \in Live \cup {Null}
  BY <1>1, <1>2 DEF RedBlack
<1>4. CASE uncle # Null /\ At(tree, uncle)["colour"] = "RED"
  <2> DEFINE r == Recoloured(tree, p, uncle, g)
  <2>1. tree' = r /\ fixing' = g
    BY <1>4 DEF Fix, Recoloured
  <2>2. uncle \in Live /\ g # Null
    BY <1>2, <1>4, RBTreeAssumption DEF Live
  <2>3. OnlyRecoloured(r, tree, p, uncle, g)
    <3> HIDE DEF p, g, uncle
    <3> QED
      BY <1>2, <2>2, RecolouredIsTree
  <2>4. Balanced(r, Live, g) /\ At(r, g)["colour"] = "RED"
    BY <1>2, <1>3, <1>4, <2>2, RecolouredBalanced
  <2> HIDE DEF p, uncle, r, g
  <2>5. \A m \in Addrs, s \in Sides : At(r, m)[s] = At(tree, m)[s]
    BY <2>3, FieldNames DEF OnlyRecoloured
  <2>6. Blank(r, Live) /\ \A s \in Sides : At(r, Sentinel)[s] \in Live \cup {Null}
    BY <1>3, <2>5 DEF Blank, Addrs
  <2>7. RedBlack(r, Live, g)
    BY <2>2, <2>4, <2>6 DEF RedBlack
  <2> QED
    BY <2>1, <2>7
<1>5. CASE ~(uncle # Null /\ At(tree, uncle)["colour"] = "RED")
  <2>1. /\ tree' = Finished(RotateOuter(Aligned(tree, fixing, p, side), g, side))
        /\ fixing' = Null
    BY <1>5 DEF Fix, Aligned
  <2>2. RedBlack(Finished(RotateOuter(Aligned(tree, fixing, p, side), g, side)), Live, Null)
    BY <1>2, <1>3, <1>5, FixedRedBlack
  <2> QED
    BY <2>1, <2>2
<1> QED
  BY <1>4, <1>5

LEMMA BalanceFixDone ==
  ASSUME Balance, FixDone
  PROVE  RedBlack(tree', Live, fixing')
<1>1. /\ Shape /\ RedBlack(tree, Live, fixing) /\ fixing # Null
      /\ ~Violation /\ tree' = Finished(tree) /\ fixing' = Null
  BY DEF Balance, FixDone
<1>2. IsTree(tree, Live) /\ fixing \in Live /\ Live # {}
  BY <1>1, ShapeFacts DEF Shape
<1>3. fixing \notin {Null, tree.root} => At(tree, At(tree, fixing)["parent"])["colour"] # "RED"
  BY <1>1 DEF Violation
<1>4. Blank(tree, Live) /\ Balanced(tree, Live, fixing)
  BY <1>1, <1>2 DEF RedBlack
<1>5. RedBlack(Finished(tree), Live, Null)
  BY <1>2, <1>3, <1>4, FinishedRedBlack
<1> QED
  BY <1>1, <1>5

LEMMA BalanceStep == Balance /\ [Next]_vars => Balance'
<1> SUFFICES ASSUME Balance, [Next]_vars PROVE Balance'
  OBVIOUS
<1>1. Shape'
  BY ShapeStep DEF Balance, NextOrErase
<1>2. ASSUME NEW k \in Keys, InsertRoot(k) PROVE Balance'
  BY <1>1, <1>2, BalanceInsertRoot DEF Balance
<1>3. ASSUME NEW k \in Keys, InsertLeaf(k) PROVE Balance'
  BY <1>1, <1>3, BalanceInsertLeaf DEF Balance
<1>4. CASE Fix \/ FixDone
  <2>1. Live' = Live /\ mSize' = mSize /\ sentinel' = sentinel
    BY <1>4 DEF Fix, FixDone, Live
  <2>2. RedBlack(tree', Live, fixing')
    BY <1>4, BalanceFix, BalanceFixDone
  <2> QED
    BY <1>1, <2>1, <2>2 DEF Balance
<1>5. CASE Clear
  BY <1>5, BalanceClear
<1>6. CASE UNCHANGED vars
  <2>1. Live' = Live
    BY <1>6 DEF vars, Live
  <2> QED
    BY <1>1, <1>6, <2>1 DEF vars, Balance
<1> QED
  BY <1>2, <1>3, <1>4, <1>5, <1>6 DEF Next, Insert

\* What insertions and clear() keep in every step, inside fixInsertion() too:
\* black heights that agree, no red node under a red one but the node the loop
\* is at, a sentinel that knows both ends between calls, and nodes without an
\* entry that point nowhere.
THEOREM BalanceInvariant == Spec => []Balance
BY BalanceInit, BalanceStep, PTL DEF Spec

\* The size and the life of the nodes stay in range, and every pointer leads to
\* an address, whatever insert() rotates.
THEOREM RBTypeCorrect == Spec => []TypeOK
<1>1. Balance => TypeOK
  <2> SUFFICES ASSUME Balance PROVE TypeOK
    OBVIOUS
  <2>1. tree \in TreeType /\ Shape
    BY DEF Balance, Shape, Formed
  <2>2. mSize \in 0 .. Cardinality(Keys)
    <3>1. Cardinality(Live) \in Nat /\ Cardinality(Live) <= Cardinality(Keys)
          /\ Cardinality(Keys) \in Nat
      BY LiveFinite, RBTreeAssumption, FS_Subset, FS_CardinalityType
    <3> QED
      BY <3>1 DEF Balance
  <2>3. fixing \in Keys \cup {Null}
    BY <2>1 DEF Shape, Live
  <2> QED
    BY <2>1, <2>2, <2>3 DEF Balance, TypeOK, Shape, TreeType, NodeType, Addrs
<1> QED
  BY <1>1, BalanceInvariant, PTL

-----------------------------------------------------------------------------
(* The red-black properties.                                               *)

\* The recursion for BlackHeight has a solution, and on a tree only one.
LEMMA BlackHeights ==
  ASSUME Balance, NEW bh, Heights(tree, Live, bh)
  PROVE  \A n \in Live \cup {Null} : BlackHeight[n] = bh[n]
<1> DEFINE D == Live \cup {Null}
           Inc(n) == IF At(tree, n).colour = "BLACK" THEN 1 ELSE 0
           Val(n) == IF n \in D THEN bh[n] ELSE bh[At(tree, n).left] + Inc(n)
           F == [n \in Addresses |-> Val(n)]
           Step(f) == [n \in Addresses |-> IF n = Null THEN 0 ELSE f[At(tree, n).left] + Inc(n)]
<1>1. /\ Live \subseteq Addresses /\ Null \in Addresses
      /\ Addresses = Keys \cup {Sentinel} \cup {Null} /\ Null \notin Live
  BY RBTreeAssumption DEF Live, Addresses
<1>2. /\ bh \in [D -> Nat] /\ bh[Null] = 0
      /\ \A n \in Live : bh[n] = bh[At(tree, n)["left"]] + Inc(n)
  BY DEF Heights
<1>3. ASSUME NEW n \in Addresses, n # Null PROVE At(tree, n)["left"] \in D
  <2>1. CASE n \in Live
    <3>1. PICK sub : Tree(tree, Live, sub)
      BY <2>1, ShapeFacts DEF Balance, IsTree
    <3> QED
      BY <2>1, <3>1, LinkedFacts, FieldNames DEF Tree
  <2>2. CASE n \notin Live
    BY <1>1, <1>3, <2>2, FieldNames DEF Balance, RedBlack, Blank
  <2> QED
    BY <2>1, <2>2
<1>4. F = Step(F)
  <2> DEFINE W(n) == IF n = Null THEN 0 ELSE F[At(tree, n).left] + Inc(n)
  <2>1. ASSUME NEW n \in Addresses PROVE Val(n) = W(n)
    <3>1. CASE n = Null
      BY <1>2, <3>1
    <3>2. CASE n # Null
      <4>1. PICK l \in D : l = At(tree, n).left
        BY <1>3, <3>2
      <4>2. F[l] = bh[l]
        BY <1>1, <4>1
      <4>3. Val(n) = bh[l] + Inc(n)
        BY <1>2, <3>2, <4>1
      <4> HIDE DEF Val, F, Inc
      <4> QED
        BY <3>2, <4>1, <4>2, <4>3
    <3> QED
      BY <3>1, <3>2
  <2>2. F = [n \in Addresses |-> Val(n)] /\ Step(F) = [n \in Addresses |-> W(n)]
    OBVIOUS
  <2> HIDE DEF F, Step, Val, W
  <2> QED
    BY <2>1, <2>2
<1>5. BlackHeight = Step(BlackHeight)
  <2>1. \E f : f = Step(f)
    <3> HIDE DEF F, Step
    <3> QED
      BY <1>4
  <2> QED
    BY <2>1, Zenon DEF BlackHeight
<1>6. /\ BlackHeight[Null] = 0
      /\ \A n \in Live : BlackHeight[n] = BlackHeight[At(tree, n)["left"]] + Inc(n)
  <2>1. \A f : \A n \in Addresses :
          Step(f)[n] = IF n = Null THEN 0 ELSE f[At(tree, n).left] + Inc(n)
    OBVIOUS
  <2> HIDE DEF Step, Inc
  <2> QED
    BY <1>1, <1>5, <2>1
<1> HIDE DEF Inc
<1> DEFINE S == {n \in Live : BlackHeight[n] # bh[n]}
<1>7. ASSUME S # {} PROVE FALSE
  <2>0. Live # {}
    BY <1>7
  <2>1. PICK sub : Tree(tree, Live, sub)
    BY <2>0, ShapeFacts DEF Balance, IsTree
  <2>2. PICK n \in S : \A s \in Sides : At(tree, n)[s] \notin S
    <3> HIDE DEF S
    <3>1. S \subseteq Live
      BY DEF S
    <3> QED
      BY <1>7, <2>1, <3>1, Bottom
  <2>3. At(tree, n)["left"] \in D
    BY <1>1, <1>3
  <2>4. BlackHeight[At(tree, n)["left"]] = bh[At(tree, n)["left"]]
    BY <1>2, <1>6, <2>2, <2>3, FieldNames
  <2>5. BlackHeight[n] = bh[n]
    BY <1>2, <1>6, <2>4
  <2> QED
    BY <2>5
<1> QED
  BY <1>2, <1>6, <1>7

LEMMA EqualHeights == Balance => EqualBlackHeight
<1> SUFFICES ASSUME Balance, NEW n \in Live
             PROVE  BlackHeight[At(tree, n)["left"]] = BlackHeight[At(tree, n)["right"]]
  BY InTreeIsLive DEF EqualBlackHeight, Balance
<1>1. PICK bh : Heights(tree, Live, bh)
  BY DEF Balance, RedBlack, Balanced
<1>2. PICK sub : Tree(tree, Live, sub)
  BY ShapeFacts DEF Balance, IsTree
<1>3. At(tree, n)["left"] \in Live \cup {Null} /\ At(tree, n)["right"] \in Live \cup {Null}
  BY <1>2, LinkedFacts, FieldNames DEF Tree
<1> QED
  BY <1>1, <1>3, BlackHeights DEF Heights

LEMMA OnlyDoubleRed ==
  ASSUME Balance, NEW n \in Live, DoubleRed(n)
  PROVE  /\ fixing # Null /\ n = At(tree, fixing)["parent"]
         /\ At(tree, tree.root)["colour"] = "BLACK"
<1>0. PICK s \in Sides : /\ At(tree, n)[s] # Null /\ At(tree, n)["colour"] = "RED"
                         /\ At(tree, At(tree, n)[s])["colour"] = "RED"
  BY DEF DoubleRed
<1>1. PICK c : /\ c = At(tree, n)[s] /\ c # Null
               /\ At(tree, n)["colour"] = "RED" /\ At(tree, c)["colour"] = "RED"
  BY <1>0
<1>2. PICK sub : Tree(tree, Live, sub)
  BY ShapeFacts DEF Balance, IsTree
<1>3. At(tree, c)["parent"] = n /\ c # tree.root
  BY <1>1, <1>2, LinkedFacts DEF Tree
<1>4. c = fixing
  BY <1>1 DEF Balance, RedBlack, Balanced, Reds
<1>5. RootBlack(tree, fixing)
  BY ShapeFacts DEF Balance
<1> QED
  BY <1>1, <1>3, <1>4, <1>5 DEF RootBlack

\* Whatever is inserted in whatever order, after every insert() the root is
\* black, no red node has a red child, and the black heights agree: what
\* checkRbTree() in test.cpp looks at after the insertions of one test.
THEOREM RedBlackKept == Spec => []CheckRbTree
<1>1. Balance => CheckRbTree
  <2> SUFFICES ASSUME Balance, fixing = Null, tree.root # Null
               PROVE  /\ At(tree, tree.root)["colour"] = "BLACK"
                      /\ \A n \in Live : ~DoubleRed(n)
                      /\ EqualBlackHeight
    BY InTreeIsLive DEF CheckRbTree, Balance
  <2>1. Live # {}
    BY DEF Balance, Shape, Formed
  <2>2. At(tree, tree.root)["colour"] = "BLACK"
    BY <2>1, ShapeFacts DEF Balance, RootBlack
  <2> QED
    BY <2>2, OnlyDoubleRed, EqualHeights
<1> QED
  BY <1>1, BalanceInvariant, PTL

\* In every iteration of fixInsertion() the only red node with a red parent is
\* the one the loop is at, and the black heights agree already.
THEOREM OneViolationAtMost == Spec => []OneViolation
<1>1. Balance => OneViolation
  <2> SUFFICES ASSUME Balance, fixing # Null, NEW n \in Live, DoubleRed(n)
               PROVE  n = At(tree, fixing)["parent"] /\ At(tree, tree.root)["colour"] = "BLACK"
    BY InTreeIsLive, EqualHeights DEF OneViolation, Balance
  <2> QED
    BY OnlyDoubleRed
<1> QED
  BY <1>1, BalanceInvariant, PTL

-----------------------------------------------------------------------------
(* Iteration.                                                              *)

\* A node outside of a subtree is on the same side of all nodes in it.
LEMMA Outside ==
  ASSUME NEW t, NEW L, NEW sub, Tree(t, L, sub)
  PROVE  \A n \in L : \A a \in L \ sub[n], b \in sub[n], c \in sub[n], s \in Sides :
           Ahead(s, At(t, a)["key"], At(t, b)["key"]) => Ahead(s, At(t, a)["key"], At(t, c)["key"])
<1> DEFINE OK(n) == \A a \in L \ sub[n], b \in sub[n], c \in sub[n], s \in Sides :
                      Ahead(s, At(t, a)["key"], At(t, b)["key"])
                      => Ahead(s, At(t, a)["key"], At(t, c)["key"])
           S == {n \in L : ~OK(n)}
<1> SUFFICES ASSUME S # {} PROVE FALSE
  OBVIOUS
<1>1. PICK n \in S : n # t.root => At(t, n)["parent"] \notin S
  <2> HIDE DEF S
  <2>1. S \subseteq L
    BY DEF S
  <2> QED
    BY <2>1, Top
<1>2. n \in L /\ ~OK(n)
  OBVIOUS
<1>3. PICK a \in L \ sub[n], b \in sub[n], c \in sub[n], s \in Sides :
        /\ Ahead(s, At(t, a)["key"], At(t, b)["key"])
        /\ ~Ahead(s, At(t, a)["key"], At(t, c)["key"])
  BY <1>2
<1>4. n # t.root
  BY <1>3, AllUnderRoot
<1>5. PICK p \in L, r \in Sides : p = At(t, n)["parent"] /\ At(t, p)[r] = n
  BY <1>2, <1>4, LinkedFacts DEF Tree
<1>6. OK(p)
  BY <1>1, <1>4, <1>5
<1> HIDE DEF OK, S
<1>7. /\ sub[n] \subseteq sub[p] /\ sub[p] = {p} \cup sub[n] \cup sub[At(t, p)[Other(r)]]
      /\ b \in L /\ Ahead(r, At(t, b)["key"], At(t, p)["key"])
      /\ c \in L /\ Ahead(r, At(t, c)["key"], At(t, p)["key"])
  BY <1>3, <1>5, OrderedFacts
<1>8. /\ At(t, a)["key"] \in Keys /\ At(t, b)["key"] \in Keys
      /\ At(t, c)["key"] \in Keys /\ At(t, p)["key"] \in Keys
  BY <1>3, <1>7, LinkedFacts DEF Tree
<1>9. s = r \/ s = Other(r)
  BY SideFacts
<1>10. CASE a \notin sub[p]
  BY <1>3, <1>6, <1>7, <1>10 DEF OK
<1>11. CASE a = p
  BY <1>3, <1>7, <1>8, <1>9, <1>11, AheadFacts
<1>12. CASE a \in sub[At(t, p)[Other(r)]]
  <2>1. Ahead(Other(r), At(t, a)["key"], At(t, p)["key"])
    BY <1>5, <1>12, OrderedFacts, SideFacts
  <2>2. Ahead(r, At(t, p)["key"], At(t, a)["key"])
    BY <1>8, <2>1, AheadFacts
  <2>3. Ahead(r, At(t, c)["key"], At(t, a)["key"]) /\ Ahead(r, At(t, b)["key"], At(t, a)["key"])
    BY <1>7, <1>8, <2>2, AheadFacts
  <2> QED
    BY <1>3, <1>8, <1>9, <2>3, AheadFacts
<1> QED
  BY <1>3, <1>7, <1>10, <1>11, <1>12

\* N is the first node of B on the way to the given side, or the end.
First(t, B, s, N) ==
  IF B = {} THEN N = Sentinel
  ELSE N \in B /\ \A a \in B : a = N \/ Ahead(s, At(t, a)["key"], At(t, N)["key"])

\* The nodes on the given side of n that are not under it
Beyond(t, L, sub, s, n) == {a \in L \ sub[n] : Ahead(s, At(t, a)["key"], At(t, n)["key"])}

\* A climb ends at the first node beyond the subtree.
LEMMA ClimbEnds ==
  ASSUME NEW L, NEW sub, Tree(tree, L, sub), Ends(tree, L), NEW s \in Sides
  PROVE  \A n \in L : First(tree, Beyond(tree, L, sub, s, n), s, ClimbFrom(s)[n])
<1> DEFINE OK(n) == First(tree, Beyond(tree, L, sub, s, n), s, ClimbFrom(s)[n])
           S == {n \in L : ~OK(n)}
<1>1. /\ tree \in TreeType /\ L \subseteq Addrs /\ Sentinel \in Addrs /\ Sentinel \notin L
      /\ Null \notin L /\ tree.root \in L
      /\ \A m \in L : At(tree, m)[s] \in L \cup {Null} /\ At(tree, m)["key"] \in Keys
      /\ Other(s) \in Sides /\ Null # Sentinel
  BY LinkedFacts, SideFacts DEF Tree, Addrs
<1>2. \A n \in Addrs : At(tree, n).parent \in Addrs \cup {Null}
  BY <1>1, AtType DEF NodeType, Addresses, Addrs
<1>3. \A n \in Addrs :
        LET p == At(tree, n)["parent"] IN
        ClimbFrom(s)[n] = IF p # Null /\ At(tree, p)[s] = n THEN ClimbFrom(s)[p]
                          ELSE IF At(tree, n)[s] # p THEN p ELSE n
  BY <1>2, ClimbEquation
<1> SUFFICES ASSUME S # {} PROVE FALSE
  OBVIOUS
<1>4. PICK n \in S : n # tree.root => At(tree, n)["parent"] \notin S
  <2> HIDE DEF S
  <2>1. S \subseteq L
    BY DEF S
  <2> QED
    BY <2>1, Top
<1>5. n \in L /\ ~OK(n)
  OBVIOUS
<1>6. CASE n = tree.root
  <2>1. ClimbFrom(s)[Sentinel] = IF At(tree, Sentinel)[s] # tree.root THEN tree.root ELSE Sentinel
    <3>1. At(tree, Sentinel)["parent"] = tree.root /\ At(tree, tree.root)[s] # Sentinel
      BY <1>1 DEF Ends
    <3> QED
      BY <1>1, <1>3, <3>1
  <2>2. ClimbFrom(s)[n] = Sentinel
    <3>1. At(tree, n)["parent"] = Sentinel /\ At(tree, n)[s] # Sentinel
      BY <1>1, <1>6 DEF Ends
    <3> QED
      BY <1>1, <1>3, <1>6, <2>1, <3>1
  <2>3. Beyond(tree, L, sub, s, n) = {}
    BY <1>6, AllUnderRoot DEF Beyond
  <2> QED
    BY <1>5, <2>2, <2>3 DEF First
<1>7. CASE n # tree.root
  <2>1. PICK p \in L, r \in Sides : p = At(tree, n)["parent"] /\ At(tree, p)[r] = n
    BY <1>5, <1>7, LinkedFacts DEF Tree
  <2>2. OK(p)
    BY <1>4, <1>7, <2>1
  <2>3. /\ sub[n] \subseteq sub[p] /\ p \in sub[p] /\ n \in sub[n] /\ p \notin sub[n]
        /\ sub[p] = {p} \cup sub[n] \cup sub[At(tree, p)[Other(r)]]
        /\ Ahead(r, At(tree, n)["key"], At(tree, p)["key"])
        /\ \A m \in sub[At(tree, p)[Other(r)]] :
             m \in L /\ Ahead(Other(r), At(tree, m)["key"], At(tree, p)["key"])
    BY <1>5, <2>1, OrderedFacts, SideFacts
  <2>4. n \in Addrs /\ p # Null
    BY <1>1, <1>5
  <2> HIDE DEF S, OK
  <2>5. \A a \in L \ sub[p] : Ahead(s, At(tree, a)["key"], At(tree, n)["key"])
                              <=> Ahead(s, At(tree, a)["key"], At(tree, p)["key"])
    BY <2>1, <2>3, Outside
  <2>6. CASE r = s
    <3>1. ClimbFrom(s)[n] = ClimbFrom(s)[p]
      BY <1>3, <2>1, <2>4, <2>6
    <3>2. ASSUME NEW a \in sub[p] \ sub[n]
          PROVE  ~Ahead(s, At(tree, a)["key"], At(tree, n)["key"])
      <4>1. a = p \/ Ahead(Other(s), At(tree, a)["key"], At(tree, p)["key"])
        BY <2>3, <2>6
      <4>2. a \in L
        BY <2>1, <2>3
      <4> QED
        BY <1>1, <1>5, <2>1, <2>3, <2>6, <4>1, <4>2, AheadFacts
    <3>3. Beyond(tree, L, sub, s, n) = Beyond(tree, L, sub, s, p)
      BY <2>3, <2>5, <3>2 DEF Beyond
    <3> QED
      BY <1>5, <2>2, <3>1, <3>3 DEF OK
  <2>7. CASE r # s
    <3>1. r = Other(s) /\ Other(r) = s
      BY <2>7, SideFacts
    <3>2. ClimbFrom(s)[n] = p
      <4>1. At(tree, p)[s] # n
        BY <1>1, <1>5, <2>1, <3>1, LinkedFacts DEF Tree
      <4>2. At(tree, n)[s] # p
        <5>1. At(tree, n)[s] # Null => At(tree, n)[s] \in sub[n]
          BY <1>1, <1>5, OrderedFacts
        <5> QED
          BY <1>1, <2>1, <2>3, <5>1
      <4> QED
        BY <1>3, <2>1, <2>4, <4>1, <4>2
    <3>3. p \in Beyond(tree, L, sub, s, n)
      BY <1>1, <1>5, <2>1, <2>3, <3>1, AheadFacts DEF Beyond
    <3>4. ASSUME NEW a \in Beyond(tree, L, sub, s, n)
          PROVE  a = p \/ Ahead(s, At(tree, a)["key"], At(tree, p)["key"])
      <4>1. a \in L \ sub[n] /\ Ahead(s, At(tree, a)["key"], At(tree, n)["key"])
        BY DEF Beyond
      <4>2. CASE a \in sub[p]
        BY <2>3, <3>1, <4>1, <4>2
      <4>3. CASE a \notin sub[p]
        BY <2>5, <4>1, <4>3
      <4> QED
        BY <4>2, <4>3
    <3> QED
      BY <1>5, <3>2, <3>3, <3>4 DEF OK, First
  <2> QED
    BY <2>6, <2>7
<1> QED
  BY <1>6, <1>7

\* The nodes on the given side of n
AllBeyond(s, n) == {a \in Live : Ahead(s, At(tree, a)["key"], At(tree, n)["key"])}

LEMMA NeighbourIsFirst ==
  ASSUME Balance, fixing = Null, NEW n \in Live, NEW s \in Sides
  PROVE  First(tree, AllBeyond(s, n), s, Neighbour(n, s))
<1> DEFINE c == At(tree, n)[s]
<1>1. PICK sub : Tree(tree, Live, sub)
  BY ShapeFacts DEF Balance, IsTree
<1>2. /\ ClosedDown(tree) /\ Ends(tree, Live)
      /\ n # Sentinel /\ c \in Live \cup {Null} /\ Other(s) \in Sides /\ Other(Other(s)) = s
      /\ Live \subseteq Keys /\ \A m \in Live : At(tree, m)["key"] \in Keys
  BY <1>1, LinkedFacts, SideFacts, RBTreeAssumption
  DEF Balance, Shape, Formed, RedBlack, Tree, Live
<1>3. /\ sub[n] \subseteq Live /\ n \in sub[n] /\ sub[c] \subseteq sub[n] /\ sub[Null] = {}
      /\ sub[n] = {n} \cup sub[c] \cup sub[At(tree, n)[Other(s)]]
      /\ \A m \in sub[c] : m \in Live /\ Ahead(s, At(tree, m)["key"], At(tree, n)["key"])
      /\ \A m \in sub[At(tree, n)[Other(s)]] :
           m \in Live /\ Ahead(Other(s), At(tree, m)["key"], At(tree, n)["key"])
  BY <1>1, <1>2, OrderedFacts
<1>4. \A m \in sub[n] \ sub[c] : ~Ahead(s, At(tree, m)["key"], At(tree, n)["key"])
  BY <1>2, <1>3, AheadFacts
<1>5. CASE c # Null
  <2> DEFINE o == Outermost(tree, c, Other(s))
  <2>1. Neighbour(n, s) = o
    BY <1>2, <1>5, NeighbourByFunctions
  <2>2. /\ o \in sub[c]
        /\ \A m \in sub[c] : m = o \/ Ahead(Other(s), At(tree, o)["key"], At(tree, m)["key"])
    BY <1>1, <1>2, <1>5, OutermostFacts
  <2> HIDE DEF o, c
  <2>3. o \in AllBeyond(s, n)
    BY <1>3, <2>2 DEF AllBeyond
  <2>4. ASSUME NEW a \in AllBeyond(s, n)
        PROVE  a = o \/ Ahead(s, At(tree, a)["key"], At(tree, o)["key"])
    <3>1. a \in Live /\ Ahead(s, At(tree, a)["key"], At(tree, n)["key"])
      BY DEF AllBeyond
    <3>2. CASE a \in sub[c]
      BY <1>2, <1>3, <2>2, <3>2, AheadFacts
    <3>3. CASE a \notin sub[c]
      <4>1. a \notin sub[n]
        BY <1>4, <3>1, <3>3
      <4> QED
        BY <1>1, <1>3, <2>2, <3>1, <4>1, Outside
    <3> QED
      BY <3>2, <3>3
  <2> QED
    BY <2>1, <2>3, <2>4 DEF First
<1>6. CASE c = Null
  <2>1. Neighbour(n, s) = ClimbFrom(s)[n]
    BY <1>2, <1>6, NeighbourByFunctions
  <2>2. AllBeyond(s, n) = Beyond(tree, Live, sub, s, n)
    BY <1>3, <1>4, <1>6 DEF AllBeyond, Beyond
  <2> QED
    BY <1>1, <1>2, <2>1, <2>2, ClimbEnds
<1> QED
  BY <1>5, <1>6

\* Between calls ++ goes from every node to the one with the next key, from the
\* last one to end(), and -- the same way back, which takes the ends that
\* updateSentinel() stores to be the least and the greatest node.
THEOREM IterationOrdered == Spec => []IterationInOrder
<1>1. Balance => IterationInOrder
  <2> SUFFICES ASSUME Balance, fixing = Null, NEW n \in Live
               PROVE  LET next == Neighbour(n, "right")
                          greater == {m \in Live : At(tree, m)["key"] > At(tree, n)["key"]}
                      IN
                      /\ Begin \in Live /\ At(tree, Begin)["key"] <= At(tree, n)["key"]
                      /\ IF greater = {} THEN next = Sentinel
                         ELSE /\ next \in greater
                              /\ \A m \in greater : At(tree, next)["key"] <= At(tree, m)["key"]
                      /\ Neighbour(next, "left") = n
    BY InTreeIsLive DEF IterationInOrder, Balance
  <2> DEFINE next == Neighbour(n, "right")
             greater == {m \in Live : At(tree, m)["key"] > At(tree, n)["key"]}
             first == At(tree, Sentinel)["left"]
             last == At(tree, Sentinel)["right"]
  <2>1. PICK sub : Tree(tree, Live, sub)
    BY ShapeFacts DEF Balance, IsTree
  <2>2. /\ \A m \in Live : At(tree, m)["key"] \in Int
        /\ Null \notin Live /\ Sentinel \notin Live /\ Sentinel = sentinel
        /\ At(tree, Sentinel)["parent"] # Null
        /\ first \in Live /\ last \in Live
        /\ \A m \in Live : m = first \/ At(tree, first)["key"] < At(tree, m)["key"]
        /\ \A m \in Live : m = last \/ At(tree, last)["key"] > At(tree, m)["key"]
    <3>1. Ends(tree, Live) /\ tree.root \in Live
      BY ShapeFacts, IsTreeFacts DEF Balance, RedBlack
    <3>2. /\ \A m \in Live : At(tree, m)["key"] \in Int
          /\ Null \notin Live /\ Sentinel \notin Live
      BY <2>1, LinkedFacts, RBTreeAssumption DEF Tree
    <3>3. At(tree, Sentinel)["parent"] # Null /\ Sentinel = sentinel
      BY <3>1, <3>2 DEF Ends, Balance
    <3>4. /\ first \in Live
          /\ \A m \in Live : m = first \/ Ahead("left", At(tree, first)["key"], At(tree, m)["key"])
      BY <3>1, FieldNames DEF Ends
    <3>5. /\ last \in Live
          /\ \A m \in Live : m = last \/ Ahead("right", At(tree, last)["key"], At(tree, m)["key"])
      BY <3>1, FieldNames DEF Ends
    <3> HIDE DEF first, last
    <3> QED
      BY <3>2, <3>3, <3>4, <3>5 DEF Ahead
  <2>3. greater = AllBeyond("right", n)
    BY DEF AllBeyond, Ahead
  <2>4. First(tree, greater, "right", next)
    BY <2>3, NeighbourIsFirst, FieldNames
  <2> HIDE DEF next
  <2>5. IF greater = {} THEN next = Sentinel
        ELSE /\ next \in greater
             /\ \A m \in greater : m = next \/ At(tree, m)["key"] > At(tree, next)["key"]
    BY <2>4 DEF First, Ahead
  <2>6. Begin = first
    BY <2>2 DEF Begin
  <2>7. Neighbour(next, "left") = n
    <3>1. CASE greater = {}
      <4>1. Neighbour(next, "left") = last
        BY <2>2, <2>5, <3>1, NeighbourByFunctions
      <4> HIDE DEF last
      <4> QED
        BY <2>2, <3>1, <4>1
    <3>2. CASE greater # {}
      <4> DEFINE N == Neighbour(next, "left")
                 lesser == {m \in Live : At(tree, m)["key"] < At(tree, next)["key"]}
      <4>1. next \in Live /\ n \in lesser
        BY <2>2, <2>5, <3>2
      <4>2. lesser = AllBeyond("left", next)
        BY DEF AllBeyond, Ahead
      <4>3. First(tree, lesser, "left", N)
        BY <4>1, <4>2, NeighbourIsFirst, FieldNames
      <4> HIDE DEF N
      <4>4. N \in lesser /\ (n = N \/ At(tree, n)["key"] < At(tree, N)["key"])
        BY <4>1, <4>3 DEF First, Ahead
      <4>5. N \in greater => N = next \/ At(tree, N)["key"] > At(tree, next)["key"]
        BY <2>5, <3>2
      <4>6. n = N
        BY <2>2, <4>1, <4>4, <4>5
      <4> QED
        BY <4>6 DEF N
    <3> QED
      BY <3>1, <3>2
  <2>8. Begin \in Live /\ At(tree, Begin)["key"] <= At(tree, n)["key"]
    BY <2>2, <2>6
  <2>9. IF greater = {} THEN next = Sentinel
        ELSE next \in greater /\ \A m \in greater : At(tree, next)["key"] <= At(tree, m)["key"]
    BY <2>2, <2>5
  <2> HIDE DEF greater
  <2> QED
    BY <2>7, <2>8, <2>9 DEF next, greater
<1> QED
  BY <1>1, BalanceInvariant, PTL

-----------------------------------------------------------------------------
(* Refinement of the dictionary.                                           *)

\* The entries of a tree with the given keys
Entries(K) == [k \in K |-> Null]

LEMMA DictionaryInit == Init /\ KeysKnown => AsDictionary!Init
<1> SUFFICES ASSUME Init, KeysKnown PROVE AsDictionary!Init
  OBVIOUS
<1>1. KeysOf(tree, Live) = {} /\ fixing = Null
  BY DEF Init, Live, KeysOf
<1> QED
  BY <1>1 DEF KeysKnown, AsDictionary!Init, AsDictionary!Empty

LEMMA DictionaryInsert ==
  ASSUME Shape, KeysKnown, KeysKnown', NEW k \in Keys, Insert(k)
  PROVE  AsDictionary!Insert(k, Null)
<1> DEFINE K == KeysOf(tree, Live)
<1>1. fixing = Null
  BY DEF Insert, InsertRoot, InsertLeaf, Create
<1>2. k \notin K /\ KeysOf(tree', Live') = K \cup {k}
  <2>1. CASE InsertRoot(k)
    <3>1. Live = {} /\ Live' = {k} /\ At(tree', k)["key"] = k
      BY <2>1, InsertRootStep
    <3> QED
      BY <3>1 DEF KeysOf
  <2>2. CASE InsertLeaf(k)
    <3> DEFINE p == Search(tree, k)
               side == SideFor(tree, k, p)
               u == Attached(tree, k, p, side)
    <3>1. /\ IsTree(tree, Live) /\ k \in Keys \ Live /\ Live' = Live \cup {k}
          /\ At(tree, p)["key"] # k /\ tree' = u
      BY <2>2, InsertLeafStep
    <3>2. NewLeaf(u, tree, Live, k, p, side) /\ k \notin K
      BY <3>1, AttachedIsTree
    <3> HIDE DEF u, p, side
    <3>3. /\ At(u, k)["key"] = k
          /\ \A n \in Live : At(u, n)["key"] = At(tree, n)["key"]
      BY <3>1, <3>2, FieldNames, NodeFields DEF NewLeaf, Live, Addrs
    <3> QED
      BY <3>1, <3>2, <3>3 DEF KeysOf
  <2> QED
    BY <2>1, <2>2 DEF Insert
<1> HIDE DEF K
<1>3. KeysIn(tree.root) = K /\ KeysIn(tree.root)' = K \cup {k}
  BY <1>2 DEF KeysKnown, KeysOf, K
<1>4. DOMAIN Entries(K) = K /\ \A x \in K : Entries(K)[x] = Null
  BY DEF Entries
<1>5. Entries(K \cup {k}) = [x \in DOMAIN Entries(K) \cup {k} |->
                               IF x = k THEN Null ELSE Entries(K)[x]]
  BY <1>4 DEF Entries
<1>6. [x \in KeysIn(tree.root) |-> Null] = Entries(K)
      /\ [x \in KeysIn(tree.root) |-> Null]' = Entries(K \cup {k})
  BY <1>3 DEF Entries
<1>7. (fixing # Null) = FALSE /\ (fixing # Null)' \in BOOLEAN
  BY <1>1
<1> QED
  BY <1>2, <1>4, <1>5, <1>6, <1>7 DEF AsDictionary!Insert

LEMMA DictionaryFix ==
  ASSUME Shape, KeysKnown, KeysKnown', Fix \/ FixDone
  PROVE  KeysIn(tree.root)' = KeysIn(tree.root)
<1>1. Live' = Live
  BY DEF Fix, FixDone, Live
<1>2. \A n \in Live : At(tree', n)["key"] = At(tree, n)["key"]
  BY FixStep, FixDoneStep
<1>3. KeysOf(tree', Live') = KeysOf(tree, Live)
  BY <1>1, <1>2 DEF KeysOf
<1> QED
  BY <1>3 DEF KeysKnown, KeysOf

LEMMA DictionaryNext ==
  Shape /\ KeysKnown /\ KeysKnown' /\ [Next]_vars
    => [AsDictionary!Next]_<<[k \in KeysIn(tree.root) |-> Null], fixing # Null>>
<1> DEFINE Same == /\ [k \in KeysIn(tree.root) |-> Null]' = [k \in KeysIn(tree.root) |-> Null]
                   /\ (fixing # Null)' = (fixing # Null)
<1> SUFFICES ASSUME Shape, KeysKnown, KeysKnown', [Next]_vars
             PROVE  AsDictionary!Next \/ Same
  OBVIOUS
<1>1. ASSUME NEW k \in Keys, Insert(k) PROVE AsDictionary!Next
  BY <1>1, DictionaryInsert DEF AsDictionary!Next
<1>2. CASE Fix \/ FixDone
  <2>1. KeysIn(tree.root)' = KeysIn(tree.root)
    BY <1>2, DictionaryFix
  <2>2. fixing # Null
    BY <1>2 DEF Fix, FixDone
  <2>3. CASE fixing' = Null
    BY <2>1, <2>2, <2>3 DEF AsDictionary!Next, AsDictionary!BeginOrEnd
  <2>4. CASE fixing' # Null
    BY <2>1, <2>2, <2>4
  <2> QED
    BY <2>3, <2>4
<1>3. CASE Clear
  <2>1. fixing = Null /\ fixing' = fixing /\ Live' = {}
    BY <1>3 DEF Clear, Live
  <2>2. KeysIn(tree.root)' = {}
    BY <2>1 DEF KeysKnown, KeysOf
  <2> QED
    BY <2>1, <2>2 DEF AsDictionary!Next, AsDictionary!Clear, AsDictionary!Empty
<1>4. CASE UNCHANGED vars
  <2>1. tree' = tree /\ fixing' = fixing /\ Live' = Live
    BY <1>4 DEF vars, Live
  <2>2. KeysIn(tree.root)' = KeysIn(tree.root)
    BY <2>1 DEF KeysKnown, KeysOf
  <2> QED
    BY <2>1, <2>2
<1> QED
  BY <1>1, <1>2, <1>3, <1>4 DEF Next

\* Without erase() the tree is a dictionary: an insertion adds its key in its
\* first step, and no iteration of fixInsertion() loses or makes up a key.
THEOREM TreeImplementsDictionary == Spec => ImplementsDictionary
<1>1. Balance => Shape
  BY DEF Balance
<1> QED
  BY <1>1, BalanceInvariant, KeysInTree, DictionaryInit, DictionaryNext, PTL
     DEF Spec, ImplementsDictionary, AsDictionary!Spec

=============================================================================
