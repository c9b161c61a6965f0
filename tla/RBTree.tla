-------------------------------- MODULE RBTree --------------------------------
(***************************************************************************)
(* rack::RBTree and the rack::map on top of it (src/src/map.hpp): a        *)
(* red-black tree of nodes with parent pointers, and a sentinel that knows *)
(* the root, the least and the greatest node and stands for end().         *)
(*                                                                         *)
(* insert() is one step up to the new leaf, then one step per iteration of *)
(* fixInsertion().  A node is named like the key it was created with;      *)
(* storage is not used again before clear().  Values are left out, insert()*)
(* and erase() move them along with the keys.                              *)
(***************************************************************************)
EXTENDS Integers, FiniteSets

CONSTANTS
  Keys,
  Sentinel,   \* the address of the sentinel
  Null

ASSUME RBTreeAssumption ==
  /\ Keys \subseteq Int /\ IsFiniteSet(Keys)
  /\ Sentinel \notin Keys /\ Null \notin Keys \cup {Sentinel}

VARIABLES
  tree,       \* [root, node]: the member root, and what is at every address
  sentinel,   \* the member sentinel
  mSize,
  life,       \* life[n]: "unused", "live" or "deleted"
  fixing      \* currNode of the fixInsertion() in progress

vars == <<tree, sentinel, mSize, life, fixing>>

Node(key, parent, colour) ==
  [key |-> key, parent |-> parent, left |-> Null, right |-> Null, colour |-> colour]

Unused == Node(Null, Null, "BLACK")

Sides == {"left", "right"}

Other(side) == IF side = "left" THEN "right" ELSE "left"

\* The nodes of tree t, and one of their pointers changed
At(t, n) == t.node[n]

Set(t, n, field, val) == [t EXCEPT !.node[n][field] = val]

-----------------------------------------------------------------------------
(* Lookup.                                                                 *)

\* Where the search for key k ends: its node, or its parent to be.
Search(t, k) ==
  LET From[n \in Keys] ==
        LET next == IF k < At(t, n).key THEN At(t, n).left ELSE At(t, n).right IN
        IF k = At(t, n).key \/ next = Null THEN n ELSE From[next]
  IN From[t.root]

\* From node n as far to one side as possible: findMin(), findMax()
Outermost(t, n, side) ==
  LET From[m \in Keys] == IF At(t, m)[side] = Null THEN m ELSE From[At(t, m)[side]]
  IN From[n]

\* Mutation: a climb that ends in the sentinel goes on to the root
NeighbourPlain(n, side) ==
  LET Climb[m \in Keys \cup {Sentinel}] ==
        LET p == At(tree, m).parent IN
        IF p # Null /\ At(tree, p)[side] = m THEN Climb[p] ELSE p
      IsSentinel == n = Sentinel /\ At(tree, n).parent # Null
  IN IF side = "left" /\ IsSentinel THEN At(tree, n).right
     ELSE IF At(tree, n)[side] # Null THEN Outermost(tree, At(tree, n)[side], Other(side))
     ELSE Climb[n]

\* inorderSuccessor() for side = "right", inorderPredecessor() for "left":
\* the next node on that side, the sentinel after the last.
Neighbour(n, side) ==
  LET Climb[m \in Keys \cup {Sentinel}] ==
        LET p == At(tree, m).parent IN
        IF p # Null /\ At(tree, p)[side] = m THEN Climb[p]
        ELSE IF At(tree, m)[side] # p THEN p ELSE m
      IsSentinel == n = Sentinel /\ At(tree, n).parent # Null
  IN IF side = "left" /\ IsSentinel THEN At(tree, n).right
     ELSE IF At(tree, n)[side] # Null THEN Outermost(tree, At(tree, n)[side], Other(side))
     ELSE Climb[n]

-----------------------------------------------------------------------------
(* Helpers that change the tree.                                           *)

\* Mutation: the new child keeps its parent
UpdateParentDown(t, old, new) ==
  LET p == At(t, old).parent IN
  IF p = Null THEN t
  ELSE IF At(t, p).left = old THEN Set(t, p, "left", new) ELSE Set(t, p, "right", new)

UpdateParentRef(t, old, new) ==
  LET p == At(t, old).parent
      linked == IF At(t, p).left = old THEN Set(t, p, "left", new)
                ELSE IF At(t, p).right = old THEN Set(t, p, "right", new)
                ELSE t
  IN IF p = Null THEN t
     ELSE IF new = Null THEN linked ELSE Set(linked, new, "parent", p)

\* Mutation: the inner subtree is cut off
RotateInnerLost(t, x, side) ==
  LET far == Other(side)
      y == At(t, x)[far]
      t1 == Set(t, x, far, Null)
      t2 == UpdateParentRef(Set(t1, y, "parent", At(t1, x).parent), x, y)
      t3 == Set(Set(t2, y, side, x), x, "parent", y)
  IN [t3 EXCEPT !.root = IF @ = x THEN y ELSE @]

\* rotateLeft(x), rotateRight(x): the child y on the far side takes the place
\* of x, and x takes over the inner subtree of y.
Rotate(t, x, side) ==
  LET far == Other(side)
      y == At(t, x)[far]
      inner == At(t, y)[side]
      t1 == Set(t, x, far, inner)
      t2 == IF inner = Null THEN t1 ELSE Set(t1, inner, "parent", x)
      t3 == UpdateParentRef(Set(t2, y, "parent", At(t2, x).parent), x, y)
      t4 == Set(Set(t3, y, side, x), x, "parent", y)
  IN IF y = Null THEN t
     ELSE [t4 EXCEPT !.root = IF @ = x THEN y ELSE @]

\* Mutation: the colours are not swapped
RotateOuterPlain(t, g, side) == Rotate(t, g, Other(side))

\* rotateLeftLeft(g), rotateRightRight(g), for parents on the given side of g
RotateOuter(t, g, side) ==
  LET rotated == Rotate(t, g, Other(side))
      p == At(rotated, g).parent
  IN Set(Set(rotated, g, "colour", At(rotated, p).colour), p, "colour", At(rotated, g).colour)

SideOf(t, n) == IF At(t, At(t, n).parent).left = n THEN "left" ELSE "right"

\* root->colour = BLACK, and updateSentinel()
Finished(t) ==
  LET black == Set(t, t.root, "colour", "BLACK")
      ends == [parent |-> t.root, key |-> Null, colour |-> "SENTINEL",
               left |-> Outermost(t, t.root, "left"),
               right |-> Outermost(t, t.root, "right")]
  IN [Set(black, t.root, "parent", Sentinel) EXCEPT !.node[Sentinel] = ends]

\* After erase() has deleted the root, whose pointer stays, there is no call
\* with a defined behaviour that searches the tree.
Searchable == mSize # 0 /\ life[tree.root] = "live"

\* map::find() and map::begin()
FindIt(k) ==
  IF Searchable /\ At(tree, Search(tree, k)).key = k THEN Search(tree, k) ELSE Null

Begin == IF At(tree, sentinel).left = Null THEN sentinel ELSE At(tree, sentinel).left

-----------------------------------------------------------------------------
Init ==
  /\ tree = [root |-> Null,
             node |-> [n \in Keys \cup {Sentinel} |->
                         IF n = Sentinel THEN Node(Null, Null, "SENTINEL") ELSE Unused]]
  /\ sentinel = Sentinel
  /\ mSize = 0
  /\ life = [n \in Keys |-> "unused"]
  /\ fixing = Null

\* Mutation: mSize is incremented twice
CreateTwice(k) ==
  /\ fixing = Null /\ life[k] = "unused"
  /\ life' = [life EXCEPT ![k] = "live"]
  /\ mSize' = mSize + 2

Create(k) ==
  /\ fixing = Null /\ life[k] = "unused"
  /\ life' = [life EXCEPT ![k] = "live"]
  /\ mSize' = mSize + 1

InsertRoot(k) ==
  /\ mSize = 0
  /\ Create(k)
  /\ tree' = Finished([tree EXCEPT !.root = k, !.node[k] = Node(k, Null, "BLACK")])
  /\ sentinel' = Sentinel
  /\ UNCHANGED fixing

\* The key is not in the tree: attach a red leaf.  (If it is, insert() changes
\* nothing.)
InsertLeaf(k) ==
  LET parent == Search(tree, k)
      side == IF k < At(tree, parent).key THEN "left" ELSE "right"
  IN
  /\ Searchable /\ At(tree, parent).key # k
  /\ Create(k)
  /\ tree' = [tree EXCEPT !.node[k] = Node(k, parent, "RED"), !.node[parent][side] = k]
  /\ fixing' = k
  /\ UNCHANGED sentinel

Violation ==
  fixing # tree.root /\ At(tree, At(tree, fixing).parent).colour = "RED"

\* Mutation: with a red uncle the grandparent stays black
FixBlackGrandParent ==
  LET parent == At(tree, fixing).parent
      grandParent == At(tree, parent).parent
      side == SideOf(tree, parent)
      uncle == At(tree, grandParent)[Other(side)]
      aligned == IF SideOf(tree, fixing) = side THEN tree ELSE Rotate(tree, parent, side)
  IN
  /\ fixing # Null /\ Violation
  /\ IF uncle # Null /\ At(tree, uncle).colour = "RED"
     THEN /\ tree' = [tree EXCEPT !.node[parent].colour = "BLACK",
                                  !.node[uncle].colour = "BLACK"]
          /\ fixing' = grandParent
     ELSE /\ tree' = Finished(RotateOuter(aligned, grandParent, side))
          /\ fixing' = Null
  /\ UNCHANGED <<sentinel, mSize, life>>

\* One iteration of the loop in fixInsertion()
Fix ==
  LET parent == At(tree, fixing).parent
      grandParent == At(tree, parent).parent
      side == SideOf(tree, parent)
      uncle == At(tree, grandParent)[Other(side)]
      aligned == IF SideOf(tree, fixing) = side THEN tree ELSE Rotate(tree, parent, side)
  IN
  /\ fixing # Null /\ Violation
  /\ IF uncle # Null /\ At(tree, uncle).colour = "RED"
     THEN /\ tree' = [tree EXCEPT !.node[parent].colour = "BLACK",
                                  !.node[uncle].colour = "BLACK",
                                  !.node[grandParent].colour = "RED"]
          /\ fixing' = grandParent
     ELSE /\ tree' = Finished(RotateOuter(aligned, grandParent, side))
          /\ fixing' = Null
  /\ UNCHANGED <<sentinel, mSize, life>>

\* The loop ends without a rotation.
FixDone ==
  /\ fixing # Null /\ ~Violation
  /\ tree' = Finished(tree)
  /\ fixing' = Null
  /\ UNCHANGED <<sentinel, mSize, life>>

Clear ==
  /\ fixing = Null
  /\ tree.root # Null => life[tree.root] = "live"
  /\ tree' = [root |-> Null, node |-> [n \in Keys \cup {Sentinel} |-> Unused]]
  /\ sentinel' = Null
  /\ mSize' = 0
  /\ life' = [n \in Keys |-> "unused"]
  /\ UNCHANGED fixing

\* Mutation: a left child is lost
EraseLeftLost(k) ==
  LET found == Search(tree, k) IN
  /\ fixing = Null /\ Searchable /\ At(tree, found).key = k
  /\ tree' = UpdateParentRef(tree, found, At(tree, found).right)
  /\ mSize' = IF At(tree, found).right = Null THEN mSize ELSE mSize - 1
  /\ life' = [life EXCEPT ![found] = "deleted"]
  /\ UNCHANGED <<sentinel, fixing>>

\* RBTree::erase(k).  A node with two children first swaps its entry with its
\* in-order successor.  Neither the root pointer nor the sentinel is updated,
\* and a leaf is not subtracted from mSize.
Erase(k) ==
  LET found == Search(tree, k)
      Both(n) == At(tree, n).left # Null /\ At(tree, n).right # Null
      node == IF Both(found) THEN Neighbour(found, "right") ELSE found
      child == IF At(tree, node).left # Null THEN At(tree, node).left ELSE At(tree, node).right
      swapped == [tree EXCEPT !.node[found].key = At(tree, node).key, !.node[node].key = k]
  IN
  /\ fixing = Null /\ Searchable /\ At(tree, found).key = k
  /\ tree' = UpdateParentRef(swapped, node, child)
  /\ mSize' = IF child = Null THEN mSize ELSE mSize - 1
  /\ life' = [life EXCEPT ![node] = "deleted"]
  /\ UNCHANGED <<sentinel, fixing>>

-----------------------------------------------------------------------------
Insert(k) == InsertRoot(k) \/ InsertLeaf(k)

Next == (\E k \in Keys : Insert(k)) \/ Fix \/ FixDone \/ Clear

Spec == Init /\ [][Next]_vars

EraseSpec == Init /\ [][Next \/ \E k \in Keys : Erase(k)]_vars

\* As long as it is not the node at the root that erase() deletes
EraseBelowRoot(k) == Erase(k) /\ life'[tree.root] = "live"

EraseBelowSpec == Init /\ [][Next \/ \E k \in Keys : EraseBelowRoot(k)]_vars

-----------------------------------------------------------------------------
(* Properties.                                                             *)

Addresses == Keys \cup {Sentinel, Null}

TypeOK ==
  /\ tree \in [root : Keys \cup {Null},
               node : [Keys \cup {Sentinel} ->
                         [key : Keys \cup {Null}, parent : Addresses,
                          left : Addresses, right : Addresses,
                          colour : {"BLACK", "RED", "SENTINEL"}]]]
  /\ sentinel \in {Sentinel, Null}
  /\ mSize \in 0 .. Cardinality(Keys)
  /\ life \in [Keys -> {"unused", "live", "deleted"}]
  /\ fixing \in Keys \cup {Null}

\* The nodes of the subtree under n
Subtree[n \in Addresses] ==
  IF n = Null THEN {}
  ELSE {n} \cup Subtree[At(tree, n).left] \cup Subtree[At(tree, n).right]

InTree == IF mSize = 0 \/ Searchable THEN Subtree[tree.root] ELSE {}

KeysIn(n) == {At(tree, m).key : m \in Subtree[n]}

\* The nodes are a search tree, also in the middle of a fix and after erase():
\* the keys are in order, parent pointers agree with child pointers, and no node
\* has two parents.
SearchTree ==
  \A n \in InTree :
    /\ \A k \in KeysIn(At(tree, n).left) : k < At(tree, n).key
    /\ \A k \in KeysIn(At(tree, n).right) : k > At(tree, n).key
    /\ \A side \in Sides :
         LET c == At(tree, n)[side] IN
         c # Null => At(tree, c).parent = n /\ At(tree, n)[Other(side)] # c

\* erase(k) removes k and nothing else, whichever node it deletes for it.
EraseRemovesKey ==
  [][\A k \in Keys :
       EraseBelowRoot(k) => KeysIn(tree.root)' = KeysIn(tree.root) \ {k}]_vars

BlackHeight[n \in Addresses] ==
  IF n = Null THEN 0
  ELSE BlackHeight[At(tree, n).left] + IF At(tree, n).colour = "BLACK" THEN 1 ELSE 0

EqualBlackHeight ==
  \A n \in InTree : BlackHeight[At(tree, n).left] = BlackHeight[At(tree, n).right]

DoubleRed(n) ==
  /\ At(tree, n).colour = "RED"
  /\ \E side \in Sides : LET c == At(tree, n)[side] IN c # Null /\ At(tree, c).colour = "RED"

\* checkRbTree(), which test.cpp calls after every insert(): the root is black,
\* no red node has a red child, all paths have as many black nodes.
CheckRbTree ==
  fixing = Null /\ tree.root # Null =>
    /\ At(tree, tree.root).colour = "BLACK"
    /\ \A n \in InTree : ~DoubleRed(n)
    /\ EqualBlackHeight

\* While insert() fixes the tree, the paths stay equally black and the only red
\* node with a red parent is the one it has got to, which is why one rotation
\* ends the loop.
OneViolation ==
  fixing # Null =>
    /\ EqualBlackHeight
    /\ \A n \in InTree : DoubleRed(n) => n = At(tree, fixing).parent /\ At(tree, tree.root).colour = "BLACK"

\* Between calls begin() is the least node, ++ leads from every node to the one
\* with the next key and from the last to end(), and -- leads back the same way:
\* the ends the sentinel remembers are never stale.
IterationInOrder ==
  fixing = Null => \A n \in InTree :
    LET next == Neighbour(n, "right")
        greater == {m \in InTree : At(tree, m).key > At(tree, n).key}
    IN
    /\ Begin \in InTree /\ At(tree, Begin).key <= At(tree, n).key
    /\ IF greater = {} THEN next = Sentinel
       ELSE next \in greater /\ \A m \in greater : At(tree, next).key <= At(tree, m).key
    /\ Neighbour(next, "left") = n

\* at() finds out that a key is missing by comparing find(key) with end().
MissingIsEnd ==
  fixing = Null /\ sentinel # Null =>
    \A k \in Keys \ KeysIn(tree.root) : FindIt(k) = sentinel

\* begin() and end() of a map between calls dereference tree->sentinel.
SentinelExists == fixing = Null => sentinel # Null

AsDictionary == INSTANCE Dictionary WITH
  Vals <- {Null}, dict <- [k \in KeysIn(tree.root) |-> Null], busy <- (fixing # Null)

\* The tree is a dictionary: fixing it changes no entry.
ImplementsDictionary == AsDictionary!Spec
=============================================================================
