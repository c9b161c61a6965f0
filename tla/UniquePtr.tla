------------------------------ MODULE UniquePtr ------------------------------
(***************************************************************************)
(* rack::unique_ptr (src/src/unique_ptr.hpp) as the link of a structure:   *)
(* every object has a unique_ptr member, so deleting an object destroys    *)
(* what its member owns, and so on down the chain.                         *)
(*                                                                         *)
(* A slot is a unique_ptr: a variable of the program (Roots) or the member *)
(* of an object, which is named like the object.  The destructors run one  *)
(* after another, so in the middle of a call there is a stack of frames,   *)
(* each in front of its delete expression or behind it.  Freed storage is  *)
(* not used again.                                                         *)
(***************************************************************************)
EXTENDS Integers, Sequences, FiniteSets

CONSTANTS
  Roots,     \* unique_ptr variables
  Objects,   \* objects, each with a unique_ptr member
  Null

ASSUME UniquePtrAssumption ==
  /\ Null \notin Roots \cup Objects /\ Roots \cap Objects = {}
  /\ IsFiniteSet(Roots) /\ IsFiniteSet(Objects)

Slots == Roots \cup Objects

VARIABLES
  ptr,    \* ptr[s]: the member ptr of slot s
  life,   \* life[s]: "unborn", "live", "dying" (its destructor runs) or "dead"
  raw,    \* the objects the program holds by a raw pointer
  stack   \* the calls in progress, innermost last

vars == <<ptr, life, raw, stack>>

Frame(fn, this, arg) == [fn |-> fn, pc |-> "delete", this |-> this, arg |-> arg]

Top == stack[Len(stack)]

Pop == SubSeq(stack, 1, Len(stack) - 1)

Idle == stack = <<>>

Usable(s) == Idle /\ life[s] = "live"

Fresh(s) == Idle /\ s \in Roots /\ life[s] = "unborn"

\* Below[n][s]: the objects below slot s, up to n of them.
Below[n \in Nat] ==
  [s \in Slots |->
     IF n = 0 \/ ptr[s] = Null THEN {} ELSE {ptr[s]} \cup Below[n - 1][ptr[s]]]

Chain(s) == Below[Cardinality(Objects)][s]

-----------------------------------------------------------------------------
Init ==
  /\ ptr = [s \in Slots |-> Null]
  /\ life = [s \in Slots |-> "unborn"]
  /\ raw = {}
  /\ stack = <<>>

(* Calls of one step.                                                      *)

\* The program's own new T.
New(o) ==
  /\ Idle /\ life[o] = "unborn"
  /\ life' = [life EXCEPT ![o] = "live"]
  /\ raw' = raw \cup {o}
  /\ UNCHANGED <<ptr, stack>>

\* unique_ptr(), unique_ptr(T*)
Construct(s, p) ==
  /\ Fresh(s)
  /\ life' = [life EXCEPT ![s] = "live"]
  /\ ptr' = [ptr EXCEPT ![s] = p]
  /\ raw' = raw \ {p}
  /\ UNCHANGED stack

MakeUnique(s, o) ==
  /\ Fresh(s) /\ life[o] = "unborn"
  /\ life' = [life EXCEPT ![s] = "live", ![o] = "live"]
  /\ ptr' = [ptr EXCEPT ![s] = o]
  /\ UNCHANGED <<raw, stack>>

\* Mutation: other.ptr is not cleared
MoveConstructKept(s, other) ==
  /\ Fresh(s) /\ Usable(other)
  /\ life' = [life EXCEPT ![s] = "live"]
  /\ ptr' = [ptr EXCEPT ![s] = ptr[other]]
  /\ UNCHANGED <<raw, stack>>

MoveConstruct(s, other) ==
  /\ Fresh(s) /\ Usable(other)
  /\ life' = [life EXCEPT ![s] = "live"]
  /\ ptr' = [ptr EXCEPT ![s] = ptr[other], ![other] = Null]
  /\ UNCHANGED <<raw, stack>>

\* release(); the program keeps the pointer.
Release(s) ==
  /\ Usable(s)
  /\ raw' = raw \cup ({ptr[s]} \ {Null})
  /\ ptr' = [ptr EXCEPT ![s] = Null]
  /\ UNCHANGED <<life, stack>>

Swap(s, other) ==
  /\ Usable(s) /\ Usable(other)
  /\ s \notin Chain(other) /\ other \notin Chain(s)
  /\ ptr' = [ptr EXCEPT ![s] = ptr[other], ![other] = ptr[s]]
  /\ UNCHANGED <<life, raw, stack>>

-----------------------------------------------------------------------------
(* Calls that delete.                                                      *)

Call(fn, this, arg) ==
  /\ stack' = <<Frame(fn, this, arg)>>
  /\ UNCHANGED ptr

\* reset(), and reset(T*) with a pointer the program owns that is not to be
\* stored below itself
Reset(s, p) ==
  /\ Usable(s)
  /\ p # Null => s # p /\ s \notin Chain(p)
  /\ Call("reset", s, p)
  /\ raw' = raw \ {p}
  /\ UNCHANGED life

\* operator=(unique_ptr&&) does nothing on itself.  The program does not store
\* a chain below itself: no smart pointer could free it.
MoveAssign(s, other) ==
  /\ Usable(s) /\ Usable(other)
  /\ s # other /\ s \notin Chain(other)
  /\ Call("moveAssign", s, other)
  /\ UNCHANGED <<life, raw>>

\* ~unique_ptr() of a variable, and the program's own delete of a raw pointer
Destroy(s) ==
  /\ Usable(s) /\ s \in Roots \cup raw
  /\ Call("destroy", s, Null)
  /\ life' = [life EXCEPT ![s] = "dying"]
  /\ raw' = raw \ {s}

-----------------------------------------------------------------------------
(* The steps of these calls.                                               *)

\* Mutation: the pointee is not deleted
DeleteSkipped ==
  /\ ~Idle /\ Top.pc = "delete"
  /\ stack' = [stack EXCEPT ![Len(stack)].pc = "rest"]
  /\ UNCHANGED <<ptr, life, raw>>

\* Mutation: without a test for null the destructor runs on no object, as it would
\* if it were called explicitly and not by delete
DeleteUntested ==
  LET o == ptr[Top.this] IN
  /\ ~Idle /\ Top.pc = "delete"
  /\ stack' = Append([stack EXCEPT ![Len(stack)].pc = "rest"], Frame("destroy", o, Null))
  /\ life' = [s \in Slots |-> IF s = o THEN "dying" ELSE life[s]]
  /\ UNCHANGED <<ptr, raw>>

\* delete ptr: the destructor of the object begins, and with it that of its
\* member.  ptr keeps its value meanwhile.
Delete ==
  LET behind == [stack EXCEPT ![Len(stack)].pc = "rest"]
      o == ptr[Top.this]
  IN
  /\ ~Idle /\ Top.pc = "delete"
  /\ IF o = Null THEN stack' = behind /\ UNCHANGED life
     ELSE /\ stack' = Append(behind, Frame("destroy", o, Null))
          /\ life' = [life EXCEPT ![o] = "dying"]
  /\ UNCHANGED <<ptr, raw>>

FinishDestroy ==
  /\ ~Idle /\ Top.pc = "rest" /\ Top.fn = "destroy"
  /\ life' = [life EXCEPT ![Top.this] = IF Top.this \in Roots THEN "unborn" ELSE "dead"]
  /\ ptr' = IF Top.this \in Roots THEN [ptr EXCEPT ![Top.this] = Null] ELSE ptr
  /\ stack' = Pop
  /\ UNCHANGED raw

\* ptr = nullptr, or ptr = newPtr
FinishReset ==
  /\ ~Idle /\ Top.pc = "rest" /\ Top.fn = "reset"
  /\ ptr' = [ptr EXCEPT ![Top.this] = Top.arg]
  /\ stack' = Pop
  /\ UNCHANGED <<life, raw>>

\* other.ptr is read only now, after reset().
FinishMoveAssign ==
  /\ ~Idle /\ Top.pc = "rest" /\ Top.fn = "moveAssign"
  /\ ptr' = [ptr EXCEPT ![Top.this] = ptr[Top.arg], ![Top.arg] = Null]
  /\ stack' = Pop
  /\ UNCHANGED <<life, raw>>

Steps == Delete \/ FinishDestroy \/ FinishReset \/ FinishMoveAssign

Calls ==
  \/ \E o \in Objects : New(o)
  \/ \E s \in Roots, p \in raw \cup {Null} : Construct(s, p)
  \/ \E s \in Roots, o \in Objects : MakeUnique(s, o)
  \/ \E s \in Roots, other \in Slots : MoveConstruct(s, other)
  \/ \E s \in Slots : Release(s) \/ Destroy(s)
  \/ \E s \in Slots, p \in raw \cup {Null} : Reset(s, p)
  \/ \E s, other \in Slots : Swap(s, other)

\* The program does not assign to a slot from below it either.
AssignFromOutside(s, other) == other \notin Chain(s) /\ MoveAssign(s, other)

Next ==
  \/ Calls
  \/ \E s, other \in Slots : AssignFromOutside(s, other)
  \/ Steps

Spec == Init /\ [][Next]_vars

\* head = std::move(head->next), as with a std::unique_ptr
PopHeadNext == Calls \/ (\E s, other \in Slots : MoveAssign(s, other)) \/ Steps

PopHeadSpec == Init /\ [][PopHeadNext]_vars

-----------------------------------------------------------------------------
(* Properties.                                                             *)

TypeOK ==
  /\ ptr \in [Slots -> Objects \cup {Null}]
  /\ life \in [Slots -> {"unborn", "live", "dying", "dead"}]
  /\ raw \subseteq Objects
  /\ stack \in Seq([fn : {"reset", "moveAssign", "destroy"}, pc : {"delete", "rest"},
                    this : Slots, arg : Slots \cup {Null}])

\* What holds object o: slots, the program's raw pointer, reset(newPtr).
Holders(o) ==
  {<<"slot", s>> : s \in {x \in Slots : life[x] \in {"live", "dying"} /\ ptr[x] = o}}
  \cup {<<"raw", p>> : p \in raw \cap {o}}
  \cup {<<"newPtr", i>> : i \in {n \in DOMAIN stack : stack[n].fn = "reset" /\ stack[n].arg = o}}

\* Ownership is exclusive and never gets lost: at every step of every call a
\* live object has exactly one holder.
ExactlyOneHolder ==
  \A o \in Objects : life[o] = "live" => Cardinality(Holders(o)) = 1

\* The next delete expression is applied to an object that is still live, and
\* neither *this nor other has been freed when a call goes on after it.
NoUseAfterFree ==
  ~Idle =>
    /\ Top.pc = "delete" /\ ptr[Top.this] # Null => life[ptr[Top.this]] = "live"
    /\ life[Top.this] # "dead"
    /\ Top.fn = "moveAssign" => life[Top.arg] # "dead"

\* Between calls every live object can still be freed: it is held, directly
\* or through a chain of members, by a variable or by a raw pointer.
NoLeak ==
  Idle =>
    \A o \in Objects : life[o] = "live" =>
      \/ o \in raw
      \/ \E s \in Roots \cup raw : life[s] = "live" /\ o \in Chain(s)
=============================================================================
