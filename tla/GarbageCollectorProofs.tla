----------------------- MODULE GarbageCollectorProofs -----------------------
(***************************************************************************)
(* Proofs about GarbageCollector, for any finite sets of objects and cells *)
(* and any graph: the loops of u_collect, in whatever order they take the  *)
(* objects, do what ObjectLifetime's Collect does in one step.             *)
(*                                                                         *)
(* While it marks, the collector has struck off the garbage nothing but    *)
(* what the roots reach, and all that is referenced by what it has         *)
(* visited.  While it sweeps, the heap is what Collect makes of the graph  *)
(* for the garbage swept so far: an object that loses its last reference   *)
(* is in the queue by the time the sweep comes to it, so it is deleted     *)
(* only if nobody owned it when the collection began.                      *)
(***************************************************************************)
EXTENDS GarbageCollector, FiniteSetTheorems, TLAPS

(* The operators of ObjectLifetime on the state the collection began in.   *)
Old == INSTANCE ObjectLifetime WITH
  alive   <- before.alive,
  public  <- before.public,
  content <- before.content,
  rc      <- before.rc,
  aq      <- before.aq,
  queue   <- before.aq,
  age     <- before.age

BeforeOK ==
  /\ before.alive = Objects
  /\ before.public \in SUBSET Objects
  /\ before.content \in [Objects -> [Slots -> Objects \cup {NoObject}]]
  /\ before.rc \in [Objects -> Nat]
  /\ before.aq \in [Objects -> 0 .. 1]
  /\ before.age \in [Objects -> 0 .. Life]
  /\ \A o \in Objects : before.rc[o] = Cardinality(Old!RefsTo(o))
  /\ toRelease = Old!Zero

(* What the walk has found so far.                                         *)
Known == Objects \ not_reachable

MarkInv ==
  /\ alive = before.alive
  /\ public = before.public
  /\ content = before.content
  /\ rc = before.rc
  /\ aq = before.aq
  /\ queue = before.aq
  /\ age = before.age
  /\ not_reachable \in SUBSET Objects
  /\ objects_to_visit \in SUBSET Known
  /\ Old!GcRoots \subseteq Known
  /\ \A p \in Known \ objects_to_visit : Old!Children(p) \subseteq Known
  /\ \A S \in SUBSET Objects : Old!GcRoots \subseteq S /\ Old!Closed(S) => Known \subseteq S

(* The garbage already swept, and what of it is deleted.                   *)
Handled == Old!Garbage \ not_reachable
Dead == {o \in Old!Garbage : Old!NoOwners(o)}

SweepInv ==
  /\ not_reachable \in SUBSET Old!Garbage
  /\ objects_to_visit = {}
  /\ alive = before.alive \ (Dead \cap Handled)
  /\ public = before.public \ (Dead \cap Handled)
  /\ content = Old!ContentWithout(Handled)
  /\ rc = Old!RcWithout(Handled)
  /\ aq = Old!OneMore(before.aq, Old!Pushed(Old!OrphansWithout(Handled), before.aq))
  /\ queue = aq
  /\ age = Old!Restamped(Old!OrphansWithout(Handled), before.public, before.aq)

IInv ==
  /\ phase \in {"mark", "sweep", "done"}
  /\ BeforeOK
  /\ phase = "mark" => MarkInv
  /\ phase # "mark" => SweepInv
  /\ phase = "done" => not_reachable = {}

USE GcAssumption

-----------------------------------------------------------------------------
(* Each instance of ObjectLifetime brings its own name for Cardinality.    *)
LEMMA SameCardinality ==
  ASSUME NEW S
  PROVE  /\ Old!Cardinality(S) = Cardinality(S)
         /\ Now!Cardinality(S) = Cardinality(S)
         /\ Whole!Cardinality(S) = Cardinality(S)
<1>1. Old!Cardinality(S) = Cardinality(S)
  BY DEF Old!Cardinality, Cardinality
<1>2. Now!Cardinality(S) = Cardinality(S)
  BY DEF Now!Cardinality, Cardinality
<1>3. Whole!Cardinality(S) = Cardinality(S)
  BY DEF Whole!Cardinality, Cardinality
<1> QED
  BY <1>1, <1>2, <1>3

LEMMA OldRcWithout ==
  ASSUME NEW P, NEW o \in Objects
  PROVE  Old!RcWithout(P)[o] = before.rc[o] - Cardinality(Old!Dropped(o, P))
BY SameCardinality DEF Old!RcWithout

(* The references of the old graph, and those that the emptying of the     *)
(* containers of P takes away.                                             *)
LEMMA OldRefsFinite ==
  ASSUME NEW o \in Objects, NEW P
  PROVE  /\ IsFiniteSet(Old!RefsTo(o))
         /\ IsFiniteSet(Old!Dropped(o, P))
         /\ Cardinality(Old!RefsTo(o)) \in Nat
         /\ Cardinality(Old!Dropped(o, P)) \in Nat
         /\ Cardinality(Old!Dropped(o, P)) <= Cardinality(Old!RefsTo(o))
<1>1. IsFiniteSet(Old!Cells)
  BY FS_Product DEF Old!Cells
<1>2. Old!RefsTo(o) \in SUBSET Old!Cells /\ Old!Dropped(o, P) \in SUBSET Old!RefsTo(o)
  BY DEF Old!RefsTo, Old!Dropped
<1>3. IsFiniteSet(Old!RefsTo(o))
  BY <1>1, <1>2, FS_Subset
<1>4. IsFiniteSet(Old!Dropped(o, P)) /\ Cardinality(Old!Dropped(o, P)) <= Cardinality(Old!RefsTo(o))
  BY <1>2, <1>3, FS_Subset
<1> QED
  BY <1>3, <1>4, FS_CardinalityType

(* What nobody owned had no reference to lose.                             *)
LEMMA DeadUnreferenced ==
  ASSUME BeforeOK, NEW o \in Dead
  PROVE  o \in Objects /\ Old!RefsTo(o) = {} /\ before.aq[o] = 0
<1>1. o \in Objects
  BY DEF Dead, Old!Garbage, BeforeOK
<1>2. before.rc[o] = 0 /\ before.aq[o] = 0
  BY <1>1 DEF Dead, Old!NoOwners, BeforeOK
<1>3. Old!RefsTo(o) = {}
  BY <1>1, <1>2, OldRefsFinite, FS_EmptySet DEF BeforeOK
<1> QED
  BY <1>1, <1>2, <1>3

(* Emptying one container more.                                            *)
LEMMA DropOneMore ==
  ASSUME NEW o \in Objects, NEW P \in SUBSET Objects, NEW x \in Objects \ P
  PROVE  /\ Old!Dropped(o, P \cup {x}) = Old!Dropped(o, P) \cup Old!Dropped(o, {x})
         /\ Cardinality(Old!Dropped(o, P \cup {x})) =
              Cardinality(Old!Dropped(o, P)) + Cardinality(Old!Dropped(o, {x}))
<1>1. Old!Dropped(o, P \cup {x}) = Old!Dropped(o, P) \cup Old!Dropped(o, {x})
  BY DEF Old!Dropped
<1>2. Old!Dropped(o, P) \cap Old!Dropped(o, {x}) = {}
  BY DEF Old!Dropped
<1>3. IsFiniteSet(Old!Dropped(o, P)) /\ IsFiniteSet(Old!Dropped(o, {x}))
  BY OldRefsFinite
<1>4. /\ Cardinality(Old!Dropped(o, P)) \in Nat
      /\ Cardinality(Old!Dropped(o, {x})) \in Nat
  BY OldRefsFinite
<1>5. Cardinality(Old!Dropped(o, P) \cup Old!Dropped(o, {x})) =
        Cardinality(Old!Dropped(o, P)) + Cardinality(Old!Dropped(o, {x}))
        - Cardinality(Old!Dropped(o, P) \cap Old!Dropped(o, {x}))
  BY <1>3, FS_Union
<1>6. Cardinality(Old!Dropped(o, P) \cap Old!Dropped(o, {x})) = 0
  BY <1>2, FS_EmptySet
<1>7. Cardinality(Old!Dropped(o, P) \cup Old!Dropped(o, {x})) =
        Cardinality(Old!Dropped(o, P)) + Cardinality(Old!Dropped(o, {x}))
  BY <1>4, <1>5, <1>6
<1> QED
  BY <1>1, <1>7

-----------------------------------------------------------------------------
(* The walk.                                                               *)
LEMMA InitInv == Init => IInv
<1> SUFFICES ASSUME Init PROVE IInv
  OBVIOUS
<1>1. /\ before.alive = alive /\ before.public = public /\ before.content = content
      /\ before.rc = rc /\ before.aq = aq /\ before.age = age
      /\ queue = aq /\ phase = "mark"
  BY DEF Init
<1>2. \A o \in Objects : Old!RefsTo(o) = Now!RefsTo(o)
  BY <1>1 DEF Old!RefsTo, Now!RefsTo, Old!Cells, Now!Cells
<1>3. \A o \in Objects : rc[o] = Cardinality(Old!RefsTo(o))
  BY <1>2 DEF Init
<1>4. rc \in [Objects -> Nat]
  BY <1>3, OldRefsFinite DEF Init
<1>5. aq \in [Objects -> 0 .. 1] /\ age \in [Objects -> 0 .. Life]
  BY DEF Init
<1>6. BeforeOK
  <2>1. /\ alive = Objects /\ public \in SUBSET Objects
        /\ content \in [Objects -> [Slots -> Objects \cup {NoObject}]]
        /\ toRelease = Old!Zero
    BY DEF Init, Old!Zero
  <2> QED
    BY <1>1, <1>3, <1>4, <1>5, <2>1 DEF BeforeOK
<1>7. Old!GcRoots = Now!GcRoots
  BY <1>1 DEF Old!GcRoots, Now!GcRoots
<1>8. Known = Old!GcRoots /\ objects_to_visit = Old!GcRoots /\ not_reachable \in SUBSET Objects
  BY <1>7 DEF Init, Known, Now!GcRoots
<1>9. MarkInv
  BY <1>1, <1>8 DEF MarkInv
<1> QED
  BY <1>1, <1>6, <1>9 DEF IInv

(* The state the collection began in stays as it is.                       *)
LEMMA BeforeStays ==
  ASSUME BeforeOK, UNCHANGED << before, toRelease >>
  PROVE  BeforeOK'
BY DEF BeforeOK, Old!RefsTo, Old!Cells, Old!Zero

(* Graph and roots of the old state, in the next state.                    *)
LEMMA OldGraphStays ==
  ASSUME UNCHANGED << before, tes >>
  PROVE  /\ Old!GcRoots' = Old!GcRoots
         /\ \A p : Old!Children(p)' = Old!Children(p)
         /\ \A S : Old!Closed(S)' <=> Old!Closed(S)
<1>1. Old!GcRoots' = Old!GcRoots
  BY DEF Old!GcRoots
<1>2. \A p : Old!Children(p)' = Old!Children(p)
  BY DEF Old!Children
<1> QED
  BY <1>1, <1>2 DEF Old!Closed

LEMMA VisitStep ==
  ASSUME BeforeOK, MarkInv, NEW o \in Objects, Visit(o)
  PROVE  MarkInv'
<1>1. /\ alive' = alive /\ public' = public /\ content' = content /\ rc' = rc
      /\ aq' = aq /\ queue' = queue /\ age' = age /\ before' = before /\ tes' = tes
  BY DEF Visit, heap
<1>2. Now!Children(o) = Old!Children(o)
  BY DEF MarkInv, Now!Children, Old!Children
<1>3. /\ not_reachable' = not_reachable \ Old!Children(o)
      /\ objects_to_visit' = (objects_to_visit \ {o}) \cup (Old!Children(o) \cap not_reachable)
      /\ o \in objects_to_visit
  BY <1>2 DEF Visit, found
<1>4. Old!Children(o) \subseteq Objects
  BY DEF Old!Children, BeforeOK
<1>5. Known' = Known \cup Old!Children(o) /\ o \in Known
  BY <1>3, <1>4 DEF Known, MarkInv
<1>6. \A p \in Known' \ objects_to_visit' : Old!Children(p) \subseteq Known'
  <2> SUFFICES ASSUME NEW p \in Known' \ objects_to_visit' PROVE Old!Children(p) \subseteq Known'
    OBVIOUS
  <2>1. CASE p = o
    BY <1>5, <2>1
  <2>2. CASE p # o
    <3>1. p \in Known
      BY <1>3, <1>5 DEF Known
    <3>2. p \notin objects_to_visit
      BY <1>3, <2>2
    <3> QED
      BY <1>5, <3>1, <3>2 DEF MarkInv
  <2> QED
    BY <2>1, <2>2
<1>7. \A S \in SUBSET Objects : Old!GcRoots \subseteq S /\ Old!Closed(S) => Known' \subseteq S
  <2> SUFFICES ASSUME NEW S \in SUBSET Objects, Old!GcRoots \subseteq S, Old!Closed(S)
               PROVE  Known' \subseteq S
    OBVIOUS
  <2>1. Known \subseteq S
    BY DEF MarkInv
  <2>2. Old!Children(o) \subseteq S
    BY <1>5, <2>1 DEF Old!Closed
  <2> QED
    BY <1>5, <2>1, <2>2
<1>8. objects_to_visit' \in SUBSET Known' /\ not_reachable' \in SUBSET Objects
  BY <1>3, <1>5 DEF MarkInv
<1>9. Old!GcRoots \subseteq Known'
  BY <1>5 DEF MarkInv
<1>10. /\ Old!GcRoots' = Old!GcRoots
       /\ \A p : Old!Children(p)' = Old!Children(p)
       /\ \A S : Old!Closed(S)' <=> Old!Closed(S)
  BY <1>1, OldGraphStays
<1> QED
  BY <1>1, <1>6, <1>7, <1>8, <1>9, <1>10 DEF MarkInv

(* When the walk has nothing left to visit, what it has not found is the   *)
(* garbage.                                                                *)
LEMMA WalkFindsReachable ==
  ASSUME BeforeOK, MarkInv, objects_to_visit = {}
  PROVE  not_reachable = Old!Garbage
<1>1. Old!Closed(Known)
  BY DEF Old!Closed, MarkInv
<1>2. Known = Old!Reachable(Old!GcRoots)
  BY <1>1 DEF Old!Reachable, MarkInv, BeforeOK, Known
<1> QED
  BY <1>2 DEF Old!Garbage, Known, MarkInv, BeforeOK

LEMMA NothingHandled ==
  ASSUME BeforeOK
  PROVE  /\ Old!ContentWithout({}) = before.content
         /\ Old!RcWithout({}) = before.rc
         /\ Old!OrphansWithout({}) = {}
         /\ Old!OneMore(before.aq, Old!Pushed({}, before.aq)) = before.aq
         /\ Old!Restamped({}, before.public, before.aq) = before.age
<1>1. Old!ContentWithout({}) = before.content
  BY DEF Old!ContentWithout, BeforeOK
<1>2. \A o \in Objects : Old!Dropped(o, {}) = {}
  BY DEF Old!Dropped
<1>3. Old!RcWithout({}) = before.rc
  <2>1. ASSUME NEW o \in Objects PROVE Old!RcWithout({})[o] = before.rc[o]
    <3>1. Cardinality(Old!Dropped(o, {})) = 0
      BY <1>2, FS_EmptySet
    <3>2. before.rc[o] \in Nat
      BY DEF BeforeOK
    <3> QED
      BY <3>1, <3>2, OldRcWithout
  <2>2. Old!RcWithout({}) = [o \in Objects |-> Old!RcWithout({})[o]]
    BY DEF Old!RcWithout
  <2> QED
    BY <2>1, <2>2 DEF BeforeOK
<1>4. Old!OrphansWithout({}) = {}
  BY <1>2 DEF Old!OrphansWithout
<1>5. Old!OneMore(before.aq, Old!Pushed({}, before.aq)) = before.aq
  BY DEF Old!OneMore, Old!Pushed, BeforeOK
<1>6. Old!Restamped({}, before.public, before.aq) = before.age
  BY DEF Old!Restamped, Old!Pushed, BeforeOK
<1> QED
  BY <1>1, <1>3, <1>4, <1>5, <1>6

(* What the sweep refers to in the old state, in the next state.           *)
LEMMA OldVerdictStays ==
  ASSUME UNCHANGED << before, tes, stack >>
  PROVE  Old!Garbage' = Old!Garbage /\ Dead' = Dead
<1>1. Old!Reachable(Old!GcRoots)' = Old!Reachable(Old!GcRoots)
  BY OldGraphStays DEF Old!Reachable
<1>2. Old!Garbage' = Old!Garbage
  BY <1>1 DEF Old!Garbage
<1> QED
  BY <1>2 DEF Dead, Old!NoOwners

LEMMA MarkedStep ==
  ASSUME BeforeOK, MarkInv, Marked
  PROVE  SweepInv'
<1>1. /\ alive' = alive /\ public' = public /\ content' = content /\ rc' = rc
      /\ aq' = aq /\ queue' = queue /\ age' = age /\ before' = before
      /\ tes' = tes /\ stack' = stack /\ held' = held /\ toRelease' = toRelease
      /\ not_reachable' = not_reachable /\ objects_to_visit' = {}
  BY DEF Marked, heap
<1>2. not_reachable = Old!Garbage
  BY WalkFindsReachable DEF Marked
<1>3. Old!Garbage' = Old!Garbage /\ Dead' = Dead
  BY <1>1, OldVerdictStays
<1>4. Handled' = {}
  BY <1>1, <1>2, <1>3 DEF Handled
<1>5. BeforeOK'
  BY <1>1, BeforeStays
<1>6. (BeforeOK => /\ Old!ContentWithout({}) = before.content
                   /\ Old!RcWithout({}) = before.rc
                   /\ Old!OrphansWithout({}) = {}
                   /\ Old!OneMore(before.aq, Old!Pushed({}, before.aq)) = before.aq
                   /\ Old!Restamped({}, before.public, before.aq) = before.age)'
  BY NothingHandled, PTL
<1> QED
  BY <1>1, <1>2, <1>3, <1>4, <1>5, <1>6 DEF SweepInv, MarkInv

-----------------------------------------------------------------------------
(* The sweep.                                                              *)

(* Who is in the queue meanwhile.                                          *)
LEMMA QueueInSweep ==
  ASSUME BeforeOK, SweepInv, NEW o \in Objects
  PROVE  /\ aq[o] = IF o \in Old!OrphansWithout(Handled) THEN 1 ELSE before.aq[o]
         /\ o \in Old!OrphansWithout(Handled) => before.aq[o] = 0
         /\ before.aq[o] \in 0 .. 1
<1>1. before.aq[o] \in 0 .. 1
  BY DEF BeforeOK
<1>2. o \in Old!OrphansWithout(Handled) => before.aq[o] = 0
  BY <1>1 DEF Old!OrphansWithout
<1> QED
  BY <1>1, <1>2 DEF SweepInv, Old!OneMore, Old!Pushed

(* The collector's verdict on an object does not depend on how far the     *)
(* sweep has come.                                                         *)
LEMMA VerdictIsOld ==
  ASSUME BeforeOK, SweepInv, NEW x \in not_reachable
  PROVE  Now!NoOwners(x) <=> x \in Dead
<1>1. x \in Old!Garbage /\ x \in Objects
  BY DEF SweepInv, Old!Garbage, BeforeOK
<1>2. rc[x] = before.rc[x] - Cardinality(Old!Dropped(x, Handled))
  BY <1>1, OldRcWithout DEF SweepInv
<1>3. before.rc[x] \in Nat
  BY <1>1 DEF BeforeOK
<1>4. Old!Dropped(x, Handled) = {} => rc[x] = before.rc[x] /\ x \notin Old!OrphansWithout(Handled)
  BY <1>2, <1>3, FS_EmptySet DEF Old!OrphansWithout
<1>5. ASSUME x \in Dead PROVE Now!NoOwners(x)
  <2>1. Old!Dropped(x, Handled) = {}
    BY <1>5, DeadUnreferenced DEF Old!Dropped
  <2> QED
    BY <1>1, <1>4, <1>5, <2>1, QueueInSweep DEF Dead, Old!NoOwners, Now!NoOwners
<1>6. ASSUME Now!NoOwners(x) PROVE x \in Dead
  <2>1. x \notin Old!OrphansWithout(Handled) /\ before.aq[x] <= 0
    BY <1>1, <1>6, QueueInSweep DEF Now!NoOwners
  <2>2. rc[x] = Old!RcWithout(Handled)[x]
    BY DEF SweepInv
  <2>3. Old!Dropped(x, Handled) = {}
    BY <1>1, <1>6, <2>1, <2>2 DEF Now!NoOwners, Old!OrphansWithout
  <2> QED
    BY <1>1, <1>4, <1>6, <2>1, <2>3 DEF Now!NoOwners, Dead, Old!NoOwners
<1> QED
  BY <1>5, <1>6

(* One more object is swept.                                               *)
LEMMA SweepOneMore ==
  ASSUME BeforeOK, SweepInv, NEW x \in not_reachable,
         DropContent(x), not_reachable' = not_reachable \ {x},
         UNCHANGED << before, tes, stack >>
  PROVE  /\ Handled' = Handled \cup {x}
         /\ content' = Old!ContentWithout(Handled')
         /\ rc' = Old!RcWithout(Handled')
         /\ aq' = Old!OneMore(before.aq, Old!Pushed(Old!OrphansWithout(Handled'), before.aq))
         /\ queue' = aq'
         /\ age' = Old!Restamped(Old!OrphansWithout(Handled'), before.public, before.aq)
<1> DEFINE W == Handled
           V == Handled \cup {x}
           N == Now!OrphansWithout({x})
<1>1. x \in Objects \ W /\ W \in SUBSET Objects /\ x \in Old!Garbage
  BY DEF SweepInv, Handled, Old!Garbage, BeforeOK
<1>2. Handled' = V
  BY <1>1, OldVerdictStays DEF Handled
<1>3. /\ content = Old!ContentWithout(W)
      /\ rc = Old!RcWithout(W)
      /\ queue = aq
      /\ age = Old!Restamped(Old!OrphansWithout(W), before.public, before.aq)
      /\ DOMAIN aq = Objects
  BY DEF SweepInv, Old!OneMore
<1>4. ASSUME NEW o \in Objects
      PROVE  Now!Dropped(o, {x}) = Old!Dropped(o, {x})
  <2>1. content[x] = before.content[x]
    BY <1>1, <1>3 DEF Old!ContentWithout
  <2> QED
    BY <2>1 DEF Now!Dropped, Old!Dropped, Now!RefsTo, Old!RefsTo, Now!Cells, Old!Cells
<1>5. content' = Old!ContentWithout(V)
  BY <1>1, <1>3 DEF DropContent, Now!ContentWithout, Old!ContentWithout, Now!Empty, Old!Empty
<1>6. ASSUME NEW o \in Objects
      PROVE  /\ Now!RcWithout({x})[o] = Old!RcWithout(V)[o]
             /\ Old!RcWithout(V)[o] <= Old!RcWithout(W)[o]
  <2>1. Now!RcWithout({x})[o] = rc[o] - Cardinality(Old!Dropped(o, {x}))
    BY <1>4, SameCardinality DEF Now!RcWithout
  <2>2. rc[o] = before.rc[o] - Cardinality(Old!Dropped(o, W))
    BY <1>3, OldRcWithout
  <2>3. Cardinality(Old!Dropped(o, V)) =
          Cardinality(Old!Dropped(o, W)) + Cardinality(Old!Dropped(o, {x}))
    BY <1>1, DropOneMore
  <2>4. /\ before.rc[o] \in Nat
        /\ Cardinality(Old!Dropped(o, W)) \in Nat
        /\ Cardinality(Old!Dropped(o, {x})) \in Nat
    BY OldRefsFinite DEF BeforeOK
  <2>5. /\ Old!RcWithout(V)[o] = before.rc[o] - Cardinality(Old!Dropped(o, V))
        /\ Old!RcWithout(W)[o] = before.rc[o] - Cardinality(Old!Dropped(o, W))
    BY OldRcWithout
  <2> QED
    BY <2>1, <2>2, <2>3, <2>4, <2>5
<1>7. rc' = Old!RcWithout(V)
  <2>1. rc' = [o \in Objects |-> Now!RcWithout({x})[o]]
    BY DEF DropContent, Now!RcWithout
  <2>2. Old!RcWithout(V) = [o \in Objects |-> Old!RcWithout(V)[o]]
    BY DEF Old!RcWithout
  <2> QED
    BY <1>6, <2>1, <2>2
<1>8. ASSUME NEW o \in Objects
      PROVE  o \in N <=> o \in Old!OrphansWithout(V) \ Old!OrphansWithout(W)
  <2>1. Old!Dropped(o, V) = Old!Dropped(o, W) \cup Old!Dropped(o, {x})
    BY <1>1, DropOneMore
  <2>2. o \in N <=> /\ Old!Dropped(o, {x}) # {}
                    /\ Old!RcWithout(V)[o] <= 0
                    /\ tes[o] <= 0 /\ aq[o] <= 0 /\ stack[o] <= 0
    BY <1>4, <1>6 DEF Now!OrphansWithout
  <2>3. \A P : o \in Old!OrphansWithout(P) <=>
                 /\ Old!Dropped(o, P) # {}
                 /\ Old!RcWithout(P)[o] <= 0
                 /\ tes[o] <= 0 /\ before.aq[o] <= 0 /\ stack[o] <= 0
    BY DEF Old!OrphansWithout
  <2>4. /\ aq[o] = IF o \in Old!OrphansWithout(W) THEN 1 ELSE before.aq[o]
        /\ before.aq[o] \in 0 .. 1
    BY QueueInSweep
  <2>5. CASE Old!Dropped(o, {x}) = {}
    <3>1. Old!Dropped(o, V) = Old!Dropped(o, W)
      BY <2>1, <2>5
    <3>2. Old!RcWithout(V)[o] = Old!RcWithout(W)[o]
      BY <3>1, OldRcWithout
    <3> QED
      BY <2>2, <2>3, <2>5, <3>1, <3>2
  <2>6. CASE Old!Dropped(o, {x}) # {}
    <3>1. Old!Dropped(o, V) # {}
      BY <2>1, <2>6
    <3> HIDE DEF N, V, W
    <3> QED
      BY <2>2, <2>3, <2>4, <2>6, <3>1
  <2> QED
    BY <2>5, <2>6
<1>9. ASSUME NEW o \in Objects, o \in Old!OrphansWithout(W)
      PROVE  o \in Old!OrphansWithout(V)
  <2>1. Old!Dropped(o, V) # {}
    <3>1. Old!Dropped(o, W) # {}
      BY <1>9 DEF Old!OrphansWithout
    <3>2. Old!Dropped(o, V) = Old!Dropped(o, W) \cup Old!Dropped(o, {x})
      BY <1>1, DropOneMore
    <3> QED
      BY <3>1, <3>2
  <2>2. Old!RcWithout(V)[o] <= 0
    <3>1. Old!RcWithout(W)[o] <= 0 /\ Old!RcWithout(V)[o] <= Old!RcWithout(W)[o]
      BY <1>6, <1>9 DEF Old!OrphansWithout
    <3>2. Old!RcWithout(V)[o] \in Int /\ Old!RcWithout(W)[o] \in Int
      BY OldRcWithout, OldRefsFinite DEF BeforeOK
    <3> QED
      BY <3>1, <3>2
  <2> QED
    BY <1>9, <2>1, <2>2 DEF Old!OrphansWithout
<1>10. ASSUME NEW o \in Objects, o \in N
       PROVE  o \in public <=> o \in before.public
  <2>1. Old!RefsTo(o) # {}
    BY <1>4, <1>10 DEF Now!OrphansWithout, Old!Dropped
  <2>2. o \notin Dead
    BY <2>1, DeadUnreferenced
  <2> QED
    BY <2>2 DEF SweepInv
<1>11. /\ aq' = Now!OneMore(aq, Now!Pushed(N, aq))
       /\ queue' = Now!OneMore(queue, Now!Pushed(N, aq))
       /\ age' = Now!Restamped(N, public, aq)
  BY DEF DropContent, Now!Prolong
<1>12. \A o \in N : aq[o] <= 0
  BY DEF Now!OrphansWithout
<1>13. aq' = Old!OneMore(before.aq, Old!Pushed(Old!OrphansWithout(V), before.aq))
  <2> DEFINE f == Old!OneMore(before.aq, Old!Pushed(Old!OrphansWithout(V), before.aq))
  <2>1. ASSUME NEW o \in Objects
        PROVE  aq'[o] = f[o]
    <3>1. /\ aq[o] = IF o \in Old!OrphansWithout(W) THEN 1 ELSE before.aq[o]
          /\ before.aq[o] \in 0 .. 1
      BY QueueInSweep
    <3>2. o \in Old!OrphansWithout(V) => before.aq[o] <= 0
      BY DEF Old!OrphansWithout
    <3>3. aq'[o] = IF o \in N THEN aq[o] + 1 ELSE aq[o]
      BY <1>11, <1>12 DEF Now!OneMore, Now!Pushed
    <3>4. f[o] = IF o \in Old!OrphansWithout(V) THEN before.aq[o] + 1 ELSE before.aq[o]
      BY <3>2 DEF Old!OneMore, Old!Pushed
    <3>5. /\ o \in N <=> o \in Old!OrphansWithout(V) \ Old!OrphansWithout(W)
          /\ o \in Old!OrphansWithout(W) => o \in Old!OrphansWithout(V)
      BY <1>8, <1>9
    <3> HIDE DEF f, N, V, W
    <3> QED
      BY <3>1, <3>2, <3>3, <3>4, <3>5
  <2>2. aq' = [o \in Objects |-> aq'[o]] /\ f = [o \in Objects |-> f[o]]
    BY <1>11 DEF Now!OneMore, Old!OneMore
  <2> HIDE DEF f
  <2>3. aq' = f
    BY <2>1, <2>2
  <2> QED
    BY <2>3 DEF f
<1>14. queue' = aq'
  BY <1>3, <1>11
<1>15. age' = Old!Restamped(Old!OrphansWithout(V), before.public, before.aq)
  <2> DEFINE g == Old!Restamped(Old!OrphansWithout(V), before.public, before.aq)
  <2>1. ASSUME NEW o \in Objects
        PROVE  age'[o] = g[o]
    <3>1. \A P : o \in Old!OrphansWithout(P) => before.aq[o] <= 0
      BY DEF Old!OrphansWithout
    <3>2. age'[o] = IF o \in N THEN IF o \in public THEN 0 ELSE Life ELSE age[o]
      BY <1>11, <1>12 DEF Now!Restamped, Now!Pushed
    <3>3. age[o] = IF o \in Old!OrphansWithout(W)
                   THEN IF o \in before.public THEN 0 ELSE Life ELSE before.age[o]
      BY <1>3, <3>1 DEF Old!Restamped, Old!Pushed
    <3>4. g[o] = IF o \in Old!OrphansWithout(V)
                 THEN IF o \in before.public THEN 0 ELSE Life ELSE before.age[o]
      BY <3>1 DEF Old!Restamped, Old!Pushed
    <3>5. /\ o \in N <=> o \in Old!OrphansWithout(V) \ Old!OrphansWithout(W)
          /\ o \in Old!OrphansWithout(W) => o \in Old!OrphansWithout(V)
          /\ o \in N => (o \in public <=> o \in before.public)
      BY <1>8, <1>9, <1>10
    <3> HIDE DEF g, N, V, W
    <3> QED
      BY <3>2, <3>3, <3>4, <3>5
  <2>2. age' = [o \in Objects |-> age'[o]] /\ g = [o \in Objects |-> g[o]]
    BY <1>11 DEF Now!Restamped, Old!Restamped
  <2> HIDE DEF g
  <2>3. age' = g
    BY <2>1, <2>2
  <2> QED
    BY <2>3 DEF g
<1> HIDE DEF W, V, N
<1>16. V = Handled'
  BY <1>2
<1> QED
  BY <1>2, <1>5, <1>7, <1>13, <1>14, <1>15, <1>16 DEF V

LEMMA SweepStep ==
  ASSUME BeforeOK, SweepInv, NEW o \in Objects, SweepClear(o) \/ SweepDelete(o)
  PROVE  SweepInv'
<1>1. /\ o \in not_reachable /\ DropContent(o) /\ not_reachable' = not_reachable \ {o}
      /\ UNCHANGED << before, tes, stack, objects_to_visit >>
  BY DEF SweepClear, SweepDelete
<1>2. Old!Garbage' = Old!Garbage /\ Dead' = Dead
  BY <1>1, OldVerdictStays
<1>3. /\ Handled' = Handled \cup {o}
      /\ content' = Old!ContentWithout(Handled')
      /\ rc' = Old!RcWithout(Handled')
      /\ aq' = Old!OneMore(before.aq, Old!Pushed(Old!OrphansWithout(Handled'), before.aq))
      /\ queue' = aq'
      /\ age' = Old!Restamped(Old!OrphansWithout(Handled'), before.public, before.aq)
  BY <1>1, SweepOneMore
<1>4. alive' = before.alive \ (Dead \cap Handled') /\ public' = before.public \ (Dead \cap Handled')
  <2>1. CASE SweepClear(o)
    <3>1. o \notin Dead
      BY <1>1, <2>1, VerdictIsOld DEF SweepClear
    <3>2. Dead \cap Handled' = Dead \cap Handled
      BY <1>3, <3>1
    <3> QED
      BY <2>1, <3>2 DEF SweepClear, SweepInv
  <2>2. CASE SweepDelete(o)
    <3>1. o \in Dead
      BY <1>1, <2>2, VerdictIsOld DEF SweepDelete, is_deletable
    <3>2. Dead \cap Handled' = (Dead \cap Handled) \cup {o}
      BY <1>3, <3>1
    <3> QED
      BY <2>2, <3>2 DEF SweepDelete, SweepInv
  <2> QED
    BY <2>1, <2>2
<1>5. /\ content' = Old!ContentWithout(Handled)'
      /\ rc' = Old!RcWithout(Handled)'
      /\ Old!OrphansWithout(Handled)' = Old!OrphansWithout(Handled')
  BY <1>1, <1>3 DEF Old!ContentWithout, Old!RcWithout, Old!OrphansWithout, Old!Dropped,
                    Old!RefsTo, Old!Cells
<1>6. aq' = Old!OneMore(before.aq, Old!Pushed(Old!OrphansWithout(Handled), before.aq))'
  BY <1>1, <1>3, <1>5 DEF Old!OneMore, Old!Pushed
<1>7. age' = Old!Restamped(Old!OrphansWithout(Handled), before.public, before.aq)'
  BY <1>1, <1>3, <1>5 DEF Old!Restamped, Old!Pushed
<1>8. not_reachable' \in SUBSET Old!Garbage /\ objects_to_visit' = {}
  BY <1>1 DEF SweepInv
<1> QED
  BY <1>1, <1>2, <1>3, <1>4, <1>5, <1>6, <1>7, <1>8 DEF SweepInv

LEMMA StepInv == IInv /\ [Next]_vars => IInv'
<1> SUFFICES ASSUME IInv, [Next]_vars PROVE IInv'
  OBVIOUS
<1>0. BeforeOK
  BY DEF IInv
<1>1. ASSUME NEW o \in Objects, Visit(o) PROVE IInv'
  <2>1. BeforeOK'
    BY <1>0, <1>1, BeforeStays DEF Visit, heap
  <2>2. MarkInv'
    BY <1>1, VisitStep DEF Visit, IInv
  <2> QED
    BY <1>1, <2>1, <2>2 DEF Visit, IInv
<1>2. ASSUME NEW o \in Objects, SweepClear(o) \/ SweepDelete(o) PROVE IInv'
  <2>1. BeforeOK'
    BY <1>0, <1>2, BeforeStays DEF SweepClear, SweepDelete
  <2>2. SweepInv'
    BY <1>2, SweepStep DEF SweepClear, SweepDelete, IInv
  <2> QED
    BY <1>2, <2>1, <2>2 DEF SweepClear, SweepDelete, IInv
<1>3. CASE Marked
  <2>1. BeforeOK'
    BY <1>0, <1>3, BeforeStays DEF Marked, heap
  <2>2. SweepInv'
    BY <1>3, MarkedStep DEF Marked, IInv
  <2> QED
    BY <1>3, <2>1, <2>2 DEF Marked, IInv
<1>4. ASSUME UNCHANGED << heap, before, objects_to_visit, not_reachable >>
      PROVE  BeforeOK' /\ (MarkInv => MarkInv') /\ (SweepInv => SweepInv')
  <2>1. BeforeOK'
    BY <1>0, <1>4, BeforeStays DEF heap
  <2>2. MarkInv => MarkInv'
    <3>1. /\ Old!GcRoots' = Old!GcRoots
          /\ \A p : Old!Children(p)' = Old!Children(p)
          /\ \A S : Old!Closed(S)' <=> Old!Closed(S)
      BY <1>4, OldGraphStays DEF heap
    <3>2. Known' = Known
      BY <1>4 DEF Known
    <3> QED
      BY <1>4, <3>1, <3>2 DEF MarkInv, heap
  <2>3. SweepInv => SweepInv'
    <3>1. Old!Garbage' = Old!Garbage /\ Dead' = Dead
      BY <1>4, OldVerdictStays DEF heap
    <3>2. Handled' = Handled
      BY <1>4, <3>1 DEF Handled
    <3>3. /\ Old!ContentWithout(Handled)' = Old!ContentWithout(Handled)
          /\ Old!RcWithout(Handled)' = Old!RcWithout(Handled)
          /\ Old!OrphansWithout(Handled)' = Old!OrphansWithout(Handled)
      BY <1>4, <3>2 DEF heap, Old!ContentWithout, Old!RcWithout, Old!OrphansWithout,
                        Old!Dropped, Old!RefsTo, Old!Cells
    <3>4. /\ Old!OneMore(before.aq, Old!Pushed(Old!OrphansWithout(Handled), before.aq))' =
               Old!OneMore(before.aq, Old!Pushed(Old!OrphansWithout(Handled), before.aq))
          /\ Old!Restamped(Old!OrphansWithout(Handled), before.public, before.aq)' =
               Old!Restamped(Old!OrphansWithout(Handled), before.public, before.aq)
      BY <1>4, <3>3 DEF heap, Old!OneMore, Old!Pushed, Old!Restamped
    <3> QED
      BY <1>4, <3>1, <3>2, <3>3, <3>4 DEF SweepInv, heap
  <2> QED
    BY <2>1, <2>2, <2>3
<1>5. CASE Swept
  <2>1. /\ UNCHANGED << heap, before, objects_to_visit, not_reachable >>
        /\ phase = "sweep" /\ phase' = "done" /\ not_reachable = {} /\ not_reachable' = {}
    BY <1>5 DEF Swept
  <2> QED
    BY <1>4, <2>1 DEF IInv
<1>6. CASE UNCHANGED vars
  <2>1. UNCHANGED << heap, before, objects_to_visit, not_reachable >> /\ phase' = phase
    BY <1>6 DEF vars
  <2> QED
    BY <1>4, <2>1 DEF IInv
<1> QED
  BY <1>1, <1>2, <1>3, <1>5, <1>6 DEF Next

LEMMA Inductive == Spec => []IInv
BY InitInv, StepInv, PTL DEF Spec

(* In the middle of the sweep no cell of a living object, no garbage still *)
(* to be swept and no entry of the queue leads to an object already        *)
(* deleted: what the sweep deletes had no reference to begin with.         *)
THEOREM SweepIsSafe == Spec => []SweepTouchesLiving
<1>1. ASSUME IInv PROVE SweepTouchesLiving
  <2>1. CASE phase = "mark"
    <3>1. BeforeOK /\ MarkInv
      BY <1>1, <2>1 DEF IInv
    <3> QED
      BY <2>1, <3>1 DEF SweepTouchesLiving, BeforeOK, MarkInv, Known, Now!Children
  <2>2. CASE phase # "mark"
    <3>1. BeforeOK /\ SweepInv
      BY <1>1, <2>2 DEF IInv
    <3>2. \A p \in alive : Now!Children(p) \subseteq alive
      <4> SUFFICES ASSUME NEW p \in alive, NEW s \in Slots, content[p][s] # NoObject
                   PROVE  content[p][s] \in alive
        BY DEF Now!Children
      <4>1. p \in Objects
        BY <3>1 DEF SweepInv, BeforeOK
      <4>2. content[p][s] = before.content[p][s]
        BY <3>1, <4>1 DEF SweepInv, Old!ContentWithout, Old!Empty
      <4>3. content[p][s] \in Objects /\ << p, s >> \in Old!RefsTo(content[p][s])
        BY <3>1, <4>1, <4>2 DEF BeforeOK, Old!RefsTo, Old!Cells
      <4>4. content[p][s] \notin Dead
        BY <3>1, <4>3, DeadUnreferenced
      <4> QED
        BY <3>1, <4>3, <4>4 DEF SweepInv, BeforeOK
    <3>3. not_reachable \cup objects_to_visit \subseteq alive
      BY <3>1 DEF SweepInv, Handled, Old!Garbage
    <3>4. \A o \in Objects \ alive : aq[o] = 0
      <4> SUFFICES ASSUME NEW o \in Objects \ alive PROVE aq[o] = 0
        OBVIOUS
      <4>1. o \in Dead
        BY <3>1 DEF SweepInv, BeforeOK
      <4>2. before.aq[o] = 0 /\ Old!RefsTo(o) = {}
        BY <3>1, <4>1, DeadUnreferenced
      <4>3. o \notin Old!OrphansWithout(Handled)
        BY <4>2 DEF Old!OrphansWithout, Old!Dropped
      <4> QED
        BY <3>1, <4>2, <4>3, QueueInSweep
    <3> QED
      BY <3>2, <3>3, <3>4 DEF SweepTouchesLiving
  <2> QED
    BY <2>1, <2>2
<1> QED
  BY Inductive, <1>1, PTL

-----------------------------------------------------------------------------
(* Until it is done the collection shows the state it began in.            *)
LEMMA WholeIsOld ==
  ASSUME phase # "done"
  PROVE  /\ Whole!Garbage = Old!Garbage
         /\ \A o : Whole!NoOwners(o) <=> Old!NoOwners(o)
         /\ \A P : /\ Whole!ContentWithout(P) = Old!ContentWithout(P)
                   /\ Whole!RcWithout(P) = Old!RcWithout(P)
                   /\ Whole!OrphansWithout(P) = Old!OrphansWithout(P)
         /\ \A S, pub, aq0 : Whole!Restamped(S, pub, aq0) = Old!Restamped(S, pub, aq0)
<1>1. \A p : Whole!Children(p) = Old!Children(p)
  BY DEF Whole!Children, Old!Children
<1>2. \A S : Whole!Closed(S) <=> Old!Closed(S)
  BY <1>1 DEF Whole!Closed, Old!Closed
<1>3. Whole!GcRoots = Old!GcRoots
  BY DEF Whole!GcRoots, Old!GcRoots
<1>4. Whole!Garbage = Old!Garbage
  <2>1. Whole!Reachable(Whole!GcRoots) = Old!Reachable(Old!GcRoots)
    BY <1>2, <1>3 DEF Whole!Reachable, Old!Reachable
  <2> QED
    BY <2>1 DEF Whole!Garbage, Old!Garbage
<1>5. \A o : Whole!NoOwners(o) <=> Old!NoOwners(o)
  BY DEF Whole!NoOwners, Old!NoOwners
<1>6. \A o : Whole!RefsTo(o) = Old!RefsTo(o)
  BY DEF Whole!RefsTo, Old!RefsTo, Whole!Cells, Old!Cells
<1>7. \A o, P : Whole!Dropped(o, P) = Old!Dropped(o, P)
  BY <1>6 DEF Whole!Dropped, Old!Dropped
<1>8. \A P : Whole!RcWithout(P) = Old!RcWithout(P)
  BY <1>7, SameCardinality DEF Whole!RcWithout, Old!RcWithout
<1>9. \A P : Whole!OrphansWithout(P) = Old!OrphansWithout(P)
  BY <1>7, <1>8 DEF Whole!OrphansWithout, Old!OrphansWithout
<1>10. \A P : Whole!ContentWithout(P) = Old!ContentWithout(P)
  BY DEF Whole!ContentWithout, Old!ContentWithout, Whole!Empty, Old!Empty
<1>11. \A S, pub, aq0 : Whole!Restamped(S, pub, aq0) = Old!Restamped(S, pub, aq0)
  BY DEF Whole!Restamped, Old!Restamped, Whole!Pushed, Old!Pushed
<1> QED
  BY <1>4, <1>5, <1>8, <1>9, <1>10, <1>11

(* The end of the sweep is the step Collect; the steps before are none.    *)
LEMMA StepRefines == IInv /\ [Next]_vars => [Whole!Collect]_(Whole!vars)
<1> SUFFICES ASSUME IInv, [Next]_vars PROVE [Whole!Collect]_(Whole!vars)
  OBVIOUS
<1>1. CASE Swept
  <2>1. /\ BeforeOK /\ SweepInv /\ not_reachable = {}
        /\ phase = "sweep" /\ phase' = "done"
        /\ UNCHANGED heap
    BY <1>1 DEF IInv, Swept
  <2>2. Handled = Old!Garbage
    BY <2>1 DEF Handled
  <2> DEFINE G == Old!Garbage
  <2>3. /\ alive' = before.alive \ Dead
        /\ public' = before.public \ Dead
        /\ content' = Old!ContentWithout(G)
        /\ rc' = Old!RcWithout(G)
        /\ aq' = Old!OneMore(before.aq, Old!Pushed(Old!OrphansWithout(G), before.aq))
        /\ queue' = aq'
        /\ age' = Old!Restamped(Old!OrphansWithout(G), before.public, before.aq)
    <3>1. Dead \cap G = Dead
      BY DEF Dead
    <3> QED
      BY <2>1, <2>2, <3>1 DEF SweepInv, heap
  <2>4. /\ Whole!Garbage = G
        /\ {o \in Whole!Garbage : Whole!NoOwners(o)} = Dead
        /\ Whole!ContentWithout(G) = Old!ContentWithout(G)
        /\ Whole!RcWithout(G) = Old!RcWithout(G)
        /\ Whole!OrphansWithout(G) = Old!OrphansWithout(G)
        /\ Whole!Restamped(Old!OrphansWithout(G), before.public, before.aq)
             = Old!Restamped(Old!OrphansWithout(G), before.public, before.aq)
    BY <2>1, WholeIsOld DEF Dead
  <2>5. toRelease = Whole!Zero /\ UNCHANGED << held, tes, stack, toRelease >>
    BY <2>1 DEF BeforeOK, Whole!Zero, Old!Zero, heap
  <2> HIDE DEF G
  <2>6. Whole!Collect
    BY <2>1, <2>3, <2>4, <2>5 DEF Whole!Collect, Whole!Prolong, Whole!OneMore, Old!OneMore,
                                  Whole!Pushed, Old!Pushed
  <2> QED
    BY <2>6
<1>2. ASSUME phase # "done", phase' # "done", UNCHANGED << before, held, tes, stack, toRelease >>
      PROVE  UNCHANGED Whole!vars
  BY <1>2 DEF Whole!vars
<1>3. ASSUME NEW o \in Objects, Visit(o) \/ SweepClear(o) \/ SweepDelete(o)
      PROVE  UNCHANGED Whole!vars
  BY <1>2, <1>3 DEF Visit, SweepClear, SweepDelete, heap
<1>4. CASE Marked
  BY <1>2, <1>4 DEF Marked, heap
<1>5. CASE UNCHANGED vars
  BY <1>5 DEF vars, heap, Whole!vars
<1> QED
  BY <1>1, <1>3, <1>4, <1>5 DEF Next

(* u_collect, object by object, implements the single step Collect.        *)
THEOREM CollectsAsOne == Spec => ImplementsCollect
BY Inductive, StepRefines, PTL DEF Spec, ImplementsCollect
=============================================================================
