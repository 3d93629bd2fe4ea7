-------------------------- MODULE GarbageCollector --------------------------
(***************************************************************************)
(* garbage_collector::u_collect, object by object: the roots, the walk     *)
(* over what they reach, and the sweep, which visits garbage in the order  *)
(* of a hash set and releases references, hence fills the queue, while it  *)
(* goes.  ObjectLifetime takes a collection as the single step Collect;    *)
(* this module shows that the loop amounts to that step, from any graph    *)
(* and in any order.  Nothing else runs meanwhile.                         *)
(***************************************************************************)
EXTENDS Integers, FiniteSets

CONSTANTS Objects, Slots, Holders, NoObject, Life, MaxTes

(* As in ObjectLifetime.                                                   *)
ASSUME GcAssumption ==
  /\ IsFiniteSet(Objects)
  /\ IsFiniteSet(Slots)
  /\ IsFiniteSet(Holders)
  /\ NoObject \notin Objects
  /\ Life \in Nat \ {0}
  /\ MaxTes \in Nat

VARIABLES
  alive, public, content, held, rc, tes, stack, aq, queue, age, toRelease,
  before,            (* the state the collection began in                  *)
  phase,             (* "mark", "sweep" or "done"                          *)
  objects_to_visit,
  not_reachable      (* in the sweep: the garbage not yet swept            *)

heap == << alive, public, content, held, rc, tes, stack, aq, queue, age, toRelease >>

vars == << heap, before, phase, objects_to_visit, not_reachable >>

(* The operators of ObjectLifetime on the present state.                   *)
Now == INSTANCE ObjectLifetime

(* u_clear and the destructor release each item.                           *)
DropContent(o) ==
  /\ content' = Now!ContentWithout({o})
  /\ rc' = Now!RcWithout({o})
  /\ Now!Prolong(Now!OrphansWithout({o}), public, aq)

-----------------------------------------------------------------------------
(* Any graph with exact counters: also one with orphans, for a loaded game *)
(* has lost its stack references.  Of the two owners that make an object a *)
(* root one is enough.                                                     *)
Init ==
  /\ alive = Objects
  /\ public \in {{}, Objects}
  /\ content \in [Objects -> [Slots -> Objects \cup {NoObject}]]
  /\ held \in [Holders -> SUBSET Objects]
  /\ rc = [o \in Objects |-> Cardinality(Now!RefsTo(o))]
  /\ tes \in [Objects -> 0 .. MaxTes]
  /\ stack = [o \in Objects |-> Cardinality({h \in Holders : o \in held[h]})]
  /\ aq \in [Objects -> 0 .. 1]
  /\ \A o \in Objects : tes[o] > 0 => aq[o] = 0
  /\ queue = aq
  /\ age = [o \in Objects |-> 0]
  /\ toRelease = [o \in Objects |-> 0]
  /\ before = [alive |-> alive, public |-> public, content |-> content, rc |-> rc,
               aq |-> aq, age |-> age]
  /\ phase = "mark"
  /\ objects_to_visit = Now!GcRoots
  /\ not_reachable = alive \ Now!GcRoots

(* Faulty variant: a referenced object is struck off the garbage but not   *)
(* visited itself.                                                         *)
Visit_without_push(o) ==
  /\ phase = "mark"
  /\ o \in objects_to_visit
  /\ not_reachable' = not_reachable \ Now!Children(o)
  /\ objects_to_visit' = objects_to_visit \ {o}
  /\ UNCHANGED << heap, before, phase >>

(* The visitor: what the visited object references and is still unvisited. *)
found(o) == Now!Children(o) \cap not_reachable

(* findNonReachable: visit one object.                                     *)
Visit(o) ==
  /\ phase = "mark"
  /\ o \in objects_to_visit
  /\ not_reachable' = not_reachable \ found(o)
  /\ objects_to_visit' = (objects_to_visit \ {o}) \cup found(o)
  /\ UNCHANGED << heap, before, phase >>

Marked ==
  /\ phase = "mark"
  /\ objects_to_visit = {}
  /\ phase' = "sweep"
  /\ UNCHANGED << heap, before, objects_to_visit, not_reachable >>

(* collectGarbage: part of a graph ...                                     *)
SweepClear(o) ==
  /\ phase = "sweep"
  /\ o \in not_reachable
  /\ ~Now!NoOwners(o)
  /\ not_reachable' = not_reachable \ {o}
  /\ DropContent(o)
  /\ UNCHANGED << alive, public, held, tes, stack, toRelease, before, phase, objects_to_visit >>

(* Faulty variant: parts of graphs are deleted as well.                    *)
is_deletable_always(o) == TRUE

is_deletable(o) == Now!NoOwners(o)

(* ... or owned by nobody.                                                 *)
SweepDelete(o) ==
  /\ phase = "sweep"
  /\ o \in not_reachable
  /\ is_deletable(o)
  /\ not_reachable' = not_reachable \ {o}
  /\ alive' = alive \ {o}
  /\ public' = public \ {o}
  /\ DropContent(o)
  /\ UNCHANGED << held, tes, stack, toRelease, before, phase, objects_to_visit >>

Swept ==
  /\ phase = "sweep"
  /\ not_reachable = {}
  /\ phase' = "done"
  /\ UNCHANGED << heap, before, objects_to_visit, not_reachable >>

Next ==
  \/ \E o \in Objects : Visit(o) \/ SweepClear(o) \/ SweepDelete(o)
  \/ Marked
  \/ Swept

Spec == Init /\ [][Next]_vars

-----------------------------------------------------------------------------
(* In the middle of the sweep too no cell references a deleted object: the *)
(* visitor and the releases of the next objects touch what exists.         *)
SweepTouchesLiving ==
  /\ \A p \in alive : Now!Children(p) \subseteq alive
  /\ phase # "done" => not_reachable \cup objects_to_visit \subseteq alive
  /\ \A o \in Objects \ alive : aq[o] = 0

(* The whole collection, taken as one step, is Collect of ObjectLifetime.  *)
Whole == INSTANCE ObjectLifetime WITH
  alive   <- IF phase = "done" THEN alive ELSE before.alive,
  public  <- IF phase = "done" THEN public ELSE before.public,
  content <- IF phase = "done" THEN content ELSE before.content,
  rc      <- IF phase = "done" THEN rc ELSE before.rc,
  aq      <- IF phase = "done" THEN aq ELSE before.aq,
  queue   <- IF phase = "done" THEN queue ELSE before.aq,
  age     <- IF phase = "done" THEN age ELSE before.age

ImplementsCollect == [][Whole!Collect]_(Whole!vars)
=============================================================================
