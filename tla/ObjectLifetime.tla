--------------------------- MODULE ObjectLifetime ---------------------------
(***************************************************************************)
(* The lifetime of JContainers' container objects: the four reference      *)
(* counters of object_base, the autorelease queue (aqueue), which owns an  *)
(* object for a while after its last owner let it go, and the garbage      *)
(* collector that a game load and the tests run.                           *)
(*                                                                         *)
(* An action is one native call, one Lua operation or one step of the      *)
(* timer thread.  Natives run concurrently; here the counter updates of    *)
(* one call are one step (object_base's own interleavings are the subject  *)
(* of ReleaseRace), while calls of several holders, and the release of the *)
(* objects that one tick picked, interleave freely.                        *)
(*                                                                         *)
(* An object's time stamp is modelled by its age in the queue:             *)
(*     age = time_subtract(_tickCounter, _aqueue_push_time),               *)
(* kept at 0 for an object the deque does not hold (the code leaves a      *)
(* stamp nobody reads).  That the wrapping counter yields this age is what *)
(* TickRing shows.  The order of the deque is abstracted: objects due at   *)
(* the same tick are released in any order.                                *)
(***************************************************************************)
EXTENDS Integers, FiniteSets

CONSTANTS
  Objects,   (* memory an object can occupy; reused after deletion         *)
  Slots,     (* array indices or map keys of a container                   *)
  Holders,   (* running native calls and Lua contexts: owners of stack     *)
             (* references                                                 *)
  NoObject,  (* a slot that references no object                           *)
  Life,      (* obj_lifeInTicks                                            *)
  MaxTes     (* bound on the times a script retains one object             *)

ASSUME FiniteAssumption ==
  /\ IsFiniteSet(Objects)
  /\ IsFiniteSet(Slots)
  /\ IsFiniteSet(Holders)
  /\ NoObject \notin Objects
ASSUME BoundsAssumption == Life \in Nat \ {0} /\ MaxTes \in Nat

VARIABLES
  alive,     (* _all_objects: the objects that exist                       *)
  public,    (* the objects with an id: those _map resolves                *)
  content,   (* content[p][s]: the object that slot s of p references      *)
  held,      (* held[h]: the objects h has a stack reference to            *)
  rc,        (* _refCount: references from containers                      *)
  tes,       (* _tes_refCount: JValue.retain calls not yet released        *)
  stack,     (* _stack_refCount                                            *)
  aq,        (* _aqueue_refCount                                           *)
  queue,     (* queue[o]: how many references to o the deque holds         *)
  age,       (* see above                                                  *)
  toRelease  (* references a tick moved out of the deque, not yet released *)

vars == << alive, public, content, held, rc, tes, stack, aq, queue, age, toRelease >>

Zero == [o \in Objects |-> 0]
Empty == [s \in Slots |-> NoObject]

NoOwners(o) == rc[o] <= 0 /\ tes[o] <= 0 /\ aq[o] <= 0 /\ stack[o] <= 0

(* Faulty variants: one kind of owner is not counted.                      *)
RefCount_without_stack(o) == rc[o] + tes[o] + aq[o]

RefCount_without_tes(o) == rc[o] + stack[o] + aq[o]

RefCount(o) == rc[o] + tes[o] + stack[o] + aq[o]

Cells == Objects \X Slots

(* The cells that reference o: the actual owners _refCount counts. *)
RefsTo(o) == {c \in Cells : content[c[1]][c[2]] = o}

(* Parts of the graph walk of the collector. *)
Children(p) == {content[p][s] : s \in Slots} \ {NoObject}

Closed(S) == \A p \in S : Children(p) \subseteq S

Reachable(roots) ==
  {o \in alive : \A S \in SUBSET alive : roots \subseteq S /\ Closed(S) => o \in S}

-----------------------------------------------------------------------------
(***************************************************************************)
(* autorelease_queue.  An object of S that the queue does not own yet is   *)
(* pushed; its time stamp is renewed in any case: "now" for an object of   *)
(* pub, a whole lifetime ago for the others, so that they go at the next   *)
(* tick.                                                                   *)
(***************************************************************************)
Pushed(S, aq0) == {o \in S : aq0[o] <= 0}

OneMore(f, S) == [o \in Objects |-> IF o \in S THEN f[o] + 1 ELSE f[o]]

Restamped(S, pub, aq0) ==
  [o \in Objects |->
     IF o \in Pushed(S, aq0) \/ (o \in S /\ queue[o] > 0)
     THEN IF o \in pub THEN 0 ELSE Life
     ELSE age[o]]

Prolong(S, pub, aq0) ==
  /\ aq'    = OneMore(aq0, Pushed(S, aq0))
  /\ queue' = OneMore(queue, Pushed(S, aq0))
  /\ age'   = Restamped(S, pub, aq0)

NotProlong(o) ==
  age' = IF aq[o] > 0 /\ queue[o] > 0 THEN [age EXCEPT ![o] = Life] ELSE age

(* What is left of the containers of P when they drop all they hold, and   *)
(* the objects that thereby lose their last owner.                         *)
Dropped(o, P) == RefsTo(o) \cap (P \X Slots)

RcWithout(P) == [o \in Objects |-> rc[o] - Cardinality(Dropped(o, P))]

(* Faulty variant: release() never hands an object over to the queue.      *)
OrphansWithout_forgotten(P) == {}

OrphansWithout(P) ==
  {o \in Objects : /\ Dropped(o, P) # {}
                   /\ RcWithout(P)[o] <= 0
                   /\ tes[o] <= 0 /\ aq[o] <= 0 /\ stack[o] <= 0}

ContentWithout(P) == [p \in Objects |-> IF p \in P THEN Empty ELSE content[p]]

-----------------------------------------------------------------------------
Init ==
  /\ alive = {} /\ public = {}
  /\ content = [o \in Objects |-> Empty]
  /\ held = [h \in Holders |-> {}]
  /\ rc = Zero /\ tes = Zero /\ stack = Zero
  /\ aq = Zero /\ queue = Zero /\ age = Zero /\ toRelease = Zero

(* A script creates an object: it is registered and, on its way back to    *)
(* the script, exposed by uid().                                           *)
Create(o) ==
  /\ o \notin alive
  /\ alive' = alive \cup {o}
  /\ public' = public \cup {o}
  /\ Prolong({o}, {o}, aq)
  /\ UNCHANGED << content, held, rc, tes, stack, toRelease >>

(* Lua creates an object: it has no id, the Lua value holds it.            *)
LuaCreate(h, o) ==
  /\ o \notin alive
  /\ alive' = alive \cup {o}
  /\ held' = [held EXCEPT ![h] = @ \cup {o}]
  /\ stack' = [stack EXCEPT ![o] = @ + 1]
  /\ UNCHANGED << public, content, rc, tes, aq, queue, age, toRelease >>

(* An object argument of a native call is resolved from its id, and a Lua  *)
(* value is made from an id or from an item of a container.                *)
StackRetain(h, o) ==
  /\ o \in alive \ held[h]
  /\ \/ o \in public
     \/ \E p \in held[h] : o \in Children(p)
  /\ held' = [held EXCEPT ![h] = @ \cup {o}]
  /\ stack' = [stack EXCEPT ![o] = @ + 1]
  /\ UNCHANGED << alive, public, content, rc, tes, aq, queue, age, toRelease >>

StackRelease(h, o) ==
  /\ o \in held[h]
  /\ held' = [held EXCEPT ![h] = @ \ {o}]
  /\ stack' = IF stack[o] > 0 THEN [stack EXCEPT ![o] = @ - 1] ELSE stack
  /\ Prolong({q \in {o} : /\ stack[q] > 0
                          /\ stack[q] - 1 <= 0
                          /\ rc[q] <= 0 /\ tes[q] <= 0 /\ aq[q] <= 0}, public, aq)
  /\ UNCHANGED << alive, public, content, rc, tes, toRelease >>

(* A call or a Lua function returns an object that has no id yet.          *)
Expose(h, o) ==
  /\ o \in alive \ public
  /\ o \in held[h] \/ \E p \in held[h] : o \in Children(p)
  /\ public' = public \cup {o}
  /\ Prolong(IF rc[o] = 0 THEN {o} ELSE {}, public', aq)
  /\ UNCHANGED << alive, content, held, rc, tes, stack, toRelease >>

(* Container item assignment, insertion and removal (v = NoObject).  The   *)
(* new value is retained before the old one is released.                   *)
Store(h, p, s, v) ==
  LET old == content[p][s]
      rcAfter == [o \in Objects |->
                    rc[o] + (IF o = v THEN 1 ELSE 0) - (IF o = old THEN 1 ELSE 0)]
  IN
  /\ p \in held[h]
  /\ v \in held[h] \cup {NoObject}
  /\ content' = [content EXCEPT ![p][s] = v]
  /\ rc' = rcAfter
  /\ Prolong({o \in Objects : /\ o = old
                              /\ rcAfter[o] <= 0
                              /\ tes[o] <= 0 /\ aq[o] <= 0 /\ stack[o] <= 0}, public, aq)
  /\ UNCHANGED << alive, public, held, tes, stack, toRelease >>

Clear(h, p) ==
  /\ p \in held[h]
  /\ content' = ContentWithout({p})
  /\ rc' = RcWithout({p})
  /\ Prolong(OrphansWithout({p}), public, aq)
  /\ UNCHANGED << alive, public, held, tes, stack, toRelease >>

(* JValue.retain, release, releaseAndRetain and zeroLifetime.              *)
TesRetain(h, o) ==
  /\ o \in held[h]
  /\ tes[o] < MaxTes
  /\ tes' = [tes EXCEPT ![o] = @ + 1]
  /\ NotProlong(o)
  /\ UNCHANGED << alive, public, content, held, rc, stack, aq, queue, toRelease >>

TesRelease(h, o) ==
  /\ o \in held[h]
  /\ tes[o] > 0
  /\ tes' = [tes EXCEPT ![o] = @ - 1]
  /\ Prolong({q \in {o} : /\ tes[q] - 1 <= 0
                          /\ rc[q] <= 0 /\ aq[q] <= 0 /\ stack[q] <= 0}, {o}, aq)
  /\ UNCHANGED << alive, public, content, held, rc, stack, toRelease >>

ZeroLifetime(h, o) ==
  /\ o \in held[h]
  /\ NotProlong(o)
  /\ UNCHANGED << alive, public, content, held, rc, tes, stack, aq, queue, toRelease >>

-----------------------------------------------------------------------------
(* tick(), first half: under the queue's mutex the entries that are due    *)
(* are moved out and the tick counter is incremented.  One tick ends       *)
(* before the next begins.                                                 *)
Due(o) == queue[o] > 0 /\ age[o] + 1 >= Life

TickScan ==
  /\ toRelease = Zero
  /\ toRelease' = [o \in Objects |-> IF Due(o) THEN queue[o] ELSE 0]
  /\ queue' = [o \in Objects |-> IF Due(o) THEN 0 ELSE queue[o]]
  /\ age' = [o \in Objects |-> IF queue[o] > 0 /\ ~Due(o) THEN age[o] + 1 ELSE 0]
  /\ UNCHANGED << alive, public, content, held, rc, tes, stack, aq >>

(* tick(), second half, object by object and without the mutex:            *)
(* _aqueue_release deletes the object if the queue is its only owner.      *)
(* Deleting it drops the objects it references.                            *)
AQueueDelete(o) ==
  /\ toRelease[o] > 0
  /\ RefCount(o) <= 1
  /\ toRelease' = [toRelease EXCEPT ![o] = @ - 1]
  /\ alive' = alive \ {o}
  /\ public' = public \ {o}
  /\ content' = ContentWithout({o})
  /\ rc' = RcWithout({o})
  /\ Prolong(OrphansWithout({o}), public, [aq EXCEPT ![o] = 0])
  /\ UNCHANGED << held, tes, stack >>

AQueueForget(o) ==
  /\ toRelease[o] > 0
  /\ RefCount(o) > 1
  /\ toRelease' = [toRelease EXCEPT ![o] = @ - 1]
  /\ aq' = [aq EXCEPT ![o] = @ - 1]
  /\ UNCHANGED << alive, public, content, held, rc, tes, stack, queue, age >>

AQueueRelease(o) == AQueueDelete(o) \/ AQueueForget(o)

(* The collector.  Roots are what a script retains and what the queue      *)
(* owns; stack references do not count.  Garbage without owners is         *)
(* deleted, other garbage is emptied, so that cycles fall apart and their  *)
(* members pass into the queue.  Garbage is referenced by garbage only,    *)
(* hence the order in which the collector visits it does not matter (the   *)
(* module GarbageCollector shows this).                                    *)
GcRoots == {o \in alive : tes[o] > 0 \/ aq[o] > 0}

Garbage == alive \ Reachable(GcRoots)

(* Faulty variant: garbage that has owners, a cycle, is left as it is.     *)
Collect_unowned_only ==
  LET dead == {o \in Garbage : NoOwners(o)} IN
  /\ toRelease = Zero
  /\ alive' = alive \ dead
  /\ public' = public \ dead
  /\ content' = ContentWithout(dead)
  /\ rc' = RcWithout(dead)
  /\ Prolong(OrphansWithout(dead), public, aq)
  /\ UNCHANGED << held, tes, stack, toRelease >>

Collect ==
  LET dead == {o \in Garbage : NoOwners(o)} IN
  /\ toRelease = Zero
  /\ alive' = alive \ dead
  /\ public' = public \ dead
  /\ content' = ContentWithout(Garbage)
  /\ rc' = RcWithout(Garbage)
  /\ Prolong(OrphansWithout(Garbage), public, aq)
  /\ UNCHANGED << held, tes, stack, toRelease >>

(* u_clearState, on revert, load and shutdown: the Lua contexts are closed *)
(* first, no native runs, the timer is stopped.                            *)
ClearState ==
  /\ toRelease = Zero
  /\ alive' = {} /\ public' = {}
  /\ content' = [o \in Objects |-> Empty]
  /\ held' = [h \in Holders |-> {}]
  /\ rc' = Zero /\ tes' = Zero /\ stack' = Zero
  /\ aq' = Zero /\ queue' = Zero /\ age' = Zero
  /\ UNCHANGED toRelease

Next ==
  \/ \E o \in Objects : Create(o)
  \/ \E h \in Holders, o \in Objects :
       \/ LuaCreate(h, o)
       \/ StackRetain(h, o)
       \/ StackRelease(h, o)
       \/ Expose(h, o)
       \/ Clear(h, o)
       \/ TesRetain(h, o)
       \/ TesRelease(h, o)
       \/ ZeroLifetime(h, o)
  \/ \E h \in Holders, p \in Objects, s \in Slots, v \in Objects \cup {NoObject} :
       Store(h, p, s, v)
  \/ TickScan
  \/ \E o \in Objects : AQueueDelete(o)
  \/ \E o \in Objects : AQueueForget(o)
  \/ Collect
  \/ ClearState

Spec == Init /\ [][Next]_vars

(* The timer thread keeps ticking and finishes what a tick began.          *)
Fairness ==
  /\ WF_vars(TickScan)
  /\ \A o \in Objects : WF_vars(AQueueRelease(o))

FairSpec == Spec /\ Fairness

-----------------------------------------------------------------------------
(* Every variable has its type; counters never go negative.                *)
TypeOK ==
  /\ alive \in SUBSET Objects
  /\ public \in SUBSET Objects
  /\ content \in [Objects -> [Slots -> Objects \cup {NoObject}]]
  /\ held \in [Holders -> SUBSET Objects]
  /\ rc \in [Objects -> Nat]
  /\ tes \in [Objects -> 0 .. MaxTes]
  /\ stack \in [Objects -> Nat]
  /\ aq \in [Objects -> Nat]
  /\ queue \in [Objects -> Nat]
  /\ toRelease \in [Objects -> Nat]
  /\ age \in [Objects -> 0 .. Life]

(* _refCount, _stack_refCount and _aqueue_refCount are what their names    *)
(* say: the number of container cells, of stack references and of queue    *)
(* entries that reference the object, however calls, ticks, deletions and  *)
(* collections follow one another; the queue never owns an object twice.   *)
(* _aqueue_release decides on deletion from the sum of the counters alone. *)
RcExact == \A o \in Objects : rc[o] = Cardinality(RefsTo(o))

StackExact == \A o \in Objects : stack[o] = Cardinality({h \in Holders : o \in held[h]})

AQueueExact == \A o \in Objects : aq[o] = queue[o] + toRelease[o] /\ aq[o] <= 1

CountersExact == RcExact /\ StackExact /\ AQueueExact

(* Nothing references memory of a deleted object: no cell of a container,  *)
(* no stack reference, no entry of the queue, no id, and no object a       *)
(* script has retained is gone.                                            *)
NoDangling ==
  /\ \A p \in Objects : Children(p) \subseteq alive
  /\ \A p \in Objects \ alive : Children(p) = {}
  /\ \A h \in Holders : held[h] \subseteq alive
  /\ public \subseteq alive
  /\ \A o \in Objects \ alive : aq[o] = 0 /\ tes[o] = 0

(* "We must ensure that not-owned object will not hang forever"            *)
(* (object_base::uid): whatever exists has an owner, be it the queue.      *)
(* Saving a game asserts it of every object (object_base_serialization.h). *)
NoOrphans == \A o \in alive : ~NoOwners(o)

(* Only u_clearState takes away an object that a script retains, a         *)
(* container references or a call holds; ticks and collections never do.   *)
KeptWhileOwned ==
  [][\A o \in alive \ alive' :
       ClearState \/ ( /\ tes[o] = 0
                       /\ RefsTo(o) = {}
                       /\ \A h \in Holders : o \notin held[h])]_vars

(* A collection is complete: what a second one would find is what stack    *)
(* references keep, so cyclic garbage has passed into the queue.           *)
GcComplete == [][Collect => \A o \in Garbage' : stack[o] > 0]_vars

(* What no script retains and no call holds, directly or through           *)
(* containers, and what no cycle of containers keeps, is deleted in the    *)
(* end - level by level, as each deletion passes its children into the     *)
(* queue - unless somebody takes it again.  Cycles wait for the collector. *)
Wanted == Reachable({o \in alive : tes[o] > 0 \/ stack[o] > 0})

KeptByCycle == Reachable({o \in alive : o \in Reachable(Children(o))})

Reclaimed ==
  \A o \in Objects : o \in alive ~> (o \notin alive \/ o \in Wanted \/ o \in KeptByCycle)
=============================================================================
