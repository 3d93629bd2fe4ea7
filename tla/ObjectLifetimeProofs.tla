------------------------ MODULE ObjectLifetimeProofs ------------------------
(***************************************************************************)
(* Proofs about ObjectLifetime, and about SaveLoad in the second half, for *)
(* any finite sets of objects, cells and holders, any lifetime and any     *)
(* number of retains.                                                      *)
(*                                                                         *)
(* The inductive invariant IInv joins the exactness of the counters to the *)
(* absence of dangling references and of orphans: deletion is decided on   *)
(* the counters, so only exact counters make it safe, and counters stay    *)
(* exact only while no cell of a deleted object counts.                    *)
(***************************************************************************)
EXTENDS SaveLoad, FiniteSetTheorems, TLAPS

Core ==
  /\ TypeOK
  /\ RcExact
  /\ StackExact
  /\ AQueueExact
  /\ NoDangling

IInv == Core /\ NoOrphans

USE FiniteAssumption, BoundsAssumption

-----------------------------------------------------------------------------
(* The cells that reference an object are finitely many.                   *)
LEMMA RefsFinite ==
  ASSUME NEW o \in Objects
  PROVE  /\ IsFiniteSet(RefsTo(o)) /\ Cardinality(RefsTo(o)) \in Nat
         /\ IsFiniteSet(RefsTo(o)') /\ Cardinality(RefsTo(o)') \in Nat
<1>1. IsFiniteSet(Cells)
  BY FS_Product DEF Cells
<1>2. RefsTo(o) \in SUBSET Cells /\ RefsTo(o)' \in SUBSET Cells
  BY DEF RefsTo, Cells
<1>3. IsFiniteSet(RefsTo(o)) /\ IsFiniteSet(RefsTo(o)')
  BY <1>1, <1>2, FS_Subset
<1> QED
  BY <1>3, FS_CardinalityType

LEMMA HoldersFinite ==
  ASSUME NEW o
  PROVE  LET H == {h \in Holders : o \in held[h]} IN
         IsFiniteSet(H) /\ Cardinality(H) \in Nat
<1> DEFINE H == {h \in Holders : o \in held[h]}
<1>1. H \in SUBSET Holders
  OBVIOUS
<1>2. IsFiniteSet(H)
  BY <1>1, FS_Subset
<1> QED
  BY <1>2, FS_CardinalityType

(* No reference, no owner.                                                 *)
LEMMA NoRefs ==
  ASSUME RcExact, NEW o \in Objects
  PROVE  rc[o] = 0 <=> RefsTo(o) = {}
BY RefsFinite, FS_EmptySet DEF RcExact

LEMMA NoHolders ==
  ASSUME StackExact, NEW o \in Objects, stack[o] = 0, NEW h \in Holders
  PROVE  o \notin held[h]
<1> DEFINE H == {g \in Holders : o \in held[g]}
<1>1. IsFiniteSet(H) /\ Cardinality(H) = 0
  BY HoldersFinite DEF StackExact
<1>2. H = {}
  BY <1>1, FS_EmptySet
<1> QED
  BY <1>2

LEMMA ChildHasRef ==
  ASSUME TypeOK, NEW p \in Objects, NEW o \in Objects, o \in Children(p)
  PROVE  RefsTo(o) # {}
<1>1. PICK s \in Slots : content[p][s] = o
  BY DEF Children
<1>2. << p, s >> \in RefsTo(o)
  BY <1>1 DEF RefsTo, Cells
<1> QED
  BY <1>2

-----------------------------------------------------------------------------
(* What it means for the counters that the containers of P are emptied.    *)
LEMMA DropRefs ==
  ASSUME TypeOK, RcExact, NEW P \in SUBSET Objects,
         content' = ContentWithout(P), rc' = RcWithout(P)
  PROVE  /\ content' \in [Objects -> [Slots -> Objects \cup {NoObject}]]
         /\ rc' \in [Objects -> Nat]
         /\ RcExact'
         /\ \A o \in Objects : /\ Dropped(o, P) = {} => rc'[o] = rc[o]
                               /\ rc'[o] <= rc[o]
                               /\ rc'[o] = RcWithout(P)[o]
<1>1. content' \in [Objects -> [Slots -> Objects \cup {NoObject}]]
  BY DEF TypeOK, ContentWithout, Empty
<1>2. ASSUME NEW o \in Objects
      PROVE  /\ rc'[o] = Cardinality(RefsTo(o)')
             /\ rc'[o] \in Nat
             /\ Dropped(o, P) = {} => rc'[o] = rc[o]
             /\ rc'[o] <= rc[o]
  <2>1. RefsTo(o)' = RefsTo(o) \ (P \X Slots)
    BY DEF TypeOK, RefsTo, ContentWithout, Cells, Empty
  <2>2. IsFiniteSet(RefsTo(o)) /\ Cardinality(RefsTo(o)) \in Nat
    BY RefsFinite
  <2>3. Cardinality(RefsTo(o) \ (P \X Slots)) = Cardinality(RefsTo(o)) - Cardinality(Dropped(o, P))
    BY <2>2, FS_Difference DEF Dropped
  <2>4. IsFiniteSet(Dropped(o, P))
    BY <2>2, FS_Intersection DEF Dropped
  <2>5. Cardinality(Dropped(o, P)) \in Nat /\ (Dropped(o, P) = {} => Cardinality(Dropped(o, P)) = 0)
    BY <2>4, FS_CardinalityType, FS_EmptySet
  <2>6. rc'[o] = rc[o] - Cardinality(Dropped(o, P))
    BY DEF RcWithout
  <2>7. Cardinality(RefsTo(o)') \in Nat
    BY RefsFinite
  <2>8. rc[o] = Cardinality(RefsTo(o))
    BY DEF RcExact
  <2> HIDE DEF Dropped
  <2> QED
    BY <2>1, <2>2, <2>3, <2>5, <2>6, <2>7, <2>8
<1>3. rc' \in [Objects -> Nat]
  <2>1. rc' = [o \in Objects |-> rc'[o]]
    BY DEF RcWithout
  <2> QED
    BY <1>2, <2>1
<1>4. RcExact'
  BY <1>2 DEF RcExact
<1> QED
  BY <1>1, <1>2, <1>3, <1>4

(* What Prolong does to the queue.                                         *)
QueueOK ==
  /\ aq \in [Objects -> Nat]
  /\ queue \in [Objects -> Nat]
  /\ age \in [Objects -> 0 .. Life]
  /\ AQueueExact

LEMMA ProlongEffect ==
  ASSUME queue \in [Objects -> Nat], age \in [Objects -> 0 .. Life],
         NEW S \in SUBSET Objects, NEW pub,
         NEW aq0 \in [Objects -> Nat],
         toRelease' \in [Objects -> Nat],
         \A o \in Objects : aq0[o] = queue[o] + toRelease'[o] /\ aq0[o] <= 1,
         aq' = OneMore(aq0, Pushed(S, aq0)),
         queue' = OneMore(queue, Pushed(S, aq0)),
         age' = Restamped(S, pub, aq0)
  PROVE  /\ QueueOK'
         /\ \A o \in Objects : aq'[o] = IF o \in S THEN 1 ELSE aq0[o]
<1>1. age' \in [Objects -> 0 .. Life]
  BY DEF Restamped
<1>2. aq' \in [Objects -> Nat] /\ queue' \in [Objects -> Nat]
  BY DEF OneMore, Pushed
<1>3. \A o \in Objects : aq'[o] = IF o \in S THEN 1 ELSE aq0[o]
  BY DEF OneMore, Pushed
<1>4. AQueueExact'
  BY DEF OneMore, Pushed, AQueueExact
<1> QED
  BY <1>1, <1>2, <1>3, <1>4 DEF QueueOK

(* The usual case: the counters before Prolong are those of the state, and *)
(* the tick's list is left alone.                                          *)
LEMMA ProlongStep ==
  ASSUME TypeOK, AQueueExact, NEW S \in SUBSET Objects, NEW pub, UNCHANGED toRelease,
         aq' = OneMore(aq, Pushed(S, aq)),
         queue' = OneMore(queue, Pushed(S, aq)),
         age' = Restamped(S, pub, aq)
  PROVE  /\ QueueOK'
         /\ \A o \in Objects : aq'[o] = IF o \in S THEN 1 ELSE aq[o]
<1>1. queue \in [Objects -> Nat] /\ age \in [Objects -> 0 .. Life] /\ aq \in [Objects -> Nat]
  BY DEF TypeOK
<1>2. toRelease' \in [Objects -> Nat]
  BY DEF TypeOK
<1>3. \A o \in Objects : aq[o] = queue[o] + toRelease'[o] /\ aq[o] <= 1
  BY DEF AQueueExact
<1> QED
  BY <1>1, <1>2, <1>3, ProlongEffect

-----------------------------------------------------------------------------
(* Steps that touch no container keep RcExact, those that touch no stack   *)
(* reference keep StackExact.                                              *)
LEMMA RcKept ==
  ASSUME RcExact, UNCHANGED << content, rc >>
  PROVE  RcExact'
BY DEF RcExact, RefsTo

LEMMA ChildrenKept ==
  ASSUME UNCHANGED content, NEW p
  PROVE  Children(p)' = Children(p)
BY DEF Children

LEMMA StackKept ==
  ASSUME StackExact, UNCHANGED << held, stack >>
  PROVE  StackExact'
BY DEF StackExact

LEMMA StackAdded ==
  ASSUME TypeOK, StackExact, NEW h \in Holders, NEW o \in Objects \ held[h],
         held' = [held EXCEPT ![h] = @ \cup {o}], stack' = [stack EXCEPT ![o] = @ + 1]
  PROVE  StackExact'
<1> SUFFICES ASSUME NEW q \in Objects
             PROVE  stack'[q] = Cardinality({g \in Holders : q \in held'[g]})
  BY DEF StackExact
<1> DEFINE H == {g \in Holders : q \in held[g]}
           HH == {g \in Holders : q \in held'[g]}
<1>1. IsFiniteSet(H) /\ stack[q] = Cardinality(H)
  BY HoldersFinite DEF StackExact
<1>2. CASE q = o
  <2>1. HH = H \cup {h} /\ h \notin H
    BY <1>2 DEF TypeOK
  <2>2. Cardinality(HH) = Cardinality(H) + 1
    BY <1>1, <2>1, FS_AddElement
  <2> QED
    BY <1>1, <1>2, <2>2 DEF TypeOK
<1>3. CASE q # o
  <2>1. HH = H
    BY <1>3 DEF TypeOK
  <2> QED
    BY <1>1, <1>3, <2>1 DEF TypeOK
<1> QED
  BY <1>2, <1>3

LEMMA StackRemoved ==
  ASSUME TypeOK, StackExact, NEW h \in Holders, NEW o \in held[h],
         held' = [held EXCEPT ![h] = @ \ {o}],
         stack' = IF stack[o] > 0 THEN [stack EXCEPT ![o] = @ - 1] ELSE stack
  PROVE  StackExact' /\ stack[o] > 0
<1>0. o \in Objects
  BY DEF TypeOK
<1>1. stack[o] > 0
  BY <1>0, NoHolders DEF TypeOK
<1> SUFFICES ASSUME NEW q \in Objects
             PROVE  stack'[q] = Cardinality({g \in Holders : q \in held'[g]})
  BY <1>1 DEF StackExact
<1> DEFINE H == {g \in Holders : q \in held[g]}
           HH == {g \in Holders : q \in held'[g]}
<1>2. IsFiniteSet(H) /\ stack[q] = Cardinality(H)
  BY HoldersFinite DEF StackExact
<1>3. CASE q = o
  <2>1. HH = H \ {h} /\ h \in H
    BY <1>3 DEF TypeOK
  <2>2. Cardinality(HH) = Cardinality(H) - 1
    BY <1>2, <2>1, FS_RemoveElement
  <2> QED
    BY <1>1, <1>2, <1>3, <2>2 DEF TypeOK
<1>4. CASE q # o
  <2>1. HH = H
    BY <1>4 DEF TypeOK
  <2> QED
    BY <1>1, <1>2, <1>4, <2>1 DEF TypeOK
<1> QED
  BY <1>3, <1>4

-----------------------------------------------------------------------------
(* One lemma for each action.                                              *)
LEMMA CreateStep ==
  ASSUME IInv, NEW o \in Objects, Create(o)
  PROVE  IInv'
<1> USE DEF IInv, Core
<1>1. aq[o] = 0
  BY DEF Create, NoDangling
<1>2. QueueOK' /\ \A q \in Objects : aq'[q] = IF q \in {o} THEN 1 ELSE aq[q]
  BY ProlongStep DEF Create, Prolong
<1>3. TypeOK'
  BY <1>2 DEF Create, TypeOK, QueueOK
<1>4. RcExact' /\ StackExact'
  BY RcKept, StackKept DEF Create
<1>5. NoDangling'
  BY <1>2, ChildrenKept DEF Create, NoDangling, TypeOK
<1>6. NoOrphans'
  BY <1>2 DEF Create, NoOrphans, NoOwners, TypeOK
<1> QED
  BY <1>2, <1>3, <1>4, <1>5, <1>6 DEF QueueOK

LEMMA LuaCreateStep ==
  ASSUME IInv, NEW h \in Holders, NEW o \in Objects, LuaCreate(h, o)
  PROVE  IInv'
<1> USE DEF IInv, Core
<1>1. o \notin held[h]
  BY DEF LuaCreate, NoDangling
<1>2. TypeOK'
  BY DEF LuaCreate, TypeOK
<1>3. RcExact' /\ StackExact' /\ AQueueExact'
  BY <1>1, RcKept, StackAdded DEF LuaCreate, AQueueExact
<1>4. NoDangling'
  BY ChildrenKept DEF LuaCreate, NoDangling, TypeOK
<1>5. NoOrphans'
  BY DEF LuaCreate, NoOrphans, NoOwners, TypeOK
<1> QED
  BY <1>2, <1>3, <1>4, <1>5

LEMMA StackRetainStep ==
  ASSUME IInv, NEW h \in Holders, NEW o \in Objects, StackRetain(h, o)
  PROVE  IInv'
<1> USE DEF IInv, Core
<1>1. TypeOK'
  BY DEF StackRetain, TypeOK
<1>2. RcExact' /\ StackExact' /\ AQueueExact'
  BY RcKept, StackAdded DEF StackRetain, AQueueExact
<1>3. NoDangling'
  BY ChildrenKept DEF StackRetain, NoDangling, TypeOK
<1>4. NoOrphans'
  BY DEF StackRetain, NoOrphans, NoOwners, TypeOK
<1> QED
  BY <1>1, <1>2, <1>3, <1>4

LEMMA StackReleaseStep ==
  ASSUME IInv, NEW h \in Holders, NEW o \in Objects, StackRelease(h, o)
  PROVE  IInv'
<1> USE DEF IInv, Core
<1> DEFINE S == {q \in {o} : /\ stack[q] > 0
                             /\ stack[q] - 1 <= 0
                             /\ rc[q] <= 0 /\ tes[q] <= 0 /\ aq[q] <= 0}
<1>1. StackExact' /\ stack[o] > 0
  BY StackRemoved DEF StackRelease
<1>2. QueueOK' /\ \A q \in Objects : aq'[q] = IF q \in S THEN 1 ELSE aq[q]
  BY ProlongStep DEF StackRelease, Prolong
<1>3. TypeOK'
  BY <1>1, <1>2 DEF StackRelease, TypeOK, QueueOK
<1>4. RcExact'
  BY RcKept DEF StackRelease
<1>5. NoDangling'
  BY <1>2, ChildrenKept DEF StackRelease, NoDangling, TypeOK
<1>6. NoOrphans'
  BY <1>1, <1>2 DEF StackRelease, NoOrphans, NoOwners, TypeOK
<1> QED
  BY <1>1, <1>2, <1>3, <1>4, <1>5, <1>6 DEF QueueOK

LEMMA ExposeStep ==
  ASSUME IInv, NEW h \in Holders, NEW o \in Objects, Expose(h, o)
  PROVE  IInv'
<1> USE DEF IInv, Core
<1> DEFINE S == IF rc[o] = 0 THEN {o} ELSE {}
<1>1. QueueOK' /\ \A q \in Objects : aq'[q] = IF q \in S THEN 1 ELSE aq[q]
  BY ProlongStep DEF Expose, Prolong
<1>2. TypeOK'
  BY <1>1 DEF Expose, TypeOK, QueueOK
<1>3. RcExact' /\ StackExact'
  BY RcKept, StackKept DEF Expose
<1>4. NoDangling'
  BY <1>1, ChildrenKept DEF Expose, NoDangling, TypeOK
<1>5. NoOrphans'
  BY <1>1 DEF Expose, NoOrphans, NoOwners, TypeOK
<1> QED
  BY <1>1, <1>2, <1>3, <1>4, <1>5 DEF QueueOK

LEMMA TesRetainStep ==
  ASSUME IInv, NEW h \in Holders, NEW o \in Objects, TesRetain(h, o)
  PROVE  IInv'
<1> USE DEF IInv, Core
<1>1. TypeOK'
  BY DEF TesRetain, NotProlong, TypeOK
<1>2. RcExact' /\ StackExact' /\ AQueueExact'
  BY RcKept, StackKept DEF TesRetain, AQueueExact
<1>3. NoDangling'
  BY ChildrenKept DEF TesRetain, NoDangling, TypeOK
<1>4. NoOrphans'
  BY DEF TesRetain, NoOrphans, NoOwners, TypeOK
<1> QED
  BY <1>1, <1>2, <1>3, <1>4

LEMMA TesReleaseStep ==
  ASSUME IInv, NEW h \in Holders, NEW o \in Objects, TesRelease(h, o)
  PROVE  IInv'
<1> USE DEF IInv, Core
<1> DEFINE S == {q \in {o} : /\ tes[q] - 1 <= 0
                             /\ rc[q] <= 0 /\ aq[q] <= 0 /\ stack[q] <= 0}
<1>1. QueueOK' /\ \A q \in Objects : aq'[q] = IF q \in S THEN 1 ELSE aq[q]
  BY ProlongStep DEF TesRelease, Prolong
<1>2. tes' \in [Objects -> 0 .. MaxTes]
  BY DEF TesRelease, TypeOK
<1>6. TypeOK'
  BY <1>1, <1>2 DEF TesRelease, TypeOK, QueueOK
<1>3. RcExact' /\ StackExact'
  BY RcKept, StackKept DEF TesRelease
<1>4. NoDangling'
  BY <1>1, ChildrenKept DEF TesRelease, NoDangling, TypeOK
<1>5. NoOrphans'
  BY <1>1 DEF TesRelease, NoOrphans, NoOwners, TypeOK
<1> QED
  BY <1>1, <1>3, <1>4, <1>5, <1>6 DEF QueueOK

LEMMA ZeroLifetimeStep ==
  ASSUME IInv, NEW h \in Holders, NEW o \in Objects, ZeroLifetime(h, o)
  PROVE  IInv'
<1> USE DEF IInv, Core
<1>1. TypeOK'
  BY DEF ZeroLifetime, NotProlong, TypeOK
<1>2. RcExact' /\ StackExact' /\ AQueueExact'
  BY RcKept, StackKept DEF ZeroLifetime, AQueueExact
<1>3. NoDangling'
  BY ChildrenKept DEF ZeroLifetime, NoDangling
<1>4. NoOrphans'
  BY DEF ZeroLifetime, NoOrphans, NoOwners
<1> QED
  BY <1>1, <1>2, <1>3, <1>4

LEMMA TickScanStep ==
  ASSUME IInv, TickScan
  PROVE  IInv'
<1> USE DEF IInv, Core
<1>1. TypeOK'
  BY DEF TickScan, Due, TypeOK
<1>2. RcExact' /\ StackExact'
  BY RcKept, StackKept DEF TickScan
<1>3. AQueueExact'
  BY DEF TickScan, Zero, Due, AQueueExact, TypeOK
<1>4. NoDangling'
  BY ChildrenKept DEF TickScan, NoDangling
<1>5. NoOrphans'
  BY DEF TickScan, NoOrphans, NoOwners
<1> QED
  BY <1>1, <1>2, <1>3, <1>4, <1>5

LEMMA AQueueForgetStep ==
  ASSUME IInv, NEW o \in Objects, AQueueForget(o)
  PROVE  IInv'
<1> USE DEF IInv, Core
<1>0. aq[o] \in Nat /\ queue[o] \in Nat /\ toRelease[o] \in Nat
  BY DEF TypeOK
<1>1. aq[o] = 1 /\ toRelease[o] = 1
  BY <1>0 DEF AQueueForget, AQueueExact
<1>2. TypeOK'
  BY <1>1 DEF AQueueForget, TypeOK
<1>3. RcExact' /\ StackExact'
  BY RcKept, StackKept DEF AQueueForget
<1>4. AQueueExact'
  BY <1>1 DEF AQueueForget, AQueueExact, TypeOK
<1>5. NoDangling'
  BY <1>1, ChildrenKept DEF AQueueForget, NoDangling, TypeOK
<1>6. NoOrphans'
  BY <1>1 DEF AQueueForget, RefCount, NoOrphans, NoOwners, TypeOK
<1> QED
  BY <1>2, <1>3, <1>4, <1>5, <1>6

(* Assignment moves a cell from the references of the old value to those   *)
(* of the new one.                                                         *)
Assigned(p, s, v) ==
  /\ content' = [content EXCEPT ![p][s] = v]
  /\ \A o \in Objects :
       rc'[o] = rc[o] + (IF o = v THEN 1 ELSE 0) - (IF o = content[p][s] THEN 1 ELSE 0)

LEMMA StoreRefs ==
  ASSUME Core, NEW p \in Objects, NEW s \in Slots, NEW v \in Objects \cup {NoObject},
         Assigned(p, s, v), NEW o \in Objects
  PROVE  /\ rc'[o] = Cardinality(RefsTo(o)')
         /\ rc'[o] = rc[o] + (IF o = v THEN 1 ELSE 0) - (IF o = content[p][s] THEN 1 ELSE 0)
         /\ rc'[o] \in Nat
<1> USE DEF IInv, Core
<1> DEFINE old == content[p][s]
<1>1. rc'[o] = rc[o] + (IF o = v THEN 1 ELSE 0) - (IF o = old THEN 1 ELSE 0)
  BY DEF Assigned
<1>2. /\ IsFiniteSet(RefsTo(o)) /\ Cardinality(RefsTo(o)) \in Nat
      /\ IsFiniteSet(RefsTo(o)') /\ Cardinality(RefsTo(o)') \in Nat
  BY RefsFinite
<1>3. rc[o] = Cardinality(RefsTo(o))
  BY DEF RcExact
<1>4. content' = [content EXCEPT ![p][s] = v] /\ content \in [Objects -> [Slots -> Objects \cup {NoObject}]]
  BY DEF Assigned, TypeOK
<1>5. << p, s >> \in RefsTo(o) <=> o = old
  BY DEF RefsTo, Cells
<1>6. CASE o = v /\ o # old
  <2>1. RefsTo(o)' = RefsTo(o) \cup {<< p, s >>}
    BY <1>4, <1>6 DEF RefsTo, Cells
  <2>2. Cardinality(RefsTo(o)') = Cardinality(RefsTo(o)) + 1
    BY <1>2, <1>5, <1>6, <2>1, FS_AddElement
  <2> QED
    BY <1>1, <1>2, <1>3, <1>6, <2>2
<1>7. CASE o # v /\ o = old
  <2>1. RefsTo(o)' = RefsTo(o) \ {<< p, s >>}
    BY <1>4, <1>7 DEF RefsTo, Cells
  <2>2. Cardinality(RefsTo(o)') = Cardinality(RefsTo(o)) - 1
    BY <1>2, <1>5, <1>7, <2>1, FS_RemoveElement
  <2> QED
    BY <1>1, <1>2, <1>3, <1>7, <2>2
<1>8. CASE o = v <=> o = old
  <2>1. RefsTo(o)' = RefsTo(o)
    BY <1>4, <1>8 DEF RefsTo, Cells
  <2> QED
    BY <1>1, <1>2, <1>3, <1>8, <2>1
<1> QED
  BY <1>1, <1>6, <1>7, <1>8

LEMMA StoreStep ==
  ASSUME IInv, NEW h \in Holders, NEW p \in Objects, NEW s \in Slots,
         NEW v \in Objects \cup {NoObject}, Store(h, p, s, v)
  PROVE  IInv'
<1> USE DEF IInv, Core
<1> DEFINE rcAfter == [o \in Objects |->
                         rc[o] + (IF o = v THEN 1 ELSE 0) - (IF o = content[p][s] THEN 1 ELSE 0)]
           S == {o \in Objects : /\ o = content[p][s]
                                 /\ rcAfter[o] <= 0
                                 /\ tes[o] <= 0 /\ aq[o] <= 0 /\ stack[o] <= 0}
<1>0. ASSUME NEW o \in Objects
      PROVE  rc'[o] = Cardinality(RefsTo(o)') /\ rc'[o] \in Nat
  <2>1. Assigned(p, s, v)
    BY DEF Store, Assigned
  <2>2. Core
    OBVIOUS
  <2> HIDE DEF IInv, Core
  <2> QED
    BY <2>1, <2>2, StoreRefs
<1>1. QueueOK' /\ \A q \in Objects : aq'[q] = IF q \in S THEN 1 ELSE aq[q]
  BY ProlongStep DEF Store, Prolong
<1>2. rc' \in [Objects -> Nat]
  <2>1. rc' = rcAfter
    BY DEF Store
  <2> QED
    BY <1>0, <2>1
<1>3. content' \in [Objects -> [Slots -> Objects \cup {NoObject}]]
  BY DEF Store, TypeOK
<1>4. TypeOK'
  BY <1>1, <1>2, <1>3 DEF Store, TypeOK, QueueOK
<1>5. RcExact' /\ StackExact'
  <2>1. \A o \in Objects : rc'[o] = Cardinality(RefsTo(o)')
    BY <1>0
  <2>2. RcExact'
    BY <2>1 DEF RcExact
  <2>3. StackExact'
    BY StackKept DEF Store
  <2> QED
    BY <2>2, <2>3
<1>6. \A q \in Objects : content[p][s] = q => q \in alive
  BY DEF NoDangling, Children
<1>7. NoDangling'
  <2>1. p \in alive /\ (v = NoObject \/ v \in alive)
    BY DEF Store, NoDangling
  <2>2. \A q \in Objects : Children(q)' \subseteq alive
    BY <2>1 DEF Store, NoDangling, Children, TypeOK
  <2>3. \A q \in Objects \ alive : Children(q)' = {}
    <3> SUFFICES ASSUME NEW q \in Objects \ alive PROVE Children(q)' = {}
      OBVIOUS
    <3>1. content'[q] = content[q]
      BY <2>1 DEF Store, TypeOK
    <3>2. Children(q) = {}
      BY DEF NoDangling
    <3> QED
      BY <3>1, <3>2 DEF Children
  <2>4. \A q \in Objects \ alive : aq'[q] = 0
    BY <1>1, <1>6 DEF NoDangling
  <2> QED
    BY <2>2, <2>3, <2>4 DEF Store, NoDangling
<1>8. NoOrphans'
  <2> SUFFICES ASSUME NEW q \in alive PROVE ~NoOwners(q)'
    BY DEF Store, NoOrphans
  <2>1. q \in Objects /\ ~NoOwners(q)
    BY DEF TypeOK, NoOrphans
  <2>2. rc'[q] = rcAfter[q] /\ tes' = tes /\ stack' = stack
    BY <2>1 DEF Store
  <2>3. CASE q \in S
    BY <1>1, <2>1, <2>3 DEF NoOwners
  <2>4. CASE q \notin S /\ q = content[p][s]
    BY <1>1, <2>1, <2>2, <2>4 DEF NoOwners
  <2>5. CASE q # content[p][s]
    BY <1>1, <2>1, <2>2, <2>5 DEF NoOwners, TypeOK
  <2> QED
    BY <2>3, <2>4, <2>5
<1> QED
  BY <1>1, <1>4, <1>5, <1>7, <1>8 DEF QueueOK

(* Emptying the containers of P while the queue takes over the orphans.    *)
LEMMA EmptiedStep ==
  ASSUME Core, NEW P \in SUBSET Objects, NEW dead \in SUBSET P,
         \A o \in alive \ dead : ~NoOwners(o),
         content' = ContentWithout(P), rc' = RcWithout(P),
         NEW aq0 \in [Objects -> Nat],
         \A o \in Objects : aq'[o] = IF o \in OrphansWithout(P) THEN 1 ELSE aq0[o],
         \A o \in Objects \ dead : aq0[o] = aq[o],
         \A o \in dead : aq0[o] = 0 /\ tes[o] = 0 /\ stack[o] = 0 /\ rc[o] = 0,
         alive' = alive \ dead, public' = public \ dead,
         UNCHANGED << held, tes, stack >>
  PROVE  NoDangling' /\ NoOrphans'
<1> USE DEF IInv, Core
<1>1. \A o \in dead : RefsTo(o) = {}
  BY NoRefs
<1>2. \A p \in Objects : Children(p) \cap dead = {}
  BY <1>1, ChildHasRef
<1>3. \A p \in Objects : Children(p)' \subseteq Children(p)
  BY DEF ContentWithout, Children, Empty
<1>4. \A p \in P : Children(p)' = {}
  BY DEF ContentWithout, Children, Empty
<1>5. OrphansWithout(P) \subseteq alive \ dead
  <2> SUFFICES ASSUME NEW o \in OrphansWithout(P) PROVE o \in alive \ dead
    OBVIOUS
  <2>1. PICK c \in Cells : content[c[1]][c[2]] = o
    BY DEF OrphansWithout, Dropped, RefsTo
  <2>2. o \in Objects /\ c[1] \in Objects /\ c[2] \in Slots
    BY <2>1 DEF OrphansWithout, Cells
  <2>3. o \in Children(c[1])
    BY <2>1, <2>2 DEF Children
  <2> QED
    BY <1>2, <2>2, <2>3 DEF NoDangling
<1>6. NoDangling'
  <2>1. \A p \in Objects : Children(p)' \subseteq alive'
    BY <1>2, <1>3 DEF NoDangling
  <2>2. \A p \in Objects \ alive' : Children(p)' = {}
    BY <1>3, <1>4 DEF NoDangling
  <2>3. \A h \in Holders : held'[h] \subseteq alive'
    BY NoHolders DEF NoDangling
  <2>4. public' \subseteq alive'
    BY DEF NoDangling
  <2>5. \A o \in Objects \ alive' : aq'[o] = 0 /\ tes'[o] = 0
    BY <1>5 DEF NoDangling
  <2> QED
    BY <2>1, <2>2, <2>3, <2>4, <2>5 DEF NoDangling
<1>7. NoOrphans'
  <2> SUFFICES ASSUME NEW o \in alive \ dead PROVE ~NoOwners(o)'
    BY DEF NoOrphans
  <2>1. o \in Objects /\ ~NoOwners(o) /\ aq0[o] = aq[o]
    BY DEF TypeOK
  <2>2. CASE o \in OrphansWithout(P)
    BY <2>1, <2>2 DEF NoOwners
  <2>3. CASE o \notin OrphansWithout(P) /\ Dropped(o, P) = {}
    <3>1. rc'[o] = rc[o]
      BY <2>1, <2>3, DropRefs
    <3> QED
      BY <2>1, <2>3, <3>1 DEF NoOwners
  <2>4. CASE o \notin OrphansWithout(P) /\ Dropped(o, P) # {}
    BY <2>1, <2>4 DEF NoOwners, OrphansWithout
  <2> QED
    BY <2>2, <2>3, <2>4
<1> QED
  BY <1>6, <1>7

LEMMA ClearStep ==
  ASSUME IInv, NEW h \in Holders, NEW p \in Objects, Clear(h, p)
  PROVE  IInv'
<1> USE DEF IInv, Core
<1> OrphansWithout({p}) \in SUBSET Objects
  BY DEF OrphansWithout
<1>1. QueueOK' /\ \A q \in Objects : aq'[q] = IF q \in OrphansWithout({p}) THEN 1 ELSE aq[q]
  BY ProlongStep DEF Clear, Prolong
<1>2. /\ content' \in [Objects -> [Slots -> Objects \cup {NoObject}]]
      /\ rc' \in [Objects -> Nat]
      /\ RcExact'
  BY DropRefs DEF Clear
<1>3. TypeOK'
  BY <1>1, <1>2 DEF Clear, TypeOK, QueueOK
<1>4. StackExact'
  BY StackKept DEF Clear
<1>5. NoDangling' /\ NoOrphans'
  <2>1. alive' = alive \ {} /\ public' = public \ {} /\ UNCHANGED << held, tes, stack >>
    BY DEF Clear
  <2>2. content' = ContentWithout({p}) /\ rc' = RcWithout({p})
    BY DEF Clear
  <2>3. aq \in [Objects -> Nat] /\ {} \in SUBSET {p} /\ {p} \in SUBSET Objects
    BY DEF TypeOK
  <2>4. /\ \A o \in Objects \ {} : aq[o] = aq[o]
        /\ \A o \in {} : aq[o] = 0 /\ tes[o] = 0 /\ stack[o] = 0 /\ rc[o] = 0
    OBVIOUS
  <2> QED
    BY <1>1, <2>1, <2>2, <2>3, <2>4, EmptiedStep DEF NoOrphans
<1> QED
  BY <1>1, <1>2, <1>3, <1>4, <1>5 DEF QueueOK

(* The queue's reference is the last one if the counters sum up to one.    *)
LEMMA LastOwner ==
  ASSUME NEW a \in Nat, NEW q \in Nat, NEW t \in Nat,
         NEW r \in Nat, NEW e \in Nat, NEW k \in Nat,
         a = q + t, t > 0, r + e + k + a <= 1
  PROVE  a = 1 /\ t = 1 /\ q = 0 /\ r = 0 /\ e = 0 /\ k = 0
OBVIOUS

LEMMA AQueueDeleteStep ==
  ASSUME IInv, NEW o \in Objects, AQueueDelete(o)
  PROVE  IInv'
<1> USE DEF IInv, Core
<1> DEFINE rest == [aq EXCEPT ![o] = 0]
<1>1. OrphansWithout({o}) \in SUBSET Objects
  BY DEF OrphansWithout
<1>2. /\ aq[o] \in Nat /\ queue[o] \in Nat /\ toRelease[o] \in Nat
      /\ rc[o] \in Nat /\ tes[o] \in Nat /\ stack[o] \in Nat
  BY DEF TypeOK
<1>3. /\ aq[o] = 1 /\ toRelease[o] = 1 /\ queue[o] = 0
      /\ rc[o] = 0 /\ tes[o] = 0 /\ stack[o] = 0
  <2>1. aq[o] = queue[o] + toRelease[o] /\ aq[o] <= 1
    BY DEF AQueueExact
  <2>2. toRelease[o] > 0 /\ rc[o] + tes[o] + stack[o] + aq[o] <= 1
    BY DEF AQueueDelete, RefCount
  <2> QED
    BY <1>2, <2>1, <2>2, LastOwner
<1>4. rest \in [Objects -> Nat] /\ toRelease' \in [Objects -> Nat]
  BY <1>3 DEF AQueueDelete, TypeOK
<1>5. \A q \in Objects : rest[q] = queue[q] + toRelease'[q] /\ rest[q] <= 1
  BY <1>3 DEF AQueueDelete, AQueueExact, TypeOK
<1>6. QueueOK' /\ \A q \in Objects : aq'[q] = IF q \in OrphansWithout({o}) THEN 1 ELSE rest[q]
  <2>1. queue \in [Objects -> Nat] /\ age \in [Objects -> 0 .. Life]
    BY DEF TypeOK
  <2>2. /\ aq' = OneMore(rest, Pushed(OrphansWithout({o}), rest))
        /\ queue' = OneMore(queue, Pushed(OrphansWithout({o}), rest))
        /\ age' = Restamped(OrphansWithout({o}), public, rest)
    BY DEF AQueueDelete, Prolong
  <2>3. toRelease' \in [Objects -> Nat]
    BY <1>4
  <2> HIDE DEF IInv, Core, rest
  <2>4. rest \in [Objects -> Nat]
    BY <1>4
  <2>5. \A q \in Objects : rest[q] = queue[q] + toRelease'[q] /\ rest[q] <= 1
    BY <1>5
  <2>6. QueueOK'
    BY <1>1, <2>1, <2>2, <2>3, <2>4, <2>5, ProlongEffect
  <2>7. \A q \in Objects : aq'[q] = IF q \in OrphansWithout({o}) THEN 1 ELSE rest[q]
    BY <2>1, <2>2, <2>3, <2>4, <2>5 DEF OneMore, Pushed
  <2> QED
    BY <2>6, <2>7
<1>7. content' = ContentWithout({o}) /\ rc' = RcWithout({o})
  BY DEF AQueueDelete
<1>8. /\ content' \in [Objects -> [Slots -> Objects \cup {NoObject}]]
      /\ rc' \in [Objects -> Nat]
      /\ RcExact'
  BY <1>7, DropRefs
<1>9. TypeOK'
  BY <1>4, <1>6, <1>8 DEF AQueueDelete, TypeOK, QueueOK
<1>10. StackExact'
  BY StackKept DEF AQueueDelete
<1>11. NoDangling' /\ NoOrphans'
  <2>1. alive' = alive \ {o} /\ public' = public \ {o} /\ UNCHANGED << held, tes, stack >>
    BY DEF AQueueDelete
  <2>2. \A q \in Objects \ {o} : rest[q] = aq[q]
    BY DEF TypeOK
  <2>3. \A q \in {o} : rest[q] = 0 /\ tes[q] = 0 /\ stack[q] = 0 /\ rc[q] = 0
    BY <1>3 DEF TypeOK
  <2> HIDE DEF rest
  <2> QED
    BY <1>4, <1>6, <1>7, <2>1, <2>2, <2>3, EmptiedStep DEF NoOrphans
<1> QED
  BY <1>6, <1>8, <1>9, <1>10, <1>11 DEF QueueOK

(* Only owned objects are spared, whether or not all were owned before.    *)
LEMMA SparedAreOwned ==
  ASSUME Core, NEW o \in alive, ~(o \in Garbage /\ NoOwners(o))
  PROVE  ~NoOwners(o)
<1> USE DEF Core
<1> SUFFICES ASSUME NoOwners(o), o \in Reachable(GcRoots) PROVE FALSE
  BY DEF Garbage
<1>1. o \in Objects /\ rc[o] = 0 /\ tes[o] = 0 /\ aq[o] = 0
  BY DEF NoOwners, TypeOK
<1>2. RefsTo(o) = {}
  BY <1>1, NoRefs
<1> DEFINE S == alive \ {o}
<1>3. GcRoots \subseteq S
  BY <1>1 DEF GcRoots
<1>4. Closed(S)
  <2> SUFFICES ASSUME NEW p \in S PROVE Children(p) \subseteq S
    BY DEF Closed
  <2>1. p \in Objects /\ o \notin Children(p)
    BY <1>1, <1>2, ChildHasRef DEF TypeOK
  <2> QED
    BY <2>1 DEF NoDangling
<1>5. S \in SUBSET alive
  OBVIOUS
<1>6. o \in S
  BY <1>3, <1>4, <1>5 DEF Reachable
<1> QED
  BY <1>6

LEMMA CollectStep ==
  ASSUME Core, Collect
  PROVE  IInv'
<1> USE DEF IInv, Core
<1> DEFINE dead == {o \in Garbage : NoOwners(o)}
<1>1. Garbage \in SUBSET Objects /\ OrphansWithout(Garbage) \in SUBSET Objects
  BY DEF OrphansWithout, Garbage, TypeOK
<1>2. QueueOK' /\ \A q \in Objects : aq'[q] = IF q \in OrphansWithout(Garbage) THEN 1 ELSE aq[q]
  BY <1>1, ProlongStep DEF Collect, Prolong
<1>3. content' = ContentWithout(Garbage) /\ rc' = RcWithout(Garbage)
  BY DEF Collect
<1>4. /\ content' \in [Objects -> [Slots -> Objects \cup {NoObject}]]
      /\ rc' \in [Objects -> Nat]
      /\ RcExact'
  BY <1>1, <1>3, DropRefs
<1>5. TypeOK'
  BY <1>2, <1>4 DEF Collect, TypeOK, QueueOK
<1>6. StackExact'
  BY StackKept DEF Collect
<1>7. NoDangling' /\ NoOrphans'
  <2>1. alive' = alive \ dead /\ public' = public \ dead /\ UNCHANGED << held, tes, stack >>
    BY DEF Collect
  <2>2. \A o \in dead : aq[o] = 0 /\ tes[o] = 0 /\ stack[o] = 0 /\ rc[o] = 0
    BY <1>1 DEF NoOwners, TypeOK
  <2>3. aq \in [Objects -> Nat] /\ dead \in SUBSET Garbage
    BY DEF TypeOK
  <2>4. \A o \in alive \ dead : ~NoOwners(o)
    BY SparedAreOwned
  <2> HIDE DEF dead
  <2> QED
    BY <1>1, <1>2, <1>3, <2>1, <2>2, <2>3, <2>4, EmptiedStep
<1> QED
  BY <1>2, <1>4, <1>5, <1>6, <1>7 DEF QueueOK

-----------------------------------------------------------------------------
(* A state without objects: the initial one and the one after              *)
(* u_clearState.                                                           *)
Blank ==
  /\ alive = {} /\ public = {}
  /\ content = [o \in Objects |-> Empty]
  /\ held = [h \in Holders |-> {}]
  /\ rc = Zero /\ tes = Zero /\ stack = Zero
  /\ aq = Zero /\ queue = Zero /\ age = Zero /\ toRelease = Zero

LEMMA BlankInv == Blank => IInv
<1> SUFFICES ASSUME Blank PROVE IInv
  OBVIOUS
<1>1. TypeOK
  BY DEF Blank, TypeOK, Zero, Empty
<1>2. RcExact
  <2>1. \A o \in Objects : RefsTo(o) = {} /\ rc[o] = 0
    BY DEF Blank, RefsTo, Cells, Empty, Zero
  <2> QED
    BY <2>1, FS_EmptySet DEF RcExact
<1>3. StackExact
  <2>1. \A o \in Objects : {h \in Holders : o \in held[h]} = {} /\ stack[o] = 0
    BY DEF Blank, Zero
  <2> QED
    BY <2>1, FS_EmptySet DEF StackExact
<1>4. AQueueExact
  BY DEF Blank, AQueueExact, Zero
<1>5. NoDangling
  BY DEF Blank, NoDangling, Children, Empty, Zero
<1>6. NoOrphans
  BY DEF Blank, NoOrphans
<1> QED
  BY <1>1, <1>2, <1>3, <1>4, <1>5, <1>6 DEF IInv, Core

LEMMA InitInv == Init => IInv
BY BlankInv DEF Init, Blank

LEMMA ClearStateStep ==
  ASSUME ClearState
  PROVE  IInv'
<1>1. Blank'
  BY DEF ClearState, Blank, Zero, Empty
<1>2. (Blank => IInv)'
  BY BlankInv, PTL
<1> QED
  BY <1>1, <1>2

LEMMA StutterStep ==
  ASSUME IInv, UNCHANGED vars
  PROVE  IInv'
<1> USE DEF IInv, Core, vars
<1>1. TypeOK' /\ AQueueExact' /\ NoOrphans'
  BY DEF TypeOK, AQueueExact, NoOrphans, NoOwners
<1>2. RcExact' /\ StackExact'
  BY RcKept, StackKept
<1>3. NoDangling'
  BY ChildrenKept DEF NoDangling
<1> QED
  BY <1>1, <1>2, <1>3

LEMMA StepInv == IInv /\ [Next]_vars => IInv'
<1> SUFFICES ASSUME IInv, [Next]_vars PROVE IInv'
  OBVIOUS
<1>1. ASSUME NEW o \in Objects, Create(o) PROVE IInv'
  BY <1>1, CreateStep
<1>2. ASSUME NEW h \in Holders, NEW o \in Objects,
             \/ LuaCreate(h, o) \/ StackRetain(h, o) \/ StackRelease(h, o) \/ Expose(h, o)
             \/ Clear(h, o) \/ TesRetain(h, o) \/ TesRelease(h, o) \/ ZeroLifetime(h, o)
      PROVE  IInv'
  BY <1>2, LuaCreateStep, StackRetainStep, StackReleaseStep, ExposeStep, ClearStep,
     TesRetainStep, TesReleaseStep, ZeroLifetimeStep
<1>3. ASSUME NEW h \in Holders, NEW p \in Objects, NEW s \in Slots,
             NEW v \in Objects \cup {NoObject}, Store(h, p, s, v)
      PROVE  IInv'
  BY <1>3, StoreStep
<1>4. ASSUME NEW o \in Objects, AQueueDelete(o) \/ AQueueForget(o) PROVE IInv'
  BY <1>4, AQueueDeleteStep, AQueueForgetStep
<1>5. CASE TickScan
  BY <1>5, TickScanStep
<1>6. CASE Collect
  BY <1>6, CollectStep DEF IInv
<1>7. CASE ClearState
  BY <1>7, ClearStateStep
<1>8. CASE UNCHANGED vars
  BY <1>8, StutterStep
<1> QED
  BY <1>1, <1>2, <1>3, <1>4, <1>5, <1>6, <1>7, <1>8 DEF Next

LEMMA Inductive == Spec => []IInv
BY InitInv, StepInv, PTL DEF Spec

-----------------------------------------------------------------------------
(* Every variable keeps its type; no counter of object_base ever goes      *)
(* negative.                                                               *)
THEOREM TypeCorrect == Spec => []TypeOK
<1>1. IInv => TypeOK
  BY DEF IInv, Core
<1> QED
  BY Inductive, <1>1, PTL

(* The three counters the code keeps by increments and decrements equal    *)
(* the numbers of cells, stack references and queue entries.               *)
THEOREM CountersAreExact == Spec => []CountersExact
<1>1. IInv => CountersExact
  BY DEF IInv, Core, CountersExact
<1> QED
  BY Inductive, <1>1, PTL

(* No cell, stack reference, queue entry or id leads to a deleted object.  *)
THEOREM NothingDangles == Spec => []NoDangling
<1>1. IInv => NoDangling
  BY DEF IInv, Core
<1> QED
  BY Inductive, <1>1, PTL

(* No object is left without an owner: none hangs forever.                 *)
THEOREM NothingHangs == Spec => []NoOrphans
<1>1. IInv => NoOrphans
  BY DEF IInv, Core
<1> QED
  BY Inductive, <1>1, PTL

(* A step that takes away an object with an owner is u_clearState.         *)
LEMMA KeptStep ==
  ASSUME IInv, [Next]_vars, NEW o \in alive \ alive'
  PROVE  \/ ClearState
         \/ /\ tes[o] = 0
            /\ RefsTo(o) = {}
            /\ \A h \in Holders : o \notin held[h]
<1> USE DEF IInv, Core
<1>0. o \in Objects
  BY DEF TypeOK
<1>1. SUFFICES ASSUME ~ClearState
      PROVE  tes[o] = 0 /\ rc[o] = 0 /\ stack[o] = 0
  BY <1>0, NoRefs, NoHolders
<1>2. /\ rc[o] \in Nat /\ tes[o] \in Nat /\ stack[o] \in Nat
      /\ aq[o] \in Nat /\ queue[o] \in Nat /\ toRelease[o] \in Nat
  BY <1>0 DEF TypeOK
<1>3. (\E q \in Objects : AQueueDelete(q)) \/ Collect
  BY <1>1 DEF Next, vars, Create, LuaCreate, StackRetain, StackRelease, Expose, Clear,
              TesRetain, TesRelease, ZeroLifetime, Store, TickScan, AQueueForget
<1>4. CASE \E q \in Objects : AQueueDelete(q)
  <2>1. toRelease[o] > 0 /\ RefCount(o) <= 1
    BY <1>4 DEF AQueueDelete
  <2>2. aq[o] = queue[o] + toRelease[o]
    BY <1>0 DEF AQueueExact
  <2> QED
    BY <1>2, <2>1, <2>2 DEF RefCount
<1>5. CASE Collect
  <2>1. NoOwners(o)
    BY <1>5 DEF Collect
  <2> QED
    BY <1>2, <2>1 DEF NoOwners
<1> QED
  BY <1>3, <1>4, <1>5

(* Ticks, deletions and collections never take what is owned.              *)
THEOREM OwnersKeep == Spec => KeptWhileOwned
<1>1. IInv /\ [Next]_vars =>
        [\A o \in alive \ alive' :
           ClearState \/ ( /\ tes[o] = 0
                           /\ RefsTo(o) = {}
                           /\ \A h \in Holders : o \notin held[h])]_vars
  BY KeptStep
<1> QED
  BY Inductive, <1>1, PTL DEF Spec, KeptWhileOwned

-----------------------------------------------------------------------------
(* What the collector's roots reach.                                       *)
Reached == Reachable(GcRoots)

LEMMA RootsAreReached == GcRoots \subseteq Reached
BY DEF Reached, Reachable, GcRoots

LEMMA ReachedIsClosed ==
  ASSUME Core, NEW p \in Reached
  PROVE  Children(p) \subseteq Reached
<1> SUFFICES ASSUME NEW c \in Children(p) PROVE c \in Reached
  OBVIOUS
<1>1. p \in Objects
  BY DEF Reached, Reachable, Core, TypeOK
<1>2. c \in alive
  BY <1>1 DEF Core, NoDangling
<1>3. ASSUME NEW S \in SUBSET alive, GcRoots \subseteq S, Closed(S)
      PROVE  c \in S
  BY <1>3 DEF Reached, Reachable, Closed
<1> QED
  BY <1>2, <1>3 DEF Reached, Reachable

(* A collection leaves alone what the roots reach; the queue takes over    *)
(* objects it did not own.                                                 *)
LEMMA CollectSpares ==
  ASSUME Core, Collect
  PROVE  /\ \A o \in Reached : /\ o \in alive'
                               /\ content'[o] = content[o]
                               /\ o \in public' <=> o \in public
         /\ \A o \in Objects : aq[o] > 0 => /\ aq'[o] = aq[o]
                                            /\ queue'[o] = queue[o]
                                            /\ age'[o] = age[o]
<1> USE DEF Core
<1>1. Reached \subseteq alive /\ Reached \cap Garbage = {}
  BY DEF Reached, Reachable, Garbage
<1>2. ASSUME NEW o \in Reached
      PROVE  o \in alive' /\ content'[o] = content[o] /\ (o \in public' <=> o \in public)
  BY <1>1 DEF Collect, ContentWithout, TypeOK
<1>3. ASSUME NEW o \in Objects, aq[o] > 0
      PROVE  aq'[o] = aq[o] /\ queue'[o] = queue[o] /\ age'[o] = age[o]
  <2>1. o \notin OrphansWithout(Garbage)
    BY <1>3 DEF OrphansWithout, TypeOK
  <2>2. o \notin Pushed(OrphansWithout(Garbage), aq)
    BY <2>1 DEF Pushed
  <2>3. Prolong(OrphansWithout(Garbage), public, aq)
    BY DEF Collect
  <2> QED
    BY <2>1, <2>2, <2>3 DEF Prolong, OneMore, Restamped
<1> QED
  BY <1>2, <1>3

(* What was reached stays reached: the roots only become more.             *)
LEMMA StaysReached ==
  ASSUME Core, Collect
  PROVE  Reached \subseteq Reached'
<1> SUFFICES ASSUME NEW o \in Reached, NEW S \in SUBSET alive', GcRoots' \subseteq S, Closed(S)'
             PROVE  o \in S
  BY CollectSpares DEF Reached, Reachable
<1> DEFINE T == S \cap Reached
<1>1. T \in SUBSET alive
  BY DEF Reached, Reachable
<1>2. GcRoots \subseteq T
  <2> SUFFICES ASSUME NEW q \in GcRoots PROVE q \in T
    OBVIOUS
  <2>1. q \in Reached /\ q \in Objects
    BY RootsAreReached DEF GcRoots, Core, TypeOK
  <2>2. q \in alive' /\ tes' = tes /\ (aq[q] > 0 => aq'[q] = aq[q])
    BY <2>1, CollectSpares DEF Collect
  <2>3. q \in GcRoots'
    BY <2>2 DEF GcRoots
  <2> QED
    BY <2>1, <2>3
<1>3. Closed(T)
  <2> SUFFICES ASSUME NEW p \in T PROVE Children(p) \subseteq T
    BY DEF Closed
  <2>1. content'[p] = content[p]
    BY CollectSpares
  <2>2. Children(p)' = Children(p)
    BY <2>1 DEF Children
  <2>3. Children(p)' \subseteq S
    BY DEF Closed
  <2> QED
    BY <2>2, <2>3, ReachedIsClosed
<1> QED
  BY <1>1, <1>2, <1>3 DEF Reached, Reachable

(* What is garbage again after a collection has neither a reference nor a  *)
(* retain nor a place in the queue: a call holds it.                       *)
LEMMA CompleteStep ==
  ASSUME Core, Collect
  PROVE  \A o \in Garbage' : stack[o] > 0
<1> SUFFICES ASSUME NEW o \in Garbage' PROVE stack[o] > 0
  OBVIOUS
<1>1. IInv'
  BY CollectStep
<1>2. o \in Objects /\ o \in alive' /\ o \notin Reached'
  BY <1>1 DEF Garbage, Reached, IInv, Core, TypeOK
<1>3. o \notin GcRoots'
  <2>1. GcRoots' \subseteq Reached'
    BY DEF Reached, Reachable, GcRoots
  <2> QED
    BY <1>2, <2>1
<1>4. tes'[o] = 0 /\ aq'[o] = 0
  BY <1>1, <1>2, <1>3 DEF GcRoots, IInv, Core, TypeOK
<1>5. RefsTo(o)' = {}
  <2> SUFFICES ASSUME NEW c \in RefsTo(o)' PROVE FALSE
    OBVIOUS
  <2> DEFINE p == c[1]
  <2>1. p \in Objects /\ c[2] \in Slots /\ content'[p][c[2]] = o /\ o # NoObject
    BY <1>2, FiniteAssumption DEF RefsTo, Cells
  <2>2. p \notin Garbage /\ content'[p] = content[p]
    BY <2>1 DEF Collect, ContentWithout, Empty
  <2>3. o \in Children(p)
    BY <2>1, <2>2 DEF Children
  <2>4. p \in Reached
    BY <2>1, <2>2, <2>3 DEF Core, NoDangling, Garbage, Reached
  <2>5. o \in Reached
    BY <2>3, <2>4, ReachedIsClosed
  <2> QED
    BY <1>2, <2>5, StaysReached
<1>6. rc'[o] = 0
  BY <1>1, <1>2, <1>5, FS_EmptySet DEF IInv, Core, RcExact
<1>7. ~NoOwners(o)' /\ stack' = stack /\ stack'[o] \in Nat
  BY <1>1, <1>2 DEF IInv, Core, NoOrphans, Collect, TypeOK
<1> QED
  BY <1>4, <1>6, <1>7 DEF NoOwners

(* The collector leaves no garbage but what stack references keep: cycles  *)
(* are broken and their members have passed into the queue.                *)
THEOREM CollectionIsComplete == Spec => GcComplete
<1>1. IInv /\ [Next]_vars => [Collect => \A o \in Garbage' : stack[o] > 0]_vars
  BY CompleteStep DEF IInv
<1> QED
  BY Inductive, <1>1, PTL DEF Spec, GcComplete

-----------------------------------------------------------------------------
(* Saves and loads keep what holds of a running game.  While a load goes   *)
(* on an object may have no owner: "more owners may be loaded later".  So  *)
(* the invariant is Core, which the collector needs, at any time and       *)
(* NoOrphans in play only; that a collection makes the second out of the   *)
(* first is CollectStep.                                                   *)

LInv == phase \in {"play", "read", "broken"} /\ Core /\ OwnedInPlay

LEMMA LoadReadStep ==
  ASSUME Core, LoadRead
  PROVE  Core'
<1> USE DEF Core, LoadRead
<1>1. RcExact'
  BY DEF RcExact, RcRead, RefsTo
<1>2. StackExact'
  <2> SUFFICES ASSUME NEW o \in Objects
               PROVE  stack'[o] = Cardinality({h \in Holders : o \in held'[h]})
    BY DEF StackExact
  <2>1. {h \in Holders : o \in held'[h]} = {}
    OBVIOUS
  <2> QED
    BY <2>1, FS_EmptySet DEF Zero
<1>3. AQueueExact'
  BY DEF AQueueExact, TypeOK, Zero, AqRead
<1>4. rc' \in [Objects -> Nat]
  BY RefsFinite DEF RcRead
<1>5. TypeOK'
  BY <1>4 DEF TypeOK, Zero, AqRead
<1>6. NoDangling'
  <2>1. \A o \in Objects : aq'[o] = aq[o]
    BY DEF AQueueExact, TypeOK, Zero, AqRead
  <2> QED
    BY <2>1, ChildrenKept DEF NoDangling, TypeOK
<1> QED
  BY <1>1, <1>2, <1>3, <1>5, <1>6

LEMMA EraseExpiredStep ==
  ASSUME Core, NEW p \in Objects, NEW s \in Slots, EraseExpired(p, s)
  PROVE  Core'
<1> DEFINE o == content[p][s]
           S == {q \in {o} : /\ rc[q] - 1 <= 0
                             /\ tes[q] <= 0 /\ aq[q] <= 0 /\ stack[q] <= 0}
<1>0. o \in Objects /\ o \in alive
  BY DEF EraseExpired, Core, TypeOK, NoDangling, Children
<1>1. QueueOK' /\ \A q \in Objects : aq'[q] = IF q \in S THEN 1 ELSE aq[q]
  <2>1. S \in SUBSET Objects
    BY <1>0
  <2> QED
    BY <2>1, ProlongStep DEF EraseExpired, Prolong, Core
<1>2. ASSUME NEW q \in Objects
      PROVE  rc'[q] = Cardinality(RefsTo(q)') /\ rc'[q] \in Nat
  <2>1. Assigned(p, s, NoObject)
    <3>1. content' = [content EXCEPT ![p][s] = NoObject]
      BY DEF EraseExpired
    <3>2. ASSUME NEW r \in Objects
          PROVE  rc'[r] = rc[r] + (IF r = NoObject THEN 1 ELSE 0) - (IF r = o THEN 1 ELSE 0)
      <4>1. rc \in [Objects -> Nat] /\ r # NoObject
        BY FiniteAssumption DEF Core, TypeOK
      <4>2. rc' = [rc EXCEPT ![o] = @ - 1]
        BY DEF EraseExpired
      <4> HIDE DEF o
      <4> QED
        BY <1>0, <4>1, <4>2
    <3> QED
      BY <3>1, <3>2 DEF Assigned
  <2>2. NoObject \in Objects \cup {NoObject} /\ Core
    OBVIOUS
  <2> HIDE DEF o, S
  <2> QED
    BY <2>1, <2>2, StoreRefs
<1>3. RcExact'
  BY <1>2 DEF RcExact
<1>4. StackExact'
  BY StackKept DEF EraseExpired, Core
<1>5. TypeOK'
  <2>1. rc' = [q \in Objects |-> rc'[q]]
    BY DEF EraseExpired, Core, TypeOK
  <2>2. rc' \in [Objects -> Nat]
    BY <1>2, <2>1
  <2>3. content' \in [Objects -> [Slots -> Objects \cup {NoObject}]]
    BY DEF EraseExpired, Core, TypeOK
  <2> QED
    BY <1>1, <2>2, <2>3 DEF EraseExpired, Core, TypeOK, QueueOK
<1>6. NoDangling'
  <2>1. \A q \in Objects : Children(q)' \subseteq Children(q)
    BY DEF EraseExpired, Core, TypeOK, Children
  <2>2. \A q \in Objects \ alive : aq'[q] = 0
    BY <1>0, <1>1 DEF Core, NoDangling
  <2> QED
    BY <2>1, <2>2 DEF EraseExpired, Core, NoDangling
<1> QED
  BY <1>1, <1>3, <1>4, <1>5, <1>6 DEF Core, QueueOK

(* What a load that threw leaves behind is a part of a graph, counted as   *)
(* it was read.                                                            *)
LEMMA LoadBreaksStep ==
  ASSUME Core, LoadBreaks
  PROVE  Core'
<1>1. alive = {} /\ held' = held /\ stack' = stack /\ age' = age /\ toRelease' = toRelease
  BY DEF LoadBreaks
<1>2. /\ alive' \in SUBSET Objects
      /\ public' \in SUBSET alive'
      /\ content' \in [Objects -> [Slots -> alive' \cup {NoObject}]]
      /\ tes' \in [Objects -> 0 .. MaxTes]
      /\ aq' \in [Objects -> 0 .. 1]
      /\ queue' = aq'
  BY DEF LoadBreaks
<1>3. \A o \in Objects \ alive' : content'[o] = Empty /\ tes'[o] = 0 /\ aq'[o] = 0
  BY DEF LoadBreaks
<1>4. ASSUME NEW o \in Objects PROVE rc'[o] = Cardinality(RefsTo(o)')
  BY DEF LoadBreaks, RefsTo
<1>5. RcExact'
  BY <1>4 DEF RcExact
<1>6. StackExact'
  BY <1>1, StackKept DEF Core
<1>7. AQueueExact'
  <2> SUFFICES ASSUME NEW o \in Objects
               PROVE  aq'[o] = queue'[o] + toRelease'[o] /\ aq'[o] <= 1
    BY DEF AQueueExact
  <2>1. toRelease'[o] = 0
    BY <1>1 DEF LoadBreaks, Zero
  <2> QED
    BY <1>2, <2>1
<1>8. TypeOK'
  <2>1. content' \in [Objects -> [Slots -> Objects \cup {NoObject}]]
    BY <1>2
  <2>2. rc' \in [Objects -> Nat]
    <3>1. rc' = [o \in Objects |-> rc'[o]]
      BY DEF LoadBreaks
    <3>2. \A o \in Objects : rc'[o] \in Nat
      BY <1>4, RefsFinite
    <3> QED
      BY <3>1, <3>2
  <2>3. aq' \in [Objects -> Nat]
    BY <1>2
  <2>4. public' \in SUBSET Objects
    BY <1>2
  <2> QED
    BY <1>1, <1>2, <2>1, <2>2, <2>3, <2>4 DEF Core, TypeOK
<1>9. NoDangling'
  <2>1. ASSUME NEW p \in Objects PROVE Children(p)' \subseteq alive'
    BY <1>2 DEF Children
  <2>2. ASSUME NEW p \in Objects \ alive' PROVE Children(p)' = {}
    BY <1>3 DEF Children, Empty
  <2>3. \A h \in Holders : held'[h] \subseteq alive'
    BY <1>1 DEF Core, NoDangling
  <2> QED
    BY <1>2, <1>3, <2>1, <2>2, <2>3 DEF NoDangling
<1> QED
  BY <1>5, <1>6, <1>7, <1>8, <1>9 DEF Core

LEMMA LInvInit == LoadInit => LInv
BY InitInv DEF LoadInit, LInv, IInv, OwnedInPlay

LEMMA LInvStep == LInv /\ [LoadNext]_svars => LInv'
<1> SUFFICES ASSUME LInv, [LoadNext]_svars PROVE LInv'
  OBVIOUS
<1>1. CASE Play
  <2>1. IInv
    BY <1>1 DEF Play, LInv, IInv, OwnedInPlay
  <2>2. IInv'
    BY <1>1, <2>1, StepInv DEF Play
  <2> QED
    BY <1>1, <2>2 DEF Play, LInv, IInv, OwnedInPlay
<1>2. CASE LoadRead
  BY <1>2, LoadReadStep DEF LInv, LoadRead, OwnedInPlay
<1>3. ASSUME NEW p \in Objects, NEW s \in Slots, EraseExpired(p, s) PROVE LInv'
  BY <1>3, EraseExpiredStep DEF LInv, EraseExpired, OwnedInPlay
<1>4. CASE LoadFinish
  <2>1. IInv'
    BY <1>4, CollectStep DEF LInv, LoadFinish
  <2> QED
    BY <1>4, <2>1 DEF LoadFinish, LInv, IInv, OwnedInPlay
<1>5. CASE LoadFails
  <2>1. IInv'
    BY <1>5, ClearStateStep DEF LoadFails
  <2> QED
    BY <1>5, <2>1 DEF LoadFails, LInv, IInv, OwnedInPlay
<1>6. CASE LoadBreaks
  BY <1>6, LoadBreaksStep DEF LInv, LoadBreaks, OwnedInPlay
<1>7. CASE UNCHANGED svars
  <2>1. Core' /\ (NoOrphans => NoOrphans')
    <3>1. UNCHANGED vars
      BY <1>7 DEF svars
    <3>2. TypeOK' /\ AQueueExact' /\ (NoOrphans => NoOrphans')
      BY <3>1 DEF LInv, Core, vars, TypeOK, AQueueExact, NoOrphans, NoOwners
    <3>3. RcExact' /\ StackExact'
      BY <3>1, RcKept, StackKept DEF LInv, Core, vars
    <3>4. NoDangling'
      BY <3>1, ChildrenKept DEF LInv, Core, vars, NoDangling
    <3> QED
      BY <3>2, <3>3, <3>4 DEF Core
  <2> QED
    BY <1>7, <2>1 DEF svars, LInv, OwnedInPlay
<1> QED
  BY <1>1, <1>2, <1>3, <1>4, <1>5, <1>6, <1>7 DEF LoadNext

LEMMA LInductive == LoadSpec => []LInv
BY LInvInit, LInvStep, PTL DEF LoadSpec

-----------------------------------------------------------------------------
(* The counters are exact in play and at every point of a load: what the   *)
(* archive leaves out grows again to what it was.                          *)
THEOREM CountersSurviveLoads == LoadSpec => []CountersExact
<1>1. LInv => CountersExact
  BY DEF LInv, Core, CountersExact
<1> QED
  BY LInductive, <1>1, PTL

(* Neither a save and a load nor a broken archive leaves a cell, an id or  *)
(* an entry of the queue that leads to no object.                          *)
THEOREM LoadsLeaveNoDangling == LoadSpec => []NoDangling
<1>1. LInv => NoDangling
  BY DEF LInv, Core
<1> QED
  BY LInductive, <1>1, PTL

(* Whenever the game runs every object has an owner, also after a load of  *)
(* a game in which Lua alone held it.                                      *)
THEOREM NothingHangsAfterLoads == LoadSpec => []OwnedInPlay
<1>1. LInv => OwnedInPlay
  BY DEF LInv
<1> QED
  BY LInductive, <1>1, PTL

(* No step but u_clearState takes away an owned object, the collection at  *)
(* the end of a load included.                                             *)
THEOREM LoadsKeepOwned == LoadSpec => KeptWhileOwned
<1>1. LInv /\ [LoadNext]_svars =>
        [\A o \in alive \ alive' :
           ClearState \/ ( /\ tes[o] = 0
                           /\ RefsTo(o) = {}
                           /\ \A h \in Holders : o \notin held[h])]_vars
  <2> SUFFICES ASSUME LInv, [LoadNext]_svars, NEW o \in alive \ alive', ~ClearState
               PROVE  /\ tes[o] = 0
                      /\ RefsTo(o) = {}
                      /\ \A h \in Holders : o \notin held[h]
    OBVIOUS
  <2>1. CASE Play
    BY <2>1, KeptStep DEF Play, LInv, IInv, OwnedInPlay
  <2>2. CASE LoadFinish
    <3>1. NoOwners(o) /\ o \in Objects
      BY <2>2 DEF LoadFinish, Collect, LInv, Core, TypeOK
    <3>2. rc[o] = 0 /\ tes[o] = 0 /\ stack[o] = 0
      BY <3>1 DEF NoOwners, LInv, Core, TypeOK
    <3> QED
      BY <3>1, <3>2, NoRefs, NoHolders DEF LInv, Core
  <2>3. CASE alive' = alive
    BY <2>3
  <2> QED
    BY <2>1, <2>2, <2>3 DEF LoadNext, LoadRead, EraseExpired, LoadBreaks, LoadFails, svars, vars
<1> QED
  BY LInductive, <1>1, PTL DEF LoadSpec, KeptWhileOwned

(* The collection at the end of a load is complete, too, although it may   *)
(* meet objects that have no owner at all.                                 *)
THEOREM LoadsCollectCompletely == LoadSpec => GcComplete
<1>1. LInv /\ [LoadNext]_svars => [Collect => \A o \in Garbage' : stack[o] > 0]_vars
  BY CompleteStep DEF LInv
<1> QED
  BY LInductive, <1>1, PTL DEF LoadSpec, GcComplete

(* The objects a load has to restore.                                      *)
Restores ==
  /\ LoadRead => GcRoots' = GcRoots
  /\ LoadFinish => \A o \in Reachable(GcRoots) :
                     /\ o \in alive'
                     /\ content'[o] = content[o]
                     /\ tes'[o] = tes[o]
                     /\ o \in public' <=> o \in public
                     /\ queue[o] > 0 => queue'[o] = queue[o] /\ age'[o] = age[o]

LEMMA RestoresStep ==
  ASSUME Core
  PROVE  Restores
<1>1. ASSUME LoadRead PROVE GcRoots' = GcRoots
  BY <1>1 DEF LoadRead, AqRead, GcRoots, Zero, Core, TypeOK, AQueueExact
<1>2. ASSUME LoadFinish, NEW o \in Reached
      PROVE  /\ o \in alive'
             /\ content'[o] = content[o]
             /\ tes'[o] = tes[o]
             /\ o \in public' <=> o \in public
             /\ queue[o] > 0 => queue'[o] = queue[o] /\ age'[o] = age[o]
  <2>1. Collect /\ tes' = tes
    BY <1>2 DEF LoadFinish, Collect
  <2>2. o \in Objects
    BY DEF Reached, Reachable, Core, TypeOK
  <2>3. queue[o] > 0 => aq[o] > 0
    BY <2>2 DEF Core, TypeOK, AQueueExact
  <2> QED
    BY <2>1, <2>2, <2>3, CollectSpares
<1> QED
  BY <1>1, <1>2 DEF Restores, Reached

(* What a script retained or the queue owned in the saved game, and all    *)
(* that it references, comes back as it was.                               *)
THEOREM LoadsRestoreReachable == LoadSpec => LoadRestores
<1>1. LInv => [Restores]_svars
  BY RestoresStep DEF LInv
<1> QED
  BY LInductive, <1>1, PTL DEF LoadRestores, Restores
=============================================================================
