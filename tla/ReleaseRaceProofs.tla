--------------------------- MODULE ReleaseRaceProofs ----------------------------
(***************************************************************************)
(* Proofs about ReleaseRace, for any finite number of threads, any roles   *)
(* and any number of retains.                                              *)
(***************************************************************************)
EXTENDS ReleaseRace, FiniteSetTheorems, TLAPS

(* A tick has decided to delete the object.                                *)
Doomed == tickPc \in {"remove", "free"} \/ ~exists

(* The queue's count is that of its references, but for the one that is    *)
(* left dangling; which references there are depends on where the tick is. *)
QueueCounted ==
  /\ inQueue \in {0, 1} /\ toRelease \in {0, 1} /\ scanning \in BOOLEAN /\ exists \in BOOLEAN
  /\ tickPc \in {"wait", "refCount", "verdict", "remove", "free"}
  /\ scanning => tickPc # "wait"
  /\ ~exists => tickPc = "wait" /\ ~inMap
  /\ tickPc = "free" => ~inMap
  /\ tickPc = "wait" /\ exists => toRelease = 0
  /\ tickPc \in {"refCount", "verdict"} => toRelease = 1 /\ (inQueue = 1 <=> scanning)
  /\ tickPc \in {"remove", "free"} => (toRelease = 1 <=> scanning)
  /\ IF Doomed /\ toRelease = 1 THEN count.aq = 0 /\ inQueue = 0
                                 ELSE count.aq = inQueue + toRelease

(* Which counter a thread gives back where.                                *)
DropsItsOwn(t) ==
  /\ pc[t] \in {"begin", "loop", "notProlong", "test", "decrement", "noOwners", "prolong", "done"}
  /\ dropping[t] \in {"rc", "tes", "stack"}
  /\ dropping[t] = "rc" <=> t \in Role("erase")
  /\ dropping[t] = "tes" => t \in Role("release") \cup Role("untag") /\ pc[t] \notin {"begin", "done"}
  /\ pc[t] = "begin" => t \in Role("insert") \cup Role("resolve") \cup Role("retain")
  /\ pc[t] = "notProlong" => t \in Role("retain")
  /\ pc[t] = "loop" => t \in Role("untag") /\ dropping[t] = "tes"
  /\ t \in Role("nothing") => pc[t] = "done"

Holders == {t \in Threads : Holding(t)}

RaceInv ==
  /\ cast \in Casts
  /\ count = [c \in Counters |-> count[c]]
  /\ pc = [t \in Threads |-> pc[t]]
  /\ dropping = [t \in Threads |-> dropping[t]]
  /\ QueueCounted
  /\ \A t \in Threads : DropsItsOwn(t)
  /\ StackCountExact

(* A step of one thread.                                                   *)
OnlyMoves(t) ==
  /\ cast' = cast
  /\ count' = [c \in Counters |-> count'[c]]
  /\ pc' = [u \in Threads |-> pc'[u]]
  /\ dropping' = [u \in Threads |-> dropping'[u]]
  /\ \A u \in Threads \ {t} : pc'[u] = pc[u] /\ dropping'[u] = dropping[u]

-----------------------------------------------------------------------------
LEMMA RoleOf ==
  ASSUME RaceInv, NEW t \in Threads
  PROVE  /\ cast.role[t] \in Roles
         /\ \A r \in Roles : t \in Role(r) <=> cast.role[t] = r
<1>1. cast.role \in [Threads -> Roles]
  BY RaceAssumption DEF RaceInv
<1> QED
  BY <1>1 DEF Role

LEMMA OthersStay ==
  ASSUME RaceInv, NEW t \in Threads, OnlyMoves(t), NEW u \in Threads \ {t}
  PROVE  DropsItsOwn(u)' /\ (Holding(u)' <=> Holding(u))
<1>1. DropsItsOwn(u) /\ pc'[u] = pc[u] /\ dropping'[u] = dropping[u] /\ cast' = cast
  BY DEF RaceInv, OnlyMoves
<1>2. DropsItsOwn(u)'
  BY <1>1 DEF DropsItsOwn, Role
<1>3. Holding(u)' <=> Holding(u)
  BY <1>1 DEF Holding, Callers, Role
<1> QED
  BY <1>2, <1>3

LEMMA HoldersFinite == IsFiniteSet(Holders) /\ Cardinality(Holders) \in Nat
<1>1. Holders \subseteq Threads
  BY DEF Holders
<1> QED
  BY <1>1, RaceAssumption, FS_Subset, FS_CardinalityType

(* The holders after a step of a thread: the same, one more, one less.     *)
LEMMA SameHolders ==
  ASSUME RaceInv, NEW t \in Threads, OnlyMoves(t), DropsItsOwn(t)', QueueCounted',
         Holding(t)' <=> Holding(t), count'.stack = count.stack, exists' => exists
  PROVE  RaceInv'
<1>1. Holders' = Holders
  BY OthersStay DEF Holders
<1>2. StackCountExact'
  BY <1>1 DEF RaceInv, StackCountExact, Holders
<1>3. \A u \in Threads : DropsItsOwn(u)'
  BY OthersStay
<1> QED
  BY <1>2, <1>3 DEF RaceInv, OnlyMoves

LEMMA OneMoreHolder ==
  ASSUME RaceInv, NEW t \in Threads, OnlyMoves(t), DropsItsOwn(t)', QueueCounted',
         Holding(t)', ~Holding(t), count'.stack = count.stack + 1, exists' => exists
  PROVE  RaceInv'
<1>1. Holders' = Holders \cup {t} /\ t \notin Holders
  BY OthersStay DEF Holders
<1>2. Cardinality(Holders') = Cardinality(Holders) + 1
  BY <1>1, HoldersFinite, FS_AddElement
<1>3. StackCountExact'
  BY <1>2 DEF RaceInv, StackCountExact, Holders
<1>4. \A u \in Threads : DropsItsOwn(u)'
  BY OthersStay
<1> QED
  BY <1>3, <1>4 DEF RaceInv, OnlyMoves

LEMMA OneHolderLess ==
  ASSUME RaceInv, NEW t \in Threads, OnlyMoves(t), DropsItsOwn(t)', QueueCounted',
         Holding(t), ~Holding(t)', count'.stack = count.stack - 1, exists' => exists
  PROVE  RaceInv'
<1>1. Holders' = Holders \ {t} /\ t \in Holders
  BY OthersStay DEF Holders
<1>2. Cardinality(Holders') = Cardinality(Holders) - 1
  BY <1>1, HoldersFinite, FS_RemoveElement
<1>3. StackCountExact'
  BY <1>2 DEF RaceInv, StackCountExact, Holders
<1>4. \A u \in Threads : DropsItsOwn(u)'
  BY OthersStay
<1> QED
  BY <1>3, <1>4 DEF RaceInv, OnlyMoves

(* A thread that still has to give back its stack reference finds one.     *)
LEMMA SomethingToGive ==
  ASSUME RaceInv, exists, NEW t \in Threads, Holding(t)
  PROVE  count.stack > 0
<1>1. t \in Holders
  BY DEF Holders
<1>2. Cardinality(Holders) # 0
  BY <1>1, HoldersFinite, FS_EmptySet
<1> QED
  BY <1>2, HoldersFinite DEF RaceInv, StackCountExact, Holders

(* AfterRelease: nobody who holds stops holding by it, nor the reverse.    *)
LEMMA Released ==
  ASSUME RaceInv, NEW t \in Threads, cast' = cast, count' = [c \in Counters |-> count'[c]],
         pc[t] \in {"test", "noOwners", "prolong"},
         pc[t] = "test" /\ dropping[t] = "stack" => ~Holding(t),
         AfterRelease(t)
  PROVE  OnlyMoves(t) /\ DropsItsOwn(t)' /\ (Holding(t)' <=> Holding(t))
<1>1. OnlyMoves(t)
  BY DEF RaceInv, AfterRelease, Goto, OnlyMoves
<1>2. DropsItsOwn(t)
  BY DEF RaceInv
<1>3. CASE dropping[t] = "tes" /\ t \in Role("untag")
  <2>1. pc'[t] = "loop" /\ dropping'[t] = "tes"
    BY <1>3 DEF RaceInv, AfterRelease, Goto
  <2> QED
    BY <1>1, <1>2, <1>3, <2>1, RoleOf DEF DropsItsOwn, Holding, Callers, Role, Roles
<1>4. CASE dropping[t] = "tes" /\ t \notin Role("untag")
  <2>1. pc'[t] = "test" /\ dropping'[t] = "stack"
    BY <1>4 DEF RaceInv, AfterRelease, Goto
  <2> QED
    BY <1>1, <1>2, <1>4, <2>1, RoleOf DEF DropsItsOwn, Holding, Callers, Role, Roles
<1>5. CASE dropping[t] # "tes"
  <2>1. /\ pc'[t] = IF t \in Role("resolve") THEN "begin" ELSE "done"
        /\ dropping'[t] = dropping[t]
    BY <1>5 DEF RaceInv, AfterRelease, Goto
  <2> QED
    BY <1>1, <1>2, <1>5, <2>1, RoleOf DEF DropsItsOwn, Holding, Callers, Role, Roles
<1> QED
  BY <1>1, <1>3, <1>4, <1>5

-----------------------------------------------------------------------------
LEMMA RaceInit == Init => RaceInv
<1> SUFFICES ASSUME Init PROVE RaceInv
  OBVIOUS
<1> USE DEF Init
<1>1. /\ cast \in Casts
      /\ count = [c \in Counters |-> count[c]]
      /\ pc = [t \in Threads |-> pc[t]]
      /\ dropping = [t \in Threads |-> dropping[t]]
  BY DEF Counters
<1>2. QueueCounted
  <2>1. ~scanning /\ scanning \in BOOLEAN /\ exists /\ exists \in BOOLEAN
    OBVIOUS
  <2>2. inQueue \in {0, 1} /\ toRelease = 0 /\ tickPc = "wait" /\ count.aq = inQueue
    OBVIOUS
  <2> HIDE DEF Init
  <2> QED
    BY <2>1, <2>2 DEF QueueCounted, Doomed
<1>3. ASSUME NEW t \in Threads
      PROVE  DropsItsOwn(t) /\ (Holding(t) <=> t \in Callers)
  <2>1. cast.role[t] \in Roles
    BY RaceAssumption
  <2>2. /\ pc[t] = IF t \in Role("insert") \cup Role("resolve") \cup Role("retain") THEN "begin"
                   ELSE IF t \in Role("untag") THEN "loop"
                   ELSE IF t \in Role("nothing") THEN "done" ELSE "test"
        /\ dropping[t] = IF t \in Role("erase") THEN "rc"
                         ELSE IF t \in Role("release") \cup Role("untag") THEN "tes"
                         ELSE "stack"
    OBVIOUS
  <2> HIDE DEF Init
  <2>3. DropsItsOwn(t)
    BY <2>1, <2>2 DEF DropsItsOwn, Role, Roles
  <2>4. Holding(t) <=> t \in Callers
    BY <2>1, <2>2 DEF Holding, Callers, Role, Roles
  <2> QED
    BY <2>3, <2>4
<1>4. {t \in Threads : Holding(t)} = Callers
  BY <1>3 DEF Callers, Role
<1>5. StackCountExact
  BY <1>4 DEF StackCountExact
<1> QED
  BY <1>1, <1>2, <1>3, <1>5 DEF RaceInv

LEMMA SameQueue ==
  ASSUME QueueCounted, count'.aq = count.aq, UNCHANGED << object, timer >>
  PROVE  QueueCounted'
BY DEF object, timer, QueueCounted, Doomed

LEMMA BeginKeeps ==
  ASSUME RaceInv, NEW t \in Threads,
         Retain(t) \/ GetObjectRef(t) \/ TesRetain(t) \/ NotProlongLifetime(t) \/ Loop(t)
  PROVE  RaceInv'
<1>1. DropsItsOwn(t) /\ QueueCounted
  BY DEF RaceInv
<1>0. count'.aq = count.aq /\ UNCHANGED << object, timer >>
  BY DEF RaceInv, Retain, GetObjectRef, TesRetain, NotProlongLifetime, Loop, Take, Counters
<1>2. QueueCounted'
  BY <1>0, <1>1, SameQueue
<1>3. exists' => exists
  BY <1>0 DEF object
<1>4. CASE Retain(t)
  <2>1. OnlyMoves(t) /\ pc'[t] = "test" /\ dropping'[t] = dropping[t] /\ count'.stack = count.stack
    BY <1>4 DEF RaceInv, Retain, Take, Goto, OnlyMoves, Counters
  <2>2. cast' = cast /\ pc[t] = "begin" /\ t \in Role("insert")
    BY <1>4 DEF Retain
  <2>3. DropsItsOwn(t)' /\ (Holding(t)' <=> Holding(t))
    BY <1>1, <2>1, <2>2, RoleOf DEF DropsItsOwn, Holding, Callers, Role, Roles
  <2> QED
    BY <1>2, <1>3, <2>1, <2>3, SameHolders
<1>5. CASE GetObjectRef(t)
  <2>1. OnlyMoves(t) /\ pc'[t] = "test" /\ dropping'[t] = dropping[t] /\ count'.stack = count.stack + 1
    BY <1>5 DEF RaceInv, GetObjectRef, Take, Goto, OnlyMoves, Counters
  <2>2. cast' = cast /\ pc[t] = "begin" /\ t \in Role("resolve")
    BY <1>5 DEF GetObjectRef
  <2>3. DropsItsOwn(t)' /\ Holding(t)' /\ ~Holding(t)
    BY <1>1, <2>1, <2>2, RoleOf DEF DropsItsOwn, Holding, Callers, Role, Roles
  <2> QED
    BY <1>2, <1>3, <2>1, <2>3, OneMoreHolder
<1>6. CASE TesRetain(t)
  <2>1. OnlyMoves(t) /\ pc'[t] = "notProlong" /\ dropping'[t] = dropping[t] /\ count'.stack = count.stack
    BY <1>6 DEF RaceInv, TesRetain, Take, Goto, OnlyMoves, Counters
  <2>2. cast' = cast /\ pc[t] = "begin" /\ t \in Role("retain")
    BY <1>6 DEF TesRetain
  <2>3. DropsItsOwn(t)' /\ (Holding(t)' <=> Holding(t))
    BY <1>1, <2>1, <2>2, RoleOf DEF DropsItsOwn, Holding, Callers, Role, Roles
  <2> QED
    BY <1>2, <1>3, <2>1, <2>3, SameHolders
<1>7. CASE NotProlongLifetime(t)
  <2>1. OnlyMoves(t) /\ pc'[t] = "test" /\ dropping'[t] = dropping[t] /\ count'.stack = count.stack
    BY <1>7 DEF RaceInv, NotProlongLifetime, Goto, OnlyMoves
  <2>2. cast' = cast /\ pc[t] = "notProlong" /\ t \in Role("retain")
    BY <1>1, <1>7 DEF NotProlongLifetime, DropsItsOwn
  <2>3. DropsItsOwn(t)' /\ (Holding(t)' <=> Holding(t))
    BY <1>1, <2>1, <2>2, RoleOf DEF DropsItsOwn, Holding, Callers, Role, Roles
  <2> QED
    BY <1>2, <1>3, <2>1, <2>3, SameHolders
<1>8. CASE Loop(t)
  <2>1. /\ OnlyMoves(t) /\ pc'[t] = "test" /\ dropping'[t] \in {dropping[t], "stack"}
        /\ count'.stack = count.stack
    BY <1>8 DEF RaceInv, Loop, Goto, OnlyMoves
  <2>2. cast' = cast /\ pc[t] = "loop" /\ t \in Role("untag")
    BY <1>8 DEF Loop
  <2>3. DropsItsOwn(t)' /\ (Holding(t)' <=> Holding(t))
    BY <1>1, <2>1, <2>2, RoleOf DEF DropsItsOwn, Holding, Callers, Role, Roles
  <2> QED
    BY <1>2, <1>3, <2>1, <2>3, SameHolders
<1> QED
  BY <1>4, <1>5, <1>6, <1>7, <1>8

LEMMA TestKeeps ==
  ASSUME RaceInv, NEW t \in Threads, Test(t)
  PROVE  RaceInv'
<1>1. DropsItsOwn(t) /\ pc[t] = "test" /\ exists
  BY DEF RaceInv, Test
<1>2. QueueCounted' /\ cast' = cast /\ count' = count /\ exists' = exists
  BY SameQueue DEF RaceInv, Test, object
<1>3. CASE count[dropping[t]] > 0
  <2>1. OnlyMoves(t) /\ pc'[t] = "decrement" /\ dropping'[t] = dropping[t]
    BY <1>2, <1>3 DEF RaceInv, Test, Goto, OnlyMoves
  <2>2. DropsItsOwn(t)' /\ (Holding(t)' <=> Holding(t))
    BY <1>1, <1>2, <2>1, RoleOf DEF DropsItsOwn, Holding, Callers, Role, Roles
  <2> QED
    BY <1>2, <2>1, <2>2, SameHolders
<1>4. CASE ~(count[dropping[t]] > 0)
  <2>1. dropping[t] = "stack" => ~Holding(t)
    BY <1>1, <1>4, SomethingToGive
  <2>2. AfterRelease(t)
    BY <1>4 DEF Test
  <2>3. OnlyMoves(t) /\ DropsItsOwn(t)' /\ (Holding(t)' <=> Holding(t))
    BY <1>1, <1>2, <2>1, <2>2, Released DEF RaceInv
  <2> QED
    BY <1>2, <2>3, SameHolders
<1> QED
  BY <1>3, <1>4

LEMMA DecrementKeeps ==
  ASSUME RaceInv, NEW t \in Threads, Decrement(t)
  PROVE  RaceInv'
<1>1. DropsItsOwn(t) /\ pc[t] = "decrement"
  BY DEF RaceInv, Decrement
<1>2. cast' = cast /\ exists' = exists /\ OnlyMoves(t) /\ pc'[t] = "noOwners" /\ dropping'[t] = dropping[t]
  BY DEF RaceInv, Decrement, Goto, object, OnlyMoves, Counters
<1>3. dropping[t] \in {"rc", "tes", "stack"}
  BY <1>1 DEF DropsItsOwn
<1>4. count'.aq = count.aq
  BY <1>3 DEF RaceInv, Decrement, Counters
<1>5. QueueCounted'
  BY <1>4, SameQueue DEF RaceInv, Decrement
<1>6. DropsItsOwn(t)'
  BY <1>1, <1>2 DEF DropsItsOwn, Role
<1>7. CASE dropping[t] = "stack"
  <2>1. count'.stack = count.stack - 1
    BY <1>7 DEF RaceInv, Decrement, Counters
  <2>2. Holding(t) /\ ~Holding(t)'
    BY <1>1, <1>2, <1>7, RoleOf DEF DropsItsOwn, Holding, Callers, Role, Roles
  <2> QED
    BY <1>2, <1>5, <1>6, <2>1, <2>2, OneHolderLess
<1>8. CASE dropping[t] # "stack"
  <2>1. count'.stack = count.stack
    BY <1>3, <1>8 DEF RaceInv, Decrement, Counters
  <2>2. Holding(t)' <=> Holding(t)
    BY <1>1, <1>2, <1>8, RoleOf DEF DropsItsOwn, Holding, Callers, Role, Roles
  <2> QED
    BY <1>2, <1>5, <1>6, <2>1, <2>2, SameHolders
<1> QED
  BY <1>7, <1>8

LEMMA NoOwnersKeeps ==
  ASSUME RaceInv, NEW t \in Threads, NoOwners(t)
  PROVE  RaceInv'
<1>1. DropsItsOwn(t) /\ pc[t] = "noOwners"
  BY DEF RaceInv, NoOwners
<1>2. QueueCounted' /\ cast' = cast /\ count' = count /\ exists' = exists
  BY SameQueue DEF RaceInv, NoOwners, object
<1>3. CASE UNCHANGED << pc, dropping >>
  <2>1. OnlyMoves(t) /\ pc'[t] = pc[t] /\ dropping'[t] = dropping[t]
    BY <1>2, <1>3 DEF RaceInv, OnlyMoves
  <2>2. DropsItsOwn(t)' /\ (Holding(t)' <=> Holding(t))
    BY <1>1, <1>2, <2>1 DEF DropsItsOwn, Holding, Callers, Role
  <2> QED
    BY <1>2, <2>1, <2>2, SameHolders
<1>4. CASE Goto(t, "prolong") /\ UNCHANGED dropping
  <2>1. OnlyMoves(t) /\ pc'[t] = "prolong" /\ dropping'[t] = dropping[t]
    BY <1>2, <1>4 DEF RaceInv, Goto, OnlyMoves
  <2>2. DropsItsOwn(t)' /\ (Holding(t)' <=> Holding(t))
    BY <1>1, <1>2, <2>1, RoleOf DEF DropsItsOwn, Holding, Callers, Role, Roles
  <2> QED
    BY <1>2, <2>1, <2>2, SameHolders
<1>5. CASE AfterRelease(t)
  <2>1. OnlyMoves(t) /\ DropsItsOwn(t)' /\ (Holding(t)' <=> Holding(t))
    BY <1>1, <1>2, <1>5, Released DEF RaceInv
  <2> QED
    BY <1>2, <2>1, SameHolders
<1> QED
  BY <1>3, <1>4, <1>5 DEF NoOwners

LEMMA ProlongKeeps ==
  ASSUME RaceInv, NEW t \in Threads, ProlongLifetime(t)
  PROVE  RaceInv'
<1>1. /\ cast' = cast /\ exists' = exists /\ AfterRelease(t)
      /\ pc[t] = "prolong"
  BY DEF ProlongLifetime
<1>2. count' = [c \in Counters |-> count'[c]] /\ count'.stack = count.stack
  BY DEF RaceInv, ProlongLifetime, Counters
<1>3. QueueCounted'
  <2>0. UNCHANGED << toRelease, inMap, exists, tickPc, scanning >> /\ exists /\ ~scanning
    BY DEF ProlongLifetime, timer
  <2>1. CASE may_push
    <3>1. count'.aq = count.aq + 1 /\ inQueue' = inQueue + 1
      BY <2>1 DEF RaceInv, ProlongLifetime, Counters
    <3>2. count.aq = 0 /\ inQueue = 0 /\ toRelease = 0
      BY <2>0, <2>1 DEF RaceInv, QueueCounted, Doomed, may_push
    <3> QED
      BY <2>0, <3>1, <3>2 DEF RaceInv, QueueCounted, Doomed
  <2>2. CASE ~may_push
    BY <2>2, SameQueue DEF RaceInv, ProlongLifetime, object
  <2> QED
    BY <2>1, <2>2
<1>4. OnlyMoves(t) /\ DropsItsOwn(t)' /\ (Holding(t)' <=> Holding(t))
  BY <1>1, <1>2, Released
<1> QED
  BY <1>1, <1>2, <1>3, <1>4, SameHolders

LEMMA TimerKeeps ==
  ASSUME RaceInv, Timer
  PROVE  RaceInv'
<1>1. cast' = cast /\ pc' = pc /\ dropping' = dropping /\ (exists' => exists)
  BY DEF Timer, TickScan, TickLoad, TickForget, TickReset, TickRemove, TickFree, object, threads
<1>2. count' = [c \in Counters |-> count'[c]] /\ count'.stack = count.stack
  BY DEF RaceInv, Counters, Timer, TickScan, TickLoad, TickForget, TickReset, TickRemove, TickFree
<1>3. QueueCounted'
  <2>0. QueueCounted /\ count = [c \in Counters |-> count[c]]
    BY DEF RaceInv
  <2>1. CASE TickScan
    <3>1. count'.aq = count.aq + 1
      BY <2>0, <2>1 DEF TickScan, Counters
    <3> QED
      BY <2>0, <2>1, <3>1 DEF QueueCounted, Doomed, TickScan, BeginSum
  <2>2. CASE TickLoad
    <3>1. tickPc = "refCount" /\ tickPc' \in {"refCount", "verdict"}
      BY <2>2 DEF TickLoad
    <3> QED
      BY <2>0, <2>2, <3>1 DEF QueueCounted, Doomed, TickLoad, object
  <2>3. CASE TickForget
    <3>1. count'.aq = count.aq - 1 /\ tickPc = "verdict"
      BY <2>0, <2>3 DEF TickForget, Counters
    <3>2. ~scanning' /\ scanning' \in BOOLEAN /\ exists' = exists /\ inMap' = inMap
      BY <2>3 DEF TickForget
    <3>3. toRelease = 1 /\ (inQueue = 1 <=> scanning) /\ exists /\ count.aq = inQueue + toRelease
      BY <2>0, <3>1 DEF QueueCounted, Doomed
    <3>4. CASE scanning
      <4>1. inQueue' = inQueue - 1 /\ toRelease' = toRelease /\ tickPc' = "refCount"
        BY <2>3, <3>4 DEF TickForget, ReferenceGoes, BeginSum
      <4> QED
        BY <2>0, <3>1, <3>2, <3>3, <3>4, <4>1 DEF QueueCounted, Doomed
    <3>5. CASE ~scanning
      <4>1. inQueue' = inQueue /\ toRelease' = toRelease - 1 /\ tickPc' = "wait"
        BY <2>3, <3>5 DEF TickForget, ReferenceGoes
      <4> QED
        BY <2>0, <3>1, <3>2, <3>3, <3>5, <4>1 DEF QueueCounted, Doomed
    <3> QED
      BY <3>4, <3>5
  <2>4. CASE TickReset
    <3>1. count'.aq = 0
      BY <2>0, <2>4 DEF TickReset, Counters
    <3> QED
      BY <2>0, <2>4, <3>1 DEF QueueCounted, Doomed, TickReset, ReferenceGoes
  <2>5. CASE TickRemove
    <3>1. ~inMap' /\ exists' = exists /\ scanning' = scanning
      BY <2>5 DEF TickRemove
    <3> QED
      BY <2>0, <2>5, <3>1 DEF QueueCounted, Doomed, TickRemove
  <2>6. CASE TickFree
    <3>1. ~exists' /\ exists' \in BOOLEAN /\ ~scanning' /\ scanning' \in BOOLEAN /\ inMap' = inMap
      BY <2>6 DEF TickFree
    <3> QED
      BY <2>0, <2>6, <3>1 DEF QueueCounted, Doomed, TickFree
  <2> QED
    BY <2>1, <2>2, <2>3, <2>4, <2>5, <2>6 DEF Timer
<1>4. ASSUME NEW t \in Threads
      PROVE  DropsItsOwn(t)' /\ (Holding(t)' <=> Holding(t))
  BY <1>1 DEF RaceInv, DropsItsOwn, Holding, Callers, Role
<1>5. Holders' = Holders
  BY <1>4 DEF Holders
<1>6. StackCountExact'
  BY <1>1, <1>2, <1>5 DEF RaceInv, StackCountExact, Holders
<1> QED
  BY <1>1, <1>2, <1>3, <1>4, <1>6 DEF RaceInv

LEMMA RaceStands ==
  ASSUME RaceInv, UNCHANGED vars
  PROVE  RaceInv'
<1>1. ASSUME NEW t \in Threads
      PROVE  DropsItsOwn(t)' /\ (Holding(t)' <=> Holding(t))
  BY DEF RaceInv, vars, threads, DropsItsOwn, Holding, Callers, Role
<1>2. Holders' = Holders
  BY <1>1 DEF Holders
<1>3. StackCountExact'
  BY <1>2 DEF RaceInv, vars, object, StackCountExact, Holders
<1>4. QueueCounted'
  BY SameQueue DEF RaceInv, vars
<1> QED
  BY <1>1, <1>3, <1>4 DEF RaceInv, vars, threads

LEMMA RaceStep ==
  ASSUME RaceInv, [Next]_vars
  PROVE  RaceInv'
<1>1. ASSUME NEW t \in Threads, Step(t) PROVE RaceInv'
  BY <1>1, BeginKeeps, TestKeeps, DecrementKeeps, NoOwnersKeeps, ProlongKeeps DEF Step
<1> QED
  BY <1>1, TimerKeeps, RaceStands DEF Next

LEMMA RaceInductive == Spec => []RaceInv
BY RaceInit, RaceStep, PTL DEF Spec

(* The test "if (counter > 0)" and the decrement behind it are two steps,  *)
(* and yet no call loses its stack reference to another call's.            *)
THEOREM StackCountNeverDrifts == Spec => []StackCountExact
<1>1. RaceInv => StackCountExact
  BY DEF RaceInv
<1> QED
  BY RaceInductive, <1>1, PTL

-----------------------------------------------------------------------------
(* What a tick may free, and what a release leaves behind.                 *)

(* Containers reference the object in the items that are still to be       *)
(* erased and in those that were inserted.                                 *)
InItems(t) ==
  \/ t \in Role("erase") /\ pc[t] \in {"test", "decrement"}
  \/ t \in Role("insert") /\ pc[t] # "begin"

ItemCountExact == exists => count.rc = Cardinality({t \in Threads : InItems(t)})

CountsTyped ==
  /\ count \in [Counters -> Int] /\ count.rc >= 0 /\ count.stack >= 0
  /\ load \in [Threads -> 1 .. 4]
  /\ unread \subseteq Counters /\ sum \in Int /\ cancelled \in BOOLEAN
  /\ tickPc = "verdict" => unread = {}

(* A bound from below on what the tick loads, or has loaded, of a counter  *)
(* that was not negative then: the value it has now, unless a reference    *)
(* was taken since the sum was begun.                                      *)
AtLeast(c) ==
  IF c = "aq" THEN (IF scanning THEN 2 ELSE 1)
  ELSE IF c \in taken \/ count[c] < 0 THEN 0 ELSE count[c]

LoadedOf(c) == IF c \in unread THEN 0 ELSE AtLeast(c)

(* The sum is at least that, and a sum that is too small to spare the      *)
(* object leaves nothing for the counters of owners; in the scan, where    *)
(* the queue's counter is two, it is never that small.                     *)
SumIsFair ==
  \/ cancelled
  \/ /\ tickPc \in {"refCount", "verdict"} =>
          sum >= LoadedOf("aq") + LoadedOf("tes") + LoadedOf("stack") + LoadedOf("rc")
     /\ Doomed => /\ AtLeast("tes") + AtLeast("stack") + AtLeast("rc") <= 0
                  /\ toRelease = 0

FreeInv == RaceInv /\ CountsTyped /\ ItemCountExact /\ SumIsFair

(* Without a timer: the object has an owner, or a call that took the last  *)
(* owner away is about to find out.                                        *)
SomebodyCares ==
  /\ exists
  /\ \/ \E c \in Counters : count[c] > 0
     \/ \E t \in Threads : pc[t] \in {"noOwners", "prolong"}

CareInv == ~cast.ticking => tickPc = "wait" /\ SomebodyCares

(* What a step of one thread does to the counters.                         *)
Effects(t) ==
  /\ OnlyMoves(t)
  /\ exists' = exists /\ toRelease' = toRelease /\ UNCHANGED timer
  /\ ~exists => count'.rc >= 0 /\ count'.stack >= 0
  /\ count' \in [Counters -> Int] /\ load' \in [Threads -> 1 .. 4]
  /\ \A c \in {"tes", "stack", "rc"} :
       /\ c \in taken => c \in taken'
       /\ count'[c] <= count[c] \/ c \in taken' \/ (tickPc = "wait" /\ exists)
  /\ \/ count'.rc = count.rc /\ (InItems(t)' <=> InItems(t))
     \/ count'.rc = count.rc + 1 /\ InItems(t)' /\ ~InItems(t) /\ t \in Role("insert")
     \/ count'.rc = count.rc - 1 /\ InItems(t) /\ ~InItems(t)'

ItemHolders == {t \in Threads : InItems(t)}

LEMMA ItemHoldersFinite == IsFiniteSet(ItemHolders) /\ Cardinality(ItemHolders) \in Nat
<1>1. ItemHolders \subseteq Threads
  BY DEF ItemHolders
<1> QED
  BY <1>1, RaceAssumption, FS_Subset, FS_CardinalityType

LEMMA CountersTyped ==
  ASSUME CountsTyped
  PROVE  count.rc \in Int /\ count.tes \in Int /\ count.stack \in Int /\ count.aq \in Int
BY DEF CountsTyped, Counters

LEMMA AfterReleaseMoves ==
  ASSUME RaceInv, NEW t \in Threads, cast' = cast, count' = [c \in Counters |-> count'[c]],
         pc[t] \in {"test", "noOwners", "prolong"},
         pc[t] = "test" => t \notin Role("erase"),
         AfterRelease(t)
  PROVE  OnlyMoves(t) /\ (InItems(t)' <=> InItems(t))
<1>1. OnlyMoves(t)
  BY DEF RaceInv, AfterRelease, Goto, OnlyMoves
<1>2. DropsItsOwn(t)
  BY DEF RaceInv
<1>3. pc'[t] \in {"loop", "test", "begin", "done"}
  BY DEF RaceInv, AfterRelease, Goto
<1>4. pc'[t] = "begin" => t \in Role("resolve")
  BY DEF RaceInv, AfterRelease, Goto
<1>5. \A r \in Roles : t \in Role(r)' <=> t \in Role(r)
  BY DEF Role
<1>6. t \in Role("erase") => pc'[t] = "done"
  <2> SUFFICES ASSUME t \in Role("erase") PROVE pc'[t] = "done"
    OBVIOUS
  <2>1. dropping[t] # "tes" /\ t \notin Role("resolve")
    BY <1>2, RoleOf DEF DropsItsOwn, Role, Roles
  <2> QED
    BY <2>1 DEF RaceInv, AfterRelease, Goto
<1> QED
  BY <1>1, <1>3, <1>4, <1>5, <1>6, RoleOf DEF InItems, Roles, Role

LEMMA TakeEffects ==
  ASSUME CountsTyped, NEW c \in Counters, Take(c)
  PROVE  /\ count' = [count EXCEPT ![c] = @ + 1] /\ count' \in [Counters -> Int]
         /\ \A d \in Counters : d \in taken => d \in taken'
         /\ tickPc = "wait" \/ c \in taken'
BY DEF CountsTyped, Take

LEMMA BeginEffects ==
  ASSUME RaceInv, CountsTyped, NEW t \in Threads,
         Retain(t) \/ GetObjectRef(t) \/ TesRetain(t) \/ NotProlongLifetime(t) \/ Loop(t)
  PROVE  Effects(t)
<1>0. /\ count \in [Counters -> Int] /\ load \in [Threads -> 1 .. 4]
      /\ cast.role[t] \in Roles
      /\ \A r \in Roles : t \in Role(r) <=> cast.role[t] = r
  BY RoleOf DEF CountsTyped
<1>1. CASE Retain(t)
  <2>1. Take("rc") /\ load' = load /\ exists' = exists /\ exists /\ toRelease' = toRelease
        /\ UNCHANGED timer /\ cast' = cast
    BY <1>1 DEF Retain, object
  <2>2. /\ OnlyMoves(t) /\ pc'[t] = "test" /\ pc[t] = "begin" /\ t \in Role("insert")
        /\ count'.rc = count.rc + 1 /\ count'.tes = count.tes /\ count'.stack = count.stack
    BY <1>0, <1>1 DEF RaceInv, Retain, Take, Goto, OnlyMoves, Counters
  <2>3. InItems(t)' /\ ~InItems(t)
    BY <1>0, <2>1, <2>2 DEF InItems, Role, Roles
  <2>4. \A c \in {"tes", "stack", "rc"} :
          /\ c \in taken => c \in taken'
          /\ count'[c] <= count[c] \/ c \in taken' \/ (tickPc = "wait" /\ exists)
    BY <1>0, <2>1, <2>2, TakeEffects, CountersTyped DEF Counters
  <2> QED
    BY <1>0, <2>1, <2>2, <2>3, <2>4, TakeEffects DEF Effects, Counters
<1>2. CASE GetObjectRef(t)
  <2>1. Take("stack") /\ load' = load /\ exists' = exists /\ toRelease' = toRelease
        /\ UNCHANGED timer /\ cast' = cast
    BY <1>2 DEF GetObjectRef, object
  <2>2. exists
    BY <1>2 DEF RaceInv, QueueCounted, GetObjectRef
  <2>3. /\ OnlyMoves(t) /\ pc'[t] = "test" /\ pc[t] = "begin" /\ t \in Role("resolve")
        /\ count'.rc = count.rc /\ count'.tes = count.tes /\ count'.stack = count.stack + 1
    BY <1>0, <1>2 DEF RaceInv, GetObjectRef, Take, Goto, OnlyMoves, Counters
  <2>4. ~InItems(t)' /\ ~InItems(t)
    BY <1>0, <2>1, <2>3 DEF InItems, Role, Roles
  <2>5. \A c \in {"tes", "stack", "rc"} :
          /\ c \in taken => c \in taken'
          /\ count'[c] <= count[c] \/ c \in taken' \/ (tickPc = "wait" /\ exists)
    BY <1>0, <2>1, <2>2, <2>3, TakeEffects, CountersTyped DEF Counters
  <2> QED
    BY <1>0, <2>1, <2>2, <2>3, <2>4, <2>5, TakeEffects DEF Effects, Counters
<1>3. CASE TesRetain(t)
  <2>1. Take("tes") /\ load' = load /\ exists' = exists /\ exists /\ toRelease' = toRelease
        /\ UNCHANGED timer /\ cast' = cast
    BY <1>3 DEF TesRetain, object
  <2>2. /\ OnlyMoves(t) /\ pc'[t] = "notProlong" /\ pc[t] = "begin" /\ t \in Role("retain")
        /\ count'.rc = count.rc /\ count'.tes = count.tes + 1 /\ count'.stack = count.stack
    BY <1>0, <1>3 DEF RaceInv, TesRetain, Take, Goto, OnlyMoves, Counters
  <2>3. ~InItems(t)' /\ ~InItems(t)
    BY <1>0, <2>1, <2>2 DEF InItems, Role, Roles
  <2>4. \A c \in {"tes", "stack", "rc"} :
          /\ c \in taken => c \in taken'
          /\ count'[c] <= count[c] \/ c \in taken' \/ (tickPc = "wait" /\ exists)
    BY <1>0, <2>1, <2>2, TakeEffects, CountersTyped DEF Counters
  <2> QED
    BY <1>0, <2>1, <2>2, <2>3, <2>4, TakeEffects DEF Effects, Counters
<1>4. CASE NotProlongLifetime(t) \/ Loop(t)
  <2>1. /\ OnlyMoves(t) /\ t \in Role("untag") \cup Role("retain")
        /\ count' = count /\ load' = load /\ taken' = taken
    BY <1>0, <1>4 DEF RaceInv, DropsItsOwn, NotProlongLifetime, Loop, Goto, OnlyMoves, Counters
  <2>2. /\ exists' = exists /\ exists /\ toRelease' = toRelease /\ UNCHANGED timer
        /\ cast' = cast
    BY <1>4 DEF NotProlongLifetime, Loop, object
  <2>3. ~InItems(t)' /\ ~InItems(t)
    BY <1>0, <2>1, <2>2 DEF InItems, Role, Roles
  <2> QED
    BY <1>0, <2>1, <2>2, <2>3, CountersTyped DEF Effects
<1> QED
  BY <1>1, <1>2, <1>3, <1>4

LEMMA TestEffects ==
  ASSUME RaceInv, CountsTyped, ItemCountExact, NEW t \in Threads, Test(t)
  PROVE  Effects(t)
<1>0. /\ count \in [Counters -> Int] /\ load \in [Threads -> 1 .. 4]
      /\ cast.role[t] \in Roles
      /\ \A r \in Roles : t \in Role(r) <=> cast.role[t] = r
  BY RoleOf DEF CountsTyped
<1>1. /\ pc[t] = "test" /\ exists /\ exists' = exists /\ toRelease' = toRelease /\ taken' = taken /\ UNCHANGED timer
      /\ cast' = cast /\ count' = count /\ load' = load
  BY DEF Test, object
<1>2. SUFFICES OnlyMoves(t) /\ (InItems(t)' <=> InItems(t))
  BY <1>0, <1>1, CountersTyped DEF Effects
<1>3. CASE count[dropping[t]] > 0
  <2>1. OnlyMoves(t) /\ pc'[t] = "decrement"
    BY <1>1, <1>3 DEF RaceInv, Test, Goto, OnlyMoves
  <2> QED
    BY <1>0, <1>1, <2>1 DEF InItems, Role, Roles
<1>4. CASE ~(count[dropping[t]] > 0)
  <2>1. t \notin Role("erase")
    <3> SUFFICES ASSUME t \in Role("erase") PROVE FALSE
      OBVIOUS
    <3>1. t \in ItemHolders /\ dropping[t] = "rc"
      BY <1>1 DEF ItemHolders, InItems, RaceInv, DropsItsOwn
    <3>2. Cardinality(ItemHolders) # 0
      BY <3>1, ItemHoldersFinite, FS_EmptySet
    <3>3. count.rc > 0
      BY <1>1, <3>2, ItemHoldersFinite DEF ItemCountExact, ItemHolders
    <3> QED
      BY <1>4, <3>1, <3>3
  <2>2. AfterRelease(t)
    BY <1>4 DEF Test
  <2> QED
    BY <1>1, <2>1, <2>2, AfterReleaseMoves DEF RaceInv
<1> QED
  BY <1>3, <1>4

LEMMA DecrementEffects ==
  ASSUME RaceInv, CountsTyped, NEW t \in Threads, Decrement(t)
  PROVE  Effects(t)
<1>0. /\ count \in [Counters -> Int] /\ load \in [Threads -> 1 .. 4]
      /\ cast.role[t] \in Roles
      /\ \A r \in Roles : t \in Role(r) <=> cast.role[t] = r
  BY RoleOf DEF CountsTyped
<1>1. /\ pc[t] = "decrement" /\ exists' = exists /\ exists /\ toRelease' = toRelease /\ taken' = taken /\ UNCHANGED timer
      /\ cast' = cast /\ count' = [count EXCEPT ![dropping[t]] = @ - 1]
      /\ load' = [load EXCEPT ![t] = 1]
  BY DEF Decrement, object
<1>2. load' \in [Threads -> 1 .. 4]
  BY <1>0, <1>1
<1>3. dropping[t] \in {"rc", "tes", "stack"} /\ (dropping[t] = "rc" <=> t \in Role("erase"))
  BY DEF RaceInv, DropsItsOwn
<1>4. /\ count' \in [Counters -> Int]
      /\ count'.tes = IF dropping[t] = "tes" THEN count.tes - 1 ELSE count.tes
      /\ count'.stack = IF dropping[t] = "stack" THEN count.stack - 1 ELSE count.stack
      /\ count'.rc = IF dropping[t] = "rc" THEN count.rc - 1 ELSE count.rc
  BY <1>0, <1>1, <1>3 DEF Counters
<1>5. OnlyMoves(t) /\ pc'[t] = "noOwners"
  BY DEF RaceInv, Decrement, Goto, object, OnlyMoves, Counters
<1>6. IF t \in Role("erase") THEN InItems(t) /\ ~InItems(t)' ELSE InItems(t)' <=> InItems(t)
  BY <1>0, <1>1, <1>5 DEF InItems, Role, Roles
<1> QED
  BY <1>1, <1>2, <1>3, <1>4, <1>5, <1>6, CountersTyped DEF Effects

LEMMA NoOwnersEffects ==
  ASSUME RaceInv, CountsTyped, NEW t \in Threads, NoOwners(t)
  PROVE  Effects(t)
<1>0. /\ count \in [Counters -> Int] /\ load \in [Threads -> 1 .. 4]
      /\ cast.role[t] \in Roles
      /\ \A r \in Roles : t \in Role(r) <=> cast.role[t] = r
  BY RoleOf DEF CountsTyped
<1>1. /\ pc[t] = "noOwners" /\ exists' = exists /\ exists /\ toRelease' = toRelease /\ taken' = taken /\ UNCHANGED timer
      /\ cast' = cast /\ count' = count
  BY DEF NoOwners, object
<1>2. load' \in [Threads -> 1 .. 4]
  BY <1>0 DEF NoOwners
<1>3. SUFFICES OnlyMoves(t) /\ (InItems(t)' <=> InItems(t))
  BY <1>0, <1>1, <1>2, CountersTyped DEF Effects
<1>4. CASE UNCHANGED << pc, dropping >>
  <2>1. OnlyMoves(t) /\ pc'[t] = pc[t]
    BY <1>1, <1>4 DEF RaceInv, OnlyMoves
  <2> QED
    BY <1>1, <2>1 DEF InItems, Role
<1>5. CASE Goto(t, "prolong") /\ UNCHANGED dropping
  <2>1. OnlyMoves(t) /\ pc'[t] = "prolong"
    BY <1>1, <1>5 DEF RaceInv, Goto, OnlyMoves
  <2> QED
    BY <1>1, <2>1 DEF InItems, Role
<1>6. CASE AfterRelease(t)
  BY <1>1, <1>6, AfterReleaseMoves DEF RaceInv
<1> QED
  BY <1>4, <1>5, <1>6 DEF NoOwners

LEMMA ProlongEffects ==
  ASSUME RaceInv, CountsTyped, NEW t \in Threads, ProlongLifetime(t)
  PROVE  Effects(t)
<1>0. count \in [Counters -> Int] /\ load \in [Threads -> 1 .. 4]
  BY DEF CountsTyped
<1>1. /\ pc[t] = "prolong" /\ exists' = exists /\ exists /\ toRelease' = toRelease /\ taken' = taken /\ UNCHANGED timer
      /\ cast' = cast /\ load' = load /\ AfterRelease(t)
  BY DEF ProlongLifetime
<1>2. /\ count' \in [Counters -> Int]
      /\ count'.tes = count.tes /\ count'.stack = count.stack /\ count'.rc = count.rc
  BY <1>0 DEF ProlongLifetime, Counters
<1>3. OnlyMoves(t) /\ (InItems(t)' <=> InItems(t))
  BY <1>1, <1>2, AfterReleaseMoves
<1> QED
  BY <1>0, <1>1, <1>2, <1>3, CountersTyped DEF Effects

LEMMA StepEffects ==
  ASSUME RaceInv, CountsTyped, ItemCountExact, NEW t \in Threads, Step(t)
  PROVE  Effects(t)
BY BeginEffects, TestEffects, DecrementEffects, NoOwnersEffects, ProlongEffects DEF Step

LEMMA ItemsStepExact ==
  ASSUME RaceInv, CountsTyped, ItemCountExact, NEW t \in Threads, Effects(t)
  PROVE  ItemCountExact'
<1>1. \A u \in Threads \ {t} : InItems(u)' <=> InItems(u)
  BY DEF Effects, OnlyMoves, InItems, Role
<1>2. exists' = exists
  BY DEF Effects
<1>3. Cardinality(ItemHolders) \in Nat /\ IsFiniteSet(ItemHolders)
  BY ItemHoldersFinite
<1>4. SUFFICES ASSUME exists, count.rc = Cardinality(ItemHolders)
               PROVE  count'.rc = Cardinality(ItemHolders')
  BY <1>2 DEF ItemCountExact, ItemHolders
<1>5. CASE count'.rc = count.rc /\ (InItems(t)' <=> InItems(t))
  <2>1. ItemHolders' = ItemHolders
    BY <1>1, <1>5 DEF ItemHolders
  <2> QED
    BY <1>4, <1>5, <2>1
<1>6. CASE count'.rc = count.rc + 1 /\ InItems(t)' /\ ~InItems(t)
  <2>1. ItemHolders' = ItemHolders \cup {t} /\ t \notin ItemHolders
    BY <1>1, <1>6 DEF ItemHolders
  <2>2. Cardinality(ItemHolders') = Cardinality(ItemHolders) + 1
    BY <1>3, <2>1, FS_AddElement
  <2> QED
    BY <1>4, <1>6, <2>2
<1>7. CASE count'.rc = count.rc - 1 /\ InItems(t) /\ ~InItems(t)'
  <2>1. ItemHolders' = ItemHolders \ {t} /\ t \in ItemHolders
    BY <1>1, <1>7 DEF ItemHolders
  <2>2. Cardinality(ItemHolders') = Cardinality(ItemHolders) - 1
    BY <1>3, <2>1, FS_RemoveElement
  <2> QED
    BY <1>4, <1>7, <2>2
<1> QED
  BY <1>5, <1>6, <1>7 DEF Effects

(* Numbers of threads are not negative.                                    *)
LEMMA NumbersOfThreads ==
  ASSUME ItemCountExact, StackCountExact, exists
  PROVE  count.rc >= 0 /\ count.stack >= 0
BY HoldersFinite, ItemHoldersFinite DEF ItemCountExact, StackCountExact, ItemHolders, Holders

LEMMA NumbersOfThreadsNext ==
  ASSUME ItemCountExact', StackCountExact', exists'
  PROVE  count'.rc >= 0 /\ count'.stack >= 0
<1>1. Holders' \subseteq Threads /\ ItemHolders' \subseteq Threads
  BY DEF Holders, ItemHolders
<1>2. Cardinality(Holders') \in Nat /\ Cardinality(ItemHolders') \in Nat
  BY <1>1, RaceAssumption, FS_Subset, FS_CardinalityType
<1> QED
  BY <1>2 DEF ItemCountExact, StackCountExact, ItemHolders, Holders

LEMMA AtLeastTyped ==
  ASSUME CountsTyped
  PROVE  /\ \A c \in {"tes", "stack", "rc"} : AtLeast(c) \in Nat
         /\ AtLeast("aq") \in Nat
         /\ \A c \in {"tes", "stack", "rc", "aq"} : LoadedOf(c) \in Nat
BY CountersTyped DEF AtLeast, LoadedOf

LEMMA StepKeepsFree ==
  ASSUME FreeInv, RaceInv', NEW t \in Threads, Step(t)
  PROVE  FreeInv'
<1>1. Effects(t)
  BY StepEffects DEF FreeInv
<1>2. ItemCountExact'
  BY <1>1, ItemsStepExact DEF FreeInv
<1>3. /\ exists' = exists /\ tickPc' = tickPc /\ unread' = unread /\ sum' = sum
      /\ cast' = cast /\ scanning' = scanning /\ cancelled' = cancelled /\ toRelease' = toRelease
  BY <1>1 DEF Effects, OnlyMoves, timer
<1>4. count'.rc >= 0 /\ count'.stack >= 0
  <2>1. CASE exists
    <3>1. ItemCountExact' /\ StackCountExact' /\ exists'
      BY <1>2, <1>3, <2>1 DEF RaceInv
    <3> QED
      BY <3>1, NumbersOfThreadsNext
  <2>2. CASE ~exists
    BY <1>1, <2>2 DEF Effects
  <2> QED
    BY <2>1, <2>2
<1>5. CountsTyped'
  BY <1>1, <1>3, <1>4 DEF FreeInv, CountsTyped, Effects
<1>6. CASE tickPc = "wait" /\ exists
  BY <1>2, <1>3, <1>5, <1>6 DEF FreeInv, SumIsFair, Doomed
<1>7. CASE ~(tickPc = "wait" /\ exists)
  <2>1. ASSUME NEW c \in {"tes", "stack", "rc"}
        PROVE  AtLeast(c)' <= AtLeast(c) /\ AtLeast(c) \in Nat /\ AtLeast(c)' \in Nat
    <3>1. (c \in taken => c \in taken') /\ (count'[c] <= count[c] \/ c \in taken')
      BY <1>1, <1>7 DEF Effects
    <3>2. count'[c] \in Int /\ count[c] \in Int /\ c # "aq"
      BY <1>5 DEF FreeInv, CountsTyped, Counters
    <3> QED
      BY <3>1, <3>2 DEF AtLeast
  <2>2. AtLeast("aq")' = AtLeast("aq") /\ AtLeast("aq") \in Nat
    BY <1>3 DEF AtLeast
  <2>3. ASSUME NEW c \in {"tes", "stack", "rc", "aq"}
        PROVE  LoadedOf(c)' <= LoadedOf(c) /\ LoadedOf(c) \in Nat /\ LoadedOf(c)' \in Nat
    BY <1>3, <2>1, <2>2 DEF LoadedOf
  <2>4. sum \in Int
    BY DEF FreeInv, CountsTyped
  <2>5. SumIsFair'
    BY <1>3, <2>1, <2>3, <2>4 DEF FreeInv, SumIsFair, Doomed
  <2> QED
    BY <1>2, <1>5, <2>5 DEF FreeInv
<1> QED
  BY <1>6, <1>7

LEMMA TimerKeepsFree ==
  ASSUME FreeInv, RaceInv', Timer
  PROVE  FreeInv'
<1>0. /\ count \in [Counters -> Int] /\ load \in [Threads -> 1 .. 4]
      /\ unread \subseteq Counters /\ sum \in Int /\ cancelled \in BOOLEAN
      /\ count.rc \in Int /\ count.tes \in Int /\ count.stack \in Int /\ count.aq \in Int
  BY CountersTyped DEF FreeInv, CountsTyped
<1>1. cast' = cast /\ pc' = pc /\ load' = load /\ (exists' => exists)
  BY DEF Timer, TickScan, TickLoad, TickForget, TickReset, TickRemove, TickFree, object, threads
<1>2. /\ count' \in [Counters -> Int]
      /\ count'.rc = count.rc /\ count'.tes = count.tes /\ count'.stack = count.stack
  BY <1>0 DEF Counters, Timer, TickScan, TickLoad, TickForget, TickReset, TickRemove, TickFree
<1>3. ItemCountExact'
  <2>1. \A t \in Threads : InItems(t)' <=> InItems(t)
    BY <1>1 DEF InItems, Role
  <2>2. {t \in Threads : InItems(t)}' = {t \in Threads : InItems(t)}
    BY <2>1
  <2> QED
    BY <1>1, <1>2, <2>2 DEF FreeInv, ItemCountExact
<1>4. /\ \A c \in {"tes", "stack", "rc"} : AtLeast(c) \in Nat
      /\ AtLeast("aq") \in Nat
      /\ \A c \in {"tes", "stack", "rc", "aq"} : LoadedOf(c) \in Nat
  BY AtLeastTyped DEF FreeInv
<1>5. taken' = taken => \A c \in {"tes", "stack", "rc"} : AtLeast(c)' = AtLeast(c)
  BY <1>2 DEF AtLeast
<1>6. CASE BeginSum
  <2>1. /\ tickPc' = "refCount" /\ unread' = Counters /\ sum' = 0
        /\ ~cancelled' /\ cancelled' \in BOOLEAN
    BY <1>6 DEF BeginSum, refCount_addends
  <2>2. CountsTyped'
    BY <1>0, <1>1, <1>2, <2>1 DEF FreeInv, CountsTyped
  <2>3. exists'
    BY <2>1 DEF RaceInv, QueueCounted
  <2>4. SumIsFair'
    BY <2>1, <2>3 DEF SumIsFair, LoadedOf, Doomed, Counters
  <2> QED
    BY <1>3, <2>2, <2>4 DEF FreeInv
<1>7. CASE TickLoad
  <2>1. PICK c \in unread : /\ sum' = sum + count[c]
                            /\ cancelled' = (cancelled \/ count[c] < 0)
                            /\ unread' = unread \ {c}
                            /\ tickPc' = IF unread = {c} THEN "verdict" ELSE "refCount"
    BY <1>7 DEF TickLoad
  <2>0. cancelled' \in BOOLEAN /\ (cancelled \/ count[c] < 0 => cancelled')
    BY <2>1
  <2>2. /\ tickPc = "refCount" /\ exists' = exists /\ taken' = taken /\ scanning' = scanning
        /\ toRelease' = toRelease /\ exists
    BY <1>7 DEF TickLoad, object, FreeInv, RaceInv, QueueCounted
  <2>3. CountsTyped'
    BY <1>0, <1>1, <1>2, <2>0, <2>1 DEF FreeInv, CountsTyped
  <2>4. c \in {"rc", "tes", "stack", "aq"} /\ count[c] \in Int
    BY <1>0 DEF Counters
  <2>5. SUFFICES ASSUME ~cancelled' PROVE SumIsFair'
    BY <1>3, <2>3 DEF FreeInv, SumIsFair
  <2>6. ~cancelled /\ count[c] >= 0
    BY <2>0, <2>4, <2>5
  <2>7. count[c] >= AtLeast(c)
    <3>1. count.aq = IF scanning THEN 2 ELSE 1
      BY <2>2 DEF FreeInv, RaceInv, QueueCounted, Doomed
    <3> QED
      BY <2>4, <2>6, <3>1 DEF AtLeast
  <2>8. \A d \in {"rc", "tes", "stack", "aq"} : AtLeast(d)' = AtLeast(d)
    BY <1>2, <2>2 DEF AtLeast
  <2>9. LoadedOf(c) = 0 /\ LoadedOf(c)' = AtLeast(c)
    BY <2>1, <2>4, <2>8 DEF LoadedOf
  <2>10. \A d \in {"rc", "tes", "stack", "aq"} : d # c => LoadedOf(d)' = LoadedOf(d)
    BY <2>1, <2>8 DEF LoadedOf
  <2>11. LoadedOf("aq")' + LoadedOf("tes")' + LoadedOf("stack")' + LoadedOf("rc")'
          = LoadedOf("aq") + LoadedOf("tes") + LoadedOf("stack") + LoadedOf("rc") + AtLeast(c)
    <3>1. CASE c = "rc"
      BY <1>4, <2>9, <2>10, <3>1
    <3>2. CASE c = "tes"
      BY <1>4, <2>9, <2>10, <3>2
    <3>3. CASE c = "stack"
      BY <1>4, <2>9, <2>10, <3>3
    <3>4. CASE c = "aq"
      BY <1>4, <2>9, <2>10, <3>4
    <3> QED
      BY <2>4, <3>1, <3>2, <3>3, <3>4
  <2>12. sum >= LoadedOf("aq") + LoadedOf("tes") + LoadedOf("stack") + LoadedOf("rc")
    BY <2>2, <2>6 DEF FreeInv, SumIsFair
  <2>13. AtLeast(c) \in Nat
    BY <1>4, <2>4
  <2>14. sum' >= LoadedOf("aq")' + LoadedOf("tes")' + LoadedOf("stack")' + LoadedOf("rc")'
    BY <1>0, <1>4, <2>1, <2>4, <2>7, <2>11, <2>12, <2>13
  <2>15. ~Doomed'
    BY <2>1, <2>2 DEF Doomed
  <2> QED
    BY <2>14, <2>15 DEF SumIsFair
<1>8. CASE TickForget /\ ~scanning
  <2>1. /\ tickPc' = "wait" /\ exists' = exists /\ unread' = unread /\ sum' = sum
        /\ cancelled' = cancelled /\ tickPc = "verdict"
    BY <1>8 DEF TickForget
  <2>2. CountsTyped'
    BY <1>0, <1>1, <1>2, <2>1 DEF FreeInv, CountsTyped
  <2>3. exists'
    BY <2>1 DEF FreeInv, RaceInv, QueueCounted
  <2>4. SumIsFair'
    BY <2>1, <2>3 DEF SumIsFair, Doomed
  <2> QED
    BY <1>3, <2>2, <2>4 DEF FreeInv
<1>9. CASE TickReset
  <2>1. /\ tickPc = "verdict" /\ sum <= 1 /\ ReferenceGoes
        /\ tickPc' = "remove" /\ exists' = exists /\ unread' = unread /\ sum' = sum
        /\ taken' = taken /\ scanning' = scanning /\ cancelled' = cancelled
    BY <1>9 DEF TickReset
  <2>2. CountsTyped'
    BY <1>0, <1>1, <1>2, <2>1 DEF FreeInv, CountsTyped
  <2>3. SUFFICES ASSUME ~cancelled PROVE SumIsFair'
    BY <1>3, <2>1, <2>2 DEF FreeInv, SumIsFair
  <2>4. sum >= AtLeast("aq") + AtLeast("tes") + AtLeast("stack") + AtLeast("rc")
    BY <2>1, <2>3 DEF FreeInv, SumIsFair, CountsTyped, LoadedOf
  <2>5. ~scanning
    BY <1>0, <1>4, <2>1, <2>4 DEF AtLeast
  <2>6. AtLeast("tes") + AtLeast("stack") + AtLeast("rc") <= 0
    <3>1. AtLeast("aq") = 1
      BY <2>5 DEF AtLeast
    <3> QED
      BY <1>0, <1>4, <2>1, <2>4, <3>1
  <2>7. toRelease' = 0
    BY <2>1, <2>5 DEF ReferenceGoes, FreeInv, RaceInv, QueueCounted
  <2>8. SumIsFair'
    BY <1>5, <2>1, <2>6, <2>7 DEF SumIsFair
  <2> QED
    BY <2>8
<1>10. CASE TickRemove \/ TickFree
  <2>1. /\ tickPc \in {"remove", "free"} /\ tickPc' \in {"free", "wait"}
        /\ unread' = unread /\ sum' = sum /\ taken' = taken /\ cancelled' = cancelled
        /\ toRelease' = toRelease
    BY <1>10 DEF TickRemove, TickFree
  <2>2. CountsTyped'
    BY <1>0, <1>1, <1>2, <2>1 DEF FreeInv, CountsTyped
  <2>3. cancelled \/ (AtLeast("tes") + AtLeast("stack") + AtLeast("rc") <= 0 /\ toRelease = 0)
    BY <2>1 DEF FreeInv, SumIsFair, Doomed
  <2>4. SumIsFair'
    BY <1>5, <2>1, <2>3 DEF SumIsFair
  <2> QED
    BY <1>3, <2>2, <2>4 DEF FreeInv
<1> QED
  BY <1>6, <1>7, <1>8, <1>9, <1>10 DEF Timer, TickScan, TickForget

LEMMA FreeInit == Init => FreeInv
<1> SUFFICES ASSUME Init PROVE FreeInv
  OBVIOUS
<1>1. RaceInv
  BY RaceInit
<1>2. /\ exists = TRUE /\ tickPc = "wait" /\ unread = {} /\ sum = 0 /\ ~cancelled /\ cancelled \in BOOLEAN
      /\ load = [t \in Threads |-> 1]
  BY DEF Init
<1>3. /\ Cardinality(Role("erase")) \in Nat /\ Cardinality(Callers) \in Nat
  <2>1. Role("erase") \subseteq Threads /\ Callers \subseteq Threads
    BY DEF Callers, Role
  <2> QED
    BY <2>1, RaceAssumption, FS_Subset, FS_CardinalityType
<1>4. /\ count \in [Counters -> Int] /\ count.rc = Cardinality(Role("erase"))
      /\ count.stack = Cardinality(Callers)
  <2>1. cast.retained \in Nat /\ inQueue \in Nat
    BY RaceAssumption DEF Init
  <2>2. count = [rc    |-> Cardinality(Role("erase")),
                 tes   |-> cast.retained,
                 stack |-> Cardinality(Callers),
                 aq    |-> inQueue]
    BY DEF Init
  <2> QED
    BY <1>3, <2>1, <2>2 DEF Counters
<1>5. CountsTyped
  BY <1>2, <1>3, <1>4 DEF CountsTyped
<1>6. ASSUME NEW t \in Threads PROVE InItems(t) <=> t \in Role("erase")
  <2>1. pc[t] = IF t \in Role("insert") \cup Role("resolve") \cup Role("retain") THEN "begin"
                ELSE IF t \in Role("untag") THEN "loop"
                ELSE IF t \in Role("nothing") THEN "done" ELSE "test"
    BY DEF Init
  <2> QED
    BY <2>1 DEF InItems, Role
<1>7. {t \in Threads : InItems(t)} = Role("erase")
  BY <1>6 DEF Role
<1>8. ItemCountExact
  BY <1>4, <1>7 DEF ItemCountExact
<1>9. SumIsFair
  BY <1>2 DEF SumIsFair, Doomed
<1> QED
  BY <1>1, <1>5, <1>8, <1>9 DEF FreeInv

LEMMA FreeStands ==
  ASSUME FreeInv, UNCHANGED vars
  PROVE  FreeInv'
<1>0. /\ cast' = cast /\ count' = count /\ pc' = pc /\ load' = load /\ exists' = exists
      /\ unread' = unread /\ sum' = sum /\ tickPc' = tickPc /\ taken' = taken
      /\ scanning' = scanning /\ cancelled' = cancelled /\ toRelease' = toRelease
  BY DEF vars, threads, timer, object
<1>1. RaceInv'
  BY RaceStands DEF FreeInv
<1>2. CountsTyped'
  BY <1>0 DEF FreeInv, CountsTyped
<1>3. ItemCountExact'
  <2>1. \A t \in Threads : InItems(t)' <=> InItems(t)
    BY <1>0 DEF InItems, Role
  <2>2. {t \in Threads : InItems(t)}' = {t \in Threads : InItems(t)}
    BY <2>1
  <2> QED
    BY <1>0, <2>2 DEF FreeInv, ItemCountExact
<1>4. SumIsFair'
  <2>1. \A c : AtLeast(c)' = AtLeast(c) /\ LoadedOf(c)' = LoadedOf(c)
    BY <1>0 DEF AtLeast, LoadedOf
  <2> QED
    BY <1>0, <2>1 DEF FreeInv, SumIsFair, Doomed
<1> QED
  BY <1>1, <1>2, <1>3, <1>4 DEF FreeInv

LEMMA FreeInductive == Spec => []FreeInv
<1>1. ASSUME FreeInv, [Next]_vars PROVE FreeInv'
  <2>0. RaceInv'
    BY <1>1, RaceStep DEF FreeInv
  <2>1. ASSUME NEW t \in Threads, Step(t) PROVE FreeInv'
    BY <1>1, <2>0, <2>1, StepKeepsFree
  <2> QED
    BY <1>1, <2>0, <2>1, TimerKeepsFree, FreeStands DEF Next
<1> QED
  BY <1>1, FreeInit, PTL DEF Spec

(* However calls race with each other and with the timer, the queue owns   *)
(* the object once outside a scan, _aqueue_refCount says how often, and a  *)
(* scan deletes the object only if it met a negative counter.              *)
THEOREM QueueOwnsOnce == Spec => []QueuedOnce
<1>1. FreeInv => QueuedOnce
  <2> SUFFICES ASSUME FreeInv PROVE QueuedOnce
    OBVIOUS
  <2>1. QueueCounted /\ SumIsFair
    BY DEF FreeInv, RaceInv
  <2>2. inQueue + toRelease = 2 => scanning
    BY <2>1 DEF QueueCounted, Doomed
  <2>3. count.aq = inQueue + toRelease \/ DeletedInScan
    BY <2>1 DEF QueueCounted, SumIsFair, Doomed, DeletedInScan
  <2> QED
    BY <2>1, <2>2, <2>3 DEF QueueCounted, QueuedOnce
<1> QED
  BY <1>1, FreeInductive, PTL

(* _aqueue_release sums loads of different moments, and what is owned when *)
(* it frees the object is owned since the sum was begun - by a container,  *)
(* a retain or a call - or was cancelled by a negative counter.            *)
THEOREM OnlyARaceFrees == Spec => []FreedByRaceOnly
<1>1. FreeInv => FreedByRaceOnly
  <2> SUFFICES ASSUME FreeInv, ~exists, ~cancelled, NEW c \in {"rc", "tes", "stack"}, count[c] > 0
               PROVE  c \in taken
    BY DEF FreedByRaceOnly
  <2>1. AtLeast("tes") + AtLeast("stack") + AtLeast("rc") <= 0
    BY DEF FreeInv, SumIsFair, Doomed
  <2>2. \A d \in {"tes", "stack", "rc"} : AtLeast(d) \in Nat
    BY AtLeastTyped DEF FreeInv
  <2>3. AtLeast(c) = 0
    BY <2>1, <2>2
  <2>4. count[c] \in Int
    BY DEF FreeInv, CountsTyped, Counters
  <2> QED
    BY <2>3, <2>4 DEF AtLeast
<1> QED
  BY <1>1, FreeInductive, PTL

-----------------------------------------------------------------------------
LEMMA CareInit == Init => CareInv
<1> SUFFICES ASSUME Init PROVE CareInv
  OBVIOUS
<1>1. exists /\ tickPc = "wait" /\ \E c \in Counters : count[c] > 0
  BY DEF Init
<1> QED
  BY <1>1 DEF CareInv, SomebodyCares

(* Only a decrement takes the last owner away, and whoever does it goes on *)
(* to look at the counters; if they are all zero when it looks, it pushes. *)
LEMMA StepKeepsCare ==
  ASSUME FreeInv, CareInv, NEW t \in Threads, Step(t)
  PROVE  CareInv'
<1>0. /\ count \in [Counters -> Int] /\ load \in [Threads -> 1 .. 4]
      /\ pc = [u \in Threads |-> pc[u]]
  BY DEF FreeInv, CountsTyped, RaceInv
<1>1. Effects(t)
  BY StepEffects DEF FreeInv
<1>2. /\ exists' = exists /\ tickPc' = tickPc /\ cast' = cast
      /\ \A u \in Threads \ {t} : pc'[u] = pc[u]
  BY <1>1 DEF Effects, OnlyMoves, timer
<1>3. SUFFICES ASSUME SomebodyCares
               PROVE  \/ \E c \in Counters : count'[c] > 0
                      \/ \E u \in Threads : pc'[u] \in {"noOwners", "prolong"}
  BY <1>2 DEF CareInv, SomebodyCares
<1> DEFINE Owned == \E c \in Counters : count[c] > 0
           Looks == \E u \in Threads \ {t} : pc[u] \in {"noOwners", "prolong"}
<1>4. Owned \/ Looks \/ pc[t] \in {"noOwners", "prolong"}
  BY <1>3 DEF SomebodyCares
<1>5. CASE Looks
  BY <1>2, <1>5
<1>6. CASE Decrement(t)
  BY <1>0, <1>6 DEF Decrement, Goto
<1>7. CASE NoOwners(t) /\ ~Looks
  <2>1. pc[t] = "noOwners" /\ count' = count
    BY <1>7 DEF NoOwners
  <2> DEFINE c == noOwners_loads[load[t]]
  <2>2. c \in Counters /\ count[c] \in Int
    BY <1>0 DEF noOwners_loads, Counters
  <2>3. CASE is_unowned(count[c])
    <3>1. pc'[t] \in {"noOwners", "prolong"}
      <4>1. UNCHANGED pc \/ Goto(t, "prolong")
        BY <1>7, <2>3 DEF NoOwners
      <4> QED
        BY <1>0, <2>1, <4>1 DEF Goto
    <3> QED
      BY <3>1
  <2>4. CASE ~is_unowned(count[c])
    BY <2>1, <2>2, <2>4 DEF is_unowned
  <2> QED
    BY <2>3, <2>4
<1>8. CASE ProlongLifetime(t)
  <2>1. CASE may_push
    <3>1. count.aq \in {0, 1, 2}
      BY DEF FreeInv, RaceInv, QueueCounted
    <3>2. count'.aq = count.aq + 1 /\ "aq" \in Counters
      BY <1>0, <1>8, <2>1 DEF ProlongLifetime, Counters
    <3> QED
      BY <3>1, <3>2
  <2>2. CASE ~may_push
    <3>1. count' = count /\ "aq" \in Counters /\ count.aq \in Int
      BY <1>0, <1>8, <2>2 DEF ProlongLifetime, Counters
    <3> QED
      BY <2>2, <3>1 DEF may_push
  <2> QED
    BY <2>1, <2>2
<1>9. CASE /\ Retain(t) \/ GetObjectRef(t) \/ TesRetain(t) \/ NotProlongLifetime(t) \/ Loop(t) \/ Test(t)
          /\ ~Looks
  <2>1. pc[t] \in {"begin", "notProlong", "loop", "test"}
    BY <1>9 DEF Retain, GetObjectRef, TesRetain, NotProlongLifetime, Loop, Test
  <2>2. PICK c \in Counters : count[c] > 0
    BY <1>4, <1>9, <2>1
  <2>3. count'[c] >= count[c]
    BY <1>0, <1>9, <2>2 DEF Retain, GetObjectRef, TesRetain, NotProlongLifetime, Take, Loop, Test, Counters
  <2>4. count'[c] \in Int /\ count[c] \in Int
    BY <1>0, <1>1 DEF Effects
  <2> QED
    BY <2>2, <2>3, <2>4
<1> QED
  BY <1>5, <1>6, <1>7, <1>8, <1>9 DEF Step

LEMMA CareInductive == Spec => []CareInv
<1>1. ASSUME FreeInv, CareInv, [Next]_vars PROVE CareInv'
  <2>1. ASSUME NEW t \in Threads, Step(t) PROVE CareInv'
    BY <1>1, <2>1, StepKeepsCare
  <2>2. CASE Timer
    <3>1. cast' = cast
      BY <2>2 DEF Timer, TickScan, TickLoad, TickForget, TickReset, TickRemove, TickFree
    <3>2. cast.ticking \/ tickPc # "wait"
      BY <2>2 DEF Timer, TickScan, TickLoad, TickForget, TickReset, TickRemove, TickFree
    <3> QED
      BY <1>1, <3>1, <3>2 DEF CareInv
  <2>3. CASE UNCHANGED vars
    BY <1>1, <2>3 DEF CareInv, SomebodyCares, vars, threads, timer, object
  <2> QED
    BY <1>1, <2>1, <2>2, <2>3 DEF Next
<1> QED
  BY <1>1, CareInit, FreeInductive, PTL DEF Spec

(* However many calls let the object go together, one of them leaves it to *)
(* the queue: when all have returned it has an owner.                      *)
THEOREM LeftToTheQueue == Spec => []HandedOver
<1>1. CareInv => HandedOver
  BY DEF CareInv, SomebodyCares, HandedOver, NotHanging, Quiet
<1> QED
  BY <1>1, CareInductive, PTL
=============================================================================
