------------------------ MODULE TesContextRootProofs ------------------------
(***************************************************************************)
(* Proofs about TesContextRoot, for any natives, maps and retains, and     *)
(* whatever scripts release.                                               *)
(***************************************************************************)
EXTENDS TesContextRoot, FiniteSetTheorems, TLAPS

(* What the root's counter is made of; and that the root is gone only if   *)
(* nothing of that is left.                                                *)
CountOf(r, g) == r + (IF g THEN 0 ELSE 1)

RootOwned ==
  /\ _root_object_id # Null =>
       IF _root_object_id \in alive THEN tes[_root_object_id] = CountOf(retained, givenAway)
                                    ELSE retained = 0 /\ givenAway /\ tes[_root_object_id] = 0
  /\ _root_object_id = Null => retained = 0 /\ ~givenAway /\ _cached_root = Null
  /\ _cached_root # Null => _cached_root = _root_object_id

(* There is no map but the root, or one that is about to become the root.  *)
NoOther ==
  /\ \A m \in alive :
       m = _root_object_id \/ \E t \in Threads : pc[t] = "set_root" /\ result[t] = m
  /\ \A m \in Maps : m # _root_object_id => tes[m] = 0

(* What each native inside root() knows.                                   *)
Knows(t) ==
  /\ pc[t] \in {"idle", "lock", "check", "make"} => result[t] = Null
  /\ pc[t] \in {"make", "set_root"} =>
       _cached_root = Null /\ getObject(_root_object_id) = Null
  /\ pc[t] = "set_root" => /\ result[t] \in alive /\ result[t] \notin queued
                           /\ result[t] # _root_object_id
  /\ pc[t] = "publish" =>
       result[t] # Null /\ result[t] = _root_object_id /\ _cached_root = Null
  /\ pc[t] = "using" => result[t] # Null /\ result[t] = _cached_root

(* A save holds the root with its counts, or nothing.                      *)
SaveOK ==
  /\ saved.root \in Maps \cup {Null}
  /\ saved.tes \in 0 .. MaxRetains + 1
  /\ saved.queued \subseteq saved.alive
  /\ saved.alive \subseteq {saved.root} \ {Null}
  /\ saved.tagged \in BOOLEAN /\ saved.retained \in 0 .. MaxRetains /\ saved.givenAway \in BOOLEAN
  /\ saved.root = Null => saved.retained = 0 /\ ~saved.givenAway
  /\ saved.root # Null =>
       IF saved.root \in saved.alive THEN saved.tes = CountOf(saved.retained, saved.givenAway)
                                     ELSE saved.retained = 0 /\ saved.givenAway /\ saved.tes = 0

RootInv ==
  /\ TypeOK
  /\ RootOwned
  /\ NoOther
  /\ \A t \in Threads : Knows(t)
  /\ SaveOK

-----------------------------------------------------------------------------
(* What the lock is for: one native at a time makes or publishes a root.   *)
LEMMA OneInside ==
  ASSUME TypeOK, NEW t \in Threads, NEW u \in Threads,
         pc[t] \in {"check", "make", "set_root", "publish"},
         pc[u] \in {"check", "make", "set_root", "publish"}
  PROVE  t = u
BY DEF TypeOK

LEMMA NoneInside ==
  ASSUME TypeOK, initLock = Null, NEW t \in Threads
  PROVE  pc[t] \notin {"check", "make", "set_root", "publish"}
BY RootAssumption DEF TypeOK

LEMMA RootInit == Init => RootInv
<1> SUFFICES ASSUME Init PROVE RootInv
  OBVIOUS
<1>1. ~tagged /\ ~givenAway /\ tagged \in BOOLEAN /\ givenAway \in BOOLEAN
  BY DEF Init
<1>2. TypeOK
  BY <1>1, RootAssumption DEF Init, Zero, TypeOK
<1>3. RootOwned /\ NoOther
  BY <1>1 DEF Init, Zero, RootOwned, NoOther
<1>4. \A t \in Threads : Knows(t)
  BY DEF Init, Knows
<1>5. SaveOK
  BY RootAssumption DEF Init, SaveOK
<1> QED
  BY <1>2, <1>3, <1>4, <1>5 DEF RootInv

LEMMA RootStep ==
  ASSUME RootInv, [Next]_vars
  PROVE  RootInv'
<1> USE RootAssumption DEF RootInv, Goto, heap, scripts, CountOf, getObject, NewToScripts
<1>1. ASSUME NEW t \in Threads, LoadCached(t) PROVE RootInv'
  <2>1. TypeOK'
    BY <1>1, OneInside, NoneInside DEF LoadCached, TypeOK, RootOwned, NoOther, Knows, SaveOK
  <2>2. RootOwned'
    BY <1>1, OneInside, NoneInside DEF LoadCached, TypeOK, RootOwned, NoOther, Knows, SaveOK
  <2>3. NoOther'
    BY <1>1, OneInside, NoneInside DEF LoadCached, TypeOK, RootOwned, NoOther, Knows, SaveOK
  <2>4. \A u \in Threads : Knows(u)'
    BY <1>1, OneInside, NoneInside DEF LoadCached, TypeOK, RootOwned, NoOther, Knows
  <2>5. SaveOK'
    BY <1>1, OneInside, NoneInside DEF LoadCached, TypeOK, RootOwned, NoOther, SaveOK
  <2> QED BY <2>1, <2>2, <2>3, <2>4, <2>5
<1>2. ASSUME NEW t \in Threads, Lock(t) PROVE RootInv'
  <2>1. TypeOK'
    BY <1>2, OneInside, NoneInside DEF Lock, TypeOK, RootOwned, NoOther, Knows, SaveOK
  <2>2. RootOwned'
    BY <1>2, OneInside, NoneInside DEF Lock, TypeOK, RootOwned, NoOther, Knows, SaveOK
  <2>3. NoOther'
    BY <1>2, OneInside, NoneInside DEF Lock, TypeOK, RootOwned, NoOther, Knows, SaveOK
  <2>4. \A u \in Threads : Knows(u)'
    BY <1>2, OneInside, NoneInside DEF Lock, TypeOK, RootOwned, NoOther, Knows
  <2>5. SaveOK'
    BY <1>2, OneInside, NoneInside DEF Lock, TypeOK, RootOwned, NoOther, SaveOK
  <2> QED BY <2>1, <2>2, <2>3, <2>4, <2>5
<1>3. ASSUME NEW t \in Threads, Check(t) PROVE RootInv'
  <2>1. TypeOK'
    BY <1>3, OneInside, NoneInside DEF Check, TypeOK, RootOwned, NoOther, Knows, SaveOK
  <2>2. RootOwned'
    BY <1>3, OneInside, NoneInside DEF Check, TypeOK, RootOwned, NoOther, Knows, SaveOK
  <2>3. NoOther'
    BY <1>3, OneInside, NoneInside DEF Check, TypeOK, RootOwned, NoOther, Knows, SaveOK
  <2>4. \A u \in Threads : Knows(u)'
    BY <1>3, OneInside, NoneInside DEF Check, TypeOK, RootOwned, NoOther, Knows
  <2>5. SaveOK'
    BY <1>3, OneInside, NoneInside DEF Check, TypeOK, RootOwned, NoOther, SaveOK
  <2> QED BY <2>1, <2>2, <2>3, <2>4, <2>5
<1>4. ASSUME NEW t \in Threads, Make(t) PROVE RootInv'
  <2>1. TypeOK'
    BY <1>4, OneInside, NoneInside DEF Make, TypeOK, RootOwned, NoOther, Knows, SaveOK
  <2>2. RootOwned'
    BY <1>4, OneInside, NoneInside DEF Make, TypeOK, RootOwned, NoOther, Knows, SaveOK
  <2>3. NoOther'
    BY <1>4, OneInside, NoneInside DEF Make, TypeOK, RootOwned, NoOther, Knows, SaveOK
  <2>4. \A u \in Threads : Knows(u)'
    BY <1>4, OneInside, NoneInside DEF Make, TypeOK, RootOwned, NoOther, Knows
  <2>5. SaveOK'
    BY <1>4, OneInside, NoneInside DEF Make, TypeOK, RootOwned, NoOther, SaveOK
  <2> QED BY <2>1, <2>2, <2>3, <2>4, <2>5
<1>5. ASSUME NEW t \in Threads, set_root(t) PROVE RootInv'
  <2>6. tagged' \in BOOLEAN /\ givenAway' \in BOOLEAN
    BY <1>5 DEF set_root, TypeOK
  <2>7. /\ alive' \in SUBSET Maps /\ queued' \subseteq alive'
        /\ _root_object_id' \in Maps \cup {Null} /\ _cached_root' \in Maps \cup {Null}
    BY <1>5 DEF set_root, TypeOK, RootOwned, NoOther, Knows
  <2>8. tes' \in [Maps -> 0 .. MaxRetains + 1] /\ retained' \in 0 .. MaxRetains
    BY <1>5 DEF set_root, TypeOK, RootOwned, NoOther, Knows
  <2>9. /\ pc' \in [Threads -> {"idle", "lock", "check", "make", "set_root", "publish", "using"}]
        /\ result' \in [Threads -> Maps \cup {Null}]
        /\ \A u \in Threads : initLock' = u <=> pc'[u] \in {"check", "make", "set_root", "publish"}
    BY <1>5 DEF set_root, TypeOK
  <2>1. TypeOK'
    BY <2>6, <2>7, <2>8, <2>9 DEF TypeOK
  <2>2. RootOwned'
    BY <1>5, OneInside, NoneInside DEF set_root, TypeOK, RootOwned, NoOther, Knows, SaveOK
  <2>3. NoOther'
    BY <1>5, OneInside, NoneInside DEF set_root, TypeOK, RootOwned, NoOther, Knows, SaveOK
  <2>4. \A u \in Threads : Knows(u)'
    BY <1>5, OneInside, NoneInside DEF set_root, TypeOK, RootOwned, NoOther, Knows
  <2>5. SaveOK'
    BY <1>5, OneInside, NoneInside DEF set_root, TypeOK, RootOwned, NoOther, SaveOK
  <2> QED BY <2>1, <2>2, <2>3, <2>4, <2>5
<1>6. ASSUME NEW t \in Threads, Publish(t) PROVE RootInv'
  <2>1. TypeOK'
    BY <1>6, OneInside, NoneInside DEF Publish, TypeOK, RootOwned, NoOther, Knows, SaveOK
  <2>2. RootOwned'
    BY <1>6, OneInside, NoneInside DEF Publish, TypeOK, RootOwned, NoOther, Knows, SaveOK
  <2>3. NoOther'
    BY <1>6, OneInside, NoneInside DEF Publish, TypeOK, RootOwned, NoOther, Knows, SaveOK
  <2>4. \A u \in Threads : Knows(u)'
    BY <1>6, OneInside, NoneInside DEF Publish, TypeOK, RootOwned, NoOther, Knows
  <2>5. SaveOK'
    BY <1>6, OneInside, NoneInside DEF Publish, TypeOK, RootOwned, NoOther, SaveOK
  <2> QED BY <2>1, <2>2, <2>3, <2>4, <2>5
<1>7. ASSUME NEW t \in Threads, Finish(t) PROVE RootInv'
  <2>1. TypeOK'
    BY <1>7, OneInside, NoneInside DEF Finish, TypeOK, RootOwned, NoOther, Knows, SaveOK
  <2>2. RootOwned'
    BY <1>7, OneInside, NoneInside DEF Finish, TypeOK, RootOwned, NoOther, Knows, SaveOK
  <2>3. NoOther'
    BY <1>7, OneInside, NoneInside DEF Finish, TypeOK, RootOwned, NoOther, Knows, SaveOK
  <2>4. \A u \in Threads : Knows(u)'
    BY <1>7, OneInside, NoneInside DEF Finish, TypeOK, RootOwned, NoOther, Knows
  <2>5. SaveOK'
    BY <1>7, OneInside, NoneInside DEF Finish, TypeOK, RootOwned, NoOther, SaveOK
  <2> QED BY <2>1, <2>2, <2>3, <2>4, <2>5
<1>8. CASE Retain
  <2>1. TypeOK'
    BY <1>8 DEF Retain, TypeOK, RootOwned, NoOther, Knows, SaveOK
  <2>2. RootOwned'
    BY <1>8 DEF Retain, TypeOK, RootOwned, NoOther, Knows, SaveOK
  <2>3. NoOther'
    BY <1>8 DEF Retain, TypeOK, RootOwned, NoOther, Knows, SaveOK
  <2>4. \A u \in Threads : Knows(u)'
    BY <1>8 DEF Retain, TypeOK, RootOwned, NoOther, Knows
  <2>5. SaveOK'
    BY <1>8 DEF Retain, TypeOK, RootOwned, NoOther, SaveOK
  <2> QED BY <2>1, <2>2, <2>3, <2>4, <2>5
<1>9. CASE Release
  <2>6. tagged' \in BOOLEAN /\ givenAway' \in BOOLEAN
    BY <1>9 DEF Release, TypeOK
  <2>7. /\ alive' \in SUBSET Maps /\ queued' \subseteq alive'
        /\ _root_object_id' \in Maps \cup {Null} /\ _cached_root' \in Maps \cup {Null}
    BY <1>9 DEF Release, TypeOK, RootOwned, NoOther, Knows
  <2>8. tes' \in [Maps -> 0 .. MaxRetains + 1] /\ retained' \in 0 .. MaxRetains
    BY <1>9 DEF Release, TypeOK, RootOwned, NoOther, Knows
  <2>9. /\ pc' \in [Threads -> {"idle", "lock", "check", "make", "set_root", "publish", "using"}]
        /\ result' \in [Threads -> Maps \cup {Null}]
        /\ \A t \in Threads : initLock' = t <=> pc'[t] \in {"check", "make", "set_root", "publish"}
    BY <1>9 DEF Release, TypeOK
  <2>1. TypeOK'
    BY <2>6, <2>7, <2>8, <2>9 DEF TypeOK
  <2>2. RootOwned'
    BY <1>9 DEF Release, TypeOK, RootOwned, NoOther, Knows, SaveOK
  <2>3. NoOther'
    BY <1>9 DEF Release, TypeOK, RootOwned, NoOther, Knows, SaveOK
  <2>4. \A u \in Threads : Knows(u)'
    BY <1>9 DEF Release, TypeOK, RootOwned, NoOther, Knows
  <2>5. SaveOK'
    BY <1>9 DEF Release, TypeOK, RootOwned, NoOther, SaveOK
  <2> QED BY <2>1, <2>2, <2>3, <2>4, <2>5
<1>10. ASSUME NEW m \in Maps, Tick(m) PROVE RootInv'
  <2>1. TypeOK'
    BY <1>10 DEF Tick, TypeOK, RootOwned, NoOther, Knows, SaveOK
  <2>2. RootOwned'
    BY <1>10 DEF Tick, TypeOK, RootOwned, NoOther, Knows, SaveOK
  <2>3. NoOther'
    BY <1>10 DEF Tick, TypeOK, RootOwned, NoOther, Knows, SaveOK
  <2>4. \A u \in Threads : Knows(u)'
    BY <1>10 DEF Tick, TypeOK, RootOwned, NoOther, Knows
  <2>5. SaveOK'
    BY <1>10 DEF Tick, TypeOK, RootOwned, NoOther, SaveOK
  <2> QED BY <2>1, <2>2, <2>3, <2>4, <2>5
<1>11. CASE Save
  <2>1. TypeOK'
    BY <1>11 DEF Save, NoNativeInside, TypeOK, RootOwned, NoOther, Knows, SaveOK
  <2>2. RootOwned'
    BY <1>11 DEF Save, NoNativeInside, TypeOK, RootOwned, NoOther, Knows, SaveOK
  <2>3. NoOther'
    BY <1>11 DEF Save, NoNativeInside, TypeOK, RootOwned, NoOther, Knows, SaveOK
  <2>4. \A u \in Threads : Knows(u)'
    BY <1>11 DEF Save, NoNativeInside, TypeOK, RootOwned, NoOther, Knows
  <2>5. SaveOK'
    BY <1>11 DEF Save, NoNativeInside, TypeOK, RootOwned, NoOther, SaveOK
  <2> QED BY <2>1, <2>2, <2>3, <2>4, <2>5
<1>12. CASE Revert
  <2>6. tagged' \in BOOLEAN /\ givenAway' \in BOOLEAN
    BY <1>12 DEF Revert, u_clearState, Zero, NoNativeInside, TypeOK
  <2>7. /\ alive' \in SUBSET Maps /\ queued' \subseteq alive'
        /\ _root_object_id' \in Maps \cup {Null} /\ _cached_root' \in Maps \cup {Null}
    BY <1>12 DEF Revert, u_clearState, Zero, NoNativeInside, TypeOK, RootOwned, NoOther, Knows
  <2>8. tes' \in [Maps -> 0 .. MaxRetains + 1] /\ retained' \in 0 .. MaxRetains
    BY <1>12 DEF Revert, u_clearState, Zero, NoNativeInside, TypeOK, RootOwned, NoOther, Knows
  <2>9. /\ pc' \in [Threads -> {"idle", "lock", "check", "make", "set_root", "publish", "using"}]
        /\ result' \in [Threads -> Maps \cup {Null}]
        /\ \A t \in Threads : initLock' = t <=> pc'[t] \in {"check", "make", "set_root", "publish"}
    BY <1>12 DEF Revert, u_clearState, Zero, NoNativeInside, TypeOK
  <2>1. TypeOK'
    BY <2>6, <2>7, <2>8, <2>9 DEF TypeOK
  <2>2. RootOwned'
    BY <1>12 DEF Revert, u_clearState, Zero, NoNativeInside, TypeOK, RootOwned, NoOther, Knows, SaveOK
  <2>3. NoOther'
    BY <1>12 DEF Revert, u_clearState, Zero, NoNativeInside, TypeOK, RootOwned, NoOther, Knows, SaveOK
  <2>4. \A u \in Threads : Knows(u)'
    BY <1>12 DEF Revert, u_clearState, Zero, NoNativeInside, TypeOK, RootOwned, NoOther, Knows
  <2>5. SaveOK'
    BY <1>12 DEF Revert, u_clearState, Zero, NoNativeInside, TypeOK, RootOwned, NoOther, SaveOK
  <2> QED BY <2>1, <2>2, <2>3, <2>4, <2>5
<1>13. CASE Load
  <2>1. TypeOK'
    BY <1>13 DEF Load, NoNativeInside, TypeOK, RootOwned, NoOther, Knows, SaveOK
  <2>2. RootOwned'
    BY <1>13 DEF Load, NoNativeInside, TypeOK, RootOwned, NoOther, Knows, SaveOK
  <2>3. NoOther'
    BY <1>13 DEF Load, NoNativeInside, TypeOK, RootOwned, NoOther, Knows, SaveOK
  <2>4. \A u \in Threads : Knows(u)'
    BY <1>13 DEF Load, NoNativeInside, TypeOK, RootOwned, NoOther, Knows
  <2>5. SaveOK'
    BY <1>13 DEF Load, NoNativeInside, TypeOK, RootOwned, NoOther, SaveOK
  <2> QED BY <2>1, <2>2, <2>3, <2>4, <2>5
<1>15. CASE ReleaseTagged
  <2>1. TypeOK'
    BY <1>15 DEF ReleaseTagged, TypeOK, RootOwned, NoOther, Knows, SaveOK
  <2>2. RootOwned'
    BY <1>15 DEF ReleaseTagged, TypeOK, RootOwned, NoOther, Knows, SaveOK
  <2>3. NoOther'
    BY <1>15 DEF ReleaseTagged, TypeOK, RootOwned, NoOther, Knows, SaveOK
  <2>4. \A u \in Threads : Knows(u)'
    BY <1>15 DEF ReleaseTagged, TypeOK, RootOwned, NoOther, Knows
  <2>5. SaveOK'
    BY <1>15 DEF ReleaseTagged, TypeOK, RootOwned, NoOther, SaveOK
  <2> QED BY <2>1, <2>2, <2>3, <2>4, <2>5
<1>14. CASE UNCHANGED vars
  BY <1>14 DEF vars, TypeOK, RootOwned, NoOther, Knows, SaveOK
<1> QED
  BY <1>1, <1>2, <1>3, <1>4, <1>5, <1>6, <1>7, <1>8, <1>9, <1>10, <1>11, <1>12, <1>13, <1>14, <1>15
  DEF Next, root

LEMMA RootInductive == Spec => []RootInv
<1>1. RootInv /\ [Next]_vars => RootInv'
  BY RootStep
<1> QED
  BY RootInit, <1>1, PTL DEF Spec

-----------------------------------------------------------------------------
(* There are never two maps, not even while a root is being made.          *)
LEMMA AtMostOneMap == RootInv => Cardinality(alive) <= 1
<1> SUFFICES ASSUME RootInv PROVE Cardinality(alive) <= 1
  OBVIOUS
<1>1. ASSUME NEW m \in alive, NEW n \in alive PROVE m = n
  <2>1. CASE _root_object_id \notin alive
    <3>1. PICK t \in Threads : pc[t] = "set_root" /\ result[t] = m
      BY <2>1 DEF RootInv, NoOther
    <3>2. PICK u \in Threads : pc[u] = "set_root" /\ result[u] = n
      BY <2>1 DEF RootInv, NoOther
    <3> QED
      BY <3>1, <3>2, OneInside DEF RootInv
  <2>2. CASE _root_object_id \in alive
    <3>1. ASSUME NEW t \in Threads PROVE pc[t] # "set_root"
      BY <2>2, RootAssumption DEF RootInv, TypeOK, Knows, getObject
    <3> QED
      BY <3>1 DEF RootInv, NoOther
  <2> QED
    BY <2>1, <2>2
<1>2. CASE alive = {}
  BY <1>2, FS_EmptySet
<1>3. CASE alive # {}
  <2>1. PICK m \in alive : alive = {m}
    BY <1>1, <1>3
  <2>2. Cardinality({m}) = 1
    BY FS_Singleton, Zenon
  <2> QED
    BY <2>1, <2>2
<1> QED
  BY <1>2, <1>3

(* Types; and the lock is held exactly between its taking and its release. *)
THEOREM RootTypeCorrect == Spec => []TypeOK
<1>1. RootInv => TypeOK
  BY DEF RootInv
<1> QED
  BY RootInductive, <1>1, PTL

(* The map that natives use with no reference of their own exists, however *)
(* scripts retain, tag and release it, until they have released it more    *)
(* often than they had retained it, or by its tag.                         *)
THEOREM RootAlwaysExists == Spec => []RootExists
<1>1. RootInv => RootExists
  <2> SUFFICES ASSUME RootInv, Kept
               PROVE  /\ _cached_root # Null => _cached_root \in alive
                      /\ \A t \in Threads : result[t] # Null => result[t] \in alive
    BY DEF RootExists
  <2>1. _root_object_id # Null => _root_object_id \in alive
    BY DEF RootInv, RootOwned, Kept
  <2>3. _cached_root # Null => _cached_root \in alive
    BY <2>1 DEF RootInv, RootOwned
  <2>2. ASSUME NEW t \in Threads, result[t] # Null PROVE result[t] \in alive
    BY <2>1, <2>2, <2>3 DEF RootInv, RootOwned, Knows, TypeOK
  <2> QED
    BY <2>2, <2>3
<1> QED
  BY RootInductive, <1>1, PTL

(* However many natives race for the first root(), they get one map.       *)
THEOREM OneRootForAll == Spec => []OneRoot
<1>1. RootInv => OneRoot
  BY DEF RootInv, Knows, OneRoot
<1> QED
  BY RootInductive, <1>1, PTL

(* A root is made only if there is none; the cached pointer is the root's. *)
THEOREM RootIsNeverReplaced == Spec => []RootIsKept
<1>1. RootInv => RootIsKept
  <2> SUFFICES ASSUME RootInv PROVE RootIsKept
    OBVIOUS
  <2>1. ASSUME NEW t \in Threads, pc[t] = "set_root" PROVE getObject(_root_object_id) = Null
    BY <2>1 DEF RootInv, Knows, getObject
  <2> QED
    BY <2>1, AtMostOneMap DEF RootInv, RootOwned, RootIsKept
<1> QED
  BY RootInductive, <1>1, PTL
=============================================================================
