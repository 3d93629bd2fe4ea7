---------------------------- MODULE ThreadProofs ----------------------------
(***************************************************************************)
(* Proofs about what threads do to each other.                             *)
(*                                                                         *)
(* First the autorelease queue, for any objects, any ring, any lifetime    *)
(* shorter than it and a worker that is any number of handlers late.       *)
(* TickRing implements AgeQueue for every size of the ring, the code's     *)
(* 2^32 - 1 and its 5 ticks among them, which no model checker reaches.    *)
(* Then the queue with its timer.                                          *)
(*                                                                         *)
(* Then natives of any number of scripts, of which each holds one lock at  *)
(* a time, on any containers: additions along paths and deep copies.       *)
(***************************************************************************)
EXTENDS AutoreleaseQueue, ContainerLocks, FiniteSetTheorems, SequenceTheorems, TLAPS

USE RingAssumption DEF Times

-----------------------------------------------------------------------------
(* The ring.                                                               *)
LEMMA SubtractInRing ==
  ASSUME NEW a \in Times, NEW b \in Times
  PROVE  time_subtract(a, b) \in Times
BY DEF time_subtract

(* A stamp a whole lifetime back.                                          *)
LEMMA StampInRing ==
  ASSUME NEW a \in Times
  PROVE  time_subtract(a, Life) \in Times /\ time_subtract(a, time_subtract(a, Life)) = Life
BY DEF time_subtract

LEMMA FreshStamp ==
  ASSUME NEW a \in Times
  PROVE  time_subtract(a, a) = 0
BY DEF time_subtract

LEMMA AddInRing ==
  ASSUME NEW a \in Times
  PROVE  time_add(a, 1) \in Times
BY DEF time_add

(* A tick makes everybody one tick older, across the wrap too.             *)
LEMMA TickAges ==
  ASSUME NEW a \in Times, NEW b \in Times, time_subtract(a, b) < Life
  PROVE  time_subtract(time_add(a, 1), b) = time_subtract(a, b) + 1
BY DEF time_subtract, time_add

-----------------------------------------------------------------------------
(* The invariant is inductive as it stands: AgeBounded because what        *)
(* reaches the lifetime leaves the deque at the next tick.                 *)
IInv == TypeOK /\ AgeBounded

LEMMA InitInv == Init => IInv
BY DEF Init, IInv, TypeOK, AgeBounded

LEMMA StepInv == IInv /\ [Next]_vars => IInv'
<1> SUFFICES ASSUME IInv, [Next]_vars PROVE IInv'
  OBVIOUS
<1> USE DEF IInv, TypeOK
<1>1. ASSUME NEW o \in Objects, NEW isPublic \in BOOLEAN, prolong_lifetime(o, isPublic)
      PROVE  IInv'
  <2>1. (IF isPublic THEN _tickCounter ELSE time_subtract(_tickCounter, Life)) \in Times
    BY StampInRing
  <2>2. TypeOK'
    BY <1>1, <2>1 DEF prolong_lifetime, is_in_aqueue
  <2>3. AgeBounded'
    <3> SUFFICES ASSUME NEW q \in _queue' PROVE Age(q)' <= Life
      BY DEF AgeBounded
    <3>1. CASE q = o
      BY <1>1, <3>1, StampInRing, FreshStamp DEF prolong_lifetime, Age
    <3>2. CASE q # o
      BY <1>1, <3>2 DEF prolong_lifetime, Age, AgeBounded
    <3> QED
      BY <3>1, <3>2
  <2> QED
    BY <2>2, <2>3
<1>2. ASSUME NEW o \in Objects, not_prolong_lifetime(o)
      PROVE  IInv'
  <2>1. TypeOK'
    BY <1>2, StampInRing DEF not_prolong_lifetime
  <2>2. AgeBounded'
    BY <1>2, StampInRing DEF not_prolong_lifetime, Age, AgeBounded
  <2> QED
    BY <2>1, <2>2
<1>3. ASSUME NEW o \in Objects, release(o)
      PROVE  IInv'
  BY <1>3 DEF release, AgeBounded, Age
<1>4. CASE tick
  <2>1. TypeOK'
    BY <1>4, AddInRing DEF tick, Due
  <2>2. AgeBounded'
    <3> SUFFICES ASSUME NEW q \in _queue' PROVE Age(q)' <= Life
      BY DEF AgeBounded
    <3>1. q \in _queue /\ Age(q) \in Times /\ ~(Age(q) + 1 >= Life)
      BY <1>4, SubtractInRing DEF tick, Due, Age
    <3>2. Age(q)' = Age(q) + 1
      BY <1>4, <3>1, TickAges DEF tick, Age
    <3> QED
      BY <3>1, <3>2
  <2> QED
    BY <2>1, <2>2
<1>5. CASE u_clear
  BY <1>5 DEF u_clear, AgeBounded
<1>6. CASE UNCHANGED vars
  BY <1>6 DEF vars, AgeBounded, Age
<1> QED
  BY <1>1, <1>2, <1>3, <1>4, <1>5, <1>6 DEF Next

LEMMA Inductive == Spec => []IInv
BY InitInv, StepInv, PTL DEF Spec

(* Times and stamps stay in the ring; no object is in the deque and in     *)
(* _toRelease at once.                                                     *)
THEOREM RingTypeCorrect == Spec => []TypeOK
<1>1. IInv => TypeOK
  BY DEF IInv
<1> QED
  BY Inductive, <1>1, PTL

(* No object in the deque is older than one lifetime.                      *)
THEOREM AgeIsBounded == Spec => []AgeBounded
<1>1. IInv => AgeBounded
  BY DEF IInv
<1> QED
  BY Inductive, <1>1, PTL

-----------------------------------------------------------------------------
(* The refinement.  AgeOf is the age AgeQueue sees.                        *)
AgeOf == [o \in Objects |-> IF o \in _queue THEN Age(o) ELSE 0]

LEMMA InitRefines == Init => AQ!Init
BY DEF Init, AQ!Init

LEMMA StepRefines == IInv /\ [Next]_vars => [AQ!Next]_(AQ!vars)
<1> SUFFICES ASSUME IInv, [Next]_vars PROVE [AQ!Next]_(AQ!vars)
  OBVIOUS
<1> USE DEF IInv, TypeOK
<1>1. ASSUME NEW o \in Objects, NEW isPublic \in BOOLEAN, prolong_lifetime(o, isPublic)
      PROVE  AQ!Prolong(o, isPublic)
  <2>1. \A q \in _queue' : Age(q)' = IF q = o THEN IF isPublic THEN 0 ELSE Life ELSE Age(q)
    BY <1>1, StampInRing, FreshStamp DEF prolong_lifetime, Age
  <2>2. AgeOf' = [AgeOf EXCEPT ![o] = IF o \in _toRelease \/ isPublic THEN 0 ELSE Life]
    BY <1>1, <2>1 DEF prolong_lifetime, is_in_aqueue, AgeOf
  <2> QED
    BY <1>1, <2>2 DEF prolong_lifetime, is_in_aqueue, AgeOf, AQ!Prolong
<1>2. ASSUME NEW o \in Objects, not_prolong_lifetime(o)
      PROVE  AQ!NotProlong(o)
  <2>1. \A q \in _queue' : Age(q)' = IF q = o THEN Life ELSE Age(q)
    BY <1>2, StampInRing DEF not_prolong_lifetime, Age
  <2>2. AgeOf' = [AgeOf EXCEPT ![o] = IF o \in _queue THEN Life ELSE 0]
    BY <1>2, <2>1 DEF not_prolong_lifetime, AgeOf
  <2> QED
    BY <1>2, <2>2 DEF not_prolong_lifetime, AgeOf, AQ!NotProlong
<1>3. ASSUME NEW o \in Objects, release(o)
      PROVE  AQ!Release(o)
  BY <1>3 DEF release, Age, AQ!Release
<1>4. ASSUME tick
      PROVE  AQ!Tick
  <2>1. AQ!Due = Due
    BY DEF AQ!Due, Due
  <2>2. \A q \in _queue' : Age(q)' = Age(q) + 1
    <3> SUFFICES ASSUME NEW q \in _queue' PROVE Age(q)' = Age(q) + 1
      OBVIOUS
    <3>1. q \in _queue /\ Age(q) \in Times /\ ~(Age(q) + 1 >= Life)
      BY <1>4, SubtractInRing DEF tick, Due, Age
    <3> QED
      BY <1>4, <3>1, TickAges DEF tick, Age
  <2>3. AgeOf' = [o \in Objects |-> IF o \in _queue \ AQ!Due THEN AgeOf[o] + 1 ELSE 0]
    BY <1>4, <2>1, <2>2 DEF tick, AgeOf
  <2>4. _toRelease = {} /\ _toRelease' = AQ!Due /\ _queue' = _queue \ AQ!Due
    BY <1>4, <2>1 DEF tick
  <2> QED
    BY <2>3, <2>4 DEF AgeOf, AQ!Tick
<1>5. ASSUME u_clear
      PROVE  AQ!Clear
  <2>1. AgeOf' = [o \in Objects |-> 0]
    BY <1>5 DEF u_clear, AgeOf
  <2>2. _queue' = {} /\ _toRelease' = {}
    BY <1>5 DEF u_clear
  <2> QED
    BY <2>1, <2>2 DEF AgeOf, AQ!Clear
<1>6. ASSUME UNCHANGED vars
      PROVE  UNCHANGED AQ!vars
  BY <1>6 DEF vars, Age, AQ!vars
<1> QED
  BY <1>1, <1>2, <1>3, <1>4, <1>5, <1>6 DEF Next, AQ!Next

(* The queue's wrapping clock implements the ages ObjectLifetime counts.   *)
THEOREM RingKeepsAge == Spec => KeepsAge
<1>1. Init => AQ!Init
  BY InitRefines
<1>2. IInv /\ [Next]_vars => [AQ!Next]_(AQ!vars)
  BY StepRefines
<1> QED
  BY <1>1, <1>2, Inductive, PTL DEF Spec, KeepsAge, AQ!Spec

HIDE RingAssumption DEF Times

-----------------------------------------------------------------------------
(* Only the handler that keeps _timer_mutex has objects to release.        *)
ReleasesUnderMutex == handler \in {"idle", "begun"} => _toRelease = {}

TimerInv ==
  /\ IInv
  /\ QueueTypeOK
  /\ OneWait
  /\ QuietWhileStopped
  /\ KeepsGoing
  /\ ReleasesUnderMutex

-----------------------------------------------------------------------------
(* Every step of the queue with its timer is one of the clock's.           *)
LEMMA QueueStepIsTick == QueueNext => [Next]_vars
<1> SUFFICES ASSUME QueueNext PROVE [Next]_vars
  OBVIOUS
<1>1. CASE Stop \/ Destroy \/ Start \/ Expire \/ HandlerBegin \/ HandlerLock \/ HandlerRestart
  BY <1>1 DEF Stop, Destroy, Start, Expire, HandlerBegin, HandlerLock, HandlerRestart, vars
<1>2. CASE Clear
  BY <1>2 DEF Clear, Next
<1>3. ASSUME NEW o \in Objects, Prolong(o) PROVE Next
  BY <1>3 DEF Prolong, Next
<1>4. CASE HandlerTick
  BY <1>4 DEF HandlerTick, Next
<1>5. ASSUME NEW o \in Objects, HandlerRelease(o) PROVE Next
  BY <1>5 DEF HandlerRelease, Next
<1> QED
  BY <1>1, <1>2, <1>3, <1>4, <1>5 DEF QueueNext, Handler

LEMMA TimerInit == QueueInit => TimerInv
<1>1. Init => IInv
  BY InitInv
<1>2. ASSUME QueueInit PROVE QueueTypeOK
  <2>1. TypeOK
    BY <1>1, <1>2 DEF QueueInit, IInv
  <2>2. _timer_stopped \in BOOLEAN /\ ~_timer_stopped
    BY <1>2 DEF QueueInit
  <2>3. /\ waiting \in Nat
        /\ ready \in 0 .. MaxReady
        /\ handler = "idle"
        /\ owner = "outside"
    BY <1>2, TimerAssumption DEF QueueInit
  <2> QED
    BY <2>1, <2>2, <2>3 DEF QueueTypeOK
<1>3. ASSUME QueueInit PROVE OneWait /\ KeepsGoing
  <2>1. waiting = 1 /\ ready = 0
    BY <1>3 DEF QueueInit
  <2> QED
    BY <2>1 DEF OneWait, KeepsGoing
<1>4. QueueInit => IInv /\ QuietWhileStopped /\ ReleasesUnderMutex
  BY <1>1 DEF QueueInit, Init, QuietWhileStopped, ReleasesUnderMutex
<1> QED
  BY <1>2, <1>3, <1>4 DEF TimerInv

LEMMA TimerStep == TimerInv /\ [QueueNext]_queueVars => TimerInv'
<1> SUFFICES ASSUME TimerInv, [QueueNext]_queueVars PROVE TimerInv'
  OBVIOUS
<1> USE TimerAssumption
    DEF TimerInv, QueueTypeOK, OneWait, QuietWhileStopped, KeepsGoing, ReleasesUnderMutex
<1>1. [Next]_vars
  BY QueueStepIsTick DEF queueVars, vars
<1>2. IInv'
  BY <1>1, StepInv
<1>3. TypeOK'
  BY <1>2 DEF IInv
<1>4. CASE Stop
  BY <1>2, <1>3, <1>4 DEF Stop, stop, MutexFree, vars
<1>5. CASE Clear
  BY <1>2, <1>3, <1>5 DEF Clear, stop, MutexFree, u_clear
<1>6. CASE Destroy
  BY <1>2, <1>3, <1>6 DEF Destroy, stop, MutexFree, vars
<1>7. CASE Start
  <2>1. /\ owner' = "outside"
        /\ handler' = handler /\ handler \in {"idle", "begun"}
        /\ ready' = ready
        /\ _toRelease' = _toRelease
    BY <1>7 DEF Start, MutexFree, vars
  <2>2. CASE _timer_stopped
    <3>1. _timer_stopped' = FALSE /\ waiting' = 1
      BY <1>7, <2>2 DEF Start, u_startTimer
    <3>2. QueueTypeOK'
      BY <1>3, <2>1, <3>1
    <3> QED
      BY <1>2, <2>1, <3>1, <3>2
  <2>3. CASE ~_timer_stopped
    <3>1. _timer_stopped' = _timer_stopped /\ waiting' = waiting
      BY <1>7, <2>3 DEF Start
    <3>2. QueueTypeOK'
      BY <1>3, <2>1, <2>3, <3>1
    <3> QED
      BY <1>2, <2>1, <2>3, <3>1, <3>2
  <2> QED
    BY <2>2, <2>3
<1>8. ASSUME NEW o \in Objects, Prolong(o) PROVE TimerInv'
  BY <1>2, <1>3, <1>8 DEF Prolong, prolong_lifetime, not_prolong_lifetime, timer
<1>9. CASE Expire
  BY <1>2, <1>3, <1>9 DEF Expire, vars
<1>10. CASE HandlerBegin
  BY <1>2, <1>3, <1>10 DEF HandlerBegin, vars
<1>11. CASE HandlerLock
  BY <1>2, <1>3, <1>11 DEF HandlerLock, vars
<1>12. CASE HandlerTick
  BY <1>2, <1>3, <1>12 DEF HandlerTick, tick
<1>13. ASSUME NEW o \in Objects, HandlerRelease(o) PROVE TimerInv'
  BY <1>2, <1>3, <1>13 DEF HandlerRelease, release, timer
<1>14. CASE HandlerRestart
  BY <1>2, <1>3, <1>14 DEF HandlerRestart, u_startTimer, vars
<1>15. CASE UNCHANGED queueVars
  BY <1>2, <1>3, <1>15 DEF queueVars, timer, vars
<1> QED
  BY <1>4, <1>5, <1>6, <1>7, <1>8, <1>9, <1>10, <1>11, <1>12, <1>13, <1>14, <1>15
  DEF QueueNext, Handler

LEMMA TimerInductive == QueueSpec => []TimerInv
BY TimerInit, TimerStep, PTL DEF QueueSpec

-----------------------------------------------------------------------------
(* Types; the timer is stopped exactly inside the stop-start pairs.        *)
THEOREM QueueTypeCorrect == QueueSpec => []QueueTypeOK
<1>1. TimerInv => QueueTypeOK
  BY DEF TimerInv
<1> QED
  BY TimerInductive, <1>1, PTL

(* stop() never finds more than one wait to cancel.                        *)
THEOREM WaitsDoNotMultiply == QueueSpec => []OneWait
<1>1. TimerInv => OneWait
  BY DEF TimerInv
<1> QED
  BY TimerInductive, <1>1, PTL

(* No tick runs, begins or goes on between a stop and the next start.      *)
THEOREM StopSilences == QueueSpec => []QuietWhileStopped
<1>1. TimerInv => QuietWhileStopped
  BY DEF TimerInv
<1> QED
  BY TimerInductive, <1>1, PTL

(* A timer that is not stopped has a wait or a handler to come.            *)
THEOREM TimerNeverDies == QueueSpec => []KeepsGoing
<1>1. TimerInv => KeepsGoing
  BY DEF TimerInv
<1> QED
  BY TimerInductive, <1>1, PTL

(* However the timer is stopped and started, the queue keeps the ages.     *)
THEOREM QueueKeepsAge == QueueSpec => KeepsAge
<1>1. QueueInit => Init
  BY DEF QueueInit
<1>2. [QueueNext]_queueVars => [Next]_vars
  BY QueueStepIsTick DEF queueVars, vars
<1>3. QueueSpec => Spec
  BY <1>1, <1>2, PTL DEF QueueSpec, Spec
<1> QED
  BY <1>3, RingKeepsAge

HIDE RingAssumption DEF Times

-----------------------------------------------------------------------------
(* Natives under the locks of containers.                                  *)
USE LocksAssumption

(* Induction over a number, as there is no theorem without operators.      *)
LEMMA LeastNumber ==
  ASSUME NEW F \in SUBSET Nat, F # {}
  PROVE  \E i \in F : \A j \in F : i <= j
<1> DEFINE R == OpToRel(<, Nat)
<1>1. \A i, j \in Nat : i < j => << i, j >> \in R
  BY DEF OpToRel
<1>2. IsWellFoundedOn(R, Nat)
  BY NatLessThanWellFounded
<1> HIDE DEF R
<1>3. \E i \in F : \A j \in F : ~ (<< j, i >> \in R)
  BY <1>2, WFMin
<1>4. PICK i \in F : \A j \in F : ~ (<< j, i >> \in R)
  BY <1>3
<1>5. ASSUME NEW j \in F PROVE i <= j
  <2>1. i \in Nat /\ j \in Nat /\ ~(j < i)
    BY <1>1, <1>4
  <2> QED
    BY <2>1
<1> QED
  BY <1>4, <1>5

MapItems == Maps \cup Nat \cup {Null, Absent}

LocksTyped ==
  /\ content \in [Maps -> [Keys -> MapItems]]
  /\ call \in [Threads -> Calls \cup {Null}]
  /\ pc \in [Threads -> {"idle", "access", "visit", "remove", "lock", "transfer",
                         "copy", "copying", "done"}]
  /\ loc \in [Threads -> Maps \cup Arrays \cup {Null}]
  /\ at \in [Threads -> Nat]
  /\ copied \in [Threads -> SUBSET (Maps \X Maps)]
  /\ ret \in [Threads -> Maps \cup Nat \cup {Null, Error}]

OnPath(t) == call[t] # Null /\ call[t].op \in {"add", "set"}

(* What each native knows at its place.                                    *)
NativeKnows(t) ==
  /\ pc[t] = "idle" <=> call[t] = Null
  /\ pc[t] \in {"access", "visit"} => OnPath(t)
  /\ OnPath(t) => /\ at[t] \in 1 .. Len(call[t].path) /\ loc[t] \in Maps
                  /\ pc[t] \in {"access", "visit", "done"}
  /\ pc[t] = "visit" => IsLast(t)
  /\ pc[t] = "remove" => call[t].op = "remove" /\ at[t] = 1 /\ loc[t] \in Maps
  /\ pc[t] \in {"lock", "transfer"} => call[t].op \in {"addPairs", "addFromArray"}
  /\ pc[t] \in {"copy", "copying"} => call[t].op = "copy"
  /\ pc[t] = "copy" => loc[t] \in Roots
  /\ pc[t] = "idle" => at[t] = 1
  /\ copied[t] # {} => pc[t] \in {"copying", "done"} /\ call[t].op = "copy"
  /\ call[t] # Null /\ call[t].op = "copy" /\ pc[t] \in {"copying", "done"} => copied[t] # {}

SameNative(u) ==
  /\ pc'[u] = pc[u] /\ call'[u] = call[u] /\ loc'[u] = loc[u]
  /\ at'[u] = at[u] /\ copied'[u] = copied[u] /\ ret'[u] = ret[u]

OnlyActs(t) == \A u \in Threads \ {t} : SameNative(u)

AllCopies == UNION {Copies(t) : t \in Threads}

(* The maps a path of n keys leads through in a heap, from root to m, none *)
(* of them in A.                                                           *)
Chain(heap, A, s, root, path, n, m) ==
  /\ s \in [1 .. n -> Maps] /\ s[1] = root /\ s[n] = m
  /\ \A i \in 1 .. n : s[i] \notin A
  /\ \A i \in 1 .. n - 1 : heap[s[i]][path[i]] = s[i + 1]

(* A recursive function that follows the path agrees with the chain.       *)
LEMMA CellIs ==
  ASSUME NEW path \in Seq(Keys), path # << >>, NEW root, NEW m, NEW s,
         Chain(content, AllCopies, s, root, path, Len(path), m)
  PROVE  Cell(root, path) = << m, path[Len(path)] >>
<1> DEFINE n == Len(path)
           Step1(f, i) == IF i = 1 THEN root
                     ELSE IF f[i - 1] \in Maps THEN content[f[i - 1]][path[i - 1]] ELSE Null
           reached[i \in 1 .. n] ==
             IF i = 1 THEN root
             ELSE IF reached[i - 1] \in Maps THEN content[reached[i - 1]][path[i - 1]] ELSE Null
<1>1. n \in Nat \ {0}
  BY LenProperties, EmptySeq
<1>2. s = [i \in 1 .. n |-> Step1(s, i)]
  <2>1. ASSUME NEW i \in 1 .. n PROVE s[i] = Step1(s, i)
    <3>1. CASE i = 1
      BY <3>1 DEF Chain
    <3>2. CASE i # 1
      <4>1. i - 1 \in 1 .. n - 1 /\ i - 1 \in 1 .. n /\ (i - 1) + 1 = i
        BY <1>1, <3>2
      <4>2. s[i - 1] \in Maps /\ content[s[i - 1]][path[i - 1]] = s[i]
        BY <4>1 DEF Chain
      <4> QED
        BY <3>2, <4>2
    <3> QED
      BY <3>1, <3>2
  <2>2. s = [i \in 1 .. n |-> s[i]]
    BY DEF Chain
  <2> QED
    BY <2>1, <2>2
<1>3. reached = [i \in 1 .. n |-> Step1(reached, i)]
  BY <1>2
<1>4. Cell(root, path) = << reached[n], path[n] >>
  BY DEF Cell
<1> HIDE DEF reached
<1> DEFINE F == {i \in 1 .. n : reached[i] # s[i]}
<1>5. F = {}
  <2> SUFFICES ASSUME F # {} PROVE FALSE
    OBVIOUS
  <2>1. F \in SUBSET Nat
    BY <1>1
  <2>2. PICK i \in F : \A j \in F : i <= j
    BY <2>1, LeastNumber
  <2>3. i # 1
    BY <1>2, <1>3
  <2>4. i - 1 \in 1 .. n /\ ~(i <= i - 1)
    BY <1>1, <2>3
  <2>5. reached[i - 1] = s[i - 1]
    BY <2>2, <2>4
  <2>6. reached[i] = Step1(reached, i) /\ s[i] = Step1(s, i)
    BY <1>2, <1>3
  <2> QED
    BY <2>3, <2>5, <2>6
<1>6. n \in 1 .. n /\ s[n] = m
  BY <1>1 DEF Chain
<1> QED
  BY <1>4, <1>5, <1>6

LEMMA CallIs ==
  ASSUME NEW c \in Calls
  PROVE  /\ c # Null
         /\ c.op \in {"add", "set", "remove", "copy", "addPairs", "addFromArray"}
         /\ c.op \in {"add", "set", "remove"} =>
              c.obj \in Roots /\ c.path \in Seq(Keys) /\ c.path # << >> /\ Len(c.path) \in Nat \ {0}
         /\ c.op = "copy" => c.obj \in Roots
         /\ c.op = "addPairs" => c.obj \in Roots /\ c.source \in Roots
         /\ c.op = "addFromArray" => c.obj \in Arrays /\ c.source \in Arrays
<1>1. \A p \in Seq(Keys) \ {<< >>} : Len(p) \in Nat \ {0}
  BY LenProperties, EmptySeq
<1> QED
  BY <1>1 DEF LocksAssumption

LEMMA NewMapIs ==
  ASSUME LocksTyped, Unused # {}
  PROVE  /\ NewMap \in Unused /\ NewMap \in Maps /\ NewMap \notin Roots
         /\ NewMap \notin AllCopies /\ \A u \in Threads : loc[u] # NewMap
         /\ \A m \in Maps, k \in Keys : content[m][k] # NewMap
<1>1. NewMap \in Unused
  BY DEF NewMap
<1> QED
  BY <1>1 DEF Unused, AllCopies

LEMMA KeyIs ==
  ASSUME LocksTyped, NEW t \in Threads, NativeKnows(t), OnPath(t) \/ pc[t] = "remove"
  PROVE  /\ call[t] \in Calls /\ call[t].obj \in Roots /\ call[t].path \in Seq(Keys)
         /\ call[t].path # << >> /\ Len(call[t].path) \in Nat \ {0}
         /\ at[t] \in 1 .. Len(call[t].path) /\ loc[t] \in Maps /\ Key(t) \in Keys
         /\ Here(t) \in MapItems
<1>1. call[t] \in Calls /\ call[t].op \in {"add", "set", "remove"}
  BY DEF LocksTyped, NativeKnows, OnPath
<1>2. /\ call[t].obj \in Roots /\ call[t].path \in Seq(Keys)
      /\ call[t].path # << >> /\ Len(call[t].path) \in Nat \ {0}
  BY <1>1, CallIs
<1>3. at[t] \in 1 .. Len(call[t].path) /\ loc[t] \in Maps
  BY <1>2 DEF NativeKnows
<1>4. Key(t) \in Keys
  BY <1>2, <1>3, ElementOfSeq DEF Key
<1> QED
  BY <1>1, <1>2, <1>3, <1>4 DEF LocksTyped, Here

LEMMA SameKnows ==
  ASSUME NEW u \in Threads, NativeKnows(u), SameNative(u)
  PROVE  NativeKnows(u)'
BY DEF NativeKnows, SameNative, OnPath, IsLast

LEMMA BeginMoves ==
  ASSUME LocksTyped, NEW t \in Threads, NativeKnows(t), NEW c \in Calls, Begin(t, c)
  PROVE  LocksTyped' /\ OnlyActs(t) /\ NativeKnows(t)'
<1>1. /\ pc[t] = "idle" /\ call' = [call EXCEPT ![t] = c] /\ loc' = [loc EXCEPT ![t] = c.obj]
      /\ pc' = [pc EXCEPT ![t] = FirstStep(c)] /\ UNCHANGED << content, at, copied, ret >>
  BY DEF Begin, Goes
<1>2. c.obj \in Maps \cup Arrays /\ (c.op \in {"add", "set", "remove", "copy"} => c.obj \in Maps)
  BY CallIs DEF LocksAssumption
<1>3. /\ FirstStep(c) \in {"access", "remove", "lock", "copy", "done"}
      /\ FirstStep(c) = "access" <=> c.op \in {"add", "set"}
      /\ FirstStep(c) = "remove" => c.op = "remove"
      /\ FirstStep(c) = "copy" <=> c.op = "copy"
      /\ FirstStep(c) = "lock" => c.op \in {"addPairs", "addFromArray"}
  BY CallIs DEF FirstStep
<1>4. LocksTyped'
  BY <1>1, <1>2, <1>3 DEF LocksTyped
<1>5. OnlyActs(t)
  BY <1>1 DEF OnlyActs, SameNative, LocksTyped
<1>6. /\ pc'[t] = FirstStep(c) /\ call'[t] = c /\ loc'[t] = c.obj /\ at'[t] = 1 /\ copied'[t] = {}
  BY <1>1 DEF LocksTyped, NativeKnows
<1>7. NativeKnows(t)'
  BY <1>2, <1>3, <1>6, CallIs DEF NativeKnows, OnPath
<1> QED
  BY <1>4, <1>5, <1>7

LEMMA AccessItemMoves ==
  ASSUME LocksTyped, NEW t \in Threads, NativeKnows(t), AccessItem(t)
  PROVE  LocksTyped' /\ OnlyActs(t) /\ NativeKnows(t)'
<1>1. /\ pc[t] = "access" /\ UNCHANGED << content, call, copied >> /\ OnPath(t)
      /\ \/ /\ IsLast(t) /\ pc' = [pc EXCEPT ![t] = "visit"] /\ UNCHANGED << loc, at, ret >>
         \/ /\ ~IsLast(t) /\ Here(t) \in Maps /\ loc' = [loc EXCEPT ![t] = Here(t)]
            /\ at' = [at EXCEPT ![t] = at[t] + 1] /\ UNCHANGED << pc, ret >>
         \/ /\ pc' = [pc EXCEPT ![t] = "done"] /\ ret' = [ret EXCEPT ![t] = Error]
            /\ UNCHANGED << loc, at >>
  BY DEF AccessItem, Enter, Goes, Returns, NativeKnows
<1>2. at[t] \in 1 .. Len(call[t].path) /\ Len(call[t].path) \in Nat
  BY <1>1, KeyIs
<1>3. LocksTyped'
  <2>1. pc' \in [Threads -> {"idle", "access", "visit", "remove", "lock", "transfer",
                            "copy", "copying", "done"}]
    BY <1>1 DEF LocksTyped
  <2>2. loc' \in [Threads -> Maps \cup Arrays \cup {Null}]
    BY <1>1 DEF LocksTyped
  <2>4. at' \in [Threads -> Nat]
    <3>1. at[t] + 1 \in Nat
      BY <1>2
    <3>2. \/ at' = at
          \/ at' = [at EXCEPT ![t] = at[t] + 1]
      BY <1>1
    <3> QED
      BY <3>1, <3>2 DEF LocksTyped
  <2>3. ret' \in [Threads -> Maps \cup Nat \cup {Null, Error}]
    BY <1>1 DEF LocksTyped
  <2> QED
    BY <1>1, <2>1, <2>2, <2>3, <2>4 DEF LocksTyped
<1>4. OnlyActs(t)
  BY <1>1 DEF OnlyActs, SameNative, LocksTyped
<1>5. NativeKnows(t)'
  BY <1>1, <1>2 DEF NativeKnows, OnPath, IsLast, LocksTyped
<1> QED
  BY <1>3, <1>4, <1>5

(* What access_creative writes.                                            *)
LEMMA MissingIs ==
  ASSUME LocksTyped, NEW t \in Threads, NativeKnows(t), AccessMissing(t)
  PROVE  /\ Here(t) = Absent
         /\ content' \in [Maps -> [Keys -> MapItems]]
         /\ \/ /\ IsLast(t) /\ pc' = [pc EXCEPT ![t] = "visit"] /\ UNCHANGED << loc, at >>
               /\ \A q \in Maps, j \in Keys :
                    content'[q][j] = IF q = loc[t] /\ j = Key(t) THEN Null ELSE content[q][j]
            \/ /\ ~IsLast(t) /\ Unused # {} /\ UNCHANGED pc
               /\ loc' = [loc EXCEPT ![t] = NewMap] /\ at' = [at EXCEPT ![t] = at[t] + 1]
               /\ \A q \in Maps, j \in Keys :
                    content'[q][j] = IF q = NewMap THEN Absent
                                     ELSE IF q = loc[t] /\ j = Key(t) THEN NewMap ELSE content[q][j]
<1>1. /\ pc[t] = "access" /\ Here(t) = Absent
      /\ \/ /\ IsLast(t) /\ content' = [content EXCEPT ![loc[t]][Key(t)] = Null]
            /\ pc' = [pc EXCEPT ![t] = "visit"] /\ UNCHANGED << loc, at >>
         \/ /\ ~IsLast(t) /\ Unused # {} /\ UNCHANGED pc
            /\ content' = [content EXCEPT ![loc[t]][Key(t)] = NewMap, ![NewMap] = Empty]
            /\ loc' = [loc EXCEPT ![t] = NewMap] /\ at' = [at EXCEPT ![t] = at[t] + 1]
  BY DEF AccessMissing, Creates, Enter, Goes
<1>2. loc[t] \in Maps /\ Key(t) \in Keys
  BY <1>1, KeyIs DEF NativeKnows
<1>3. Null \in MapItems /\ Absent \in MapItems /\ Maps \subseteq MapItems
  BY DEF MapItems
<1>4. CASE IsLast(t)
  <2>1. content' = [content EXCEPT ![loc[t]][Key(t)] = Null]
    BY <1>1, <1>4
  <2> QED
    BY <1>1, <1>2, <1>3, <1>4, <2>1 DEF LocksTyped
<1>5. CASE ~IsLast(t)
  <2>1. content' = [content EXCEPT ![loc[t]][Key(t)] = NewMap, ![NewMap] = Empty] /\ Unused # {}
    BY <1>1, <1>5
  <2>2. NewMap \in Maps /\ NewMap # loc[t]
    BY <2>1, NewMapIs
  <2>3. Empty \in [Keys -> MapItems] /\ \A k \in Keys : Empty[k] = Absent
    BY <1>3 DEF Empty
  <2>4. content' \in [Maps -> [Keys -> MapItems]]
    BY <1>2, <1>3, <2>1, <2>2, <2>3 DEF LocksTyped
  <2>5. \A q \in Maps, j \in Keys :
          content'[q][j] = IF q = NewMap THEN Absent
                           ELSE IF q = loc[t] /\ j = Key(t) THEN NewMap ELSE content[q][j]
    BY <1>2, <2>1, <2>2, <2>3 DEF LocksTyped
  <2> QED
    BY <1>1, <1>5, <2>4, <2>5
<1> QED
  BY <1>4, <1>5

LEMMA AccessMissingMoves ==
  ASSUME LocksTyped, NEW t \in Threads, NativeKnows(t), AccessMissing(t)
  PROVE  LocksTyped' /\ OnlyActs(t) /\ NativeKnows(t)'
<1>1. /\ pc[t] = "access" /\ UNCHANGED << call, copied, ret >> /\ OnPath(t)
      /\ content' \in [Maps -> [Keys -> MapItems]]
      /\ \/ IsLast(t) /\ pc' = [pc EXCEPT ![t] = "visit"] /\ UNCHANGED << loc, at >>
         \/ /\ ~IsLast(t) /\ UNCHANGED pc /\ NewMap \in Maps
            /\ loc' = [loc EXCEPT ![t] = NewMap] /\ at' = [at EXCEPT ![t] = at[t] + 1]
  BY MissingIs, NewMapIs DEF AccessMissing, Enter, NativeKnows
<1>2. at[t] \in 1 .. Len(call[t].path) /\ Len(call[t].path) \in Nat
  BY <1>1, KeyIs
<1>3. LocksTyped'
  <2>1. pc' \in [Threads -> {"idle", "access", "visit", "remove", "lock", "transfer",
                            "copy", "copying", "done"}]
    BY <1>1 DEF LocksTyped
  <2>2. loc' \in [Threads -> Maps \cup Arrays \cup {Null}]
    BY <1>1 DEF LocksTyped
  <2>4. at' \in [Threads -> Nat]
    <3>1. at[t] + 1 \in Nat
      BY <1>2
    <3>2. \/ at' = at
          \/ at' = [at EXCEPT ![t] = at[t] + 1]
      BY <1>1
    <3> QED
      BY <3>1, <3>2 DEF LocksTyped
  <2>3. ret' \in [Threads -> Maps \cup Nat \cup {Null, Error}]
    BY <1>1 DEF LocksTyped
  <2> QED
    BY <1>1, <2>1, <2>2, <2>3, <2>4 DEF LocksTyped
<1>4. OnlyActs(t)
  BY <1>1 DEF OnlyActs, SameNative, LocksTyped
<1>5. NativeKnows(t)'
  BY <1>1, <1>2 DEF NativeKnows, OnPath, IsLast, LocksTyped
<1> QED
  BY <1>3, <1>4, <1>5

(* Steps that end a native: what is returned is a number, or Error.        *)
LEMMA ReturnMoves ==
  ASSUME LocksTyped, NEW t \in Threads, NativeKnows(t), pc[t] \notin {"idle", "copy", "copying"},
         NEW r \in Nat \cup {Error}, Returns(t, r),
         content' \in [Maps -> [Keys -> MapItems]], UNCHANGED << call, loc, at, copied >>
  PROVE  LocksTyped' /\ OnlyActs(t) /\ NativeKnows(t)'
<1>1. pc' = [pc EXCEPT ![t] = "done"] /\ ret' = [ret EXCEPT ![t] = r]
  BY DEF Returns, Goes
<1>2. LocksTyped'
  BY <1>1 DEF LocksTyped
<1>3. OnlyActs(t)
  BY <1>1 DEF OnlyActs, SameNative, LocksTyped
<1>4. NativeKnows(t)'
  BY <1>1 DEF NativeKnows, OnPath, LocksTyped
<1> QED
  BY <1>2, <1>3, <1>4

(* Writes to the item a native has come to, in the last step of the path.  *)
LEMMA VisitIs ==
  ASSUME LocksTyped, NEW t \in Threads, NativeKnows(t), FetchAdd(t) \/ Assign(t) \/ RemoveKey(t)
  PROVE  \E x \in MapItems, r \in Nat \cup {Error} :
           /\ pc[t] \in {"visit", "remove"} /\ loc[t] \in Maps /\ Key(t) \in Keys
           /\ Returns(t, r) /\ UNCHANGED << call, loc, at, copied >>
           /\ x \notin Maps \/ x = Here(t)
           /\ content' \in [Maps -> [Keys -> MapItems]]
           /\ \A q \in Maps, j \in Keys :
                content'[q][j] = IF q = loc[t] /\ j = Key(t) THEN x ELSE content[q][j]
           /\ FetchAdd(t) => \/ Here(t) = Null /\ x = 1 /\ r = 0
                             \/ Here(t) \in Nat /\ x = Here(t) + 1 /\ r = Here(t)
                             \/ x = Here(t) /\ r = Error
<1>1. pc[t] \in {"visit", "remove"} /\ loc[t] \in Maps /\ Key(t) \in Keys /\ Here(t) \in MapItems
      /\ UNCHANGED << call, loc, at, copied >>
  BY KeyIs DEF FetchAdd, Assign, RemoveKey, NativeKnows
<1> DEFINE Wrote(x) ==
             /\ content' \in [Maps -> [Keys -> MapItems]]
             /\ \A q \in Maps, j \in Keys :
                  content'[q][j] = IF q = loc[t] /\ j = Key(t) THEN x ELSE content[q][j]
<1>2. ASSUME NEW x \in MapItems, content' = [content EXCEPT ![loc[t]][Key(t)] = x]
      PROVE  Wrote(x)
  BY <1>1, <1>2 DEF LocksTyped
<1>3. ASSUME UNCHANGED content PROVE Wrote(Here(t))
  BY <1>3 DEF LocksTyped, Here
<1>4. /\ 0 \in MapItems /\ 1 \in MapItems /\ Absent \in MapItems
      /\ \A x \in Nat : x + 1 \in MapItems
      /\ 0 \notin Maps /\ 1 \notin Maps /\ Absent \notin Maps /\ \A x \in Nat : x + 1 \notin Maps
      /\ Here(t) \notin Maps \cup {Null, Absent} => Here(t) \in Nat
  BY <1>1 DEF MapItems, LocksAssumption
<1> HIDE DEF Wrote
<1>5. CASE FetchAdd(t)
  <2>1. \/ Here(t) = Null /\ content' = [content EXCEPT ![loc[t]][Key(t)] = 1] /\ Returns(t, 0)
        \/ /\ Here(t) \in Nat /\ Returns(t, Here(t))
           /\ content' = [content EXCEPT ![loc[t]][Key(t)] = content[loc[t]][Key(t)] + 1]
        \/ Returns(t, Error) /\ UNCHANGED content
    BY <1>4, <1>5 DEF FetchAdd
  <2>2. CASE Here(t) = Null /\ content' = [content EXCEPT ![loc[t]][Key(t)] = 1] /\ Returns(t, 0)
    <3>1. Wrote(1)
      BY <1>2, <1>4, <2>2
    <3> QED
      BY <1>1, <1>4, <2>2, <3>1 DEF Wrote
  <2>3. CASE /\ Here(t) \in Nat /\ Returns(t, Here(t))
             /\ content' = [content EXCEPT ![loc[t]][Key(t)] = content[loc[t]][Key(t)] + 1]
    <3>1. Wrote(Here(t) + 1)
      BY <1>2, <1>4, <2>3 DEF Here
    <3> QED
      BY <1>1, <1>4, <2>3, <3>1 DEF Wrote
  <2>4. CASE Returns(t, Error) /\ UNCHANGED content
    BY <1>1, <1>3, <2>4 DEF Wrote
  <2> QED
    BY <2>1, <2>2, <2>3, <2>4
<1>6. CASE Assign(t)
  <2>1. ~FetchAdd(t)
    BY <1>6 DEF Assign, FetchAdd
  <2>2. \/ Returns(t, Error) /\ UNCHANGED content
        \/ content' = [content EXCEPT ![loc[t]][Key(t)] = 0] /\ Returns(t, 0)
    BY <1>6 DEF Assign
  <2>3. CASE Returns(t, Error) /\ UNCHANGED content
    BY <1>1, <1>3, <2>1, <2>3 DEF Wrote
  <2>4. CASE content' = [content EXCEPT ![loc[t]][Key(t)] = 0] /\ Returns(t, 0)
    <3>1. Wrote(0)
      BY <1>2, <1>4, <2>4
    <3> QED
      BY <1>1, <1>4, <2>1, <2>4, <3>1 DEF Wrote
  <2> QED
    BY <2>2, <2>3, <2>4
<1>7. CASE RemoveKey(t)
  <2>1. ~FetchAdd(t)
    BY <1>7 DEF RemoveKey, FetchAdd
  <2>2. content' = [content EXCEPT ![loc[t]][Key(t)] = Absent] /\ Returns(t, 0)
    BY <1>7 DEF RemoveKey
  <2>3. Wrote(Absent)
    BY <1>2, <1>4, <2>2
  <2> QED
    BY <1>1, <1>4, <2>1, <2>2, <2>3 DEF Wrote
<1> QED
  BY <1>5, <1>6, <1>7

LEMMA LockFirstMoves ==
  ASSUME LocksTyped, NEW t \in Threads, NativeKnows(t), LockFirst(t)
  PROVE  LocksTyped' /\ OnlyActs(t) /\ NativeKnows(t)'
<1>1. /\ pc[t] = "lock" /\ pc' = [pc EXCEPT ![t] = "transfer"]
      /\ UNCHANGED << content, call, loc, at, copied, ret >>
  BY DEF LockFirst, Goes
<1>2. LocksTyped'
  BY <1>1 DEF LocksTyped
<1>3. OnlyActs(t)
  BY <1>1 DEF OnlyActs, SameNative, LocksTyped
<1>4. NativeKnows(t)'
  BY <1>1 DEF NativeKnows, OnPath, LocksTyped
<1> QED
  BY <1>2, <1>3, <1>4

(* addPairs: what is in the target then was in it or in the source.        *)
LEMMA TransferIs ==
  ASSUME LocksTyped, NEW t \in Threads, NativeKnows(t), Transfer(t)
  PROVE  /\ content' \in [Maps -> [Keys -> MapItems]]
         /\ \A q \in Maps, j \in Keys :
              \/ content'[q][j] = content[q][j]
              \/ \E p \in Roots : content'[q][j] = content[p][j]
         /\ \A q \in Maps \ Roots, j \in Keys : content'[q][j] = content[q][j]
         /\ call[t].op # "addPairs" => content' = content
<1>1. /\ call[t] \in Calls /\ call[t].op \in {"addPairs", "addFromArray"}
      /\ content' = IF call[t].op = "addPairs"
                    THEN [content EXCEPT ![call[t].obj] = Merged(call[t])] ELSE content
  BY DEF Transfer, NativeKnows, LocksTyped
<1>2. CASE call[t].op # "addPairs"
  BY <1>1, <1>2 DEF LocksTyped
<1>3. CASE call[t].op = "addPairs"
  <2> DEFINE o == call[t].obj
             s == call[t].source
             M == Merged(call[t])
  <2>1. o \in Roots /\ s \in Roots /\ o \in Maps /\ s \in Maps
    BY <1>1, <1>3, CallIs DEF LocksAssumption
  <2>2. content' = [content EXCEPT ![o] = M]
    BY <1>1, <1>3
  <2>3. M \in [Keys -> MapItems] /\ \A j \in Keys : M[j] = content[o][j] \/ M[j] = content[s][j]
    BY <2>1 DEF Merged, LocksTyped
  <2> HIDE DEF o, s, M
  <2>4. content' \in [Maps -> [Keys -> MapItems]]
    BY <2>1, <2>2, <2>3 DEF LocksTyped
  <2>5. ASSUME NEW q \in Maps, NEW j \in Keys
        PROVE  content'[q][j] = content[q][j] \/ content'[q][j] = content[s][j]
    BY <2>1, <2>2, <2>3 DEF LocksTyped
  <2>6. ASSUME NEW q \in Maps \ Roots, NEW j \in Keys
        PROVE  content'[q][j] = content[q][j]
    BY <2>1, <2>2 DEF LocksTyped
  <2> QED
    BY <1>3, <2>1, <2>4, <2>5, <2>6
<1> QED
  BY <1>2, <1>3

LEMMA CopyRootIs ==
  ASSUME LocksTyped, NEW t \in Threads, NativeKnows(t), CopyRoot(t)
  PROVE  /\ pc[t] = "copy" /\ loc[t] \in Roots /\ Unused # {} /\ copied[t] = {}
         /\ \A q \in Maps, j \in Keys :
              content'[q][j] = IF q = NewMap THEN content[loc[t]][j] ELSE content[q][j]
         /\ copied'[t] = {<< loc[t], NewMap >>} /\ ret'[t] = NewMap
         /\ pc' = [pc EXCEPT ![t] = "copying"] /\ UNCHANGED << call, loc, at >>
         /\ LocksTyped' /\ OnlyActs(t) /\ NativeKnows(t)'
<1>1. /\ pc[t] = "copy" /\ Unused # {}
      /\ content' = [content EXCEPT ![NewMap] = content[loc[t]]]
      /\ copied' = [copied EXCEPT ![t] = {<< loc[t], NewMap >>}]
      /\ ret' = [ret EXCEPT ![t] = NewMap]
      /\ pc' = [pc EXCEPT ![t] = "copying"] /\ UNCHANGED << call, loc, at >>
  BY DEF CopyRoot, Goes
<1>2. loc[t] \in Roots /\ loc[t] \in Maps /\ NewMap \in Maps /\ copied[t] = {}
  BY <1>1, NewMapIs DEF NativeKnows, LocksAssumption
<1>3. LocksTyped'
  <2>1. content' \in [Maps -> [Keys -> MapItems]]
    BY <1>1, <1>2 DEF LocksTyped
  <2>2. copied' \in [Threads -> SUBSET (Maps \X Maps)]
    BY <1>1, <1>2 DEF LocksTyped
  <2>3. /\ ret' \in [Threads -> Maps \cup Nat \cup {Null, Error}]
        /\ pc' \in [Threads -> {"idle", "access", "visit", "remove", "lock", "transfer",
                                "copy", "copying", "done"}]
    BY <1>1, <1>2 DEF LocksTyped
  <2> QED
    BY <1>1, <2>1, <2>2, <2>3 DEF LocksTyped
<1>4. OnlyActs(t)
  BY <1>1 DEF OnlyActs, SameNative, LocksTyped
<1>5. NativeKnows(t)'
  BY <1>1 DEF NativeKnows, OnPath, LocksTyped
<1>6. \A q \in Maps, j \in Keys :
        content'[q][j] = IF q = NewMap THEN content[loc[t]][j] ELSE content[q][j]
  BY <1>1, <1>2 DEF LocksTyped
<1>7. copied'[t] = {<< loc[t], NewMap >>} /\ ret'[t] = NewMap
  BY <1>1 DEF LocksTyped
<1> QED
  BY <1>1, <1>2, <1>3, <1>4, <1>5, <1>6, <1>7

(* The item b[k] gets the copy there is of its original.                   *)
CopyMet(t, b, k, origin, copy) ==
  /\ << origin, copy >> \in copied[t] /\ copied'[t] = copied[t]
  /\ \A q \in Maps, j \in Keys :
       content'[q][j] = IF q = b /\ j = k THEN copy ELSE content[q][j]

(* The original is copied, and the item b[k] gets that copy.               *)
CopyMade(t, b, k, origin, copy) ==
  /\ \A p \in copied[t] : p[1] # origin
  /\ Unused # {} /\ copy = NewMap
  /\ copied'[t] = copied[t] \cup {<< origin, copy >>}
  /\ \A q \in Maps, j \in Keys :
       content'[q][j] = IF q = copy THEN content[origin][j]
                        ELSE IF q = b /\ j = k THEN copy ELSE content[q][j]

LEMMA CopyChildIs ==
  ASSUME LocksTyped, NEW t \in Threads, NativeKnows(t), CopyChild(t)
  PROVE  /\ pc[t] = "copying"
         /\ \E b \in Copies(t), k \in Keys, origin \in Maps \ Copies(t), copy \in Maps :
              /\ b \in Maps /\ content[b][k] = origin
              /\ CopyMet(t, b, k, origin, copy) \/ CopyMade(t, b, k, origin, copy)
         /\ UNCHANGED << call, pc, loc, at, ret >>
         /\ LocksTyped' /\ OnlyActs(t) /\ NativeKnows(t)'
<1>1. pc[t] = "copying" /\ UNCHANGED << call, pc, loc, at, ret >>
  BY DEF CopyChild
<1>2. PICK cell \in ToCopy(t) : UniqueCopy(t, content[cell[1]][cell[2]], cell)
  BY DEF CopyChild
<1>3. PICK b \in Copies(t), k \in Keys : cell = << b, k >> /\ content[b][k] \in Maps \ Copies(t)
  BY <1>2 DEF ToCopy
<1>4. b \in Maps
  BY <1>3 DEF Copies, LocksTyped
<1>5. PICK origin \in Maps \ Copies(t) : origin = content[b][k]
  BY <1>3
<1>6. UniqueCopy(t, origin, cell) /\ cell[1] = b /\ cell[2] = k
  BY <1>2, <1>3, <1>5
<1>7. ASSUME NEW copy \in Maps, << origin, copy >> \in copied[t],
             content' = [content EXCEPT ![b][k] = copy], UNCHANGED copied
      PROVE  CopyMet(t, b, k, origin, copy) /\ LocksTyped'
  <2>1. copy \in MapItems
    BY DEF MapItems
  <2> QED
    BY <1>1, <1>4, <1>7, <2>1 DEF LocksTyped, CopyMet
<1>8. ASSUME Unused # {}, \A p \in copied[t] : p[1] # origin,
             content' = [content EXCEPT ![NewMap] = content[origin], ![b][k] = NewMap],
             copied' = [copied EXCEPT ![t] = copied[t] \cup {<< origin, NewMap >>}]
      PROVE  CopyMade(t, b, k, origin, NewMap) /\ LocksTyped'
  <2>1. NewMap \in Maps /\ NewMap \in MapItems /\ NewMap \notin AllCopies
    BY <1>8, NewMapIs DEF MapItems
  <2>2. NewMap # b
    BY <1>3, <2>1 DEF AllCopies
  <2>3. content' \in [Maps -> [Keys -> MapItems]]
    BY <1>4, <1>8, <2>1, <2>2 DEF LocksTyped
  <2>4. copied' \in [Threads -> SUBSET (Maps \X Maps)]
    BY <1>8, <2>1 DEF LocksTyped
  <2>5. \A q \in Maps, j \in Keys :
          content'[q][j] = IF q = NewMap THEN content[origin][j]
                           ELSE IF q = b /\ j = k THEN NewMap ELSE content[q][j]
    BY <1>4, <1>8, <2>1, <2>2 DEF LocksTyped
  <2> QED
    BY <1>1, <1>8, <2>3, <2>4, <2>5 DEF LocksTyped, CopyMade
<1>9. \/ \E copy \in Maps : /\ << origin, copy >> \in copied[t]
                           /\ content' = [content EXCEPT ![b][k] = copy]
                           /\ UNCHANGED copied
      \/ /\ Unused # {} /\ \A p \in copied[t] : p[1] # origin
         /\ content' = [content EXCEPT ![NewMap] = content[origin], ![b][k] = NewMap]
         /\ copied' = [copied EXCEPT ![t] = copied[t] \cup {<< origin, NewMap >>}]
  BY <1>6 DEF UniqueCopy, CopyNew
<1>10. OnlyActs(t)
  BY <1>1, <1>9 DEF OnlyActs, SameNative, LocksTyped
<1>11. LocksTyped'
  BY <1>7, <1>8, <1>9
<1>12. \E copy \in Maps : CopyMet(t, b, k, origin, copy) \/ CopyMade(t, b, k, origin, copy)
  BY <1>7, <1>8, <1>9, NewMapIs
<1>13. NativeKnows(t)'
  <2>1. copied[t] # {}
    BY <1>3 DEF Copies
  <2>2. \A x : x \in copied[t] => x \in copied'[t]
    BY <1>12 DEF CopyMet, CopyMade
  <2> QED
    BY <1>1, <2>1, <2>2 DEF NativeKnows, OnPath, IsLast
<1> QED
  BY <1>1, <1>3, <1>4, <1>5, <1>10, <1>11, <1>12, <1>13

LEMMA CopyDoneMoves ==
  ASSUME LocksTyped, NEW t \in Threads, NativeKnows(t), CopyDone(t)
  PROVE  LocksTyped' /\ OnlyActs(t) /\ NativeKnows(t)'
<1>1. /\ pc[t] = "copying" /\ pc' = [pc EXCEPT ![t] = "done"]
      /\ UNCHANGED << content, call, loc, at, copied, ret >>
  BY DEF CopyDone, Goes
<1>2. LocksTyped'
  BY <1>1 DEF LocksTyped
<1>3. OnlyActs(t)
  BY <1>1 DEF OnlyActs, SameNative, LocksTyped
<1>4. NativeKnows(t)'
  BY <1>1 DEF NativeKnows, OnPath, LocksTyped
<1> QED
  BY <1>2, <1>3, <1>4

-----------------------------------------------------------------------------
(* Nothing but a copy leads to the copy: no script, no native, no other    *)
(* copy and no item.                                                       *)
CopiesArePrivate ==
  \A t \in Threads :
    /\ Roots \cap Copies(t) = {}
    /\ \A u \in Threads : loc[u] \notin Copies(t)
    /\ \A u \in Threads \ {t} : Copies(u) \cap Copies(t) = {}
    /\ \A m \in Maps \ Copies(t), k \in Keys : content[m][k] \notin Copies(t)

(* What a step may write: to its own copies, with the new ones N, or what  *)
(* is not of a copy.                                                       *)
Discreet(t, N) ==
  \A m \in Maps, k \in Keys :
    \/ content'[m][k] = content[m][k]
    \/ content'[m][k] \notin AllCopies \cup N
    \/ m \in Copies(t) \cup N /\ content'[m][k] \in Copies(t) \cup N

GoesDiscreetly(t, N) ==
  \A u \in Threads : loc'[u] = loc[u] \/ loc'[u] \notin AllCopies \cup N

LEMMA SameCopies ==
  ASSUME NEW t \in Threads, NEW u \in Threads \ {t}, OnlyActs(t)
  PROVE  Copies(u)' = Copies(u)
BY DEF OnlyActs, SameNative, Copies

LEMMA UnusedIs ==
  ASSUME NEW m \in Unused
  PROVE  /\ m \in Maps /\ m \notin Roots /\ m \notin AllCopies
         /\ \A u \in Threads : loc[u] # m
         /\ \A q \in Maps, k \in Keys : content[q][k] # m
BY DEF Unused, AllCopies

LEMMA PrivateKept ==
  ASSUME CopiesArePrivate, NEW t \in Threads, OnlyActs(t), NEW N \in SUBSET Unused,
         Copies(t)' = Copies(t) \cup N, Discreet(t, N), GoesDiscreetly(t, N)
  PROVE  CopiesArePrivate'
<1>1. ASSUME NEW u \in Threads
      PROVE  Copies(u)' = IF u = t THEN Copies(t) \cup N ELSE Copies(u)
  BY SameCopies
<1>2. \A u \in Threads : Copies(u)' \subseteq AllCopies \cup N
  BY <1>1 DEF AllCopies
<1>3. ASSUME NEW m \in N
      PROVE  /\ m \in Maps /\ m \notin Roots /\ m \notin AllCopies
             /\ \A u \in Threads : loc[u] # m
             /\ \A q \in Maps, k \in Keys : content[q][k] # m
  BY UnusedIs
<1> SUFFICES ASSUME NEW s \in Threads
             PROVE  /\ Roots \cap Copies(s)' = {}
                    /\ \A u \in Threads : loc'[u] \notin Copies(s)'
                    /\ \A u \in Threads \ {s} : Copies(u)' \cap Copies(s)' = {}
                    /\ \A m \in Maps \ Copies(s)', k \in Keys : content'[m][k] \notin Copies(s)'
  BY DEF CopiesArePrivate
<1>4. /\ Roots \cap Copies(s) = {}
      /\ \A u \in Threads : loc[u] \notin Copies(s)
      /\ \A u \in Threads \ {s} : Copies(u) \cap Copies(s) = {}
      /\ \A m \in Maps \ Copies(s), k \in Keys : content[m][k] \notin Copies(s)
  BY DEF CopiesArePrivate
<1>5. Copies(s)' = IF s = t THEN Copies(t) \cup N ELSE Copies(s)
  BY <1>1
<1>6. Roots \cap Copies(s)' = {}
  BY <1>3, <1>4, <1>5
<1>7. ASSUME NEW u \in Threads PROVE loc'[u] \notin Copies(s)'
  BY <1>2, <1>3, <1>4, <1>5 DEF GoesDiscreetly
<1>8. ASSUME NEW u \in Threads \ {s} PROVE Copies(u)' \cap Copies(s)' = {}
  <2>1. Copies(u)' = IF u = t THEN Copies(t) \cup N ELSE Copies(u)
    BY <1>1
  <2>2. Copies(u) \cap N = {} /\ Copies(s) \cap N = {}
    BY <1>3 DEF AllCopies
  <2> QED
    BY <1>4, <1>5, <2>1, <2>2
<1>9. ASSUME NEW m \in Maps \ Copies(s)', NEW k \in Keys PROVE content'[m][k] \notin Copies(s)'
  <2>1. CASE content'[m][k] = content[m][k]
    BY <1>3, <1>4, <1>5, <2>1
  <2>2. CASE content'[m][k] \notin AllCopies \cup N
    BY <1>2, <2>2
  <2>3. CASE m \in Copies(t) \cup N /\ content'[m][k] \in Copies(t) \cup N
    <3>1. s # t
      BY <1>5, <2>3
    <3>2. Copies(s)' = Copies(s) /\ Copies(s) \cap Copies(t) = {} /\ Copies(s) \cap N = {}
      BY <1>3, <1>4, <1>5, <3>1 DEF AllCopies
    <3> QED
      BY <2>3, <3>2
  <2> QED
    BY <2>1, <2>2, <2>3 DEF Discreet
<1> QED
  BY <1>6, <1>7, <1>8, <1>9

LocksInv == LocksTyped /\ (\A t \in Threads : NativeKnows(t)) /\ CopiesArePrivate

Acts(t) == Step(t) \/ \E c \in Calls : Begin(t, c)

LEMMA ActsMoves ==
  ASSUME LocksInv, NEW t \in Threads, Acts(t)
  PROVE  LocksTyped' /\ OnlyActs(t) /\ \A u \in Threads : NativeKnows(u)'
<1>1. LocksTyped /\ NativeKnows(t)
  BY DEF LocksInv
<1>2. LocksTyped' /\ OnlyActs(t) /\ NativeKnows(t)'
  <2>1. CASE \E c \in Calls : Begin(t, c)
    BY <1>1, <2>1, BeginMoves
  <2>2. CASE AccessItem(t)
    BY <1>1, <2>2, AccessItemMoves
  <2>3. CASE AccessMissing(t)
    BY <1>1, <2>3, AccessMissingMoves
  <2>4. CASE FetchAdd(t) \/ Assign(t) \/ RemoveKey(t)
    <3>1. PICK r \in Nat \cup {Error} :
            /\ pc[t] \in {"visit", "remove"} /\ content' \in [Maps -> [Keys -> MapItems]]
            /\ Returns(t, r) /\ UNCHANGED << call, loc, at, copied >>
      BY <1>1, <2>4, VisitIs
    <3>2. pc[t] \notin {"idle", "copy", "copying"}
      BY <3>1
    <3> QED
      BY <1>1, <3>1, <3>2, ReturnMoves
  <2>5. CASE LockFirst(t)
    BY <1>1, <2>5, LockFirstMoves
  <2>6. CASE Transfer(t)
    <3>1. /\ pc[t] \notin {"idle", "copy", "copying"} /\ content' \in [Maps -> [Keys -> MapItems]]
          /\ Returns(t, 0) /\ UNCHANGED << call, loc, at, copied >> /\ 0 \in Nat \cup {Error}
      BY <1>1, <2>6, TransferIs DEF Transfer
    <3> QED
      BY <1>1, <3>1, ReturnMoves
  <2>7. CASE CopyRoot(t)
    BY <1>1, <2>7, CopyRootIs
  <2>8. CASE CopyChild(t)
    BY <1>1, <2>8, CopyChildIs
  <2>9. CASE CopyDone(t)
    BY <1>1, <2>9, CopyDoneMoves
  <2> QED
    BY <2>1, <2>2, <2>3, <2>4, <2>5, <2>6, <2>7, <2>8, <2>9 DEF Acts, Step
<1>3. ASSUME NEW u \in Threads \ {t} PROVE NativeKnows(u)'
  <2>1. NativeKnows(u) /\ SameNative(u)
    BY <1>2 DEF LocksInv, OnlyActs
  <2> QED
    BY <2>1, SameKnows
<1> QED
  BY <1>2, <1>3

(* What is not in a copy leads to no copy.                                 *)
LEMMA OutsideCopies ==
  ASSUME CopiesArePrivate
  PROVE  /\ \A r \in Roots : r \notin AllCopies
         /\ \A u \in Threads : loc[u] \notin AllCopies
         /\ \A m \in Maps \ AllCopies, k \in Keys : content[m][k] \notin AllCopies
BY DEF CopiesArePrivate, AllCopies

LEMMA SamePrivate ==
  ASSUME LocksInv, NEW t \in Threads, OnlyActs(t), copied'[t] = copied[t],
         \A m \in Maps, k \in Keys :
           content'[m][k] = content[m][k] \/ content'[m][k] \notin AllCopies,
         loc'[t] = loc[t] \/ loc'[t] \notin AllCopies
  PROVE  CopiesArePrivate'
<1>1. Copies(t)' = Copies(t) \cup {}
  BY DEF Copies
<1>2. Discreet(t, {}) /\ GoesDiscreetly(t, {})
  BY DEF Discreet, GoesDiscreetly, OnlyActs, SameNative
<1> QED
  BY <1>1, <1>2, PrivateKept DEF LocksInv

Firsts(S) == {p[1] : p \in S}
Seconds(S) == {p[2] : p \in S}

LEMMA OneMoreFirst ==
  ASSUME NEW S, NEW x, NEW y
  PROVE  Firsts(S \cup {<< x, y >>}) = Firsts(S) \cup {x}
<1>1. << x, y >>[1] = x
  OBVIOUS
<1> QED
  BY <1>1 DEF Firsts

LEMMA OneMoreSecond ==
  ASSUME NEW S, NEW x, NEW y
  PROVE  Seconds(S \cup {<< x, y >>}) = Seconds(S) \cup {y}
<1>1. << x, y >>[2] = y
  OBVIOUS
<1> QED
  BY <1>1 DEF Seconds

LEMMA PrivateActs ==
  ASSUME LocksInv, NEW t \in Threads, Acts(t)
  PROVE  CopiesArePrivate'
<1>1. LocksTyped /\ NativeKnows(t) /\ CopiesArePrivate /\ OnlyActs(t)
  BY ActsMoves DEF LocksInv
<1>2. /\ \A r \in Roots : r \notin AllCopies
      /\ \A u \in Threads : loc[u] \notin AllCopies
      /\ \A m \in Maps \ AllCopies, k \in Keys : content[m][k] \notin AllCopies
      /\ AllCopies \subseteq Maps
  BY <1>1, OutsideCopies DEF AllCopies, Copies, LocksTyped
<1>3. CASE \E c \in Calls : Begin(t, c)
  <2>1. PICK c \in Calls : Begin(t, c)
    BY <1>3
  <2>2. copied'[t] = copied[t] /\ content' = content /\ loc'[t] = c.obj
    BY <1>1, <2>1 DEF Begin, LocksTyped
  <2>3. c.obj \notin AllCopies
    BY <1>2, CallIs DEF LocksAssumption
  <2> QED
    BY <1>1, <2>2, <2>3, SamePrivate
<1>4. CASE AccessItem(t)
  <2>1. copied'[t] = copied[t] /\ content' = content /\ OnPath(t)
    BY <1>1, <1>4 DEF AccessItem, NativeKnows
  <2>2. loc'[t] = loc[t] \/ loc'[t] = Here(t)
    BY <1>1, <1>4 DEF AccessItem, Enter, LocksTyped
  <2>3. Here(t) \notin AllCopies
    BY <1>1, <1>2, <2>1, KeyIs DEF Here
  <2> QED
    BY <1>1, <2>1, <2>2, <2>3, SamePrivate
<1>5. CASE AccessMissing(t)
  <2>1. copied'[t] = copied[t]
    BY <1>1, <1>5 DEF AccessMissing
  <2>2. Null \notin AllCopies /\ Absent \notin AllCopies /\ (Unused # {} => NewMap \notin AllCopies)
    BY <1>1, <1>2, NewMapIs DEF LocksAssumption
  <2>3. \A m \in Maps, k \in Keys : content'[m][k] = content[m][k] \/ content'[m][k] \notin AllCopies
    BY <1>1, <1>5, <2>2, MissingIs
  <2>4. loc'[t] = loc[t] \/ (Unused # {} /\ loc'[t] = NewMap)
    BY <1>1, <1>5, MissingIs DEF LocksTyped
  <2> QED
    BY <1>1, <2>1, <2>2, <2>3, <2>4, SamePrivate
<1>6. CASE FetchAdd(t) \/ Assign(t) \/ RemoveKey(t)
  <2>1. PICK x \in MapItems :
          /\ loc[t] \in Maps /\ Key(t) \in Keys /\ UNCHANGED << call, loc, at, copied >>
          /\ x \notin Maps \/ x = Here(t)
          /\ \A q \in Maps, j \in Keys :
               content'[q][j] = IF q = loc[t] /\ j = Key(t) THEN x ELSE content[q][j]
    BY <1>1, <1>6, VisitIs
  <2>2. x \notin AllCopies
    BY <1>2, <2>1 DEF Here
  <2> QED
    BY <1>1, <2>1, <2>2, SamePrivate
<1>7. CASE LockFirst(t) \/ CopyDone(t)
  <2>1. UNCHANGED << content, loc, copied >>
    BY <1>7 DEF LockFirst, CopyDone
  <2> QED
    BY <1>1, <2>1, SamePrivate
<1>8. CASE Transfer(t)
  <2>1. UNCHANGED << loc, copied >>
    BY <1>8 DEF Transfer
  <2>2. \A q \in Maps, j \in Keys :
          content'[q][j] = content[q][j] \/ \E p \in Roots : content'[q][j] = content[p][j]
    BY <1>1, <1>8, TransferIs
  <2>3. \A p \in Roots : p \in Maps \ AllCopies
    BY <1>2 DEF LocksAssumption
  <2>4. \A q \in Maps, j \in Keys : content'[q][j] = content[q][j] \/ content'[q][j] \notin AllCopies
    BY <1>2, <2>2, <2>3
  <2> QED
    BY <1>1, <2>1, <2>4, SamePrivate
<1>9. CASE CopyRoot(t)
  <2>1. /\ loc[t] \in Roots /\ Unused # {} /\ copied[t] = {} /\ UNCHANGED loc
        /\ \A q \in Maps, j \in Keys :
             content'[q][j] = IF q = NewMap THEN content[loc[t]][j] ELSE content[q][j]
        /\ copied'[t] = {<< loc[t], NewMap >>}
    BY <1>1, <1>9, CopyRootIs
  <2>2. PICK n \in Unused : n = NewMap
    BY <1>1, <2>1, NewMapIs
  <2>3. Copies(t)' = Copies(t) \cup {n}
    BY <2>1, <2>2 DEF Copies
  <2>4. loc[t] \in Maps \ AllCopies
    BY <1>2, <2>1 DEF LocksAssumption
  <2>5. Discreet(t, {n})
    BY <1>2, <2>1, <2>2, <2>4, UnusedIs DEF Discreet
  <2>6. GoesDiscreetly(t, {n})
    BY <2>1 DEF GoesDiscreetly
  <2> QED
    BY <1>1, <2>3, <2>5, <2>6, PrivateKept
<1>10. CASE CopyChild(t)
  <2>1. PICK b \in Copies(t), k \in Keys, origin \in Maps \ Copies(t), copy \in Maps :
          /\ b \in Maps /\ content[b][k] = origin
          /\ CopyMet(t, b, k, origin, copy) \/ CopyMade(t, b, k, origin, copy)
    BY <1>1, <1>10, CopyChildIs
  <2>2. UNCHANGED loc
    BY <1>10 DEF CopyChild
  <2>3. origin \notin AllCopies
    BY <1>1, <2>1 DEF CopiesArePrivate, AllCopies
  <2>4. CASE CopyMet(t, b, k, origin, copy)
    <3>1. copy \in Copies(t) /\ Copies(t)' = Copies(t) \cup {}
      BY <2>4 DEF CopyMet, Copies
    <3>2. Discreet(t, {})
      BY <2>4, <3>1 DEF CopyMet, Discreet
    <3>3. GoesDiscreetly(t, {})
      BY <2>2 DEF GoesDiscreetly
    <3> QED
      BY <1>1, <3>1, <3>2, <3>3, PrivateKept
  <2>5. CASE CopyMade(t, b, k, origin, copy)
    <3>1. copy \in Unused
      BY <1>1, <2>5, NewMapIs DEF CopyMade
    <3>2. Copies(t)' = Copies(t) \cup {copy}
      <4>1. Copies(t)' = Seconds(copied'[t]) /\ Copies(t) = Seconds(copied[t])
        BY DEF Copies, Seconds
      <4>2. copied'[t] = copied[t] \cup {<< origin, copy >>}
        BY <2>5 DEF CopyMade
      <4>3. Seconds(copied[t] \cup {<< origin, copy >>}) = Seconds(copied[t]) \cup {copy}
        BY OneMoreSecond
      <4> QED
        BY <4>1, <4>2, <4>3
    <3>3. \A j \in Keys : content[origin][j] \notin AllCopies \cup {copy}
      BY <1>2, <2>3, <3>1, UnusedIs
    <3>4. Discreet(t, {copy})
      BY <2>1, <2>5, <3>3 DEF CopyMade, Discreet
    <3>5. GoesDiscreetly(t, {copy})
      BY <2>2 DEF GoesDiscreetly
    <3> QED
      BY <1>1, <3>1, <3>2, <3>4, <3>5, PrivateKept
  <2> QED
    BY <2>1, <2>4, <2>5
<1> QED
  BY <1>3, <1>4, <1>5, <1>6, <1>7, <1>8, <1>9, <1>10 DEF Acts, Step

-----------------------------------------------------------------------------
(* What native steps leave as it is: items that are containers, but in     *)
(* copies and in memory nobody leads to.                                   *)
SteadyHeap(heap, next, A, U) ==
  \A q \in Maps \ (A \cup U), k \in Keys : heap[q][k] \in Maps => next[q][k] = heap[q][k]

LEMMA ChainKept ==
  ASSUME NEW heap, NEW next, NEW A, NEW B, NEW U, NEW s, NEW root, NEW path \in Seq(Keys), NEW m,
         NEW n \in 1 .. Len(path), Chain(heap, A, s, root, path, n, m),
         SteadyHeap(heap, next, A, U), B \subseteq A \cup U,
         root \notin U, \A q \in Maps, k \in Keys : heap[q][k] \notin U
  PROVE  Chain(next, B, s, root, path, n, m)
<1>1. n \in Nat /\ n >= 1 /\ Len(path) \in Nat /\ n <= Len(path)
  BY LenProperties
<1>2. ASSUME NEW i \in 1 .. n - 1 PROVE /\ i \in 1 .. n /\ i + 1 \in 1 .. n /\ path[i] \in Keys
                                        /\ heap[s[i]][path[i]] = s[i + 1] /\ s[i] \in Maps
  <2>1. i \in 1 .. n /\ i + 1 \in 1 .. n /\ i \in 1 .. Len(path)
    BY <1>1
  <2> QED
    BY <2>1, ElementOfSeq DEF Chain
<1>3. ASSUME NEW i \in 1 .. n PROVE s[i] \notin U
  <2>1. CASE i = 1
    BY <2>1 DEF Chain
  <2>2. CASE i # 1
    <3>1. i - 1 \in 1 .. n - 1 /\ (i - 1) + 1 = i
      BY <1>1, <2>2
    <3>2. s[i - 1] \in Maps /\ path[i - 1] \in Keys /\ heap[s[i - 1]][path[i - 1]] = s[i]
      BY <1>2, <3>1
    <3> QED
      BY <3>2
  <2> QED
    BY <2>1, <2>2
<1>4. ASSUME NEW i \in 1 .. n PROVE s[i] \notin B
  BY <1>3 DEF Chain
<1>5. ASSUME NEW i \in 1 .. n - 1 PROVE next[s[i]][path[i]] = s[i + 1]
  <2>1. s[i] \in Maps \ (A \cup U) /\ s[i + 1] \in Maps
    BY <1>2, <1>3 DEF Chain
  <2> QED
    BY <1>2, <2>1 DEF SteadyHeap
<1> QED
  BY <1>4, <1>5 DEF Chain

LEMMA ChainGoesOn ==
  ASSUME NEW heap, NEW A, NEW s, NEW root, NEW path, NEW m, NEW n \in Nat \ {0}, NEW x \in Maps,
         Chain(heap, A, s, root, path, n, m), x \notin A, heap[m][path[n]] = x
  PROVE  \E r \in [1 .. n + 1 -> Maps] : Chain(heap, A, r, root, path, n + 1, x)
<1> DEFINE r == [i \in 1 .. n + 1 |-> IF i <= n THEN s[i] ELSE x]
<1>1. r \in [1 .. n + 1 -> Maps]
  BY DEF Chain
<1>2. r[1] = root /\ r[n + 1] = x /\ \A i \in 1 .. n + 1 : r[i] \notin A
  BY DEF Chain
<1>3. ASSUME NEW i \in 1 .. (n + 1) - 1 PROVE heap[r[i]][path[i]] = r[i + 1]
  <2>1. i \in 1 .. n /\ i + 1 \in 1 .. n + 1 /\ i \in 1 .. n + 1 /\ r[i] = s[i]
    OBVIOUS
  <2>2. CASE i = n
    BY <2>1, <2>2 DEF Chain
  <2>3. CASE i # n
    <3>1. i \in 1 .. n - 1 /\ r[i + 1] = s[i + 1]
      BY <2>1, <2>3
    <3> QED
      BY <2>1, <3>1 DEF Chain
  <2> QED
    BY <2>2, <2>3
<1> HIDE DEF r
<1> QED
  BY <1>1, <1>2, <1>3 DEF Chain

(* The calls A returned 0, 1, 2 ... and the item is their number.          *)
Numbered(A, result, item) ==
  /\ item \in Nat <=> A # {}
  /\ A # {} => item = Cardinality(A) /\ {result[u] : u \in A} = 0 .. Cardinality(A) - 1

LEMMA OneMoreAdd ==
  ASSUME NEW A, IsFiniteSet(A), NEW t, t \notin A, NEW result, NEW item, NEW more, NEW new,
         Numbered(A, result, item), \A u \in A : more[u] = result[u],
         \/ item \notin Nat /\ new = 1 /\ more[t] = 0
         \/ item \in Nat /\ new = item + 1 /\ more[t] = item
  PROVE  Numbered(A \cup {t}, more, new)
<1>1. Cardinality(A) \in Nat /\ Cardinality(A \cup {t}) = Cardinality(A) + 1
  BY FS_CardinalityType, FS_AddElement
<1>2. {more[u] : u \in A \cup {t}} = {result[u] : u \in A} \cup {more[t]}
  OBVIOUS
<1>3. CASE item \notin Nat
  <2>1. A = {} /\ new = 1 /\ more[t] = 0
    BY <1>3 DEF Numbered
  <2>2. Cardinality(A) = 0
    BY <2>1, FS_EmptySet
  <2>3. {more[u] : u \in A \cup {t}} = {0}
    BY <1>2, <2>1
  <2>4. Cardinality(A \cup {t}) = 1 /\ new \in Nat
    BY <1>1, <2>1, <2>2
  <2>5. 0 .. 1 - 1 = {0}
    OBVIOUS
  <2>6. {more[u] : u \in A \cup {t}} = 0 .. Cardinality(A \cup {t}) - 1
    BY <2>3, <2>4, <2>5
  <2> QED
    BY <2>1, <2>4, <2>6 DEF Numbered
<1>4. CASE item \in Nat
  <2>1. A # {} /\ new = Cardinality(A) + 1 /\ more[t] = Cardinality(A)
        /\ {result[u] : u \in A} = 0 .. Cardinality(A) - 1
    BY <1>4 DEF Numbered
  <2> DEFINE c == Cardinality(A)
  <2>2. c \in Nat
    BY <1>1
  <2> HIDE DEF c
  <2>3. (0 .. c - 1) \cup {c} = 0 .. (c + 1) - 1
    BY <2>2
  <2>4. {more[u] : u \in A \cup {t}} = 0 .. (c + 1) - 1
    BY <1>2, <2>1, <2>3 DEF c
  <2>5. new \in Nat /\ new = Cardinality(A \cup {t})
    BY <1>1, <2>1
  <2> QED
    BY <1>1, <2>4, <2>5 DEF Numbered, c
<1> QED
  BY <1>3, <1>4

-----------------------------------------------------------------------------
(* A native is where its path leads, whatever others create meanwhile.     *)
OnItsWay(t) ==
  \E s \in [1 .. at[t] -> Maps] :
    Chain(content, AllCopies, s, call[t].obj, call[t].path, at[t], loc[t])

(* The calls of fetchAddInt that have reached the item m[k].               *)
AddedAt(m, k) == {u \in Added : loc[u] = m /\ Key(u) = k}

Counted(m, k) == Numbered(AddedAt(m, k), ret, content[m][k])

Quiet == Made("set") \cup Made("remove") \cup Made("addPairs") = {}

(* As long as nobody overwrites or removes: natives are on their ways, the *)
(* calls that added are at the end of them, and every item is the number   *)
(* of the calls that reached it.                                           *)
AddInv ==
  Quiet =>
    /\ \A t \in Threads : OnPath(t) => OnItsWay(t)
    /\ \A t \in Added : IsLast(t)
    /\ \A m \in Maps \ AllCopies, k \in Keys : Counted(m, k)

LEMMA MadeStays ==
  ASSUME LocksInv, NEW t \in Threads, Acts(t)
  PROVE  /\ pc[t] # "done"
         /\ pc[t] # "idle" => call'[t] = call[t]
         /\ \A u \in Threads : call[u] # Null => call'[u] = call[u]
<1>1. CASE \E c \in Calls : Begin(t, c)
  <2>1. PICK c \in Calls : Begin(t, c)
    BY <1>1
  <2>2. pc[t] = "idle" /\ call[t] = Null /\ \A u \in Threads \ {t} : call'[u] = call[u]
    BY <2>1 DEF Begin, LocksInv, LocksTyped, NativeKnows
  <2> QED
    BY <2>2
<1>2. CASE Step(t)
  <2>1. pc[t] # "done" /\ UNCHANGED call
    BY <1>2 DEF Step, AccessItem, AccessMissing, FetchAdd, Assign, RemoveKey, LockFirst, Transfer,
                CopyRoot, CopyChild, CopyDone
  <2> QED
    BY <2>1
<1> QED
  BY <1>1, <1>2 DEF Acts

LEMMA QuietBefore ==
  ASSUME LocksInv, NEW t \in Threads, Acts(t), Quiet'
  PROVE  /\ Quiet /\ ~Assign(t) /\ ~RemoveKey(t)
         /\ Transfer(t) => UNCHANGED content
<1>1. \A u \in Threads : call'[u] # Null => call'[u].op \notin {"set", "remove", "addPairs"}
  BY DEF Quiet, Made
<1>2. \A u \in Threads : call[u] # Null => call[u].op \notin {"set", "remove", "addPairs"}
  BY <1>1, MadeStays
<1>3. Quiet
  BY <1>2 DEF Quiet, Made
<1>4. NativeKnows(t) /\ LocksTyped
  BY DEF LocksInv
<1>5. ~Assign(t) /\ ~RemoveKey(t)
  BY <1>2, <1>4 DEF Assign, RemoveKey, NativeKnows, OnPath
<1>6. ASSUME Transfer(t) PROVE UNCHANGED content
  BY <1>2, <1>4, <1>6, TransferIs DEF NativeKnows, Transfer
<1> QED
  BY <1>3, <1>5, <1>6

(* No step but FetchAdd writes a number or over one that somebody reaches, *)
(* but in copies.                                                          *)
NumbersStay ==
  \A m \in Maps \ AllCopies', k \in Keys :
    \/ content'[m][k] = content[m][k]
    \/ content'[m][k] \notin Nat /\ (content[m][k] \in Nat => m \in Unused)

Steady ==
  /\ SteadyHeap(content, content', AllCopies, Unused)
  /\ AllCopies \subseteq AllCopies' /\ AllCopies' \subseteq AllCopies \cup Unused

LEMMA CopiesGrow ==
  ASSUME NEW t \in Threads, OnlyActs(t), NEW N, Copies(t)' = Copies(t) \cup N
  PROVE  AllCopies' = AllCopies \cup N
<1>1. \A u \in Threads \ {t} : Copies(u)' = Copies(u)
  BY SameCopies
<1> QED
  BY <1>1 DEF AllCopies

(* Copying writes to nothing but the copies, of which N are new.           *)
WritesCopies(t, N) ==
  /\ Copies(t)' = Copies(t) \cup N
  /\ \A q \in Maps \ (Copies(t) \cup N), j \in Keys : content'[q][j] = content[q][j]

LEMMA CopyingWrites ==
  ASSUME LocksInv, NEW t \in Threads, CopyRoot(t) \/ CopyChild(t)
  PROVE  \E N \in SUBSET Unused : WritesCopies(t, N)
<1>1. LocksTyped /\ NativeKnows(t)
  BY DEF LocksInv
<1>2. CASE CopyRoot(t)
  <2>1. /\ Unused # {} /\ copied[t] = {} /\ copied'[t] = {<< loc[t], NewMap >>}
        /\ \A q \in Maps, j \in Keys :
             content'[q][j] = IF q = NewMap THEN content[loc[t]][j] ELSE content[q][j]
    BY <1>1, <1>2, CopyRootIs
  <2>2. PICK n \in Unused : n = NewMap
    BY <1>1, <2>1, NewMapIs
  <2>3. PICK N \in SUBSET Unused : N = {n}
    BY <2>2
  <2>4. Copies(t)' = Copies(t) \cup N
    BY <2>1, <2>2, <2>3 DEF Copies
  <2>5. WritesCopies(t, N)
    BY <2>1, <2>2, <2>3, <2>4 DEF WritesCopies
  <2> QED
    BY <2>5
<1>3. CASE CopyChild(t)
  <2>1. PICK b \in Copies(t), k \in Keys, origin \in Maps \ Copies(t), copy \in Maps :
          CopyMet(t, b, k, origin, copy) \/ CopyMade(t, b, k, origin, copy)
    BY <1>1, <1>3, CopyChildIs
  <2>2. CASE CopyMet(t, b, k, origin, copy)
    <3>1. Copies(t)' = Copies(t) \cup {}
      BY <2>2 DEF CopyMet, Copies
    <3>2. \A q \in Maps \ (Copies(t) \cup {}), j \in Keys : content'[q][j] = content[q][j]
      BY <2>2 DEF CopyMet
    <3>3. WritesCopies(t, {}) /\ {} \in SUBSET Unused
      BY <3>1, <3>2 DEF WritesCopies
    <3> QED
      BY <3>3
  <2>3. CASE CopyMade(t, b, k, origin, copy)
    <3>1. copy \in Unused
      BY <1>1, <2>3, NewMapIs DEF CopyMade
    <3>2. Copies(t)' = Copies(t) \cup {copy}
      <4>1. Copies(t)' = Seconds(copied'[t]) /\ Copies(t) = Seconds(copied[t])
        BY DEF Copies, Seconds
      <4>2. copied'[t] = copied[t] \cup {<< origin, copy >>}
        BY <2>3 DEF CopyMade
      <4>3. Seconds(copied[t] \cup {<< origin, copy >>}) = Seconds(copied[t]) \cup {copy}
        BY OneMoreSecond
      <4> QED
        BY <4>1, <4>2, <4>3
    <3>3. \A q \in Maps \ (Copies(t) \cup {copy}), j \in Keys : content'[q][j] = content[q][j]
      BY <2>3 DEF CopyMade
    <3>4. PICK N \in SUBSET Unused : N = {copy}
      BY <3>1
    <3>5. WritesCopies(t, N)
      BY <3>2, <3>3, <3>4 DEF WritesCopies
    <3> QED
      BY <3>5
  <2> QED
    BY <2>1, <2>2, <2>3
<1> QED
  BY <1>2, <1>3

LEMMA SteadyActs ==
  ASSUME LocksInv, NEW t \in Threads, Acts(t), Quiet'
  PROVE  Steady /\ (FetchAdd(t) \/ NumbersStay)
<1>1. LocksTyped /\ NativeKnows(t) /\ OnlyActs(t) /\ CopiesArePrivate
  BY ActsMoves DEF LocksInv
<1>2. /\ ~Assign(t) /\ ~RemoveKey(t)
      /\ Transfer(t) => UNCHANGED content
  BY QuietBefore
<1>3. CASE ~CopyRoot(t) /\ ~CopyChild(t)
  <2>0. UNCHANGED copied
    BY <1>2, <1>3 DEF Acts, Step, Begin, AccessItem, AccessMissing, FetchAdd, LockFirst, Transfer, CopyDone
  <2>1. AllCopies' = AllCopies
    BY <2>0 DEF AllCopies, Copies
  <2>2. CASE UNCHANGED content
    BY <2>1, <2>2 DEF Steady, NumbersStay, SteadyHeap
  <2>3. CASE AccessMissing(t)
    <3>1. Here(t) = Absent /\ loc[t] \in Maps /\ Key(t) \in Keys /\ Absent \notin Maps \cup Nat
          /\ Null \notin Nat /\ Here(t) = content[loc[t]][Key(t)]
      BY <1>1, <2>3, MissingIs, KeyIs DEF LocksAssumption, AccessMissing, NativeKnows, Here
    <3>2. CASE \A q \in Maps, j \in Keys :
                 content'[q][j] = IF q = loc[t] /\ j = Key(t) THEN Null ELSE content[q][j]
      BY <2>1, <3>1, <3>2 DEF Steady, NumbersStay, SteadyHeap
    <3>3. CASE /\ Unused # {}
               /\ \A q \in Maps, j \in Keys :
                    content'[q][j] = IF q = NewMap THEN Absent
                                     ELSE IF q = loc[t] /\ j = Key(t) THEN NewMap ELSE content[q][j]
      <4>1. NewMap \in Unused /\ NewMap \notin Nat
        BY <1>1, <3>3, NewMapIs DEF LocksAssumption
      <4> QED
        BY <2>1, <3>1, <3>3, <4>1 DEF Steady, NumbersStay, SteadyHeap
    <3> QED
      BY <1>1, <2>3, <3>2, <3>3, MissingIs
  <2>4. CASE FetchAdd(t)
    <3>1. PICK x \in MapItems :
            /\ loc[t] \in Maps /\ Key(t) \in Keys
            /\ Here(t) \notin Maps \/ x = Here(t)
            /\ \A q \in Maps, j \in Keys :
                 content'[q][j] = IF q = loc[t] /\ j = Key(t) THEN x ELSE content[q][j]
      BY <1>1, <2>4, VisitIs DEF LocksAssumption
    <3> QED
      BY <2>1, <2>4, <3>1 DEF Steady, SteadyHeap, Here
  <2> QED
    BY <1>2, <1>3, <2>2, <2>3, <2>4 DEF Acts, Step, Begin, AccessItem, LockFirst, CopyDone
<1>4. CASE CopyRoot(t) \/ CopyChild(t)
  <2>1. PICK N \in SUBSET Unused : WritesCopies(t, N)
    BY <1>4, CopyingWrites
  <2>2. AllCopies' = AllCopies \cup N /\ Copies(t) \cup N \subseteq AllCopies \cup N
    BY <1>1, <2>1, CopiesGrow DEF WritesCopies, AllCopies
  <2> QED
    BY <2>1, <2>2 DEF Steady, NumbersStay, SteadyHeap, WritesCopies
<1> QED
  BY <1>3, <1>4

(* The way of a native, as it was, leads to the same container in the heap *)
(* after the step.                                                         *)
LEMMA WayStays ==
  ASSUME LocksInv, Steady, NEW u \in Threads, OnPath(u), OnItsWay(u)
  PROVE  \E s \in [1 .. at[u] -> Maps] :
           Chain(content', AllCopies', s, call[u].obj, call[u].path, at[u], loc[u])
<1>1. LocksTyped /\ NativeKnows(u)
  BY DEF LocksInv
<1>2. PICK s \in [1 .. at[u] -> Maps] :
        Chain(content, AllCopies, s, call[u].obj, call[u].path, at[u], loc[u])
  BY DEF OnItsWay
<1>3. call[u].obj \in Roots /\ call[u].path \in Seq(Keys) /\ at[u] \in 1 .. Len(call[u].path)
  BY <1>1, KeyIs
<1>4. call[u].obj \notin Unused /\ \A q \in Maps, k \in Keys : content[q][k] \notin Unused
  BY <1>3, UnusedIs
<1>5. PICK heap, next, A, B, U, root, path, m, n :
        /\ heap = content /\ next = content' /\ A = AllCopies /\ B = AllCopies' /\ U = Unused
        /\ root = call[u].obj /\ path = call[u].path /\ m = loc[u] /\ n = at[u]
  OBVIOUS
<1>6. /\ path \in Seq(Keys) /\ n \in 1 .. Len(path) /\ Chain(heap, A, s, root, path, n, m)
      /\ SteadyHeap(heap, next, A, U) /\ B \subseteq A \cup U
      /\ root \notin U /\ \A q \in Maps, k \in Keys : heap[q][k] \notin U
  BY <1>2, <1>3, <1>4, <1>5 DEF Steady
<1>7. Chain(next, B, s, root, path, n, m)
  BY <1>6, ChainKept
<1> QED
  BY <1>5, <1>7

LEMMA WayActs ==
  ASSUME LocksInv, AddInv, NEW t \in Threads, Acts(t), Quiet', NEW u \in Threads, OnPath(u)'
  PROVE  OnItsWay(u)'
<1>1. /\ LocksTyped /\ NativeKnows(t) /\ NativeKnows(u) /\ OnlyActs(t) /\ CopiesArePrivate
      /\ LocksTyped' /\ NativeKnows(u)' /\ Quiet /\ Steady /\ CopiesArePrivate'
  BY ActsMoves, QuietBefore, SteadyActs, PrivateActs DEF LocksInv
<1>2. ASSUME OnPath(u), at'[u] = at[u], loc'[u] = loc[u], call'[u] = call[u]
      PROVE  OnItsWay(u)'
  <2>1. OnItsWay(u)
    BY <1>1, <1>2 DEF AddInv
  <2> QED
    BY <1>1, <1>2, <2>1, WayStays DEF OnItsWay
<1>3. CASE u # t
  <2>1. SameNative(u)
    BY <1>1, <1>3 DEF OnlyActs
  <2> QED
    BY <1>2, <2>1 DEF OnPath, SameNative
<1>4. CASE u = t /\ \E c \in Calls : Begin(t, c)
  <2>1. PICK c \in Calls : Begin(t, c)
    BY <1>4
  <2>2. call'[t] = c /\ loc'[t] = c.obj /\ at'[t] = 1 /\ c.op \in {"add", "set"}
    BY <1>1, <1>4, <2>1 DEF Begin, LocksTyped, NativeKnows, OnPath
  <2>3. c.obj \in Roots /\ c.obj \in Maps
    BY <2>2, CallIs DEF LocksAssumption
  <2>4. c.obj \notin AllCopies'
    BY <1>1, <2>3 DEF CopiesArePrivate, AllCopies
  <2> DEFINE s == [i \in 1 .. 1 |-> c.obj]
  <2>5. s \in [1 .. 1 -> Maps] /\ Chain(content', AllCopies', s, c.obj, c.path, 1, c.obj)
    BY <2>3, <2>4 DEF Chain
  <2> QED
    BY <1>4, <2>2, <2>5 DEF OnItsWay
<1>5. ASSUME u = t, NEW x, OnPath(t), at[t] < Len(call[t].path), x \in Maps, x \notin AllCopies',
             content'[loc[t]][Key(t)] = x, loc'[t] = x, at'[t] = at[t] + 1, call'[t] = call[t]
      PROVE  OnItsWay(u)'
  <2>1. OnItsWay(t)
    BY <1>1, <1>5 DEF AddInv
  <2>2. PICK s \in [1 .. at[t] -> Maps] :
          Chain(content', AllCopies', s, call[t].obj, call[t].path, at[t], loc[t])
    BY <1>1, <1>5, <2>1, WayStays
  <2>3. at[t] \in Nat \ {0}
    BY <1>1, <1>5, KeyIs
  <2>4. PICK heap, A, root, path, m, n :
          /\ heap = content' /\ A = AllCopies' /\ root = call[t].obj /\ path = call[t].path
          /\ m = loc[t] /\ n = at[t]
    OBVIOUS
  <2>5. /\ n \in Nat \ {0} /\ Chain(heap, A, s, root, path, n, m) /\ x \notin A /\ heap[m][path[n]] = x
    BY <1>5, <2>2, <2>3, <2>4 DEF Key
  <2>6. \E r \in [1 .. n + 1 -> Maps] : Chain(heap, A, r, root, path, n + 1, x)
    BY <1>5, <2>5, ChainGoesOn
  <2> QED
    BY <1>5, <2>4, <2>6 DEF OnItsWay
<1>6. CASE u = t /\ AccessItem(t)
  <2>1. OnPath(t) /\ call'[t] = call[t] /\ UNCHANGED << content, copied >>
    BY <1>1, <1>6 DEF AccessItem, NativeKnows
  <2>2. CASE UNCHANGED << loc, at >>
    BY <1>2, <1>6, <2>1, <2>2
  <2>3. CASE ~IsLast(t) /\ Here(t) \in Maps /\ Enter(t, Here(t))
    <3>1. loc[t] \in Maps \ AllCopies /\ Key(t) \in Keys /\ at[t] < Len(call[t].path)
      BY <1>1, <2>1, <2>3, KeyIs, OutsideCopies DEF IsLast
    <3>2. Here(t) \notin AllCopies /\ AllCopies' = AllCopies
      BY <1>1, <2>1, <3>1, OutsideCopies DEF Here, AllCopies, Copies
    <3>3. content'[loc[t]][Key(t)] = Here(t) /\ loc'[t] = Here(t) /\ at'[t] = at[t] + 1
      BY <1>1, <2>1, <2>3 DEF Here, Enter, LocksTyped
    <3> QED
      BY <1>5, <1>6, <2>1, <2>3, <3>1, <3>2, <3>3
  <2> QED
    BY <1>6, <2>2, <2>3 DEF AccessItem
<1>7. CASE u = t /\ AccessMissing(t)
  <2>1. OnPath(t) /\ call'[t] = call[t] /\ UNCHANGED << copied >>
    BY <1>1, <1>7 DEF AccessMissing, NativeKnows
  <2>2. CASE UNCHANGED << loc, at >>
    BY <1>2, <1>7, <2>1, <2>2
  <2>3. CASE /\ ~IsLast(t) /\ Unused # {}
             /\ loc' = [loc EXCEPT ![t] = NewMap] /\ at' = [at EXCEPT ![t] = at[t] + 1]
             /\ \A q \in Maps, j \in Keys :
                  content'[q][j] = IF q = NewMap THEN Absent
                                   ELSE IF q = loc[t] /\ j = Key(t) THEN NewMap ELSE content[q][j]
    <3>1. loc[t] \in Maps /\ Key(t) \in Keys /\ at[t] < Len(call[t].path)
      BY <1>1, <2>1, <2>3, KeyIs DEF IsLast
    <3>2. NewMap \in Maps /\ NewMap \notin AllCopies /\ AllCopies' = AllCopies /\ loc[t] # NewMap
      BY <1>1, <2>1, <2>3, NewMapIs DEF AllCopies, Copies
    <3>3. content'[loc[t]][Key(t)] = NewMap /\ loc'[t] = NewMap /\ at'[t] = at[t] + 1
      BY <1>1, <2>3, <3>1, <3>2 DEF LocksTyped
    <3> QED
      BY <1>5, <1>7, <2>1, <3>1, <3>2, <3>3
  <2> QED
    BY <1>1, <1>7, <2>2, <2>3, MissingIs
<1>8. CASE u = t /\ Step(t) /\ ~AccessItem(t) /\ ~AccessMissing(t)
  <2>1. UNCHANGED << call, loc, at >>
    BY <1>8 DEF Step, FetchAdd, Assign, RemoveKey, LockFirst, Transfer, CopyRoot, CopyChild, CopyDone
  <2> QED
    BY <1>2, <1>8, <2>1 DEF OnPath
<1> QED
  BY <1>3, <1>4, <1>6, <1>7, <1>8 DEF Acts

(* Whose calls have added changes only by what the acting thread does.     *)
LEMMA AddedByOthers ==
  ASSUME LocksInv, NEW t \in Threads, Acts(t), NEW m, NEW k
  PROVE  /\ t \notin AddedAt(m, k) /\ IsFiniteSet(AddedAt(m, k)) /\ AddedAt(m, k) \subseteq Threads \ {t}
         /\ AddedAt(m, k)' \ {t} = AddedAt(m, k)
         /\ \A u \in AddedAt(m, k) : ret'[u] = ret[u]
         /\ t \in AddedAt(m, k)' => t \in Added' /\ loc'[t] = m /\ Key(t)' = k
         /\ t \in Added' /\ loc'[t] = m /\ Key(t)' = k => t \in AddedAt(m, k)'
<1>1. t \notin AddedAt(m, k) /\ AddedAt(m, k) \subseteq Threads \ {t}
  BY MadeStays DEF AddedAt, Added, Made
<1>2. IsFiniteSet(AddedAt(m, k))
  BY <1>1, FS_Subset DEF LocksAssumption
<1>3. ASSUME NEW u \in Threads \ {t}
      PROVE  (u \in AddedAt(m, k)' <=> u \in AddedAt(m, k)) /\ ret'[u] = ret[u]
  <2>1. SameNative(u)
    BY ActsMoves DEF OnlyActs
  <2> QED
    BY <2>1 DEF SameNative, AddedAt, Added, Made, Key
<1>4. AddedAt(m, k)' \subseteq Threads
  BY DEF AddedAt, Added, Made
<1>5. t \in AddedAt(m, k)' <=> t \in Added' /\ loc'[t] = m /\ Key(t)' = k
  BY DEF AddedAt
<1> QED
  BY <1>1, <1>2, <1>3, <1>4, <1>5

(* Only fetchAddInt adds, and what it returns is what it found.            *)
LEMMA AddsAre ==
  ASSUME LocksInv, NEW t \in Threads, Acts(t), Quiet'
  PROVE  IF t \in Added'
         THEN /\ FetchAdd(t) /\ OnPath(t) /\ IsLast(t) /\ UNCHANGED << call, loc, at, copied >>
              /\ \/ Here(t) = Null /\ ret'[t] = 0 /\ content'[loc[t]][Key(t)] = 1
                 \/ Here(t) \in Nat /\ ret'[t] = Here(t) /\ content'[loc[t]][Key(t)] = Here(t) + 1
              /\ \A m \in Maps, k \in Keys :
                   m # loc[t] \/ k # Key(t) => content'[m][k] = content[m][k]
         ELSE NumbersStay
<1>1. /\ LocksTyped /\ NativeKnows(t) /\ LocksTyped' /\ NativeKnows(t)'
  BY ActsMoves DEF LocksInv
<1>2. ~Assign(t) /\ ~RemoveKey(t) /\ (FetchAdd(t) \/ NumbersStay)
  BY QuietBefore, SteadyActs
<1>3. CASE FetchAdd(t)
  <2>1. PICK x \in MapItems, r \in Nat \cup {Error} :
          /\ loc[t] \in Maps /\ Key(t) \in Keys
          /\ Returns(t, r) /\ UNCHANGED << call, loc, at, copied >>
          /\ \A q \in Maps, j \in Keys :
               content'[q][j] = IF q = loc[t] /\ j = Key(t) THEN x ELSE content[q][j]
          /\ \/ Here(t) = Null /\ x = 1 /\ r = 0
             \/ Here(t) \in Nat /\ x = Here(t) + 1 /\ r = Here(t)
             \/ x = Here(t) /\ r = Error
    BY <1>1, <1>3, VisitIs
  <2>2. pc'[t] = "done" /\ ret'[t] = r /\ OnPath(t) /\ IsLast(t) /\ call[t].op = "add"
    BY <1>1, <1>3, <2>1 DEF Returns, Goes, LocksTyped, NativeKnows, FetchAdd
  <2>3. t \in Added' <=> r # Error
    BY <2>1, <2>2 DEF Added, Made, OnPath
  <2>4. CASE r = Error
    <3>1. \A q \in Maps, j \in Keys : content'[q][j] = content[q][j] \/ (q = loc[t] /\ j = Key(t) /\ x # Here(t))
      BY <2>1 DEF Here
    <3>2. Error \notin Nat
      BY DEF LocksAssumption
    <3>3. x = Here(t)
      BY <2>1, <2>4, <3>2
    <3> QED
      BY <2>3, <2>4, <3>1, <3>3 DEF NumbersStay
  <2>5. CASE r # Error
    BY <1>3, <2>1, <2>2, <2>3, <2>5
  <2> QED
    BY <2>4, <2>5
<1>4. CASE ~FetchAdd(t)
  <2>1. t \notin Added'
    <3>1. CASE \E c \in Calls : Begin(t, c)
      <4>1. PICK c \in Calls : Begin(t, c)
        BY <3>1
      <4>2. call'[t] = c /\ (c.op = "add" => pc'[t] # "done")
        BY <1>1, <4>1 DEF Begin, Goes, FirstStep, LocksTyped
      <4> QED
        BY <4>2 DEF Added, Made
    <3>2. CASE AccessItem(t)
      <4>1. pc'[t] # "done" \/ ret'[t] = Error
        BY <1>1, <3>2 DEF AccessItem, Enter, Returns, Goes, LocksTyped
      <4> QED
        BY <4>1 DEF Added
    <3>3. CASE AccessMissing(t)
      <4>1. pc'[t] # "done"
        BY <1>1, <3>3 DEF AccessMissing, Enter, Goes, LocksTyped
      <4> QED
        BY <4>1 DEF Added
    <3>4. CASE LockFirst(t) \/ Transfer(t) \/ CopyRoot(t) \/ CopyChild(t) \/ CopyDone(t)
      <4>1. call'[t] = call[t] /\ pc[t] \in {"lock", "transfer", "copy", "copying"}
        BY <3>4 DEF LockFirst, Transfer, CopyRoot, CopyChild, CopyDone
      <4>2. call[t].op # "add"
        BY <1>1, <4>1 DEF NativeKnows
      <4> QED
        BY <4>1, <4>2 DEF Added, Made
    <3> QED
      BY <1>2, <1>4, <3>1, <3>2, <3>3, <3>4 DEF Acts, Step
  <2> QED
    BY <1>2, <1>4, <2>1
<1> QED
  BY <1>3, <1>4

LEMMA CountedActs ==
  ASSUME LocksInv, AddInv, NEW t \in Threads, Acts(t), Quiet', NEW m \in Maps \ AllCopies', NEW k \in Keys
  PROVE  Counted(m, k)'
<1>1. /\ t \notin AddedAt(m, k) /\ IsFiniteSet(AddedAt(m, k)) /\ AddedAt(m, k) \subseteq Threads \ {t}
      /\ AddedAt(m, k)' \ {t} = AddedAt(m, k)
      /\ \A u \in AddedAt(m, k) : ret'[u] = ret[u]
      /\ t \in AddedAt(m, k)' <=> t \in Added' /\ loc'[t] = m /\ Key(t)' = k
  BY AddedByOthers
<1>2. m \in Maps \ AllCopies /\ Quiet
  BY QuietBefore, SteadyActs DEF Steady
<1>3. Numbered(AddedAt(m, k), ret, content[m][k])
  BY <1>2 DEF AddInv, Counted
<1>4. CASE t \in Added' /\ m = loc[t] /\ k = Key(t)
  <2>1. UNCHANGED << call, loc, at >>
        /\ \/ Here(t) = Null /\ ret'[t] = 0 /\ content'[m][k] = 1
           \/ Here(t) \in Nat /\ ret'[t] = Here(t) /\ content'[m][k] = Here(t) + 1
    BY <1>4, AddsAre
  <2>2. AddedAt(m, k)' = AddedAt(m, k) \cup {t}
    BY <1>1, <1>4, <2>1 DEF Key
  <2>3. Here(t) = content[m][k] /\ Null \notin Nat
    BY <1>4 DEF Here, LocksAssumption
  <2>4. PICK A, result, item, more, new :
          /\ A = AddedAt(m, k) /\ result = ret /\ item = content[m][k] /\ more = ret' /\ new = content'[m][k]
    OBVIOUS
  <2>5. /\ IsFiniteSet(A) /\ t \notin A /\ Numbered(A, result, item) /\ \A u \in A : more[u] = result[u]
        /\ \/ item \notin Nat /\ new = 1 /\ more[t] = 0
           \/ item \in Nat /\ new = item + 1 /\ more[t] = item
    BY <1>1, <1>3, <2>1, <2>3, <2>4
  <2>6. Numbered(A \cup {t}, more, new)
    BY <2>5, OneMoreAdd
  <2> QED
    BY <2>2, <2>4, <2>6 DEF Counted
<1>5. CASE ~(t \in Added' /\ m = loc[t] /\ k = Key(t))
  <2>1. AddedAt(m, k)' = AddedAt(m, k)
    <3>1. t \in Added' => loc'[t] = loc[t] /\ Key(t)' = Key(t)
      BY AddsAre DEF Key
    <3> QED
      BY <1>1, <1>5, <3>1
  <2>2. \/ content'[m][k] = content[m][k]
        \/ content'[m][k] \notin Nat /\ (content[m][k] \in Nat => m \in Unused)
    BY <1>5, AddsAre DEF NumbersStay
  <2>3. m \in Unused => AddedAt(m, k) = {}
    BY UnusedIs DEF AddedAt, Added, Made
  <2>4. content'[m][k] \in Nat <=> content[m][k] \in Nat
    BY <1>3, <2>2, <2>3 DEF Numbered
  <2>5. AddedAt(m, k) # {} => content'[m][k] = content[m][k]
    BY <1>3, <2>2, <2>3 DEF Numbered
  <2>6. {ret'[u] : u \in AddedAt(m, k)} = {ret[u] : u \in AddedAt(m, k)}
    BY <1>1
  <2>7. Numbered(AddedAt(m, k), ret', content'[m][k])
    BY <1>3, <2>4, <2>5, <2>6 DEF Numbered
  <2> QED
    BY <2>1, <2>7 DEF Counted
<1> QED
  BY <1>4, <1>5

LEMMA AddActs ==
  ASSUME LocksInv, AddInv, NEW t \in Threads, Acts(t)
  PROVE  AddInv'
<1> SUFFICES ASSUME Quiet'
             PROVE  /\ \A u \in Threads : OnPath(u)' => OnItsWay(u)'
                    /\ \A u \in Added' : IsLast(u)'
                    /\ \A m \in Maps \ AllCopies', k \in Keys : Counted(m, k)'
  BY DEF AddInv
<1>1. ASSUME NEW u \in Added' PROVE IsLast(u)'
  <2>1. CASE u = t
    BY <2>1, AddsAre DEF IsLast
  <2>2. CASE u # t
    <3>1. SameNative(u)
      BY <2>2, ActsMoves DEF OnlyActs, Added, Made
    <3>2. u \in Added /\ Quiet
      BY <3>1, QuietBefore DEF Added, Made, SameNative
    <3> QED
      BY <3>1, <3>2 DEF AddInv, IsLast, SameNative
  <2> QED
    BY <2>1, <2>2
<1> QED
  BY <1>1, WayActs, CountedActs

(* At the end of its way a call is at the cell its path leads to now.      *)
LEMMA AddsCounted ==
  ASSUME LocksInv, AddInv
  PROVE  AddsAddUp
<1> SUFFICES ASSUME Quiet, NEW t \in Added
             PROVE  /\ Cell(call[t].obj, call[t].path) = << loc[t], Key(t) >>
                    /\ content[loc[t]][Key(t)] = Cardinality(AddedWith(t))
                    /\ {ret[u] : u \in AddedWith(t)} = 0 .. Cardinality(AddedWith(t)) - 1
  BY DEF AddsAddUp, Quiet
<1>1. t \in Threads /\ OnPath(t) /\ LocksTyped /\ NativeKnows(t) /\ CopiesArePrivate
  BY DEF Added, Made, OnPath, LocksInv
<1>2. IsLast(t) /\ OnItsWay(t)
  BY <1>1 DEF AddInv
<1>3. /\ call[t].path \in Seq(Keys) /\ call[t].path # << >> /\ loc[t] \in Maps /\ Key(t) \in Keys
  BY <1>1, KeyIs
<1>4. PICK s : Chain(content, AllCopies, s, call[t].obj, call[t].path, at[t], loc[t])
  BY <1>2 DEF OnItsWay
<1>5. PICK path, root, m : path = call[t].path /\ root = call[t].obj /\ m = loc[t]
  OBVIOUS
<1>6. Chain(content, AllCopies, s, root, path, Len(path), m)
  BY <1>2, <1>4, <1>5 DEF IsLast
<1>7. Cell(root, path) = << m, path[Len(path)] >>
  BY <1>3, <1>5, <1>6, CellIs
<1>8. Cell(call[t].obj, call[t].path) = << loc[t], Key(t) >>
  BY <1>2, <1>5, <1>7 DEF IsLast, Key
<1>9. Counted(loc[t], Key(t))
  BY <1>1, <1>3, OutsideCopies DEF AddInv
<1>10. AddedAt(loc[t], Key(t)) = AddedWith(t) /\ t \in AddedWith(t)
  BY DEF AddedAt, AddedWith
<1>11. AddedWith(t) # {} /\ Numbered(AddedWith(t), ret, content[loc[t]][Key(t)])
  BY <1>9, <1>10 DEF Counted
<1> QED
  BY <1>8, <1>11 DEF Numbered

LEMMA LocksBegin ==
  ASSUME LocksInit
  PROVE  LocksInv /\ AddInv
<1>1. /\ content \in [Maps -> [Keys -> Maps \cup {Null, Absent}]]
      /\ call = [t \in Threads |-> Null] /\ pc = [t \in Threads |-> "idle"]
      /\ loc = [t \in Threads |-> Null] /\ at = [t \in Threads |-> 1]
      /\ copied = [t \in Threads |-> {}] /\ ret = [t \in Threads |-> Null]
  BY DEF LocksInit, LocksAssumption
<1>2. content \in [Maps -> [Keys -> MapItems]]
  BY <1>1 DEF MapItems
<1>3. LocksTyped
  BY <1>1, <1>2 DEF LocksTyped
<1>4. \A t \in Threads : NativeKnows(t)
  BY <1>1 DEF NativeKnows, OnPath
<1>5. \A t \in Threads : Copies(t) = {}
  BY <1>1 DEF Copies
<1>6. CopiesArePrivate
  BY <1>5 DEF CopiesArePrivate
<1>7. AddInv
  <2>1. Added = {} /\ \A t \in Threads : ~OnPath(t)
    BY <1>1 DEF Added, Made, OnPath
  <2>2. ASSUME NEW m \in Maps, NEW k \in Keys PROVE Counted(m, k)
    <3>1. content[m][k] \notin Nat
      BY <1>1 DEF LocksAssumption
    <3> QED
      BY <2>1, <3>1 DEF Counted, AddedAt, Numbered
  <2> QED
    BY <2>1, <2>2 DEF AddInv
<1> QED
  BY <1>3, <1>4, <1>6, <1>7 DEF LocksInv

LEMMA LocksSame ==
  ASSUME LocksInv, UNCHANGED lockVars
  PROVE  LocksInv'
<1> USE DEF lockVars
<1>1. LocksTyped' /\ \A t \in Threads : NativeKnows(t)'
  BY DEF LocksInv, LocksTyped, NativeKnows, OnPath, IsLast
<1>2. \A t \in Threads : Copies(t)' = Copies(t)
  BY DEF Copies
<1>3. CopiesArePrivate'
  BY <1>2 DEF LocksInv, CopiesArePrivate
<1> QED
  BY <1>1, <1>3 DEF LocksInv

LEMMA AddSame ==
  ASSUME AddInv, UNCHANGED lockVars
  PROVE  AddInv'
<1> USE DEF lockVars
<1>1. AllCopies' = AllCopies
  BY DEF Copies, AllCopies
<1> QED
  BY <1>1 DEF AddInv, Quiet, Made, OnPath, OnItsWay, Added, IsLast, Counted, AddedAt, Key

LEMMA LocksActs ==
  ASSUME LocksInv, LocksNext
  PROVE  LocksInv' /\ \E t \in Threads : Acts(t)
<1>1. PICK t \in Threads : Acts(t)
  BY DEF LocksNext, Acts
<1> QED
  BY <1>1, ActsMoves, PrivateActs DEF LocksInv

(* JAtomic is atomic: the calls of fetchAddInt that reach one value return *)
(* 0, 1, 2 ... and the value is their number, and the path of each leads   *)
(* to it, for any number of natives, paths and containers, as long as no   *)
(* call that overwrites or removes is made.                                *)
THEOREM CallsAddUp == LocksSpec => []AddsAddUp
<1>1. LocksInit => LocksInv /\ AddInv
  BY LocksBegin
<1>2. LocksInv /\ AddInv /\ [LocksNext]_lockVars => (LocksInv /\ AddInv)'
  BY LocksActs, AddActs, LocksSame, AddSame
<1>3. LocksInv /\ AddInv => AddsAddUp
  BY AddsCounted
<1> QED
  BY <1>1, <1>2, <1>3, PTL DEF LocksSpec

-----------------------------------------------------------------------------
(* Every container of C is r, or an item of one that is a step nearer.     *)
HangsOn(heap, C, r, d, n) ==
  /\ d \in [C -> 0 .. n - 1]
  /\ \A c \in C : c = r \/ \E b \in C, k \in Keys : heap[b][k] = c /\ d[c] = d[b] + 1

LinksStay(heap, next, C) ==
  \A b \in C, k \in Keys : heap[b][k] \in C => next[b][k] = heap[b][k]

LEMMA HangsOneMore ==
  ASSUME NEW heap, NEW next, NEW C, NEW r, NEW d, NEW n \in Nat, HangsOn(heap, C, r, d, n),
         LinksStay(heap, next, C), NEW b \in C, NEW k \in Keys, NEW x, x \notin C, next[b][k] = x
  PROVE  \E e \in [C \cup {x} -> 0 .. (n + 1) - 1] : HangsOn(next, C \cup {x}, r, e, n + 1)
<1> DEFINE e == [c \in C \cup {x} |-> IF c = x THEN d[b] + 1 ELSE d[c]]
<1>1. \A c \in C : d[c] \in 0 .. n - 1
  BY DEF HangsOn
<1>2. d[b] + 1 \in 0 .. (n + 1) - 1
  BY <1>1
<1>3. e \in [C \cup {x} -> 0 .. (n + 1) - 1]
  BY <1>1, <1>2
<1>4. e[x] = e[b] + 1 /\ \A c \in C : e[c] = d[c]
  OBVIOUS
<1> HIDE DEF e
<1>5. ASSUME NEW c \in C \cup {x}
      PROVE  c = r \/ \E q \in C \cup {x}, j \in Keys : next[q][j] = c /\ e[c] = e[q] + 1
  <2>1. CASE c = x
    BY <1>4, <2>1
  <2>2. CASE c \in C
    <3>1. \/ c = r
          \/ \E q \in C, j \in Keys : heap[q][j] = c /\ d[c] = d[q] + 1
      BY <2>2 DEF HangsOn
    <3> QED
      BY <1>4, <2>2, <3>1 DEF LinksStay
  <2> QED
    BY <2>1, <2>2
<1> QED
  BY <1>3, <1>5 DEF HangsOn

(* One copy of each original.                                              *)
OneToOne(t) == \A p, q \in copied[t] : p[1] = q[1] <=> p[2] = q[2]

(* The copies hang on the one that is returned.                            *)
Hangs(t) ==
  \E d \in [Copies(t) -> 0 .. Cardinality(Copies(t)) - 1] :
    HangsOn(content, Copies(t), ret[t], d, Cardinality(Copies(t)))

(* A copy hangs together, and when it is done nothing of it leads outside. *)
CopyHolds(t) ==
  copied[t] # {} =>
    /\ OneToOne(t) /\ ret[t] \in Copies(t) /\ Hangs(t)
    /\ pc[t] = "done" => ToCopy(t) = {}

LEMMA CopiesOfOthers ==
  ASSUME LocksInv, NEW t \in Threads, Acts(t), NEW u \in Threads \ {t}
  PROVE  /\ SameNative(u) /\ Copies(u)' = Copies(u) /\ Copies(u) \subseteq Maps
         /\ \A c \in Copies(u), k \in Keys : content'[c][k] = content[c][k]
<1>1. LocksTyped /\ NativeKnows(t) /\ OnlyActs(t) /\ CopiesArePrivate
  BY ActsMoves DEF LocksInv
<1>2. SameNative(u) /\ Copies(u)' = Copies(u) /\ Copies(u) \subseteq Maps
  <2>1. SameNative(u) /\ Copies(u)' = Copies(u)
    BY <1>1, SameCopies DEF OnlyActs
  <2>2. copied[u] \subseteq Maps \X Maps
    BY <1>1 DEF LocksTyped
  <2>3. Copies(u) \subseteq Maps
    BY <2>2 DEF Copies
  <2> QED
    BY <2>1, <2>3
<1>3. /\ Roots \cap Copies(u) = {} /\ loc[t] \notin Copies(u) /\ Copies(u) \cap Copies(t) = {}
      /\ \A m \in Unused : m \notin Copies(u)
  BY <1>1, UnusedIs DEF CopiesArePrivate, AllCopies
<1>4. ASSUME NEW c \in Copies(u), NEW k \in Keys PROVE content'[c][k] = content[c][k]
  <2>1. CASE AccessMissing(t)
    <3>1. Unused # {} => NewMap \in Unused
      BY <1>1, NewMapIs
    <3>2. c \in Maps /\ c # loc[t] /\ (Unused # {} => c # NewMap)
      BY <1>2, <1>3, <3>1
    <3> QED
      BY <1>1, <2>1, <3>2, MissingIs
  <2>2. CASE FetchAdd(t) \/ Assign(t) \/ RemoveKey(t)
    BY <1>1, <1>2, <1>3, <2>2, VisitIs
  <2>3. CASE Transfer(t)
    BY <1>1, <1>2, <1>3, <2>3, TransferIs
  <2>4. CASE CopyRoot(t) \/ CopyChild(t)
    BY <1>2, <1>3, <2>4, CopyingWrites DEF WritesCopies
  <2>5. CASE UNCHANGED content
    BY <2>5
  <2> QED
    BY <2>1, <2>2, <2>3, <2>4, <2>5 DEF Acts, Step, Begin, AccessItem, LockFirst, CopyDone
<1> QED
  BY <1>2, <1>4

LEMMA OthersHold ==
  ASSUME LocksInv, NEW t \in Threads, Acts(t), NEW u \in Threads \ {t}, CopyHolds(u)
  PROVE  CopyHolds(u)'
<1>1. /\ SameNative(u) /\ Copies(u)' = Copies(u) /\ Copies(u) \subseteq Maps
      /\ \A c \in Copies(u), k \in Keys : content'[c][k] = content[c][k]
  BY CopiesOfOthers
<1> SUFFICES ASSUME copied[u] # {}
             PROVE  /\ OneToOne(u)' /\ ret'[u] \in Copies(u)' /\ Hangs(u)'
                    /\ pc'[u] = "done" => ToCopy(u)' = {}
  BY <1>1 DEF CopyHolds, SameNative
<1>2. OneToOne(u) /\ ret[u] \in Copies(u) /\ Hangs(u) /\ (pc[u] = "done" => ToCopy(u) = {})
  BY DEF CopyHolds
<1>3. OneToOne(u)' /\ ret'[u] \in Copies(u)'
  BY <1>1, <1>2 DEF OneToOne, SameNative
<1>4. ToCopy(u)' = ToCopy(u)
  BY <1>1 DEF ToCopy
<1>5. Hangs(u)'
  <2>1. PICK d \in [Copies(u) -> 0 .. Cardinality(Copies(u)) - 1] :
          HangsOn(content, Copies(u), ret[u], d, Cardinality(Copies(u)))
    BY <1>2 DEF Hangs
  <2>2. HangsOn(content', Copies(u), ret[u], d, Cardinality(Copies(u)))
    BY <1>1, <2>1 DEF HangsOn
  <2> QED
    BY <1>1, <2>2 DEF Hangs, SameNative
<1> QED
  BY <1>1, <1>2, <1>3, <1>4, <1>5 DEF SameNative

LEMMA CopyRootHolds ==
  ASSUME LocksInv, NEW t \in Threads, CopyRoot(t)
  PROVE  CopyHolds(t)'
<1>1. LocksTyped /\ NativeKnows(t)
  BY DEF LocksInv
<1>2. copied'[t] = {<< loc[t], NewMap >>} /\ ret'[t] = NewMap /\ pc'[t] = "copying"
  BY <1>1, CopyRootIs DEF LocksTyped
<1>3. Copies(t)' = {NewMap}
  BY <1>2 DEF Copies
<1>4. OneToOne(t)' /\ ret'[t] \in Copies(t)' /\ pc'[t] # "done"
  BY <1>2, <1>3 DEF OneToOne
<1>5. Hangs(t)'
  <2>1. PICK n : n = NewMap
    OBVIOUS
  <2>2. Cardinality({n}) = 1
    BY FS_Singleton
  <2> DEFINE d == [c \in {n} |-> 0]
  <2>3. d \in [{n} -> 0 .. 1 - 1] /\ HangsOn(content', {n}, n, d, 1)
    BY DEF HangsOn
  <2> HIDE DEF d
  <2>4. \E e \in [{n} -> 0 .. Cardinality({n}) - 1] : HangsOn(content', {n}, n, e, Cardinality({n}))
    BY <2>2, <2>3
  <2> QED
    BY <1>2, <1>3, <2>1, <2>4 DEF Hangs
<1> QED
  BY <1>4, <1>5 DEF CopyHolds

LEMMA CopyChildHolds ==
  ASSUME LocksInv, NEW t \in Threads, CopyChild(t), CopyHolds(t)
  PROVE  CopyHolds(t)'
<1>1. LocksTyped /\ NativeKnows(t)
  BY DEF LocksInv
<1>2. PICK b \in Copies(t), k \in Keys, origin \in Maps \ Copies(t), copy \in Maps :
        /\ b \in Maps /\ content[b][k] = origin
        /\ CopyMet(t, b, k, origin, copy) \/ CopyMade(t, b, k, origin, copy)
  BY <1>1, CopyChildIs
<1>3. copied[t] # {} /\ ret'[t] = ret[t] /\ pc'[t] = "copying"
  BY <1>1, <1>2, CopyChildIs DEF Copies
<1>4. OneToOne(t) /\ ret[t] \in Copies(t) /\ Hangs(t)
  BY <1>3 DEF CopyHolds
<1>5. PICK C : C = Copies(t)
  OBVIOUS
<1>6. C \subseteq Maps /\ IsFiniteSet(C) /\ Cardinality(C) \in Nat
  <2>1. copied[t] \subseteq Maps \X Maps
    BY <1>1 DEF LocksTyped
  <2>2. C \subseteq Maps
    BY <1>5, <2>1 DEF Copies
  <2> QED
    BY <2>2, FS_Subset, FS_CardinalityType DEF LocksAssumption
<1>7. PICK d \in [C -> 0 .. Cardinality(C) - 1] : HangsOn(content, C, ret[t], d, Cardinality(C))
  BY <1>4, <1>5 DEF Hangs
<1>8. CASE CopyMet(t, b, k, origin, copy)
  <2>1. copied'[t] = copied[t] /\ Copies(t)' = C
    BY <1>5, <1>8 DEF CopyMet, Copies
  <2>2. LinksStay(content, content', C)
    BY <1>2, <1>5, <1>6, <1>8 DEF CopyMet, LinksStay
  <2>3. HangsOn(content', C, ret[t], d, Cardinality(C))
    BY <1>7, <2>2 DEF HangsOn, LinksStay
  <2>4. Hangs(t)'
    BY <1>3, <2>1, <2>3 DEF Hangs
  <2>5. OneToOne(t)' /\ ret'[t] \in Copies(t)'
    BY <1>3, <1>4, <1>5, <2>1 DEF OneToOne
  <2> QED
    BY <1>3, <2>4, <2>5 DEF CopyHolds
<1>9. CASE CopyMade(t, b, k, origin, copy)
  <2>1. copy \notin C
    BY <1>1, <1>5, <1>9, NewMapIs DEF CopyMade, AllCopies
  <2>2. copied'[t] = copied[t] \cup {<< origin, copy >>} /\ \A p \in copied[t] : p[1] # origin
    BY <1>9 DEF CopyMade
  <2>3. Copies(t)' = C \cup {copy}
    <3>1. Copies(t)' = Seconds(copied'[t]) /\ C = Seconds(copied[t])
      BY <1>5 DEF Copies, Seconds
    <3>2. Seconds(copied[t] \cup {<< origin, copy >>}) = Seconds(copied[t]) \cup {copy}
      BY OneMoreSecond
    <3> QED
      BY <2>2, <3>1, <3>2
  <2>4. OneToOne(t)'
    <3>1. \A p \in copied[t] : p[2] # copy
      BY <1>5, <2>1 DEF Copies
    <3> QED
      BY <1>4, <2>2, <3>1 DEF OneToOne
  <2>5. LinksStay(content, content', C) /\ content'[b][k] = copy
    BY <1>2, <1>5, <1>6, <1>9, <2>1 DEF CopyMade, LinksStay
  <2>6. PICK heap, next, r, n : /\ heap = content /\ next = content' /\ r = ret[t] /\ n = Cardinality(C)
    OBVIOUS
  <2>7. n \in Nat /\ HangsOn(heap, C, r, d, n) /\ LinksStay(heap, next, C) /\ b \in C /\ next[b][k] = copy
    BY <1>2, <1>5, <1>6, <1>7, <2>5, <2>6
  <2>8. PICK e \in [C \cup {copy} -> 0 .. (n + 1) - 1] : HangsOn(next, C \cup {copy}, r, e, n + 1)
    BY <2>1, <2>7, HangsOneMore
  <2>9. Cardinality(C \cup {copy}) = n + 1
    BY <1>6, <2>1, <2>6, FS_AddElement
  <2>10. Hangs(t)'
    BY <1>3, <2>3, <2>6, <2>8, <2>9 DEF Hangs
  <2> QED
    BY <1>3, <1>4, <1>5, <2>3, <2>4, <2>10 DEF CopyHolds
<1> QED
  BY <1>2, <1>8, <1>9

LEMMA HoldsActs ==
  ASSUME LocksInv, \A u \in Threads : CopyHolds(u), NEW t \in Threads, Acts(t)
  PROVE  \A u \in Threads : CopyHolds(u)'
<1>1. ASSUME NEW u \in Threads \ {t} PROVE CopyHolds(u)'
  BY OthersHold
<1>2. CopyHolds(t)'
  <2>1. CASE CopyRoot(t)
    BY <2>1, CopyRootHolds
  <2>2. CASE CopyChild(t)
    BY <2>2, CopyChildHolds
  <2>3. CASE CopyDone(t)
    <3>1. UNCHANGED << content, copied, ret >> /\ ToCopy(t) = {} /\ Copies(t)' = Copies(t)
      BY <2>3 DEF CopyDone, Copies
    <3>2. ToCopy(t)' = {} /\ (Hangs(t) => Hangs(t)') /\ (OneToOne(t) => OneToOne(t)')
      BY <3>1 DEF ToCopy, Hangs, OneToOne
    <3> QED
      BY <3>1, <3>2 DEF CopyHolds
  <2>4. CASE ~CopyRoot(t) /\ ~CopyChild(t) /\ ~CopyDone(t)
    <3>1. UNCHANGED copied /\ pc[t] \notin {"copying", "done"}
      BY <2>4 DEF Acts, Step, Begin, AccessItem, AccessMissing, FetchAdd, Assign, RemoveKey,
                  LockFirst, Transfer
    <3>2. copied'[t] = {}
      BY <3>1 DEF LocksInv, NativeKnows
    <3> QED
      BY <3>2 DEF CopyHolds
  <2> QED
    BY <2>1, <2>2, <2>3, <2>4
<1> QED
  BY <1>1, <1>2

-----------------------------------------------------------------------------
OnlyCopies == \A u \in Threads \ Made("copy") : call[u] = Null

Originals(t) == {p[1] : p \in copied[t]}

(* An original is known to a script, or an item of another original.       *)
OriginalsKnown(t) ==
  \A o \in Originals(t) :
    /\ o \notin AllCopies
    /\ o \in Roots \/ \E q \in Originals(t), k \in Keys : content[q][k] = o

(* An item of a copy is that of the original, or the copy of it.           *)
SameShape(t) ==
  \A p \in copied[t], k \in Keys :
    \/ content[p[2]][k] = content[p[1]][k]
    \/ << content[p[1]][k], content[p[2]][k] >> \in copied[t]

(* If nobody does anything but copy.                                       *)
ShapeInv == OnlyCopies => \A t \in Threads : OriginalsKnown(t) /\ SameShape(t)

LEMMA OnlyCopiesBefore ==
  ASSUME LocksInv, NEW t \in Threads, Acts(t), OnlyCopies'
  PROVE  /\ OnlyCopies
         /\ CopyRoot(t) \/ CopyChild(t) \/ UNCHANGED << content, copied >>
<1>1. \A u \in Threads : call'[u] # Null => call'[u].op = "copy"
  BY DEF OnlyCopies, Made
<1>2. \A u \in Threads : call[u] # Null => call[u].op = "copy"
  BY <1>1, MadeStays
<1>3. OnlyCopies
  BY <1>2 DEF OnlyCopies, Made
<1>4. NativeKnows(t)
  BY DEF LocksInv
<1>5. pc[t] \notin {"access", "visit", "remove", "lock", "transfer"}
  BY <1>2, <1>4 DEF NativeKnows, OnPath
<1>6. CopyRoot(t) \/ CopyChild(t) \/ UNCHANGED << content, copied >>
  BY <1>5 DEF Acts, Step, Begin, AccessItem, AccessMissing, FetchAdd, Assign, RemoveKey,
              LockFirst, Transfer, CopyDone
<1> QED
  BY <1>3, <1>6

LEMMA OriginalsAre ==
  ASSUME LocksInv, NEW t \in Threads, OriginalsKnown(t), NEW o \in Originals(t)
  PROVE  o \in Maps /\ o \notin AllCopies /\ o \notin Unused
<1>1. copied[t] \subseteq Maps \X Maps
  BY DEF LocksInv, LocksTyped
<1>2. Originals(t) \subseteq Maps
  BY <1>1 DEF Originals
<1>3. o \notin Unused
  BY <1>2, UnusedIs DEF OriginalsKnown
<1> QED
  BY <1>2, <1>3 DEF OriginalsKnown

(* What is copied is left alone, and so are the copies of others.          *)
LEMMA CopyingLeaves ==
  ASSUME LocksInv, NEW t \in Threads, CopyRoot(t) \/ CopyChild(t),
         NEW u \in Threads, OriginalsKnown(u), NEW o \in Originals(u)
  PROVE  o \notin AllCopies' /\ \A k \in Keys : content'[o][k] = content[o][k]
<1>1. OnlyActs(t)
  BY ActsMoves DEF Acts, Step
<1>2. PICK N \in SUBSET Unused : WritesCopies(t, N)
  BY CopyingWrites
<1>3. AllCopies' = AllCopies \cup N
  BY <1>1, <1>2, CopiesGrow DEF WritesCopies
<1>4. o \in Maps /\ o \notin AllCopies /\ o \notin N
  BY OriginalsAre
<1> QED
  BY <1>2, <1>3, <1>4 DEF WritesCopies, AllCopies

LEMMA ShapeOfOthers ==
  ASSUME LocksInv, NEW t \in Threads, CopyRoot(t) \/ CopyChild(t),
         NEW u \in Threads \ {t}, OriginalsKnown(u), SameShape(u)
  PROVE  OriginalsKnown(u)' /\ SameShape(u)'
<1>1. copied'[u] = copied[u] /\ \A c \in Copies(u), k \in Keys : content'[c][k] = content[c][k]
  BY CopiesOfOthers DEF Acts, Step, SameNative
<1>2. Originals(u)' = Originals(u)
  BY <1>1 DEF Originals
<1>3. \A o \in Originals(u) : o \notin AllCopies' /\ \A k \in Keys : content'[o][k] = content[o][k]
  BY CopyingLeaves
<1>4. OriginalsKnown(u)'
  BY <1>2, <1>3 DEF OriginalsKnown
<1>5. \A p \in copied[u] : p[1] \in Originals(u) /\ p[2] \in Copies(u)
  BY DEF Originals, Copies
<1>6. SameShape(u)'
  BY <1>1, <1>3, <1>5 DEF SameShape
<1> QED
  BY <1>4, <1>6

LEMMA ShapeOfRoot ==
  ASSUME LocksInv, NEW t \in Threads, CopyRoot(t)
  PROVE  OriginalsKnown(t)' /\ SameShape(t)'
<1>1. LocksTyped /\ NativeKnows(t) /\ CopiesArePrivate'
  BY PrivateActs DEF LocksInv, Acts, Step
<1>2. /\ loc[t] \in Roots /\ Unused # {} /\ copied'[t] = {<< loc[t], NewMap >>}
      /\ \A q \in Maps, j \in Keys :
           content'[q][j] = IF q = NewMap THEN content[loc[t]][j] ELSE content[q][j]
  BY <1>1, CopyRootIs
<1>3. loc[t] \in Maps /\ NewMap \in Maps
  BY <1>1, <1>2, NewMapIs DEF LocksAssumption
<1>4. Originals(t)' = {loc[t]}
  BY <1>2 DEF Originals
<1>5. loc[t] \notin AllCopies'
  BY <1>1, <1>2 DEF CopiesArePrivate, AllCopies
<1>6. OriginalsKnown(t)'
  BY <1>2, <1>4, <1>5 DEF OriginalsKnown
<1>7. \A k \in Keys : content'[NewMap][k] = content'[loc[t]][k]
  BY <1>2, <1>3
<1>8. SameShape(t)'
  BY <1>2, <1>7 DEF SameShape
<1> QED
  BY <1>6, <1>8

LEMMA ShapeOfChild ==
  ASSUME LocksInv, NEW t \in Threads, CopyChild(t), OriginalsKnown(t), SameShape(t)
  PROVE  OriginalsKnown(t)' /\ SameShape(t)'
<1>1. LocksTyped /\ NativeKnows(t) /\ CopiesArePrivate /\ CopiesArePrivate'
  BY PrivateActs DEF LocksInv, Acts, Step
<1>2. PICK b \in Copies(t), k \in Keys, origin \in Maps \ Copies(t), copy \in Maps :
        /\ b \in Maps /\ content[b][k] = origin
        /\ CopyMet(t, b, k, origin, copy) \/ CopyMade(t, b, k, origin, copy)
  BY <1>1, CopyChildIs
<1>3. \A o \in Originals(t) : /\ o \in Maps /\ o \notin AllCopies /\ o \notin AllCopies'
                              /\ \A j \in Keys : content'[o][j] = content[o][j]
  BY CopyingLeaves, OriginalsAre
<1>4. \A p \in copied[t] : p[1] \in Originals(t) /\ p[2] \in Copies(t) /\ p[2] \in Maps
  <2>1. copied[t] \subseteq Maps \X Maps
    BY <1>1 DEF LocksTyped
  <2> QED
    BY <2>1 DEF Originals, Copies
<1>5. ASSUME NEW p \in copied[t], p[2] = b PROVE content[p[1]][k] = origin
  <2>1. << content[p[1]][k], origin >> \notin copied[t]
    BY <1>2, <1>4
  <2> QED
    BY <1>2, <1>5, <2>1 DEF SameShape
<1>6. << origin, copy >> \in copied'[t] /\ \A p \in copied[t] : p \in copied'[t]
  BY <1>2 DEF CopyMet, CopyMade
<1>7. \A p \in copied[t], j \in Keys :
        content'[p[2]][j] = IF p[2] = b /\ j = k THEN copy ELSE content[p[2]][j]
  <2>1. CopyMade(t, b, k, origin, copy) => copy \notin Copies(t)
    BY <1>1, NewMapIs DEF CopyMade, AllCopies
  <2> QED
    BY <1>2, <1>4, <2>1 DEF CopyMet, CopyMade
<1>8. ASSUME NEW p \in copied[t], NEW j \in Keys
      PROVE  \/ content'[p[2]][j] = content'[p[1]][j]
             \/ << content'[p[1]][j], content'[p[2]][j] >> \in copied'[t]
  <2>1. content'[p[1]][j] = content[p[1]][j]
    BY <1>3, <1>4
  <2>2. CASE p[2] = b /\ j = k
    BY <1>5, <1>6, <1>7, <2>1, <2>2
  <2>3. CASE ~(p[2] = b /\ j = k)
    <3>1. content'[p[2]][j] = content[p[2]][j]
      BY <1>7, <2>3
    <3> QED
      BY <1>6, <2>1, <3>1 DEF SameShape
  <2> QED
    BY <2>2, <2>3
<1>9. CASE CopyMet(t, b, k, origin, copy)
  <2>1. copied'[t] = copied[t] /\ Originals(t)' = Originals(t)
    BY <1>9 DEF CopyMet, Originals
  <2>2. OriginalsKnown(t)'
    BY <1>3, <2>1 DEF OriginalsKnown
  <2>3. SameShape(t)'
    BY <1>8, <2>1 DEF SameShape
  <2> QED
    BY <2>2, <2>3
<1>10. CASE CopyMade(t, b, k, origin, copy)
  <2>1. copied'[t] = copied[t] \cup {<< origin, copy >>}
    BY <1>10 DEF CopyMade
  <2>2. Originals(t)' = Originals(t) \cup {origin}
    <3>1. Originals(t)' = Firsts(copied'[t]) /\ Originals(t) = Firsts(copied[t])
      BY DEF Originals, Firsts
    <3>2. Firsts(copied[t] \cup {<< origin, copy >>}) = Firsts(copied[t]) \cup {origin}
      BY OneMoreFirst
    <3> QED
      BY <2>1, <3>1, <3>2
  <2>3. origin # copy /\ origin \notin AllCopies
    <3>1. copy = NewMap /\ Unused # {}
      BY <1>10 DEF CopyMade
    <3>2. origin # copy
      BY <1>1, <1>2, <3>1, NewMapIs
    <3>3. \A u \in Threads \ {t} : b \notin Copies(u)
      BY <1>1, <1>2 DEF CopiesArePrivate
    <3>4. \A u \in Threads \ {t} : origin \notin Copies(u)
      BY <1>1, <1>2, <3>3 DEF CopiesArePrivate
    <3> QED
      BY <1>2, <3>2, <3>4 DEF AllCopies
  <2>4. origin \notin AllCopies'
    <3>1. Copies(t)' = Copies(t) \cup {copy}
      <4>1. Copies(t)' = Seconds(copied'[t]) /\ Copies(t) = Seconds(copied[t])
        BY DEF Copies, Seconds
      <4>2. Seconds(copied[t] \cup {<< origin, copy >>}) = Seconds(copied[t]) \cup {copy}
        BY OneMoreSecond
      <4> QED
        BY <2>1, <4>1, <4>2
    <3>2. OnlyActs(t)
      BY ActsMoves DEF Acts, Step
    <3>3. AllCopies' = AllCopies \cup {copy}
      BY <3>1, <3>2, CopiesGrow
    <3> QED
      BY <2>3, <3>3
  <2>5. \E q \in Originals(t), j \in Keys : content'[q][j] = origin
    <3>1. PICK p \in copied[t] : p[2] = b
      BY <1>2 DEF Copies
    <3> QED
      BY <1>3, <1>4, <1>5, <3>1
  <2>6. OriginalsKnown(t)'
    BY <1>3, <2>2, <2>4, <2>5 DEF OriginalsKnown
  <2>7. \A j \in Keys : content'[copy][j] = content'[origin][j]
    <3>1. origin # b
      BY <1>2
    <3> QED
      BY <1>2, <1>10, <2>3, <3>1 DEF CopyMade
  <2>8. ASSUME NEW p \in copied'[t], NEW j \in Keys
        PROVE  \/ content'[p[2]][j] = content'[p[1]][j]
               \/ << content'[p[1]][j], content'[p[2]][j] >> \in copied'[t]
    <3>1. CASE p \in copied[t]
      BY <1>8, <3>1
    <3>2. CASE p = << origin, copy >>
      <4>1. p[1] = origin /\ p[2] = copy
        BY <3>2
      <4> QED
        BY <2>7, <4>1
    <3> QED
      BY <2>1, <3>1, <3>2
  <2>9. SameShape(t)'
    BY <2>8 DEF SameShape
  <2> QED
    BY <2>6, <2>9
<1> QED
  BY <1>2, <1>9, <1>10

LEMMA ShapeActs ==
  ASSUME LocksInv, ShapeInv, NEW t \in Threads, Acts(t)
  PROVE  ShapeInv'
<1> SUFFICES ASSUME OnlyCopies', NEW u \in Threads
             PROVE  OriginalsKnown(u)' /\ SameShape(u)'
  BY DEF ShapeInv
<1>1. OnlyCopies /\ (CopyRoot(t) \/ CopyChild(t) \/ UNCHANGED << content, copied >>)
  BY OnlyCopiesBefore
<1>2. \A v \in Threads : OriginalsKnown(v) /\ SameShape(v)
  BY <1>1 DEF ShapeInv
<1>3. CASE UNCHANGED << content, copied >>
  <2>1. Originals(u)' = Originals(u) /\ AllCopies' = AllCopies
    BY <1>3 DEF Originals, AllCopies, Copies
  <2> QED
    BY <1>2, <1>3, <2>1 DEF OriginalsKnown, SameShape
<1>4. CASE u # t /\ (CopyRoot(t) \/ CopyChild(t))
  BY <1>2, <1>4, ShapeOfOthers
<1>5. CASE u = t /\ CopyRoot(t)
  BY <1>5, ShapeOfRoot
<1>6. CASE u = t /\ CopyChild(t)
  BY <1>2, <1>6, ShapeOfChild
<1> QED
  BY <1>1, <1>3, <1>4, <1>5, <1>6

-----------------------------------------------------------------------------
(* f[i] is what m leads to in at most i items.                             *)
Spreads(m, f, n) ==
  f = [i \in 0 .. n |-> IF i = 0 THEN {m} ELSE Around(f[i - 1])]

LEMMA SpreadExists ==
  ASSUME NEW m, NEW n \in Nat
  PROVE  \E f : Spreads(m, f, n)
<1> DEFINE Bad == {i \in Nat : ~ \E f : Spreads(m, f, i)}
<1> SUFFICES Bad = {}
  OBVIOUS
<1> SUFFICES ASSUME Bad # {} PROVE FALSE
  OBVIOUS
<1>1. PICK i \in Bad : \A j \in Bad : i <= j
  BY LeastNumber
<1>2. CASE i = 0
  <2> DEFINE f == [j \in 0 .. 0 |-> {m}]
  <2>1. f = [j \in 0 .. 0 |-> IF j = 0 THEN {m} ELSE Around(f[j - 1])]
    OBVIOUS
  <2> QED
    BY <1>2, <2>1 DEF Spreads
<1>3. CASE i # 0
  <2>1. i - 1 \in Nat /\ ~(i <= i - 1)
    BY <1>3
  <2>2. PICK g : Spreads(m, g, i - 1)
    BY <1>1, <2>1
  <2> DEFINE f == [j \in 0 .. i |-> IF j < i THEN g[j] ELSE Around(g[i - 1])]
             F(j) == IF j = 0 THEN {m} ELSE Around(f[j - 1])
  <2>3. \A j \in 0 .. i - 1 : f[j] = g[j]
    BY <1>3
  <2>4. ASSUME NEW j \in 0 .. i PROVE f[j] = F(j)
    <3>1. CASE j = i
      <4>1. f[i] = Around(g[i - 1]) /\ i - 1 \in 0 .. i - 1
        BY <1>3
      <4> QED
        BY <1>3, <2>3, <3>1, <4>1
    <3>2. CASE j # i
      <4>1. j \in 0 .. i - 1
        BY <3>2
      <4>2. g[j] = IF j = 0 THEN {m} ELSE Around(g[j - 1])
        BY <2>2, <4>1 DEF Spreads
      <4>3. j # 0 => j - 1 \in 0 .. i - 1
        BY <4>1
      <4> HIDE DEF f
      <4> QED
        BY <2>3, <4>1, <4>2, <4>3
    <3> QED
      BY <3>1, <3>2
  <2>5. f = [j \in 0 .. i |-> f[j]]
    OBVIOUS
  <2>6. f = [j \in 0 .. i |-> F(j)]
    <3> HIDE DEF f
    <3> QED
      BY <2>4, <2>5
  <2>7. Spreads(m, f, i)
    BY <2>6 DEF Spreads
  <2> QED
    BY <2>7
<1> QED
  BY <1>2, <1>3

LEMMA SpreadWithin ==
  ASSUME NEW m, NEW f, NEW n \in Nat, Spreads(m, f, n), NEW C, m \in C,
         \A q \in C, k \in Keys : content[q][k] \in Maps => content[q][k] \in C
  PROVE  f[n] \subseteq C
<1> DEFINE Bad == {i \in 0 .. n : ~(f[i] \subseteq C)}
<1> SUFFICES ASSUME Bad # {} PROVE FALSE
  OBVIOUS
<1>1. Bad \in SUBSET Nat
  OBVIOUS
<1>2. PICK i \in Bad : \A j \in Bad : i <= j
  BY <1>1, LeastNumber
<1>3. f[i] = IF i = 0 THEN {m} ELSE Around(f[i - 1])
  BY DEF Spreads
<1>4. i # 0
  BY <1>3
<1>5. i - 1 \in 0 .. n /\ ~(i <= i - 1)
  BY <1>4
<1>6. f[i - 1] \subseteq C
  BY <1>2, <1>5
<1> QED
  BY <1>3, <1>4, <1>6 DEF Around

LEMMA SpreadCovers ==
  ASSUME NEW r, NEW f, NEW n \in Nat, Spreads(r, f, n),
         NEW C \in SUBSET Maps, NEW d, NEW e \in Nat, HangsOn(content, C, r, d, e), e <= n + 1
  PROVE  C \subseteq f[n]
<1> DEFINE Near(c, i) == c = r \/ d[c] <= i
           Bad == {i \in 0 .. n : \E c \in C : Near(c, i) /\ c \notin f[i]}
<1>1. \A c \in C : d[c] \in 0 .. e - 1
  BY DEF HangsOn
<1>2. Bad = {}
  <2> SUFFICES ASSUME Bad # {} PROVE FALSE
    OBVIOUS
  <2>1. Bad \in SUBSET Nat
    OBVIOUS
  <2>2. PICK i \in Bad : \A j \in Bad : i <= j
    BY <2>1, LeastNumber
  <2>3. f[i] = IF i = 0 THEN {r} ELSE Around(f[i - 1])
    BY DEF Spreads
  <2>4. PICK c \in C : Near(c, i) /\ c \notin f[i]
    OBVIOUS
  <2>5. CASE i = 0
    <3>1. c # r /\ d[c] <= 0
      BY <2>3, <2>4, <2>5
    <3>2. PICK b \in C : d[c] = d[b] + 1
      BY <3>1 DEF HangsOn
    <3> QED
      BY <1>1, <3>1, <3>2
  <2>6. CASE i # 0
    <3>1. i - 1 \in 0 .. n /\ ~(i <= i - 1)
      BY <2>6
    <3>2. \A b \in C : Near(b, i - 1) => b \in f[i - 1]
      BY <2>2, <3>1
    <3>3. c # r /\ d[c] <= i
      <4>1. c \notin f[i - 1]
        BY <2>3, <2>4, <2>6 DEF Around
      <4> QED
        BY <2>4, <3>2, <4>1
    <3>4. PICK b \in C, k \in Keys : content[b][k] = c /\ d[c] = d[b] + 1
      BY <3>3 DEF HangsOn
    <3>5. d[b] <= i - 1
      BY <1>1, <3>3, <3>4
    <3>6. b \in f[i - 1]
      BY <3>2, <3>5
    <3> QED
      BY <2>3, <2>4, <2>6, <3>4, <3>6 DEF Around
  <2> QED
    BY <2>5, <2>6
<1>3. ASSUME NEW c \in C PROVE c \in f[n]
  <2>1. n \in 0 .. n /\ d[c] <= n
    BY <1>1
  <2> QED
    BY <1>2, <2>1
<1> QED
  BY <1>3

LEMMA ReachedIs ==
  ASSUME NEW m
  PROVE  \E f : Spreads(m, f, Cardinality(Maps)) /\ Reached(m) = f[Cardinality(Maps)]
<1> DEFINE n == Cardinality(Maps)
           within[i \in 0 .. n] == IF i = 0 THEN {m} ELSE Around(within[i - 1])
<1>1. n \in Nat
  BY FS_CardinalityType DEF LocksAssumption
<1>2. \E g : g = [i \in 0 .. n |-> IF i = 0 THEN {m} ELSE Around(g[i - 1])]
  <2>1. PICK g : Spreads(m, g, n)
    BY <1>1, SpreadExists
  <2>2. g = [i \in 0 .. n |-> IF i = 0 THEN {m} ELSE Around(g[i - 1])]
    BY <2>1 DEF Spreads
  <2> QED
    BY <2>2
<1>3. within = [i \in 0 .. n |-> IF i = 0 THEN {m} ELSE Around(within[i - 1])]
  BY <1>2
<1>4. Reached(m) = within[n]
  BY DEF Reached
<1> HIDE DEF within
<1>5. Spreads(m, within, n)
  BY <1>3 DEF Spreads
<1> QED
  BY <1>4, <1>5

LEMMA NothingToCopy ==
  ASSUME NEW t \in Threads, ToCopy(t) = {}, NEW b \in Copies(t), NEW k \in Keys, content[b][k] \in Maps
  PROVE  content[b][k] \in Copies(t)
<1>1. PICK cell \in Copies(t) \X Keys : cell = << b, k >>
  OBVIOUS
<1>2. cell[1] = b /\ cell[2] = k
  BY <1>1
<1>3. cell \notin ToCopy(t)
  OBVIOUS
<1> QED
  BY <1>2, <1>3 DEF ToCopy

(* A copy that is done is what its root leads to, no less and no more.     *)
LEMMA CopyIsReached ==
  ASSUME LocksInv, NEW t \in Threads, CopyHolds(t), copied[t] # {}, pc[t] = "done"
  PROVE  Reached(ret[t]) = Copies(t)
<1>1. ret[t] \in Copies(t) /\ Hangs(t) /\ ToCopy(t) = {}
  BY DEF CopyHolds
<1>2. Copies(t) \subseteq Maps
  <2>1. copied[t] \subseteq Maps \X Maps
    BY DEF LocksInv, LocksTyped
  <2> QED
    BY <2>1 DEF Copies
<1>3. \A q \in Copies(t), k \in Keys : content[q][k] \in Maps => content[q][k] \in Copies(t)
  BY <1>1, NothingToCopy
<1>4. PICK r, C, n, e : r = ret[t] /\ C = Copies(t) /\ n = Cardinality(Maps) /\ e = Cardinality(Copies(t))
  OBVIOUS
<1>5. n \in Nat /\ e \in Nat /\ e <= n
  BY <1>2, <1>4, FS_CardinalityType, FS_Subset DEF LocksAssumption
<1>6. PICK d : HangsOn(content, C, r, d, e)
  BY <1>1, <1>4 DEF Hangs
<1>7. PICK f : Spreads(r, f, n) /\ Reached(ret[t]) = f[n]
  BY <1>4, ReachedIs
<1>8. f[n] \subseteq C
  BY <1>1, <1>3, <1>4, <1>5, <1>7, SpreadWithin
<1>9. C \subseteq f[n]
  <2>1. e <= n + 1 /\ C \in SUBSET Maps
    BY <1>2, <1>4, <1>5
  <2> QED
    BY <1>5, <1>6, <1>7, <2>1, SpreadCovers
<1> QED
  BY <1>4, <1>7, <1>8, <1>9

(* No script reaches it yet.                                               *)
LEMMA CopyIsApart ==
  ASSUME LocksInv, NEW t \in Threads, NEW r \in Roots
  PROVE  Reached(r) \cap Copies(t) = {}
<1>1. r \in Maps \ Copies(t) /\ \A m \in Maps \ Copies(t), k \in Keys : content[m][k] \notin Copies(t)
  BY DEF LocksInv, CopiesArePrivate, LocksAssumption
<1>2. PICK C, n : C = Maps \ Copies(t) /\ n = Cardinality(Maps)
  OBVIOUS
<1>3. r \in C /\ \A q \in C, k \in Keys : content[q][k] \in Maps => content[q][k] \in C
  BY <1>1, <1>2
<1>4. n \in Nat
  BY <1>2, FS_CardinalityType DEF LocksAssumption
<1>5. PICK f : Spreads(r, f, n) /\ Reached(r) = f[n]
  BY <1>2, ReachedIs
<1>6. f[n] \subseteq C
  BY <1>3, <1>4, <1>5, SpreadWithin
<1> QED
  BY <1>2, <1>5, <1>6

LEMMA CopyHasShape ==
  ASSUME LocksInv, NEW t \in Threads, CopyHolds(t), pc[t] = "done", OriginalsKnown(t), SameShape(t),
         NEW p \in copied[t], NEW k \in Keys
  PROVE  content[p[2]][k] = CopyOf(t, content[p[1]][k])
<1>1. copied[t] \subseteq Maps \X Maps /\ copied[t] # {}
  BY DEF LocksInv, LocksTyped
<1>2. OneToOne(t) /\ ToCopy(t) = {}
  BY <1>1 DEF CopyHolds
<1>3. p[1] \in Maps /\ p[2] \in Copies(t) /\ p[1] \in Originals(t) /\ p[1] \notin AllCopies
  BY <1>1 DEF Copies, Originals, OriginalsKnown
<1>4. PICK item, new : item = content[p[1]][k] /\ new = content[p[2]][k]
  OBVIOUS
<1>5. new = item \/ << item, new >> \in copied[t]
  BY <1>4 DEF SameShape
<1>6. CASE item \notin Maps
  <2>1. new = item
    BY <1>1, <1>5, <1>6
  <2> QED
    BY <1>4, <1>6, <2>1 DEF CopyOf
<1>7. CASE item \in Maps
  <2>1. item \notin Copies(t)
    BY <1>3, <1>4, OutsideCopies DEF LocksInv, AllCopies
  <2>2. new # item
    BY <1>2, <1>3, <1>4, <1>7, <2>1, NothingToCopy
  <2>3. << item, new >> \in copied[t] /\ new \in Maps
    BY <1>1, <1>5, <2>2
  <2>4. \A m \in Maps : << item, m >> \in copied[t] => m = new
    <3>1. ASSUME NEW m \in Maps, << item, m >> \in copied[t] PROVE m = new
      <4>1. << item, m >>[1] = << item, new >>[1]
        OBVIOUS
      <4>2. << item, m >>[2] = << item, new >>[2]
        BY <1>2, <2>3, <3>1, <4>1 DEF OneToOne
      <4> QED
        BY <4>2
    <3> QED
      BY <3>1
  <2>5. (CHOOSE m \in Maps : << item, m >> \in copied[t]) = new
    BY <2>3, <2>4
  <2> QED
    BY <1>4, <1>7, <2>5 DEF CopyOf
<1> QED
  BY <1>6, <1>7

LEMMA CopyFaithful ==
  ASSUME LocksInv, ShapeInv, \A t \in Threads : CopyHolds(t)
  PROVE  CopyIsFaithful
<1> SUFFICES ASSUME NEW t \in Made("copy"), pc[t] = "done"
             PROVE  /\ Reached(ret[t]) = Copies(t)
                    /\ \A r \in Roots : Reached(r) \cap Copies(t) = {}
                    /\ \A p, q \in copied[t] : p[1] = q[1] <=> p[2] = q[2]
                    /\ OnlyCopies => \A p \in copied[t], k \in Keys :
                                       content[p[2]][k] = CopyOf(t, content[p[1]][k])
  BY DEF CopyIsFaithful, OnlyCopies
<1>1. t \in Threads /\ copied[t] # {}
  BY DEF Made, LocksInv, NativeKnows
<1>2. OneToOne(t)
  BY <1>1 DEF CopyHolds
<1>3. OnlyCopies => OriginalsKnown(t) /\ SameShape(t)
  BY <1>1 DEF ShapeInv
<1>4. OnlyCopies => \A p \in copied[t], k \in Keys : content[p[2]][k] = CopyOf(t, content[p[1]][k])
  BY <1>1, <1>3, CopyHasShape
<1> QED
  BY <1>1, <1>2, <1>4, CopyIsReached, CopyIsApart DEF OneToOne

CopyInv == ShapeInv /\ \A t \in Threads : CopyHolds(t)

LEMMA CopyStutter ==
  ASSUME LocksInv, CopyInv, UNCHANGED lockVars
  PROVE  CopyInv'
<1> USE DEF lockVars
<1>1. ASSUME NEW t \in Threads
      PROVE  Copies(t)' = Copies(t) /\ AllCopies' = AllCopies /\ Originals(t)' = Originals(t)
  BY DEF Copies, AllCopies, Originals
<1>2. ShapeInv'
  BY <1>1 DEF CopyInv, ShapeInv, OnlyCopies, Made, OriginalsKnown, SameShape
<1>3. ASSUME NEW t \in Threads PROVE CopyHolds(t)'
  BY <1>1 DEF CopyInv, CopyHolds, OneToOne, Hangs, ToCopy
<1> QED
  BY <1>2, <1>3 DEF CopyInv

(* deep_copy returns a structure of its own whatever other natives do, and *)
(* one of the same shape, cycles and shared containers included, if they   *)
(* only copy.                                                              *)
THEOREM CopiesAreFaithful == LocksSpec => []CopyIsFaithful
<1>1. LocksInit => LocksInv /\ CopyInv
  <2> SUFFICES ASSUME LocksInit PROVE LocksInv /\ CopyInv
    OBVIOUS
  <2>1. \A t \in Threads : copied[t] = {}
    BY DEF LocksInit
  <2>2. CopyInv
    BY <2>1 DEF CopyInv, ShapeInv, CopyHolds, OriginalsKnown, Originals, SameShape
  <2> QED
    BY <2>2, LocksBegin
<1>2. LocksInv /\ CopyInv /\ [LocksNext]_lockVars => (LocksInv /\ CopyInv)'
  <2> SUFFICES ASSUME LocksInv, CopyInv, [LocksNext]_lockVars
               PROVE  LocksInv' /\ CopyInv'
    OBVIOUS
  <2>1. CASE LocksNext
    <3>1. LocksInv' /\ \E t \in Threads : Acts(t)
      BY <2>1, LocksActs
    <3>2. PICK t \in Threads : Acts(t)
      BY <3>1
    <3>3. ShapeInv' /\ \A u \in Threads : CopyHolds(u)'
      BY <3>2, ShapeActs, HoldsActs DEF CopyInv
    <3> QED
      BY <3>1, <3>3 DEF CopyInv
  <2>2. CASE UNCHANGED lockVars
    BY <2>2, CopyStutter, LocksSame
  <2> QED
    BY <2>1, <2>2
<1>3. LocksInv /\ CopyInv => CopyIsFaithful
  BY CopyFaithful DEF CopyInv
<1> QED
  BY <1>1, <1>2, <1>3, PTL DEF LocksSpec
=============================================================================
