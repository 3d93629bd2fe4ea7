---------------------------- MODULE ReleaseRace ----------------------------
(***************************************************************************)
(* The reference counters of one object, load by load.  ObjectLifetime     *)
(* takes a release as one step; in the code it is a test, a decrement,     *)
(* four loads (noOwners) and a call into the queue, each atomic for itself *)
(* only, and _aqueue_release sums four loads before it deletes.  Threads   *)
(* run one native each; the timer thread runs tick.                        *)
(*                                                                         *)
(* The object has an id from the start.  After it was freed nothing here   *)
(* touches it any more: what a thread would do to freed memory is          *)
(* undefined, and the properties look at the moment it is freed.           *)
(***************************************************************************)
EXTENDS Integers, FiniteSets, Sequences

CONSTANTS
  Threads,
  Casts   (* what the threads do, and what was before: records of          *)
          (*   role      what each thread does                             *)
          (*   retained  the number of JValue.retain calls before          *)
          (*   ticking   whether the timer runs                            *)

Roles == {
  "leave",     (* leaves a native that had the object as an argument       *)
  "erase",     (* erases the object from a container                       *)
  "insert",    (* puts the object, an argument, into a container           *)
  "resolve",   (* resolves the object's id, over and over                  *)
  "release",   (* runs JValue.release on it                                *)
  "retain",    (* runs JValue.retain on it                                 *)
  "untag",     (* runs JValue.releaseObjectsWithTag, which finds it        *)
  "nothing"}   (* has returned                                             *)

ASSUME RaceAssumption ==
  /\ IsFiniteSet(Threads)
  /\ Casts \subseteq [role : [Threads -> Roles], retained : Nat, ticking : BOOLEAN]

VARIABLES
  cast,       (* the cast of this behaviour                                *)
  count,      (* the four counters, by name                                *)
  inQueue,    (* references the deque holds                                *)
  toRelease,  (* references _toRelease holds                               *)
  inMap,      (* whether the registry resolves the id                      *)
  exists,     (* FALSE once the object is freed                            *)
  pc,         (* where each thread is                                      *)
  dropping,   (* the counter each thread decrements next, or last          *)
  load,       (* the loads of noOwners a thread has done                   *)
  tickPc, unread, sum,  (* the timer thread, the counters it has not       *)
                        (* loaded yet and the sum of the others            *)
  scanning,   (* whether it is in the scan, with _queue_mutex locked       *)
  taken,      (* the counters in which a reference was taken since the     *)
              (* present sum was begun, and whether a negative counter     *)
  cancelled   (* was loaded into it: a history of the sum                  *)

object == << inQueue, toRelease, inMap, exists >>

threads == << pc, dropping, load >>

timer == << tickPc, unread, sum, scanning, cancelled >>

vars == << cast, count, object, threads, timer, taken >>

Counters == {"rc", "tes", "stack", "aq"}

Role(r) == {t \in Threads : cast.role[t] = r}

(* Natives with the object as an argument, or in a list of stack           *)
(* references, hold it on their stack.                                     *)
Callers == Role("leave") \cup Role("insert") \cup Role("release") \cup Role("retain")
             \cup Role("untag")

(* The order of the loads, which && prescribes.                            *)
noOwners_loads == << "rc", "tes", "aq", "stack" >>

(* Faulty variant: JValue.retain forgotten.                                *)
refCount_addends_without_tes == Counters \ {"tes"}

(* What refCount() adds up, in an order the compiler may choose.           *)
refCount_addends == Counters

-----------------------------------------------------------------------------
Init ==
  /\ cast \in Casts
  /\ inQueue \in {0, 1}
  /\ count = [rc    |-> Cardinality(Role("erase")),
              tes   |-> cast.retained,
              stack |-> Cardinality(Callers),
              aq    |-> inQueue]
  /\ \E c \in Counters : count[c] > 0
  /\ toRelease = 0
  /\ inMap = TRUE
  /\ exists = TRUE
  /\ pc = [t \in Threads |->
             IF t \in Role("insert") \cup Role("resolve") \cup Role("retain") THEN "begin"
             ELSE IF t \in Role("untag") THEN "loop"
             ELSE IF t \in Role("nothing") THEN "done" ELSE "test"]
  /\ dropping = [t \in Threads |->
                   IF t \in Role("erase") THEN "rc"
                   ELSE IF t \in Role("release") \cup Role("untag") THEN "tes"
                   ELSE "stack"]
  /\ load = [t \in Threads |-> 1]
  /\ tickPc = "wait"
  /\ unread = {}
  /\ sum = 0
  /\ scanning = FALSE
  /\ taken = {}
  /\ cancelled = FALSE

(* refCount() begins.                                                      *)
BeginSum ==
  /\ tickPc' = "refCount" /\ unread' = refCount_addends /\ sum' = 0
  /\ taken' = {} /\ cancelled' = FALSE

Goto(t, label) == pc' = [pc EXCEPT ![t] = label]

(* One release is over.  JValue.release and releaseObjectsWithTag give     *)
(* their stack reference back in the end, the latter when its loop ends.   *)
AfterRelease(t) ==
  IF dropping[t] = "tes"
  THEN IF t \in Role("untag")
       THEN Goto(t, "loop") /\ UNCHANGED dropping
       ELSE Goto(t, "test") /\ dropping' = [dropping EXCEPT ![t] = "stack"]
  ELSE /\ Goto(t, IF t \in Role("resolve") THEN "begin" ELSE "done")
       /\ UNCHANGED dropping

(* A reference of kind c is taken.                                         *)
Take(c) ==
  /\ count' = [count EXCEPT ![c] = @ + 1]
  /\ taken' = IF tickPc = "wait" THEN taken ELSE taken \cup {c}

(* object_base::retain, from a container's item.                           *)
Retain(t) ==
  /\ t \in Role("insert") /\ pc[t] = "begin" /\ exists
  /\ Take("rc")
  /\ Goto(t, "test")
  /\ UNCHANGED << cast, object, dropping, load, timer >>

(* getObjectRef: found and stack_retained under one read lock.             *)
GetObjectRef(t) ==
  /\ t \in Role("resolve") /\ pc[t] = "begin" /\ inMap
  /\ Take("stack")
  /\ Goto(t, "test")
  /\ UNCHANGED << cast, object, dropping, load, timer >>

(* tes_retain counts first ...                                             *)
TesRetain(t) ==
  /\ t \in Role("retain") /\ pc[t] = "begin" /\ exists
  /\ Take("tes")
  /\ Goto(t, "notProlong")
  /\ UNCHANGED << cast, object, dropping, load, timer >>

(* ... and then makes a queued object due, under the queue's mutex.  (The  *)
(* object is due to a tick at any time here.)                              *)
NotProlongLifetime(t) ==
  /\ pc[t] = "notProlong" /\ exists
  /\ count.aq > 0 => ~scanning
  /\ Goto(t, "test")
  /\ UNCHANGED << cast, count, object, dropping, load, timer, taken >>

(* Faulty variant: the loop runs on while the counter is not negative.     *)
loops_not_negative == count.tes >= 0

(* while (ref->_tes_refCount != 0)                                         *)
loops == count.tes # 0

Loop(t) ==
  /\ t \in Role("untag") /\ pc[t] = "loop" /\ exists
  /\ Goto(t, "test")
  /\ dropping' = IF loops THEN dropping ELSE [dropping EXCEPT ![t] = "stack"]
  /\ UNCHANGED << cast, count, object, load, timer, taken >>

(* release, tes_release, stack_release: "if (counter > 0)"                 *)
Test(t) ==
  /\ pc[t] = "test" /\ exists
  /\ IF count[dropping[t]] > 0
     THEN Goto(t, "decrement") /\ UNCHANGED dropping
     ELSE AfterRelease(t)
  /\ UNCHANGED << cast, count, object, load, timer, taken >>

(* Faulty variant: the queue's count is mistaken for the stack's.          *)
Decrement_of_queue(t) ==
  /\ pc[t] = "decrement" /\ exists
  /\ count' = [count EXCEPT ![IF dropping[t] = "stack" THEN "aq" ELSE dropping[t]] = @ - 1]
  /\ Goto(t, "noOwners")
  /\ load' = [load EXCEPT ![t] = 1]
  /\ UNCHANGED << cast, object, dropping, timer, taken >>

Decrement(t) ==
  /\ pc[t] = "decrement" /\ exists
  /\ count' = [count EXCEPT ![dropping[t]] = @ - 1]
  /\ Goto(t, "noOwners")
  /\ load' = [load EXCEPT ![t] = 1]
  /\ UNCHANGED << cast, object, dropping, timer, taken >>

(* Faulty variant: an owner is somebody who would count below zero.        *)
is_unowned_off_by_one(n) == n < 0

is_unowned(n) == n <= 0

NoOwners(t) ==
  /\ pc[t] = "noOwners" /\ exists
  /\ LET unowned == is_unowned(count[noOwners_loads[load[t]]]) IN
     \/ /\ unowned /\ load[t] < 4
        /\ load' = [load EXCEPT ![t] = @ + 1]
        /\ UNCHANGED << pc, dropping >>
     \/ /\ unowned /\ load[t] = 4
        /\ Goto(t, "prolong")
        /\ UNCHANGED << dropping, load >>
     \/ /\ ~unowned
        /\ AfterRelease(t)
        /\ UNCHANGED load
  /\ UNCHANGED << cast, count, object, timer, taken >>

(* Faulty variant: whoever comes pushes.                                   *)
may_push_always == TRUE

(* if (!object.is_in_aqueue())                                             *)
may_push == count.aq <= 0

(* autorelease_queue::prolong_lifetime, under the queue's mutex.           *)
ProlongLifetime(t) ==
  /\ pc[t] = "prolong" /\ exists /\ ~scanning
  /\ IF may_push
     THEN /\ inQueue' = inQueue + 1
          /\ count' = [count EXCEPT !.aq = @ + 1]
     ELSE UNCHANGED << inQueue, count >>
  /\ AfterRelease(t)
  /\ UNCHANGED << cast, toRelease, inMap, exists, load, timer, taken >>

-----------------------------------------------------------------------------
(* tick(), in the scan under the queue's mutex; the object is due.  The    *)
(* predicate of remove_if gets a constant reference: std::move copies.     *)
TickScan ==
  /\ cast.ticking
  /\ tickPc = "wait" /\ inQueue > 0 /\ exists
  /\ toRelease' = toRelease + 1
  /\ count' = [count EXCEPT !.aq = @ + 1]
  /\ scanning' = TRUE
  /\ BeginSum
  /\ UNCHANGED << cast, inQueue, inMap, exists, threads >>

(* _aqueue_release, for the queue's reference in the scan, where remove_if *)
(* or erase destroys it, and for _toRelease's after it: sums the counters  *)
TickLoad ==
  /\ tickPc = "refCount"
  /\ \E c \in unread :
       /\ sum' = sum + count[c]
       /\ cancelled' = (cancelled \/ count[c] < 0)
       /\ unread' = unread \ {c}
       /\ tickPc' = IF unread = {c} THEN "verdict" ELSE "refCount"
  /\ UNCHANGED << cast, count, object, threads, scanning, taken >>

(* The reference that _aqueue_release is called for is gone.               *)
ReferenceGoes ==
  IF scanning THEN inQueue' = inQueue - 1 /\ UNCHANGED toRelease
              ELSE toRelease' = toRelease - 1 /\ UNCHANGED inQueue

(* ... and gives the reference up - the scan ends, _toRelease.clear()      *)
(* begins - or goes on to delete.                                          *)
TickForget ==
  /\ tickPc = "verdict" /\ sum > 1
  /\ count' = [count EXCEPT !.aq = @ - 1]
  /\ ReferenceGoes
  /\ scanning' = FALSE
  /\ IF scanning THEN BeginSum
                 ELSE tickPc' = "wait" /\ taken' = {} /\ UNCHANGED << unread, sum, cancelled >>
  /\ UNCHANGED << cast, inMap, exists, threads >>

TickReset ==
  /\ tickPc = "verdict" /\ sum <= 1
  /\ count' = [count EXCEPT !.aq = 0]
  /\ ReferenceGoes
  /\ tickPc' = "remove"
  /\ UNCHANGED << cast, inMap, exists, threads, unread, sum, scanning, taken, cancelled >>

(* removeObject, under the registry's write lock                           *)
TickRemove ==
  /\ tickPc = "remove"
  /\ inMap' = FALSE
  /\ tickPc' = "free"
  /\ UNCHANGED << cast, count, inQueue, toRelease, exists, threads, unread, sum >>
  /\ UNCHANGED << scanning, taken, cancelled >>

(* delete this                                                             *)
TickFree ==
  /\ tickPc = "free"
  /\ exists' = FALSE
  /\ tickPc' = "wait"
  /\ scanning' = FALSE
  /\ UNCHANGED << cast, count, inQueue, toRelease, inMap, threads, unread, sum >>
  /\ UNCHANGED << taken, cancelled >>

Step(t) == \/ Retain(t)
           \/ GetObjectRef(t)
           \/ TesRetain(t)
           \/ NotProlongLifetime(t)
           \/ Loop(t)
           \/ Test(t)
           \/ Decrement(t)
           \/ NoOwners(t)
           \/ ProlongLifetime(t)

Timer == \/ TickScan
         \/ TickLoad
         \/ TickForget
         \/ TickReset
         \/ TickRemove
         \/ TickFree

Next == Timer \/ \E t \in Threads : Step(t)

Spec == Init /\ [][Next]_vars

(* The scheduler runs every thread.                                        *)
FairSpec == Spec /\ WF_vars(Timer) /\ \A t \in Threads : WF_vars(Step(t))

-----------------------------------------------------------------------------
(* However calls race with each other and with the timer, the queue owns   *)
(* the object once, twice within a scan, and _aqueue_refCount is the number *)
(* of its references.  Only a sum that a negative counter went into can    *)
(* delete the object inside the scan; _toRelease is left dangling then.    *)
DeletedInScan ==
  /\ tickPc \in {"remove", "free"} \/ ~exists
  /\ cancelled
  /\ count.aq = 0 /\ inQueue = 0 /\ toRelease = 1

QueuedOnce ==
  /\ inQueue <= 1 /\ toRelease <= 1
  /\ inQueue + toRelease = 2 => scanning
  /\ count.aq = inQueue + toRelease \/ DeletedInScan

(* A thread has a stack reference until it has decremented the counter.    *)
Holding(t) ==
  IF t \in Role("resolve") THEN pc[t] \in {"test", "decrement"}
  ELSE /\ t \in Callers
       /\ dropping[t] = "stack" => pc[t] \in {"begin", "notProlong", "test", "decrement"}

(* Calls that give back only what they hold never lose a decrement of the  *)
(* stack's counter, nor find nothing to decrement.                         *)
StackCountExact == exists => count.stack = Cardinality({t \in Threads : Holding(t)})

(* _aqueue_release adds up loads of different moments.  What a container,  *)
(* a script's retain or a call owns is freed in two cases only: that kind  *)
(* of reference was taken while the sum was being computed, by retain,     *)
(* tes_retain or getObjectRef, or a counter that JValue.release had made   *)
(* negative cancelled another one in the sum.                              *)
FreedByRaceOnly ==
  ~exists => \A c \in {"rc", "tes", "stack"} : count[c] > 0 => c \in taken \/ cancelled

(* "we must ensure that not-owned object will not hang forever" (uid):     *)
(* when all calls have returned the object has an owner, or is gone.       *)
Quiet == tickPc = "wait" /\ \A t \in Threads : pc[t] \in {"begin", "done"}

NotHanging == Quiet /\ exists => \E c \in Counters : count[c] > 0

(* However many calls let it go together, the object is left to the queue: *)
(* only a race with a tick can leave it to nobody.                         *)
HandedOver == ~cast.ticking => NotHanging

(* getObjectRef: "we really must own an object BEFORE read lock will be    *)
(* released": an object that is freed is owned by no call.                 *)
FreedUnheld == ~exists => count.stack <= 0

(* Every call returns, releaseObjectsWithTag's loop included, as long as   *)
(* no two of them give back what was retained at the same time.            *)
ReleasedTogether == Cardinality(Role("release") \cup Role("untag")) > 1

CallsReturn ==
  \A t \in Threads :
    <>(pc[t] = "done" \/ t \in Role("resolve") \/ ReleasedTogether \/ cast.ticking)
=============================================================================
