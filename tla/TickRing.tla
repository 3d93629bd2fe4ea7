------------------------------ MODULE TickRing ------------------------------
(***************************************************************************)
(* The clock of autorelease_queue.  Time is an unsigned tick counter and   *)
(* an object in the queue carries the time of its last prolonging;         *)
(* time_add and time_subtract make the times a ring, so that the queue     *)
(* works on when the counter passes its largest value.  The ring has Max   *)
(* points, 0 .. Max - 1: the code's arithmetic never yields Max itself.    *)
(*                                                                         *)
(* The counters of the objects are left out (ObjectLifetime has them): a   *)
(* call to prolong or not_prolong_lifetime may come at any time, and an    *)
(* object is_in_aqueue while the deque or _toRelease references it.        *)
(***************************************************************************)
EXTENDS Integers

CONSTANTS
  Objects,
  Max,    (* std::numeric_limits<time_point>::max()                        *)
  Life    (* obj_lifeInTicks                                               *)

ASSUME RingAssumption == /\ Max \in Nat
                         /\ Life \in Nat
                         /\ 0 < Life
                         /\ Life < Max

VARIABLES
  _tickCounter,
  _aqueue_push_time,   (* the time stamp of each object                    *)
  _queue,              (* the objects the deque references                 *)
  _toRelease           (* the objects a tick moved out of the deque        *)

vars == << _tickCounter, _aqueue_push_time, _queue, _toRelease >>

(* Faulty variant: plain unsigned addition.                                *)
time_add_unsigned(a, b) == (a + b) % (Max + 1)

time_subtract(minuend, subtrahend) ==
  IF minuend >= subtrahend THEN minuend - subtrahend
                           ELSE Max - (subtrahend - minuend)

time_add(a, b) == IF Max - a > b THEN a + b ELSE b - (Max - a)

Age(o) == time_subtract(_tickCounter, _aqueue_push_time[o])

is_in_aqueue(o) == o \in _queue \cup _toRelease

-----------------------------------------------------------------------------
Init ==
  /\ _tickCounter = 0
  /\ _aqueue_push_time = [o \in Objects |-> 0]
  /\ _queue = {}
  /\ _toRelease = {}

prolong_lifetime(o, isPublic) ==
  /\ _aqueue_push_time' = [_aqueue_push_time EXCEPT
       ![o] = IF isPublic THEN _tickCounter ELSE time_subtract(_tickCounter, Life)]
  /\ _queue' = IF is_in_aqueue(o) THEN _queue ELSE _queue \cup {o}
  /\ UNCHANGED << _tickCounter, _toRelease >>

not_prolong_lifetime(o) ==
  /\ is_in_aqueue(o)
  /\ _aqueue_push_time' =
       [_aqueue_push_time EXCEPT ![o] = time_subtract(_tickCounter, Life)]
  /\ UNCHANGED << _tickCounter, _queue, _toRelease >>

(* Faulty variant: an exact match instead of a lower bound.                *)
DueExactly == {o \in _queue : Age(o) + 1 = Life}

(* What tick() moves out of the deque.                                     *)
Due == {o \in _queue : Age(o) + 1 >= Life}

(* Faulty variant: the counter stands still.                               *)
tick_without_increment ==
  /\ _toRelease = {}
  /\ _toRelease' = Due
  /\ _queue' = _queue \ Due
  /\ UNCHANGED << _tickCounter, _aqueue_push_time >>

(* tick() up to the release of what it moved out.                          *)
tick ==
  /\ _toRelease = {}
  /\ _toRelease' = Due
  /\ _queue' = _queue \ Due
  /\ _tickCounter' = time_add(_tickCounter, 1)
  /\ UNCHANGED _aqueue_push_time

release(o) ==
  /\ o \in _toRelease
  /\ _toRelease' = _toRelease \ {o}
  /\ UNCHANGED << _tickCounter, _aqueue_push_time, _queue >>

u_clear ==
  /\ _tickCounter' = 0
  /\ _queue' = {}
  /\ _toRelease' = {}
  /\ UNCHANGED _aqueue_push_time

Next ==
  \/ \E o \in Objects, isPublic \in BOOLEAN : prolong_lifetime(o, isPublic)
  \/ \E o \in Objects : not_prolong_lifetime(o) \/ release(o)
  \/ tick
  \/ u_clear

Spec == Init /\ [][Next]_vars

-----------------------------------------------------------------------------
(* Times stay within the ring.                                             *)
Times == 0 .. Max - 1

TypeOK ==
  /\ _tickCounter \in Times
  /\ _aqueue_push_time \in [Objects -> Times]
  /\ _queue \in SUBSET Objects
  /\ _toRelease \in SUBSET Objects
  /\ _queue \cap _toRelease = {}

(* The difference of the times is never more than one lifetime: a late     *)
(* prolonging cannot make an object look young again, nor a wrap old.      *)
AgeBounded == \A o \in _queue : Age(o) <= Life

(* The queue keeps time by age, wherever in the ring the counter stands.   *)
AQ == INSTANCE AgeQueue WITH
        queue <- _queue, leaving <- _toRelease,
        age <- [o \in Objects |-> IF o \in _queue THEN Age(o) ELSE 0]

KeepsAge == AQ!Spec
=============================================================================
