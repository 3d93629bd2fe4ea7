------------------------------ MODULE AgeQueue ------------------------------
(***************************************************************************)
(* What autorelease_queue promises about time: it owns an object until the *)
(* object's age, the number of ticks since its lifetime was last prolonged,*)
(* reaches Life.  An object that was never exposed to a script is pushed   *)
(* with its life already behind it and goes at the next tick.              *)
(* ObjectLifetime uses the queue in this form; TickRing implements it with *)
(* a tick counter that wraps.                                              *)
(***************************************************************************)
EXTENDS Integers

CONSTANTS
  Objects,
  Life      (* obj_lifeInTicks *)

VARIABLES
  queue,    (* the objects the queue owns and may yet keep                 *)
  leaving,  (* the objects a tick has picked and not yet released          *)
  age       (* the age of each object of the queue, 0 for all others       *)

vars == << queue, leaving, age >>

Init ==
  /\ queue = {}
  /\ leaving = {}
  /\ age = [o \in Objects |-> 0]

(* An object that a tick has picked leaves, whatever is asked for it.      *)
Prolong(o, isPublic) ==
  /\ queue' = IF o \in leaving THEN queue ELSE queue \cup {o}
  /\ age' = [age EXCEPT ![o] = IF o \in leaving \/ isPublic THEN 0 ELSE Life]
  /\ UNCHANGED leaving

NotProlong(o) ==
  /\ age' = [age EXCEPT ![o] = IF o \in queue THEN Life ELSE 0]
  /\ UNCHANGED << queue, leaving >>

Due == {o \in queue : age[o] + 1 >= Life}

Tick ==
  /\ leaving = {}
  /\ leaving' = Due
  /\ queue' = queue \ Due
  /\ age' = [o \in Objects |-> IF o \in queue \ Due THEN age[o] + 1 ELSE 0]

Release(o) ==
  /\ o \in leaving
  /\ leaving' = leaving \ {o}
  /\ UNCHANGED << queue, age >>

Clear ==
  /\ queue' = {}
  /\ leaving' = {}
  /\ age' = [o \in Objects |-> 0]

Next ==
  \/ \E o \in Objects, isPublic \in BOOLEAN : Prolong(o, isPublic)
  \/ \E o \in Objects : NotProlong(o) \/ Release(o)
  \/ Tick
  \/ Clear

Spec == Init /\ [][Next]_vars
=============================================================================
