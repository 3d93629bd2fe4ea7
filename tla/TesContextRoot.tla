--------------------------- MODULE TesContextRoot ---------------------------
(***************************************************************************)
(* tes_context::root(): the map behind JDB.  It is made when first asked   *)
(* for, by whichever native comes first, and found again after a load by   *)
(* its id.  A raw pointer to it is cached and handed to natives without a  *)
(* stack reference; what keeps the map is one count of _tes_refCount, the  *)
(* counter that JValue.retain, JValue.release and                          *)
(* JValue.releaseObjectsWithTag work on too: nothing keeps the root's own  *)
(* count apart from the scripts'.                                          *)
(*                                                                         *)
(* Other owners of the map, containers and natives with its id, are left   *)
(* out: nothing makes them exist.  The queue gives the map up at any time  *)
(* after it was pushed.  The id of a map that is gone leads nowhere; that  *)
(* the registry may give it to another object later is left out.           *)
(***************************************************************************)
EXTENDS Integers, FiniteSets

CONSTANTS
  Threads,      (* natives that call root()                                *)
  Maps,         (* memory of maps, reused                                  *)
  Null,         (* no map, no id                                           *)
  MaxRetains    (* bound on the scripts' retains                           *)

ASSUME RootAssumption ==
  /\ Null \notin Maps \cup Threads
  /\ MaxRetains \in Nat

VARIABLES
  alive,             (* the maps that exist                                *)
  tes,               (* _tes_refCount                                      *)
  queued,            (* the maps in the autorelease queue                  *)
  _root_object_id,   (* the map the id leads to while that map is alive    *)
  _cached_root,
  initLock,          (* who holds _lazyRootInitLock                        *)
  pc, result,        (* each native's place in root(), and its result      *)
  tagged,            (* whether a script has tagged the root               *)
  retained,          (* retains by scripts and not yet released            *)
  givenAway,         (* whether scripts have released the root once more   *)
                     (* than they had retained it: a history               *)
  saved              (* the last save                                      *)

vars == << alive, tes, queued, _root_object_id, _cached_root, initLock, pc, result,
           tagged, retained, givenAway, saved >>

scripts == << tagged, retained, givenAway >>

heap == << alive, tes, queued, _root_object_id, scripts, saved >>

Zero == [m \in Maps |-> 0]

getObject(id) == IF id \in alive THEN id ELSE Null

Goto(t, label) == pc' = [pc EXCEPT ![t] = label]

-----------------------------------------------------------------------------
Init ==
  /\ alive = {} /\ tes = Zero /\ queued = {}
  /\ _root_object_id = Null /\ _cached_root = Null
  /\ initLock = Null
  /\ pc = [t \in Threads |-> "idle"]
  /\ result = [t \in Threads |-> Null]
  /\ tagged = FALSE /\ retained = 0 /\ givenAway = FALSE
  /\ saved = [root |-> Null, alive |-> {}, tes |-> 0, queued |-> {},
              tagged |-> FALSE, retained |-> 0, givenAway |-> FALSE]

(* The first load of _cached_root, with no lock.                           *)
LoadCached(t) ==
  /\ pc[t] = "idle"
  /\ IF _cached_root # Null
     THEN Goto(t, "using") /\ result' = [result EXCEPT ![t] = _cached_root]
     ELSE Goto(t, "lock") /\ UNCHANGED result
  /\ UNCHANGED << heap, _cached_root, initLock >>

Lock(t) ==
  /\ pc[t] = "lock" /\ initLock = Null
  /\ initLock' = t
  /\ Goto(t, "check")
  /\ UNCHANGED << heap, _cached_root, result >>

(* Faulty variant: the cached pointer is not loaded again under the lock,  *)
(* and the id not looked up.                                               *)
Check_skipped(t) ==
  /\ pc[t] = "check"
  /\ Goto(t, "make")
  /\ UNCHANGED << heap, _cached_root, initLock, result >>

(* Under the lock: what another native has cached meanwhile, or the map of *)
(* a loaded game, or a new one.                                            *)
Check(t) ==
  /\ pc[t] = "check"
  /\ \/ /\ _cached_root # Null
        /\ result' = [result EXCEPT ![t] = _cached_root]
        /\ initLock' = Null
        /\ Goto(t, "using")
     \/ /\ _cached_root = Null
        /\ getObject(_root_object_id) # Null
        /\ result' = [result EXCEPT ![t] = _root_object_id]
        /\ Goto(t, "publish")
        /\ UNCHANGED initLock
     \/ /\ _cached_root = Null
        /\ getObject(_root_object_id) = Null
        /\ Goto(t, "make")
        /\ UNCHANGED << initLock, result >>
  /\ UNCHANGED << heap, _cached_root >>

(* map::object(): another one than the id was of, if it was of one.        *)
Make(t) ==
  /\ pc[t] = "make"
  /\ \E m \in Maps \ (alive \cup {_root_object_id}) :
       /\ alive' = alive \cup {m}
       /\ result' = [result EXCEPT ![t] = m]
  /\ Goto(t, "set_root")
  /\ UNCHANGED << tes, queued, _root_object_id, scripts, saved, _cached_root, initLock >>

(* Scripts have done nothing with the new root yet.                        *)
NewToScripts == tagged' = FALSE /\ retained' = 0 /\ givenAway' = FALSE

(* Faulty variant: the root is exposed, not retained.                      *)
set_root_unretained(t) ==
  /\ pc[t] = "set_root"
  /\ queued' = queued \cup {result[t]}
  /\ _root_object_id' = result[t]
  /\ NewToScripts
  /\ Goto(t, "publish")
  /\ UNCHANGED << alive, tes, saved, _cached_root, initLock, result >>

(* set_root(): retained, and exposed by uid(), which pushes it.  There is  *)
(* no previous root, or it is gone.                                        *)
set_root(t) ==
  /\ pc[t] = "set_root"
  /\ tes' = [tes EXCEPT ![result[t]] = @ + 1]
  /\ queued' = queued \cup {result[t]}
  /\ _root_object_id' = result[t]
  /\ NewToScripts
  /\ Goto(t, "publish")
  /\ UNCHANGED << alive, saved, _cached_root, initLock, result >>

Publish(t) ==
  /\ pc[t] = "publish"
  /\ _cached_root' = result[t]
  /\ initLock' = Null
  /\ Goto(t, "using")
  /\ UNCHANGED << heap, result >>

Finish(t) ==
  /\ pc[t] = "using"
  /\ Goto(t, "idle")
  /\ result' = [result EXCEPT ![t] = Null]
  /\ UNCHANGED << heap, _cached_root, initLock >>

root(t) == \/ LoadCached(t) \/ Lock(t) \/ Check(t) \/ Make(t)
           \/ set_root(t) \/ Publish(t) \/ Finish(t)

-----------------------------------------------------------------------------
(* Scripts have the root's id from JDB.root(), in this game or the one     *)
(* that was loaded, and may retain and release the root: JValue.retain     *)
(* sets its tag too, or clears it ...                                      *)
Retain ==
  /\ _root_object_id \in alive
  /\ retained < MaxRetains
  /\ retained' = retained + 1
  /\ tes' = [tes EXCEPT ![_root_object_id] = @ + 1]
  /\ tagged' \in BOOLEAN
  /\ UNCHANGED << alive, queued, _root_object_id, givenAway, saved >>
  /\ UNCHANGED << _cached_root, initLock, pc, result >>

(* ... JValue.release takes what there is, whoever retained it ...         *)
Release ==
  /\ _root_object_id \in alive
  /\ tes[_root_object_id] > 0
  /\ tes' = [tes EXCEPT ![_root_object_id] = @ - 1]
  /\ IF retained > 0 THEN retained' = retained - 1 /\ UNCHANGED givenAway
                     ELSE givenAway' = TRUE /\ UNCHANGED retained
  /\ queued' = IF tes'[_root_object_id] = 0 THEN queued \cup {_root_object_id} ELSE queued
  /\ UNCHANGED << alive, _root_object_id, tagged, saved, _cached_root, initLock, pc, result >>

(* ... and JValue.releaseObjectsWithTag all there is.                      *)
ReleaseTagged ==
  /\ _root_object_id \in alive
  /\ tagged
  /\ tes' = [tes EXCEPT ![_root_object_id] = 0]
  /\ retained' = 0 /\ givenAway' = TRUE
  /\ queued' = queued \cup {_root_object_id}
  /\ UNCHANGED << alive, _root_object_id, tagged, saved, _cached_root, initLock, pc, result >>

(* A tick gives the map up.                                                *)
Tick(m) ==
  /\ m \in queued
  /\ queued' = queued \ {m}
  /\ alive' = IF tes[m] = 0 THEN alive \ {m} ELSE alive
  /\ UNCHANGED << tes, _root_object_id, scripts, saved, _cached_root, initLock, pc, result >>

NoNativeInside == \A t \in Threads : pc[t] = "idle"

(* No script runs while the game is saved, loaded or reverted; what they   *)
(* did with the root they remember with the game.                          *)
Save ==
  /\ NoNativeInside
  /\ saved' = [root |-> _root_object_id, alive |-> alive, queued |-> queued,
               tes |-> IF _root_object_id \in alive THEN tes[_root_object_id] ELSE 0,
               tagged |-> tagged, retained |-> retained, givenAway |-> givenAway]
  /\ UNCHANGED << alive, tes, queued, _root_object_id, scripts, _cached_root, initLock, pc, result >>

(* Faulty variant: the cached pointer outlives the map it points to.       *)
u_clearState_keeping_cache ==
  /\ _root_object_id' = Null /\ UNCHANGED _cached_root
  /\ alive' = {} /\ tes' = Zero /\ queued' = {}

u_clearState ==
  /\ _root_object_id' = Null /\ _cached_root' = Null
  /\ alive' = {} /\ tes' = Zero /\ queued' = {}

Revert ==
  /\ NoNativeInside
  /\ u_clearState
  /\ NewToScripts
  /\ UNCHANGED << saved, initLock, pc, result >>

(* The saved game is loaded after a revert.                                *)
Load ==
  /\ NoNativeInside
  /\ alive = {} /\ _root_object_id = Null
  /\ _root_object_id' = saved.root
  /\ alive' = saved.alive
  /\ queued' = saved.queued
  /\ tes' = [m \in Maps |-> IF m = saved.root THEN saved.tes ELSE 0]
  /\ tagged' = saved.tagged /\ retained' = saved.retained /\ givenAway' = saved.givenAway
  /\ UNCHANGED << saved, _cached_root, initLock, pc, result >>

Next ==
  \/ \E t \in Threads : root(t)
  \/ Retain
  \/ Release
  \/ ReleaseTagged
  \/ \E m \in Maps : Tick(m)
  \/ Save
  \/ Revert
  \/ Load

Spec == Init /\ [][Next]_vars

-----------------------------------------------------------------------------
(* Every variable has its type; the lock is held exactly in root().        *)
TypeOK ==
  /\ alive \in SUBSET Maps /\ queued \subseteq alive
  /\ tes \in [Maps -> 0 .. MaxRetains + 1]
  /\ _root_object_id \in Maps \cup {Null} /\ _cached_root \in Maps \cup {Null}
  /\ pc \in [Threads -> {"idle", "lock", "check", "make", "set_root", "publish", "using"}]
  /\ result \in [Threads -> Maps \cup {Null}]
  /\ tagged \in BOOLEAN /\ retained \in 0 .. MaxRetains /\ givenAway \in BOOLEAN
  /\ \A t \in Threads : initLock = t <=> pc[t] \in {"check", "make", "set_root", "publish"}

(* "The object being owned (retained) internally, so you don't have to     *)
(* (but can) retain or release it" (JDB.root): the map that natives are    *)
(* given without a reference of their own exists, until scripts have       *)
(* released it once more than they had retained it, or by its tag - which  *)
(* the code does not tell from a release of theirs - and while a script    *)
(* retains it even then.                                                   *)
Kept == ~givenAway \/ retained > 0

RootExists ==
  Kept => /\ _cached_root # Null => _cached_root \in alive
          /\ \A t \in Threads : result[t] # Null => result[t] \in alive

(* Whoever calls root(), however calls race for the first: they all get    *)
(* the same map (the test tes_context.root).                               *)
OneRoot == \A t \in Threads : pc[t] = "using" => result[t] = _cached_root

(* What a loaded game has stored in JDB is found again: nobody makes a     *)
(* second root while the id leads to one, and the cached pointer is what   *)
(* the id, which is saved, leads to.                                       *)
RootIsKept ==
  /\ _cached_root # Null => _cached_root = _root_object_id
  /\ \A t \in Threads : pc[t] = "set_root" => getObject(_root_object_id) = Null
  /\ Cardinality(alive) <= 1
=============================================================================
