------------------------------ MODULE SaveLoad ------------------------------
(***************************************************************************)
(* Saving a game and loading it, over the objects of one context.          *)
(*                                                                         *)
(* The archive holds every object with its id, its content, _tes_refCount  *)
(* and time stamp, and the queue with its tick counter.  It does not hold  *)
(* _refCount and _aqueue_refCount, which grow again as the references of   *)
(* containers and of the queue are read, nor any stack reference: Lua may  *)
(* hold objects while the game is saved.                                   *)
(*                                                                         *)
(* A load begins with u_clearState, so what it leads to depends on what    *)
(* was saved only, whatever happened in between.  Therefore the model has  *)
(* no archive: LoadRead goes from the state that is saved straight to what *)
(* a later load reads, and LoadBreaks to a part of whatever archive.       *)
(* During a load the timer is stopped and no native runs.                  *)
(***************************************************************************)
EXTENDS ObjectLifetime

VARIABLE phase   (* "play"; "read", from the reading of the archive to the *)
                 (* end of u_postLoadMaintenance; "broken" while a load    *)
                 (* that threw in the midst of the archive is not cleared  *)

svars == << vars, phase >>

LoadInit == Init /\ phase = "play"

Play == phase = "play" /\ Next /\ UNCHANGED phase

(* Faulty variant: the queue is not read back.                             *)
AqRead_nothing == Zero

AqRead == queue

(* Faulty variant: the counter is read and counted up on top.              *)
RcRead_doubled == [o \in Objects |-> rc[o] + Cardinality(RefsTo(o))]

RcRead == [o \in Objects |-> Cardinality(RefsTo(o))]

(* The save finds no half released object: the timer is stopped before.    *)
LoadRead ==
  /\ phase = "play"
  /\ toRelease = Zero
  /\ phase' = "read"
  /\ held' = [h \in Holders |-> {}]
  /\ stack' = Zero
  /\ rc' = RcRead
  /\ aq' = AqRead
  /\ UNCHANGED << alive, public, content, tes, queue, age, toRelease >>

(* u_onLoaded: a form map erases a key that is expired, with its item.     *)
(* All objects have their context by then, hence the item's object passes  *)
(* into the queue if nobody else owns it.                                  *)
EraseExpired(p, s) ==
  LET o == content[p][s] IN
  /\ phase = "read"
  /\ o # NoObject
  /\ content' = [content EXCEPT ![p][s] = NoObject]
  /\ rc' = [rc EXCEPT ![o] = @ - 1]
  /\ Prolong({q \in {o} : /\ rc[q] - 1 <= 0
                          /\ tes[q] <= 0 /\ aq[q] <= 0 /\ stack[q] <= 0}, public, aq)
  /\ UNCHANGED << alive, public, held, tes, stack, toRelease, phase >>

(* Faulty variant: the load ends without a collection.                     *)
LoadFinish_uncollected == phase = "read" /\ phase' = "play" /\ UNCHANGED vars

(* u_postLoadMaintenance                                                   *)
LoadFinish == phase = "read" /\ Collect /\ phase' = "play"

(* After the state was cleared a part of a broken archive was read: some   *)
(* of its objects, and of each of them the items that were reached, which  *)
(* are counted as they are read; of the queue nothing or some entries.     *)
(* The ages in it do not matter any more.                                  *)
LoadBreaks ==
  /\ phase = "play" /\ alive = {} /\ toRelease = Zero
  /\ phase' = "broken"
  /\ alive' \in SUBSET Objects
  /\ public' \in SUBSET alive'
  /\ content' \in [Objects -> [Slots -> alive' \cup {NoObject}]]
  /\ tes' \in [Objects -> 0 .. MaxTes]
  /\ aq' \in [Objects -> 0 .. 1]
  /\ \A o \in Objects \ alive' : content'[o] = Empty /\ tes'[o] = 0 /\ aq'[o] = 0
  /\ rc' = [o \in Objects |-> Cardinality({c \in Cells : content'[c[1]][c[2]] = o})]
  /\ queue' = aq'
  /\ UNCHANGED << held, stack, age, toRelease >>

(* An exception: what was read is thrown away, be it all or a part.        *)
LoadFails == phase \in {"read", "broken"} /\ ClearState /\ phase' = "play"

LoadNext ==
  \/ Play
  \/ LoadRead
  \/ \E p \in Objects, s \in Slots : EraseExpired(p, s)
  \/ LoadFinish
  \/ LoadBreaks
  \/ LoadFails

LoadSpec == LoadInit /\ [][LoadNext]_svars

(* The game waits for a load to end, and the timer goes on afterwards: a   *)
(* game that is loaded over and over again still runs for a tick, now and  *)
(* then.                                                                   *)
LoadFairness ==
  /\ WF_svars(LoadFinish \/ LoadFails)
  /\ SF_svars(phase = "play" /\ TickScan /\ UNCHANGED phase)
  /\ \A o \in Objects : WF_svars(phase = "play" /\ AQueueRelease(o) /\ UNCHANGED phase)

FairLoadSpec == LoadSpec /\ LoadFairness

-----------------------------------------------------------------------------
(* "We must ensure that not-owned object will not hang forever"            *)
(* (object_base::uid), across saves and loads: whenever the game runs,     *)
(* whatever exists has an owner, be it the queue.  An object that Lua      *)
(* alone held in the saved game is gone, and what it referenced is in the  *)
(* queue.  Saving asserts this of every object.                            *)
OwnedInPlay == phase = "play" => NoOrphans

(* A load loses nothing a script can reach: what a script retained or the  *)
(* queue owned in the saved game comes back with its retains, its id, its  *)
(* content and its age in the queue, and so does all that it references,   *)
(* but for the items of expired keys.                                      *)
LoadRestores ==
  [][ /\ LoadRead => GcRoots' = GcRoots
      /\ LoadFinish => \A o \in Reachable(GcRoots) :
                         /\ o \in alive'
                         /\ content'[o] = content[o]
                         /\ tes'[o] = tes[o]
                         /\ o \in public' <=> o \in public
                         /\ queue[o] > 0 => queue'[o] = queue[o] /\ age'[o] = age[o] ]_svars
=============================================================================
