# JContainers in TLA+

Specifications of JContainers: how long a container object lives, in play and
across saves and loads; which object a script's id, a form reference or a
cached pointer leads to; and what containers do when several scripts work on
them, when they are copied, edited with negative indices, looped over or
written to JSON. The modules are checked with TLC on small instances; eight
modules of proofs, checked with TLAPS, establish the safety of object lifetime,
loads, the queue and its timer, domains, the root, form references and the
counters under races for every instance. Paths below are relative to
`src/JContainers/src/`.

## The system

JContainers is a plugin of the Skyrim script extender (SKSE). Papyrus scripts
know containers (JArray, JMap, JFormMap, JIntMap) by integer ids, call native
functions of the plugin on several threads at once, and never free anything.

| Component | State | Operations |
| --- | --- | --- |
| `object/object_base.*`, `intrusive_ptr.hpp` | four atomic reference counters of an object (`_refCount` containers, `_tes_refCount` JValue.retain, `_stack_refCount` running natives and Lua, `_aqueue_refCount` the queue), id, time stamp | `retain`/`release`, `tes_retain`/`tes_release`, `stack_retain`/`stack_release`, `uid`, `prolong_lifetime`, `zero_lifetime`, `_aqueue_release`, `_delete_self` |
| `object/autorelease_queue.h` | a deque of references, a wrapping tick counter, an asio timer with its mutex and flag | `prolong_lifetime`, `not_prolong_lifetime`, `tick`, `start`, `stop`, `u_clear`, archive |
| `object/garbage_collector.h` | none of its own | `u_collect`: roots, walk, sweep |
| `object/object_registry.h`, `object/id_generator.h` | all objects, the map from ids, ranges of free ids | register, look up, remove, archive |
| `object/object_context.*` | one registry and one queue, dependent contexts | `u_clearState`, `collect_garbage`, stop and start activity, load and save |
| `collections/context.*`, `api_3/tes_db.h` | the id of the root map, a cached pointer to it | `root`, `set_root`, load, save, clear |
| `domains/*`, `skse_callbacks.cpp` | the default context, one context per domain, the active domains | load, save, revert, creation of domains |
| `forms/*` | a concurrent map from form id to a weak pointer to a form entry | `watch_form`, `on_form_deleted`, archive, ordering of references |
| `collections/collections.*`, `item.h`, `api_3/*` | the cells of containers, a spinlock each | the API of scripts |
| `collections/access.*`, `json_*`, `copying.h` | none of their own | paths, JSON, deep copies over the object graph |
| `collections/lua_*` | a pool of Lua contexts | run Lua code on objects |

They interact as follows. A native resolves its arguments from ids through the
registry, which takes a stack reference under its read lock; it assigns items,
which retain and release what they reference; whoever drops the last reference
hands the object to the queue of its context; the queue's timer thread deletes
what is due and still unowned, and deleting an object drops what it references.
SKSE calls `domain_master` to revert, save and load on the main thread, which
stops the timers of all contexts first, and calls `form_observer` when the
game deletes a form. After a load the collector removes what nobody owns.

The hard behaviours are concurrent: counters are tested, changed and summed
step by step while other threads change them; a handler of the timer may be
past recall when the timer is stopped; the root and form entries are looked up
before a lock is taken; a load may fail at any place or meet domains that the
game no longer has; and the tick counter wraps. `hazards` in `PROJECT.json`
lists them by line. A map's keys may expire while they are in it, a native that
follows a path holds one lock at a time and a bare pointer in between, and
copies and JSON go over graphs that are shared and cyclic.

What makes a component correct:

* *objects* - what a script retains, a container references or a call holds is
  not deleted; nothing leads to a deleted object; nothing exists without an
  owner; what nobody wants goes in the end;
* *queue* - an object is owned once, for its lifetime, however the counter
  wraps; no tick runs between stop and start, and ticks never die out;
* *collector* - it finds what is reachable, touches only living memory, and
  leaves no garbage that is not held by a call;
* *ids* - an id is in use by one object or free, never both or neither;
* *root* - there is one, it exists, and it is the one that is saved;
* *domains* - loads are all or nothing, and contexts that natives use stay;
* *forms* - references to a form share an entry and expire with the form, and a
  map finds under a form what was stored under it;
* *archive* - whatever a script can reach in the saved game comes back, with
  exact counters, and what nobody owns any more goes;
* *containers* - concurrent additions add up, copies share nothing, calls
  return, edits hit the items their indices name, loops miss nothing, and JSON
  keeps the graph.

## Modules

| Module | Models | State and actions |
| --- | --- | --- |
| `ObjectLifetime` | counters, queue, collector, containers' references | one action per native call, Lua operation, tick half, collection, clear |
| `SaveLoad` | extends it by saves and loads | `LoadRead`, `EraseExpired`, `LoadFinish`, `LoadBreaks`, `LoadFails` |
| `GarbageCollector` | `u_collect` loop by loop | starts from any graph; `Visit`, `SweepClear`, `SweepDelete`; implements `Collect` of `ObjectLifetime` |
| `ReleaseRace` | one object, atomic step by atomic step | threads that leave, erase, insert, resolve, release, retain or untag; the timer thread, its scan and its release |
| `AgeQueue` | what the queue promises: ages | abstract specification |
| `TickRing` | the wrapping tick counter and time stamps | implements `AgeQueue` |
| `AutoreleaseQueue` | `TickRing` driven by the asio timer | `Stop`, `Start`, `Clear`, `Destroy`, `Expire`, the handler's steps |
| `IdPool` | what ids promise: a set in use | abstract specification |
| `IdGenerator` | the deque of ranges of free ids | `new_id`, `reuse_id`, `u_clear`; implements `IdPool` |
| `TesContextRoot` | `root()`, its double-checked lock and `set_root` | natives, retain, release, release by tag, tick, save, revert, load |
| `DomainMaster` | contexts of domains across revert, save, load, restart | one action per step of a callback |
| `FormObserver` | form entries for one form id | `watch_form` before and under its lock, the deletion event step by step among natives |
| `FormMap` | extends it by a form map with such keys | `SetItem`, `RemoveKey`, `Clear`, `SaveAndLoad`; the order of keys changes under them |
| `ContainerLocks` | the spinlocks of containers | paths step by step, `FetchAdd`, `Assign`, `RemoveKey`, `addPairs`, `addFromArray`, `deep_copy` |
| `Collections` | arrays, maps, loops, JSON | one action per native; JSON as functions of the graph |
| `...Proofs` (8) | proofs | |
| `MC...` | instances for TLC | |

Each definition is preceded by what it stands for; `map` in `PROJECT.json` names
its lines. Definitions called *Faulty variant* are not part of the models: each
is a plausible mistake in a definition next to it, and the properties detect it.

Abstractions worth knowing:

* `ObjectLifetime` replaces the time stamp by an age. `TickRing` shows that the
  stamps amount to ages for the queue that `AgeQueue` describes.
* `ObjectLifetime` takes a release and the deletion of one object as one step
  each. `ReleaseRace` takes them apart, for one object, and shows what holds
  then and what does not (see *Known races*).
* `Collect` is one step in `ObjectLifetime`; `GarbageCollector` shows that the
  loops amount to it, from every graph and in every order of visiting.
* `SaveLoad` has no archive. A load begins with `u_clearState`, so that what it
  leads to depends on the saved state only: `LoadRead` goes from the state that
  is saved straight to what a later load reads. `_refCount` and
  `_aqueue_refCount` grow again with the references that are read; stack
  references are lost. A load that throws in the midst of the archive
  (`LoadBreaks`) has read any part of any archive: some objects, some of their
  items, some entries of the queue; `LoadFails` clears that. Objects that were
  read but are not in the registry when the load throws stay in memory for good;
  nothing leads to them, and the model drops them with the rest.
* A native that has an object as its argument holds it; the arguments of one
  call are resolved one by one (`StackRetain`).
* `refCount()` adds four loads in an order the language leaves open:
  `ReleaseRace` takes any order. `noOwners()` prescribes its order by `&&`.
* `tick` passes `remove_if` a predicate that gets a constant reference, so that
  its `std::move` copies: the object is in the queue twice until `remove_if` or
  `erase` destroys the first reference, which sums the counters within the scan.
  `ReleaseRace` has both sums. In the other modules counters are never negative
  and the copy alone makes the first sum two or more, so that copying and
  destroying amount to the move they have.
* Some variables only remember what happened, for the properties to name it:
  `taken` and `cancelled` (`ReleaseRace`), `givenAway` (`TesContextRoot`), `late`
  and `lateVal` (`FormObserver`, `FormMap`). No guard reads them.
* In `FormMap` one operation of a map is one step. A native is called with a
  form that exists when it looks its id up; the event may begin at any time
  after that.
* In `TesContextRoot` the id of a root that is gone leads nowhere; that the
  registry may hand it out again is left out.
* In `ContainerLocks` what happens under one lock is one step. A container that
  is unlinked stays in memory: the queue gives it a lifetime of ten seconds,
  far longer than a native runs.
* `Collections` has the text of JSON as the graph it stands for: which container
  is written in full, where, and what path stands for the others. `Parse` says
  what `parse_path` makes of a key, `Chars` how many characters it takes, and
  `MetaKeys` which keys are names of meta information. A path is cut after
  `MaxPath` characters (`Cut`), after a whole key or within one; the beginning of
  a key is taken to be no key that is there.
* The timer's expiry, the scheduler and the reuse of a form id by the game are
  external.

## Runs

| Run | Bounds | Question |
| --- | --- | --- |
| `lifetime` | 2 containers of 2 cells, 2 holders, lifetime 2, 1 retain | do natives, Lua, ticks, collections, saves and loads, of broken archives too, together keep what is owned and let go what nobody wants? |
| `gc` | 3 containers of 2 cells, 1 holder, 1 retain, every graph | does the collector's loop amount to `Collect`? |
| `race` | 2 calls of any of seven kinds and the timer, or 3 without it | what holds of the counters step by step |
| `race_get` | 1 call and the timer | *violation*: an object is freed while a call holds it |
| `queue` | 2 objects, ring of 11, lifetime 5, 2 late handlers | clock and timer together |
| `ids` | 9 ids, at least one free | every order of taking and returning ids |
| `root` | 3 natives, 2 maps, 2 retains | the races for the root, with retains and releases of any number, ticks, saves and loads |
| `domains` | 3 domains, 4 sets of active ones, 2 contents | loads that fail anywhere, domains that come and go |
| `forms` | 3 holders, 4 entries, 3 forms with one id | one entry per form, which expires with it, though natives run during its deletion, and keys of a map that stay findable |
| `forms_watch` | the same | *violation*: the form_ref of a form that exists is null |
| `locks` | 3 calls out of ten, 2 root maps, 2 arrays, 2 heaps | concurrent natives along paths, copies and transfers |
| `collections` | 2 arrays, a JMap, a JIntMap, 5 keys from -1 on, 3 items in all, paths of 2 characters | indices, loops and JSON over every graph |

What the passing runs show, by property:

* `lifetime`: `CountersExact` - the counters are the numbers of references,
  also halfway through a load and after one that broke off; `NoDangling`; `OwnedInPlay` - whatever exists has
  an owner whenever the game runs, be it loaded from a game in which only Lua
  held it; `KeptWhileOwned` - no step deletes what is owned; `GcComplete`;
  `LoadRestores` - a load brings back all that is reachable, with retains, ids,
  contents and ages; `Reclaimed` - what nobody wants goes in the end.
* `gc`: `SweepTouchesLiving` - no loop touches freed memory; `ImplementsCollect`.
* `race`: `QueuedOnce` - the queue owns the object once, twice within its scan,
  and counts that exactly; `FreedByRaceOnly` - an owned object is freed only if
  such a reference was taken while the timer summed, or a negative counter went
  into the sum; `StackCountExact`, `HandedOver`, `CallsReturn`. The conditions
  are explained under *Known races*.
* `queue`: `OneWait`, `QuietWhileStopped`, `KeepsGoing`, `KeepsAge`, `LetsGo`.
* `ids`: `RangesApart` and `FreeIffNotHanded` (the deque of ranges is exactly
  the ids not in use), `HandsOutFreeIds`.
* `root`: `RootExists` - what natives get exists until scripts have released it
  once more than they had retained it, and while one retains it even then;
  `OneRoot`, `RootIsKept`.
* `domains`: `ActiveTickOnUsable`, `AllOrNothing`, `TimersRun`,
  `RegisteredStay`.
* `forms`: `SameEntry`, `ExpiresWithForm`, for every reference that was made
  before the deletion of its form began; `KeysSorted` - although keys expire
  inside the tree it stays sorted, since at most one key of an id is alive and
  it comes first; `FindsItsOwn` - a form finds what was stored under it and
  never what was stored under a deleted form with its id, unless by a late
  reference.
* `locks`: `AddsAddUp` - fetchAdd along paths that have to be created loses no
  addition; `CopyIsFaithful` - a deep copy made while others change the original
  leads into nothing but itself; `CallsReturn` - nobody waits for ever, unless
  transfers cross.
* `collections`: `EditsAreExact`, `LoopVisitsAll`; `JsonKeepsGraph` - but for
  keys that are read as other keys or as meta information, and for references
  whose path is too long.

The bounds are enough for the cases of interest to occur. Two objects of two
cells have a container that references one object twice, and itself, a chain
and a cycle; the collector's own run has three objects, which have cycles with a
tail and cycles of three. A ring of 11 with a lifetime of 5 wraps after two
lifetimes, and a behaviour goes round it many times. Five disjoint ranges fit
into nine ids, so that a returned id extends, joins and splits ranges at both
ends and in the middle. Three natives have one in front of, one inside and one
past the lock; two maps are needed for a second root. Three domains have one
that is active, one that is only in the save and one in neither. Three holders
of a form are two keys of a map and a native, and three forms one after the
other are two expired keys and one alive. Three calls are two that race and one
that interferes; the calls meet on one path from two roots, on an empty heap and
on one that is shared and cyclic. Three items in four containers make every
cycle and every way of sharing of two containers, the empty key, a key with a
dot in it and one that is the name of meta information; with keys of one
character and of two, paths of two keys are within the limit of two, cut after a
key and cut within one. Two retains and any number of releases take the root's
counter to zero from every side. `MaxTes`, `MaxRetains`, `MaxReady`, `MaxForms`, `MaxHanded`,
`MaxCount` and `Contents` bound what the code does not bound. Symmetry is used in `gc`,
`forms` and `collections`, which check no liveness.

Deadlock is not checked where the system stops: all calls of `ReleaseRace` and
`ContainerLocks` return, a collection ends, a queue is destroyed, the game
stops deleting forms, no item is left to add.

### Fairness

`SaveLoad!LoadFairness` assumes that a load that began ends, that the timer
ticks again and again (strong fairness: loads may interrupt it any number of
times, but not at every moment) and that a tick finishes what it began. The
handler restarts the timer, and `AutoreleaseQueue` shows (`KeepsGoing`, `LetsGo`)
that this chain is not broken while the main thread leaves the timer running.
There fairness is assumed of expiry of a started wait and of the background
worker, which runs `io_service::run` in a loop. `Start` is not fair: the game may
never go on. `ReleaseRace` and `ContainerLocks` assume that the scheduler runs
every thread that is inside a native; a spinlock that is taken is waited for. No
script is assumed to call anything.

### Findings

Two runs show a disagreement between the code and what it says of itself; the
quotes are in `findings`.

* `race_get`: `getObjectRef` takes its reference under the registry's read
  lock, but the timer thread has summed the counters before it takes the write
  lock to remove the object, and does not look again.
* `forms_watch`: `watch_form` looks the id up before it takes the lock. Of two
  natives that miss it, the second is handed the weak pointer of the first,
  which may have expired meanwhile: its `form_ref` is null though the form exists.

Further disagreements that the models contain, without a run of their own:

* The internal reference to the root is one count of the same counter that
  JValue.release decrements. A release by a script, allowed by the documentation
  of JDB.root (`api_3/tes_db.h:93`), takes the internal one when the script has
  none of its own left, and `_cached_root` dangles after the next tick.
  `releaseObjectsWithTag` (`api_3/tes_object.h:76-80`) takes it from scripts that
  balance their calls too. `TesContextRoot` has both; `RootExists` says that
  nothing else loses the root, and claims it only until then (`Kept`).
* `activity_stopper` stops the queues that exist when a load begins; a domain
  that the load creates (`domains/domain_master_serialization.h:40`) starts its
  timer in the constructor of its queue (`object/autorelease_queue.h:154`), before its
  objects have their context. `ActiveTickOnUsable` therefore excludes domains
  that are not registered.
* `findVal` from a negative index returns the index behind the one it finds
  (`api_3/tes_array.h:159-161`; the description below it says otherwise).
* `nextKey` of a JMap that holds the empty key, which JSON files can bring in,
  returns it first, and the loop of the documentation ends at once: `NextKey`,
  and `LoopVisitsAll` says nothing of loops at the end key.
* JSON loses a reference to a container below a key that is empty or has a dot
  or a bracket in it (`Plain` in `JsonKeepsGraph`), and one whose path has more
  than 1024 characters, or resolves it to a container on the way
  (`collections/access.cpp:344`, `531`). An item of a JMap with the key
  `__metaInfo` or its older name is read as meta information and is gone; if it
  is null or a map, the map itself comes back as something else
  (`collections/json_serialization.h:243-267`).
* One index below minus the count passes both conversions and comes out
  negative (`collections/functions.h:16`); `EditsAreExact` is about indices above.
* `addFromArray` locks its source first and `addPairs` its target: two calls
  with the containers exchanged wait for each other (`Crossing`).

### Known races

The models contain these behaviours too; the properties say exactly what is
left, and they explain the conditions in them.

* Last release and tick (`HandedOver`, only without the timer):
  `_aqueue_release` sees a stack reference in its sum and decides to decrement;
  the last `stack_release` still sees the queue's count and does not prolong;
  the object is left without owner until a collection.
* A reference taken during the sum (`FreedByRaceOnly`): a native puts its
  argument into a container after `_refCount` was loaded and returns before
  `_stack_refCount` is: neither reference is seen. `JValue.retain` does the same
  with `_tes_refCount` (`object/object_base.hpp:88`): what a script has just
  retained is freed. `getObjectRef` does it with an id alone (`race_get`).
* Two releases together (`FreedByRaceOnly`, `CallsReturn`): `tes_release` tests
  and decrements in two steps, the counter becomes negative and cancels one
  reference in the sum for good; `releaseObjectsWithTag` loops on `!= 0`.
* Deletion within the scan (`QueuedOnce`, `DeletedInScan`): with such a negative
  counter the first of the two references a tick has may already delete the
  object. `_toRelease` then keeps a pointer to it, and what it alone referenced
  would be pushed under the spinlock that the scan holds.
* A handler past recall (`AutoreleaseQueue`, `Destroy` with `handler = "begun"`):
  a destroyed queue may have a handler that is about to lock its mutex.
* Natives during a deletion (`late` in `SameEntry`, `ExpiresWithForm`,
  `FindsItsOwn`): `on_form_deleted` flags the entry before it locks. A native that
  comes to the second half of `watch_form` in between makes a fresh entry, which
  the event then unlinks without flagging it; one that comes there after the
  event makes an entry that no deletion will flag. Such a reference lives on, is
  shared with nobody or with the next form of that id, and so is what was stored
  under it. What was made before the deletion began is not disturbed by it.
* The event locks the weak pointer outside of the spinlock under which
  `watch_form` assigns it (`forms/form_observer.hpp:180`), and a key may expire
  between two comparisons of one search. The model has the value before or after
  the assignment, and the order before or after the flag.
* All ids in use (`MaxHanded = max_identifier`): the current range is `end()`
  and stays so when an id is returned.

## Proofs

`ObjectLifetimeProofs`, for any finite sets of objects, cells and holders, any
lifetime and any bound on retains (`FiniteAssumption`, `BoundsAssumption`), in a
game without saves and loads: `TypeCorrect`, `CountersAreExact`
(`CountersExact`), `NothingDangles` (`NoDangling`), `NothingHangs` (`NoOrphans`)
and the action property `OwnersKeep` (`KeptWhileOwned`).

None of these is inductive alone. Deletion is decided by a sum of counters, so
that nothing dangles needs the counters to be exact; the counters stay exact
only if deleted objects have no cells, which needs that nothing dangles; and
whoever drops the last reference tests the other counters, so that nothing hangs
needs both. The invariant is

    IInv == TypeOK /\ RcExact /\ StackExact /\ AQueueExact /\ NoDangling /\ NoOrphans

The proof has lemmas on the cells that reference an object (a cell that is
assigned, cells that are dropped) and on the operators of the queue
(`Prolong`), then one lemma per action, one step per conjunct.

The same module carries this over to `SaveLoad`, a game with saves and loads,
under the same assumptions: `CountersSurviveLoads`, `LoadsLeaveNoDangling`,
`NothingHangsAfterLoads` (`OwnedInPlay`), `LoadsKeepOwned`. Right after
`LoadRead` objects without owner do exist - those that Lua held - so that `IInv` is no
invariant any more. `LInv` asks for all of it but `NoOrphans` (`Core`) at any
time, and for `NoOrphans` in play; that a collection establishes `NoOrphans`
from `Core` alone is the lemma about `Collect` that ends a load. What a broken
archive leaves behind has `Core`, too, whatever part of it was read
(`LoadBreaksStep`), until it is cleared.

Reachability is proved about as the least set that has the roots and is closed
under references, without induction along paths. What a collection spares is
closed and has the new roots, so it is all that is reachable then:
`CollectionIsComplete` and `LoadsCollectCompletely` (`GcComplete`). The cells of
what is reachable in the saved game lead to what is reachable, so that a load,
which keeps those and their cells, has lost none of them when it ends:
`LoadsRestoreReachable` (`LoadRestores`).

`GarbageCollectorProofs`, for any finite sets of objects and cells and any graph
(`GcAssumption`): `SweepIsSafe` (`SweepTouchesLiving`) and `CollectsAsOne`
(`ImplementsCollect`), the refinement of `Collect` by the loops. `MarkInv` says
that what is struck off is within every closed set with the roots, and closed
but for what is still to be visited; with nothing left to visit it is what is
reachable. `SweepInv` gives the whole heap as a function of the state before and of
the garbage handled so far. Whether an object is deleted when its turn comes
depends on the counters of that moment, but an object that loses its last
reference during the sweep is put into the queue at once; so the verdict is the one
of the beginning (`VerdictIsOld`), in whatever order the objects are taken.

`ThreadProofs`, for any ring longer than one lifetime: `RingTypeCorrect`,
`AgeIsBounded` and `RingKeepsAge`, which says that `TickRing` implements
`AgeQueue` (initial states and every step). It rests on lemmas about
`time_subtract` and `time_add`: one more tick makes every age below the
lifetime one larger, across the wrap.

For the queue with its timer, with any ring and a worker any number of handlers
late (`RingAssumption`, `TimerAssumption`): `QueueTypeCorrect`, `WaitsDoNotMultiply`
(`OneWait`), `StopSilences` (`QuietWhileStopped`), `TimerNeverDies`
(`KeepsGoing`), and `QueueKeepsAge`: every step of `QueueSpec` is a step of
`TickRing` or leaves it alone, so `RingKeepsAge` carries over. The invariant
`TimerInv` adds that objects await release only while the handler keeps the
timer's mutex (`ReleasesUnderMutex`); without it a stop could find the main
thread and a half-done tick at work together.

The same module, on natives under the locks of containers, for any finite sets
of threads and maps, any calls and any first contents without numbers
(`LocksAssumption`): `CallsAddUp` (`AddsAddUp`) and `CopiesAreFaithful`
(`CopyIsFaithful`). Both rest on `CopiesArePrivate`: nothing but a copy, no
script, native, other copy or item, leads to the copy while it is made. For
additions the invariant `AddInv` says that every native is where its path leads
in the heap of the moment (`OnItsWay`: a chain of maps, none of them a copy), and
that each item is the number of the calls that have reached it (`Counted`). A
step may put a container or a number only where nothing was or over a number
(`SteadyActs`), so that chains of others survive it, and unused memory, which is
written to when a container is made, lies on no chain. For copies `CopyHolds`
says that each original has one copy and that all copies hang on the one that is
returned, with a depth below their number (`HangsOn`); a copy that is done is
therefore what its root reaches in that many steps, and nothing else. `SameShape`
adds, if natives only copy, that an item of a copy is that of its original or the
copy of it. The two recursive functions of the properties, `Cell` and `Reached`,
are shown to exist and to agree with chains and depths by the least number at
which they would not (`LeastNumber`).

`DomainMasterProofs`, for any domains, any sets of active ones and any contents
(`DomainAssumption`): `LoadsAllOrNothing`, `NoTickOnHalfLoaded`
(`ActiveTickOnUsable`), `TimersAreRestarted`, `NothingInactive` and the action
property `ContextsOutliveCallbacks`. `DomainInv` says what each place of a load
has read so far (`ReadSoFar`) and which contexts may tick meanwhile (`UsableAt`); a
load may fail at any of these places, so that none of the properties is
inductive on its own, except `TimersRun`.

`TesContextRootProofs`, for any natives and memory (`RootAssumption`) and whatever
scripts retain and release, by its tag too: `RootTypeCorrect`,
`RootAlwaysExists`, `OneRootForAll`, `RootIsNeverReplaced`. The root exists
because `_tes_refCount` is one more than the scripts' retains until they have
given the internal reference away, and just their retains after that
(`RootOwned`); when it is gone both are none, so that `RootExists` claims nothing.
It is single, whatever is released, because only the holder of the lock can be
making one (`NoOther`, `OneInside`), and each native's knowledge at its place in
`root()` (`Knows`) survives the others' steps.

`DataStructureProofs`, on the deque of free ids, for any number of ids
(`IdAssumption`): `RangesStayApart` (`RangesApart`), `SearchIsExact`
(`FreeIffNotHanded`) and `ImplementsPool` (`HandsOutFreeIds`), the refinement of
`IdPool`. The invariant is that the deque is *neat* - ranges that are not empty,
ascend and do not touch - and covers what is not in use. Each branch of `new_id`
and `reuse_id` is a lemma about neat sequences: a range is used up, one end is
moved, a range is inserted, two are joined. That `lower_bound` and `upper_bound`
find the first range they should needs a least index (`LeastIndex`), which is had
from the well-foundedness of the natural numbers. `TypeCorrect` (`TypeOK`) alone
has a premise, `MaxHanded < max_identifier`: with all ids in use `_current_range` is
`end()` (see *Known races*). It counts ids, so that it needs the cardinality of
what is covered.

The same module, on the containers of one script, for any finite sets of
containers and keys, any items and bound (`CollectionsAssumption`):
`EditsStayExact` (`EditsAreExact`), `LoopsVisitAll` (`LoopVisitsAll`) and
`JsonIsFaithful` (`JsonKeepsGraph`). Edits are lemmas on sequences. For loops
`LoopKeeps` says that every key that is there since the begin was given or is
still ahead of the key the loop is at; it survives what is added and removed, as
the next key is the least one ahead.

For JSON the state of the program matters little (arrays are sequences,
`ArraysTyped`); the argument is about the writer's and the reader's walks over
whatever graph there is. What is written so far is a tree at any time (`Tree`): no
container is in full twice, and each but the root is held by an earlier one at the
key that is recorded for it. After as many containers as there are, nothing is
left out (`WrittenIsClosed`), since a tree has no more of them (`NotLonger`). The
path of a container is that of its holder and one key (`PathToIs`), and the reader
follows a path key by key (`WalkOn`), as far as none of them is swallowed
(`NotSwallowed`); a path within the limit is not cut. Hence it ends at the container the path was
made for (`LeadsTo`), by the least container for which it would not. The recursive
functions of the walks exist because each value is made of the one before
(`ChainExists`), and the keys of a map have an ascending sequence as they are
finitely many (`Listed`).

`FormMapProofs`, for any holders, memory and number of forms
that have the id one after the other (`ObserverAssumption`), with a form map,
with saves and loads, and with natives at any place while the game deletes the
form: `FormTypeCorrect`, `OneEntryForAll` (`SameEntry`) and `NeverMeansAnother`
(`ExpiresWithForm`). The idea of `FormInv` is that every reference that is not
expired and not late is to the very entry the observer's map leads to
(`LeadsToLive`), for an entry is replaced only when it is flagged or gone.
`EventKnows` says that the deletion event flags that entry and no other, and that
between the flag and the end of the event no reference is alive but late ones:
whatever the event unlinks then was made late. Dropping a reference, clearing a map
and a load all let go of references, and one lemma (`LetGoKeeps`, `LetGoLeads`)
serves them.

On the form map: `KeysStaySorted` (`KeysSorted`) and `ScriptsFindTheirOwn`
(`FindsItsOwn`). The order of keys is not fixed: the comparer puts an expired key
behind the live one of its id, and a key expires without being moved in the tree.
The tree stays sorted because at most one key is alive (`OneLiveKey`) and no key
that expired earlier stands before it. That there is at most one rests on
`FormInv` (live keys share an entry) and on the search of the tree, which finds
an equivalent key only if the tree is sorted; so `KeyInv` has the order of the
tree (`TreeInv`), what is stored under each key (`StoreInv`) and the flag of the
observer's entry (`WeakAlive`) in one induction.

`ReleaseRaceProofs`, for any finite set of threads, any roles and any number of
retains (`RaceAssumption`): `QueueOwnsOnce` (`QueuedOnce`) and
`StackCountNeverDrifts` (`StackCountExact`). For the former `QueueCounted` says
which references the queue has at each place of a tick; within the scan the
queue counts for two in a sum, so that only a negative counter brings it down to
one. The latter counts holders: every step
leaves the set of holders alone, adds the thread that moves or removes it, along
with the counter (`SameHolders`, `OneMoreHolder`, `OneHolderLess`); a thread that
holds finds a counter above zero (`SomethingToGive`), so that the test before the
decrement cannot go wrong for it, whatever the other threads do in between.

`OnlyARaceFrees` (`FreedByRaceOnly`) says that a timer that loads the counters at
different moments frees only what nobody owns, but for the two races the property
names. `SumIsFair` bounds the sum from below, unless a negative counter went into
it: a counter that was loaded counts with what it is now, unless a reference was
taken meanwhile; a sum too small to spare the object then leaves nothing to any
counter of which none was taken. `LeftToTheQueue` (`HandedOver`) says that
without the timer somebody always cares (`SomebodyCares`): a counter is above zero,
or a thread that took the last reference has not yet looked at the others.

Left to TLC are `Reclaimed`, `LetsGo` and both `CallsReturn`: liveness under
fairness. All invariants and action properties of the passing runs are proved.

## Not modelled

* Of arrays: `sort`, `unique`, `subArray`, the copies from and to Papyrus arrays
  and form lists. Of maps: `getNthKey`, `allKeys`, `allValues`. They change
  nothing but one container under its lock, or only read.
* JAtomic's `exchange` and `compareExchange`: as `fetchAdd`, with another operation.
* Operators in paths (`@maxNum`), JFormDB (a fixed path), pools of JValue.
* Lua: its pool of contexts and the native functions LuaJIT calls need a model
  of the vendored interpreter; that Lua holds objects is in `ObjectLifetime`
  and `SaveLoad`.
* Archives of older versions, the bytes of the archive, the renumbering of
  plugins; a load that cannot resolve a form is in `FormMap`.
* JSON: text, numbers, form strings and strings of users that begin like a
  reference.
* Strings, file access, reflection, SKSE wrappers, the exported interface, the
  test harness and vendored libraries (all of `src/dep`): no state that changes
  here, or third-party code.

## What could come next

The interruption of a path by a deletion of its containers, that is `ContainerLocks`
together with `ObjectLifetime`; the archives of older versions, which fix
counters up in their own ways.
