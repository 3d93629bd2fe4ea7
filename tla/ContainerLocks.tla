--------------------------- MODULE ContainerLocks ---------------------------
(***************************************************************************)
(* Natives of several scripts that work on the same containers.  Every     *)
(* container has a spinlock, which a thread cannot take twice.  A native   *)
(* that is given a path takes the lock of one container at a time and      *)
(* carries a bare pointer to the next one; addPairs and addFromArray take  *)
(* two locks.                                                              *)
(*                                                                         *)
(* What a native does under one lock is one step here.  Every thread makes *)
(* one call.  A container that is unlinked while a native has its pointer  *)
(* is in the autorelease queue and outlives the native.                    *)
(***************************************************************************)
EXTENDS Integers, FiniteSets, Sequences

CONSTANTS
  Threads,
  Maps,      (* memory of JMaps                                            *)
  Arrays,    (* JArrays, of which only the locks matter                    *)
  Roots,     (* the maps that scripts have the ids of                      *)
  Keys,
  Absent,    (* no such key                                                *)
  Null,      (* the item None, and no call, no lock and no result yet      *)
  Error,     (* onErrorReturn                                              *)
  Calls,     (* the calls a script may make                                *)
  Heaps      (* the contents the maps may have at first                    *)

(* The maps scripts begin with hold no numbers.  A path has a key, and     *)
(* natives are given containers that scripts have the ids of.              *)
ASSUME LocksAssumption ==
  /\ IsFiniteSet(Threads) /\ IsFiniteSet(Maps)
  /\ Roots \subseteq Maps /\ Maps \cap Arrays = {}
  /\ {Null, Absent, Error} \cap (Maps \cup Arrays) = {}
  /\ Null # Absent
  /\ \A x \in Maps \cup {Null, Absent, Error} : x \notin Nat
  /\ Heaps \subseteq [Maps -> [Keys -> Maps \cup {Null, Absent}]]
  /\ Null \notin Calls
  /\ \A c \in Calls :
       \/ c.op \in {"add", "set", "remove"} /\ c.obj \in Roots /\ c.path \in Seq(Keys) \ {<< >>}
       \/ c.op = "copy" /\ c.obj \in Roots
       \/ c.op = "addPairs" /\ {c.obj, c.source} \subseteq Roots
       \/ c.op = "addFromArray" /\ {c.obj, c.source} \subseteq Arrays

VARIABLES
  content,  (* the items of each map                                       *)
  lock,     (* the thread that holds the _mutex of a container             *)
  call,     (* the call each thread made                                   *)
  pc,
  loc, at,  (* the container the native has reached, and how many keys of  *)
            (* the path it has consumed, with the next one                 *)
  copied,   (* deep_copy: pairs of an original and its copy                *)
  ret       (* what the call returned                                      *)

lockVars == << content, lock, call, pc, loc, at, copied, ret >>

Copies(t) == {p[2] : p \in copied[t]}

(* Memory nobody leads to.  Which of it is allocated is immaterial.        *)
Unused ==
  Maps \ (Roots \cup {content[m][k] : m \in Maps, k \in Keys}
                \cup {loc[t] : t \in Threads} \cup UNION {Copies(t) : t \in Threads})

NewMap == CHOOSE m \in Unused : TRUE

Empty == [k \in Keys |-> Absent]

LocksInit ==
  /\ content \in Heaps
  /\ lock = [m \in Maps \cup Arrays |-> Null]
  /\ call = [t \in Threads |-> Null]
  /\ pc = [t \in Threads |-> "idle"]
  /\ loc = [t \in Threads |-> Null]
  /\ at = [t \in Threads |-> 1]
  /\ copied = [t \in Threads |-> {}]
  /\ ret = [t \in Threads |-> Null]

Free(m) == lock[m] = Null

Goes(t, place) == pc' = [pc EXCEPT ![t] = place]

Returns(t, r) == ret' = [ret EXCEPT ![t] = r] /\ Goes(t, "done")

(* Faulty variant: the two containers may be the same one.                 *)
FirstStep_same_too(c) ==
  IF c.op \in {"add", "set"} THEN "access"
  ELSE IF c.op \in {"addPairs", "addFromArray"} THEN "lock" ELSE c.op

(* addPairs and addFromArray return at once if both containers are one.    *)
FirstStep(c) ==
  IF c.op \in {"add", "set"} THEN "access"
  ELSE IF c.op \in {"addPairs", "addFromArray"}
       THEN IF c.obj = c.source THEN "done" ELSE "lock"
       ELSE c.op

Begin(t, c) ==
  /\ pc[t] = "idle"
  /\ call' = [call EXCEPT ![t] = c]
  /\ loc' = [loc EXCEPT ![t] = c.obj]
  /\ Goes(t, FirstStep(c))
  /\ UNCHANGED << content, lock, at, copied, ret >>

-----------------------------------------------------------------------------
Key(t) == call[t].path[at[t]]
IsLast(t) == at[t] = Len(call[t].path)

(* The item the native has come to.                                        *)
Here(t) == content[loc[t]][Key(t)]

(* Faulty variant: a container is created even if there is one.            *)
Creates_anyway(t) == call[t].creative /\ (Here(t) = Absent \/ ~IsLast(t))

Creates(t) == call[t].creative /\ Here(t) = Absent

(* access_constant and access_creative: look the next key of the path up   *)
(* under the lock of the container reached, and go on from its item.       *)
Enter(t, m) ==
  /\ loc' = [loc EXCEPT ![t] = m]
  /\ at' = [at EXCEPT ![t] = @ + 1]
  /\ UNCHANGED << pc, ret >>

AccessItem(t) ==
  /\ pc[t] = "access" /\ Free(loc[t]) /\ ~Creates(t)
  /\ \/ IsLast(t) /\ Goes(t, "visit") /\ UNCHANGED << loc, at, ret >>
     \/ ~IsLast(t) /\ Here(t) \in Maps /\ Enter(t, Here(t))
     \/ ~IsLast(t) /\ Here(t) \notin Maps /\ Returns(t, Error) /\ UNCHANGED << loc, at >>
  /\ UNCHANGED << content, lock, call, copied >>

(* Creative: the last key gets the item None, another a new container.     *)
AccessMissing(t) ==
  /\ pc[t] = "access" /\ Free(loc[t]) /\ Creates(t)
  /\ \/ /\ IsLast(t)
        /\ content' = [content EXCEPT ![loc[t]][Key(t)] = Null]
        /\ Goes(t, "visit") /\ UNCHANGED << loc, at, ret >>
     \/ /\ ~IsLast(t) /\ Unused # {}
        /\ content' = [content EXCEPT ![loc[t]][Key(t)] = NewMap, ![NewMap] = Empty]
        /\ Enter(t, NewMap)
  /\ UNCHANGED << lock, call, copied >>

(* performAtomicFunction_ with std::plus, 1 and the initial value 0.       *)
(* Under the lock the key is looked up again.                              *)
FetchAdd(t) ==
  /\ pc[t] = "visit" /\ call[t].op = "add" /\ Free(loc[t])
  /\ \/ /\ Here(t) = Null
        /\ content' = [content EXCEPT ![loc[t]][Key(t)] = 1]
        /\ Returns(t, 0)
     \/ /\ Here(t) \notin Maps \cup {Null, Absent}
        /\ content' = [content EXCEPT ![loc[t]][Key(t)] = @ + 1]
        /\ Returns(t, Here(t))
     \/ /\ Here(t) \in Maps \cup {Absent}
        /\ Returns(t, Error)
        /\ UNCHANGED content
  /\ UNCHANGED << lock, call, loc, at, copied >>

(* ca::assign, of a number.                                                *)
Assign(t) ==
  /\ pc[t] = "visit" /\ call[t].op = "set" /\ Free(loc[t])
  /\ IF Here(t) = Absent /\ ~call[t].creative
     THEN Returns(t, Error) /\ UNCHANGED content
     ELSE /\ content' = [content EXCEPT ![loc[t]][Key(t)] = 0]
          /\ Returns(t, 0)
  /\ UNCHANGED << lock, call, loc, at, copied >>

RemoveKey(t) ==
  /\ pc[t] = "remove" /\ Free(loc[t])
  /\ content' = [content EXCEPT ![loc[t]][Key(t)] = Absent]
  /\ Returns(t, 0)
  /\ UNCHANGED << lock, call, loc, at, copied >>

-----------------------------------------------------------------------------
(* addPairs locks its target first, addFromArray its source.               *)
First(c) == IF c.op = "addPairs" THEN c.obj ELSE c.source
Second(c) == IF c.op = "addPairs" THEN c.source ELSE c.obj

LockFirst(t) ==
  /\ pc[t] = "lock" /\ Free(First(call[t]))
  /\ lock' = [lock EXCEPT ![First(call[t])] = t]
  /\ Goes(t, "transfer")
  /\ UNCHANGED << content, call, loc, at, copied, ret >>

Unlocked(c) == [lock EXCEPT ![First(c)] = Null]

Merged(c) ==
  [k \in Keys |->
     LET old == content[c.obj][k]
         new == content[c.source][k]
     IN  IF new # Absent /\ (c.overrides \/ old = Absent) THEN new ELSE old]

Transfer(t) ==
  /\ pc[t] = "transfer" /\ Free(Second(call[t]))
  /\ content' = IF call[t].op = "addPairs"
                THEN [content EXCEPT ![call[t].obj] = Merged(call[t])] ELSE content
  /\ lock' = Unlocked(call[t])
  /\ Returns(t, 0)
  /\ UNCHANGED << call, loc, at, copied >>

-----------------------------------------------------------------------------
(* deep_copy: a shallow copy of each original under its lock.  Nobody else *)
(* knows the copies yet.                                                   *)
CopyRoot(t) ==
  /\ pc[t] = "copy" /\ Free(loc[t]) /\ Unused # {}
  /\ content' = [content EXCEPT ![NewMap] = content[loc[t]]]
  /\ copied' = [copied EXCEPT ![t] = {<< loc[t], NewMap >>}]
  /\ ret' = [ret EXCEPT ![t] = NewMap]
  /\ Goes(t, "copying")
  /\ UNCHANGED << lock, call, loc, at >>

(* The items of the copies that still lead to an original.                 *)
ToCopy(t) ==
  {cell \in Copies(t) \X Keys : content[cell[1]][cell[2]] \in Maps \ Copies(t)}

CopyNew(t, origin, cell) ==
  /\ \A p \in copied[t] : p[1] # origin
  /\ Free(origin) /\ Unused # {}
  /\ content' = [content EXCEPT ![NewMap] = content[origin], ![cell[1]][cell[2]] = NewMap]
  /\ copied' = [copied EXCEPT ![t] = @ \cup {<< origin, NewMap >>}]

(* Faulty variant: a container met again is left out.                      *)
UniqueCopy_once(t, origin, cell) ==
  \/ /\ \E p \in copied[t] : p[1] = origin
     /\ content' = [content EXCEPT ![cell[1]][cell[2]] = Null]
     /\ UNCHANGED copied
  \/ CopyNew(t, origin, cell)

(* unique_copy; the order in which the items are visited is immaterial.    *)
UniqueCopy(t, origin, cell) ==
  \/ \E copy \in Maps :
       /\ << origin, copy >> \in copied[t]
       /\ content' = [content EXCEPT ![cell[1]][cell[2]] = copy]
       /\ UNCHANGED copied
  \/ CopyNew(t, origin, cell)

CopyChild(t) ==
  /\ pc[t] = "copying"
  /\ \E cell \in ToCopy(t) : UniqueCopy(t, content[cell[1]][cell[2]], cell)
  /\ UNCHANGED << lock, call, pc, loc, at, ret >>

CopyDone(t) ==
  /\ pc[t] = "copying" /\ ToCopy(t) = {}
  /\ Goes(t, "done")
  /\ UNCHANGED << content, lock, call, loc, at, copied, ret >>

Step(t) ==
  \/ AccessItem(t) \/ AccessMissing(t)
  \/ FetchAdd(t) \/ Assign(t)
  \/ RemoveKey(t)
  \/ LockFirst(t) \/ Transfer(t)
  \/ CopyRoot(t) \/ CopyChild(t) \/ CopyDone(t)

LocksNext == \E t \in Threads : Step(t) \/ \E c \in Calls : Begin(t, c)

(* A call that was made is executed, as far as locks let it.               *)
Fairness == \A t \in Threads : WF_lockVars(Step(t))

LocksSpec == LocksInit /\ [][LocksNext]_lockVars /\ Fairness

-----------------------------------------------------------------------------
Made(op) == {t \in Threads : call[t] # Null /\ call[t].op = op}

(* The cell a path leads to, as << container, key >>.                      *)
Cell(root, path) ==
  LET reached[i \in 1 .. Len(path)] ==
        IF i = 1 THEN root
        ELSE IF reached[i - 1] \in Maps THEN content[reached[i - 1]][path[i - 1]] ELSE Null
  IN  << reached[Len(path)], path[Len(path)] >>

Added == {t \in Made("add") : pc[t] = "done" /\ ret[t] # Error}
AddedWith(t) == {u \in Added : loc[u] = loc[t] /\ Key(u) = Key(t)}

(* JAtomic is atomic: unless another native overwrites or removes what the *)
(* path leads to, the calls of fetchAddInt that reach one value return     *)
(* 0, 1, 2 ... and the value is their number.  Where they create what the  *)
(* path lacks, they create one container for all.                          *)
AddsAddUp ==
  Made("set") \cup Made("remove") \cup Made("addPairs") = {} =>
    \A t \in Added :
      /\ Cell(call[t].obj, call[t].path) = << loc[t], Key(t) >>
      /\ content[loc[t]][Key(t)] = Cardinality(AddedWith(t))
      /\ {ret[u] : u \in AddedWith(t)} = 0 .. Cardinality(AddedWith(t)) - 1

(* Transfers of which each waits for a lock that another one takes first.  *)
Crossing ==
  \E S \in SUBSET (Made("addPairs") \cup Made("addFromArray")) \ {{}} :
    \A t \in S : \E u \in S \ {t} : Second(call[t]) = First(call[u])

(* Every call returns, unless calls of addPairs or addFromArray form a     *)
(* circle with their two containers.  The code does nothing about those.   *)
CallsReturn == \A t \in Threads : pc[t] # "idle" ~> pc[t] = "done" \/ Crossing

(* Containers with the ones they lead to.                                  *)
Around(S) == S \cup ({content[q][k] : q \in S, k \in Keys} \cap Maps)

Reached(m) ==
  LET within[n \in 0 .. Cardinality(Maps)] ==
        IF n = 0 THEN {m} ELSE Around(within[n - 1])
  IN  within[Cardinality(Maps)]

CopyOf(t, item) ==
  IF item \in Maps THEN CHOOSE m \in Maps : << item, m >> \in copied[t] ELSE item

(* A deep copy shares nothing with what scripts can reach, whatever they   *)
(* do meanwhile.  If they change nothing it has the shape of the original: *)
(* what is shared or leads back there is shared or leads back here.        *)
CopyIsFaithful ==
  \A t \in Made("copy") : pc[t] = "done" =>
    /\ Reached(ret[t]) = Copies(t)
    /\ \A r \in Roots : Reached(r) \cap Copies(t) = {}
    /\ \A p, q \in copied[t] : p[1] = q[1] <=> p[2] = q[2]
    /\ (\A u \in Threads \ Made("copy") : call[u] = Null) =>
         \A p \in copied[t], k \in Keys : content[p[2]][k] = CopyOf(t, content[p[1]][k])
=============================================================================
