---------------------------- MODULE Collections -----------------------------
(***************************************************************************)
(* The containers one script works on: JArrays with indices that may be    *)
(* negative, JMaps and JIntMaps that are changed while a loop over nextKey *)
(* goes over them, and what becomes of their graph when it is written to   *)
(* JSON and read back.                                                     *)
(*                                                                         *)
(* Keys are numbers in the order of the tree.  Key 0 is the end key of the *)
(* loops: the number 0, or the empty string, which precedes the others.    *)
(***************************************************************************)
EXTENDS Integers, SequencesExt

CONSTANTS
  Arrays, Maps, IntMaps,   (* JArrays, JMaps and JIntMaps                  *)
  Keys,                    (* the keys of maps, EndKey among them          *)
  Scalars,                 (* items that are not containers                *)
  Null, Absent,            (* the item None, one of them; no item          *)
  MaxCount,                (* bound on the items of all containers         *)
  Parse,                   (* the keys that parse_path makes of a JMap's   *)
                           (* key: more than one if it has a dot in it     *)
  Chars(_),                (* the characters of a key in a path            *)
  MaxPath,                 (* string_path_length_max                       *)
  MetaKeys                 (* the keys __metaInfo and its legacy name      *)

ASSUME CollectionsAssumption ==
  /\ Keys \subseteq Int /\ IsFiniteSet(Keys)
  /\ IsFiniteSet(Arrays \cup Maps \cup IntMaps) /\ Arrays \cap (Maps \cup IntMaps) = {}
  /\ Null \in Scalars /\ Absent \notin Scalars \cup Arrays \cup Maps \cup IntMaps
  /\ MaxCount \in Nat /\ MaxPath \in Nat
  /\ MetaKeys \subseteq Keys

EndKey == 0

VARIABLES
  arr,     (* the items of each array                                      *)
  map,     (* the items of each map, by key                                *)
  loop,    (* the loop: its map, the key it is at, the keys it has been    *)
           (* given and the keys that are there since it began             *)
  result   (* what the last native returned                                *)

vars == << arr, map, loop, result >>

AllMaps == Maps \cup IntMaps
Containers == Arrays \cup AllMaps
Items == Scalars \cup Containers

NoLoop == [over |-> Null, at |-> EndKey, given |-> << >>, since |-> {}]

Init ==
  /\ arr = [a \in Arrays |-> << >>]
  /\ map \in [AllMaps -> [Keys -> {Absent} \cup Scalars]]
  /\ \A m \in AllMaps, k \in Keys \ {EndKey} : map[m][k] = Absent
  /\ loop = NoLoop
  /\ result = Null

-----------------------------------------------------------------------------
(* Indices count from 0.  Both conversions compare with the count only     *)
(* from above: a negative index below -count comes out negative.           *)
FromEnd(i, n) == IF i >= 0 THEN i ELSE n + i

ReadIndex(i, n) == IF n > 0 /\ FromEnd(i, n) < n THEN {FromEnd(i, n)} ELSE {}

WriteIndex(i, n) == IF FromEnd(i, n + 1) <= n THEN {FromEnd(i, n + 1)} ELSE {}

(* Of several indices each is compared as an unsigned number.              *)
ReadIndices(i, j, n) ==
  IF {FromEnd(i, n), FromEnd(j, n)} \subseteq 0 .. n - 1
  THEN {<< FromEnd(i, n), FromEnd(j, n) >>} ELSE {}

(* The indices a script gives; it stays above -n where only one is given   *)
(* for n places, for what lies before an array is anything.                *)
AnyIndex == -(MaxCount + 1) .. MaxCount + 1
Indices(n) == {i \in AnyIndex : i >= -n}

Count(a) == Len(arr[a])
SetArray(a, s) == arr' = [arr EXCEPT ![a] = s] /\ UNCHANGED << map, loop, result >>

KeysOf(m) == {k \in Keys : map[m][k] # Absent}

Total ==
  FoldSet(LAMBDA a, n : n + Count(a), 0, Arrays)
    + FoldSet(LAMBDA m, n : n + Cardinality(KeysOf(m)), 0, AllMaps)

Inserted(s, i, xs) == {SubSeq(s, 1, w) \o xs \o SubSeq(s, w + 1, Len(s)) : w \in WriteIndex(i, Len(s))}

(* addItemAt                                                               *)
AddItem(a, i, x) ==
  /\ Total < MaxCount
  /\ \E s \in Inserted(arr[a], i, << x >>) : SetArray(a, s)

(* replaceItemAtIndex                                                      *)
SetItem(a, i, x) ==
  \E r \in ReadIndex(i, Count(a)) : SetArray(a, [arr[a] EXCEPT ![r + 1] = x])

EraseIndex(a, i) ==
  \E r \in ReadIndex(i, Count(a)) : SetArray(a, RemoveAt(arr[a], r + 1))

(* Faulty variant: the last index is not erased.                           *)
Erased_half_open(s, i, j) ==
  {SubSeq(s, 1, r[1]) \o SubSeq(s, r[2] + 1, Len(s)) : r \in ReadIndices(i, j, Len(s))}

Erased(s, i, j) ==
  {SubSeq(s, 1, r[1]) \o SubSeq(s, r[2] + 2, Len(s)) :
     r \in {q \in ReadIndices(i, j, Len(s)) : q[1] <= q[2]}}

EraseRange(a, i, j) == \E s \in Erased(arr[a], i, j) : SetArray(a, s)

SwapItems(a, i, j) ==
  \E r \in ReadIndices(i, j, Count(a)) :
    SetArray(a, [arr[a] EXCEPT ![r[1] + 1] = arr[a][r[2] + 1], ![r[2] + 1] = arr[a][r[1] + 1]])

(* addFromArray                                                            *)
AddFromArray(a, b, i) ==
  /\ a # b
  /\ Total + Count(b) <= MaxCount
  /\ \E s \in Inserted(arr[a], i, arr[b]) : SetArray(a, s)

(* findVal: from a negative index it searches backwards, and returns the   *)
(* place behind what it finds.                                             *)
FindVal(a, i, x) ==
  \E r \in ReadIndex(i, Count(a)) :
    LET ahead == {k \in r .. Count(a) - 1 : arr[a][k + 1] = x}
        back  == {k \in 0 .. r : arr[a][k + 1] = x}
    IN  /\ result' = IF i >= 0
                     THEN IF ahead = {} THEN -1 ELSE Min(ahead)
                     ELSE IF back = {} THEN -1 ELSE Max(back) + 1
        /\ UNCHANGED << arr, map, loop >>

-----------------------------------------------------------------------------
(* setItem of a map.  JMap refuses the empty key; JIntMap takes any.       *)
MapSet(m, k, x) ==
  /\ m \in Maps => k > EndKey
  /\ k \in KeysOf(m) \/ Total < MaxCount
  /\ map' = [map EXCEPT ![m][k] = x]
  /\ UNCHANGED << arr, loop, result >>

MapErase(m, gone) ==
  /\ map' = [map EXCEPT ![m] = [k \in Keys |-> IF k \in gone THEN Absent ELSE @[k]]]
  /\ loop' = IF m = loop.over THEN [loop EXCEPT !.since = @ \ gone] ELSE loop
  /\ UNCHANGED << arr, result >>

RemoveKey(m, k) == k \in KeysOf(m) /\ MapErase(m, {k})

Clear(m) == MapErase(m, Keys)

FirstOf(keys) == IF keys = {} THEN EndKey ELSE Min(keys)
After(m, k) == {q \in KeysOf(m) : q > k}

(* Faulty variant: the next key is sought by its order.                    *)
NextKey_by_count(m, k) == FirstOf(IF k = EndKey THEN KeysOf(m) ELSE After(m, k + 1))

(* JMap's nextKey; JIntMap's, nextKey_forPapyrus, passes over the end key. *)
NextKey(m, k) ==
  LET keys == IF m \in IntMaps THEN KeysOf(m) \ {EndKey} ELSE KeysOf(m)
  IN  IF k = EndKey THEN FirstOf(keys)
      ELSE IF k \in KeysOf(m) THEN FirstOf(After(m, k) \cap keys) ELSE EndKey

(* What the items are does not matter to a loop: loops are only begun over *)
(* items that are not containers, and only such are added meanwhile.       *)
Flat ==
  /\ \A a \in Arrays : arr[a] = << >>
  /\ \A m \in AllMaps, k \in Keys : map[m][k] \notin Containers

(* key = nextKey(map, key); while key # EndKey                             *)
LoopBegin(m) ==
  /\ loop.over = Null /\ Flat
  /\ loop' = [over |-> m, at |-> NextKey(m, EndKey),
              given |-> << NextKey(m, EndKey) >>, since |-> KeysOf(m)]
  /\ UNCHANGED << arr, map, result >>

LoopNext ==
  /\ loop.over # Null /\ loop.at # EndKey
  /\ LET next == NextKey(loop.over, loop.at) IN
     loop' = [loop EXCEPT !.at = next, !.given = Append(@, next)]
  /\ UNCHANGED << arr, map, result >>

LoopEnd ==
  /\ loop.over # Null /\ loop.at = EndKey
  /\ loop' = NoLoop
  /\ UNCHANGED << arr, map, result >>

ArrayNext ==
  loop.over = Null /\ \E a \in Arrays :
    \/ \E i \in Indices(Count(a)), x \in Items : SetItem(a, i, x) \/ FindVal(a, i, x)
    \/ \E i \in Indices(Count(a)) : EraseIndex(a, i)
    \/ \E i \in Indices(Count(a) + 1), x \in Items : AddItem(a, i, x)
    \/ \E i \in Indices(Count(a) + 1), b \in Arrays : AddFromArray(a, b, i)
    \/ \E i, j \in AnyIndex : EraseRange(a, i, j) \/ SwapItems(a, i, j)

MapNext ==
  \E m \in AllMaps, k \in Keys :
    \/ \E x \in Items : (loop.over = Null \/ x \in Scalars) /\ MapSet(m, k, x)
    \/ RemoveKey(m, k)
    \/ Clear(m)

Next == ArrayNext \/ MapNext \/ (\E m \in AllMaps : LoopBegin(m)) \/ LoopNext \/ LoopEnd

Spec == Init /\ [][Next]_vars

-----------------------------------------------------------------------------
(* JSON.  The writer goes over the graph breadth first.  A container is    *)
(* written in full where it is met first, and _keyInfo keeps its owner and *)
(* key there; anywhere else the path from the root is written.             *)
Ascends(s) == \A i, j \in DOMAIN s : i < j => s[i] < s[j]

EntryKeys(c) ==
  IF c \in Arrays THEN [i \in 1 .. Count(c) |-> i - 1]
  ELSE CHOOSE s \in [1 .. Cardinality(KeysOf(c)) -> KeysOf(c)] : Ascends(s)

Entry(c, k) == IF c \in Arrays THEN arr[c][k + 1] ELSE map[c][k]

Met(found, c) == \E i \in DOMAIN found : found[i].obj = c

Meet(c, found, k) ==
  IF Entry(c, k) \in Containers /\ ~Met(found, Entry(c, k))
  THEN Append(found, [obj |-> Entry(c, k), owner |-> c, key |-> k])
  ELSE found

(* What the n-th container that is written holds, key by key.              *)
WriteNext(found, n) ==
  LET keys == EntryKeys(found[n].obj)
      met[j \in 0 .. Len(keys)] ==
        IF j = 0 THEN found ELSE Meet(found[n].obj, met[j - 1], keys[j])
  IN  IF n > Len(found) THEN found ELSE met[Len(keys)]

(* The containers in the order in which they are written.                  *)
Written(root) ==
  LET upto[n \in 0 .. Cardinality(Containers)] ==
        IF n = 0 THEN << [obj |-> root, owner |-> Null, key |-> Null] >>
        ELSE WriteNext(upto[n - 1], n)
  IN  upto[Cardinality(Containers)]

IndexIn(found, c) == CHOOSE i \in DOMAIN found : found[i].obj = c

(* A step of a path, as parse_path will read it.                           *)
Step(f) == IF f.owner \in Maps THEN Parse[f.key] ELSE << f.key >>

(* Faulty variant: the keys are put together from the container up.        *)
PathTo_upward(found, c) ==
  LET path[i \in DOMAIN found] ==
        IF i = 1 THEN << >> ELSE Step(found[i]) \o path[IndexIn(found, found[i].owner)]
  IN  path[IndexIn(found, c)]

(* path_to_object                                                          *)
PathTo(found, c) ==
  LET path[i \in DOMAIN found] ==
        IF i = 1 THEN << >> ELSE path[IndexIn(found, found[i].owner)] \o Step(found[i])
  IN  path[IndexIn(found, c)]

InFull(found, c, k) ==
  \E i \in DOMAIN found : found[i] = [obj |-> Entry(c, k), owner |-> c, key |-> k]

(* The reader makes its n-th container of the n-th that was written.       *)
Copy(n) == << "copy", n >>

(* make_placeholder takes an item of a JMap that has one of the names of   *)
(* meta information for that, and deletes it.  If it is null, or a map, so *)
(* that it is an object in JSON, what is made is not a JMap.               *)
Swallowed(found, c, k) ==
  /\ c \in Maps
  /\ \/ k \in MetaKeys
     \/ \E q \in KeysOf(c) \cap MetaKeys :
          Entry(c, q) = Null \/ (Entry(c, q) \in AllMaps /\ InFull(found, c, q))

(* From the n-th container along a key, over what was written in full.     *)
Follow(found, n, k) ==
  LET c == found[n].obj IN
  IF /\ n # 0 /\ k \in Range(EntryKeys(c))
     /\ InFull(found, c, k) /\ ~Swallowed(found, c, k)
  THEN IndexIn(found, Entry(c, k)) ELSE 0

Length(path) == FoldLeft(LAMBDA sum, k : sum + Chars(k), 0, path)

(* make_cstring_safe: the first characters of a path, MaxPath of them.  It *)
(* may end with a whole key, and lead to another container on the way, or  *)
(* with the beginning of one, which is taken to be no key that is there.   *)
Cut(path) ==
  LET n == CHOOSE n \in 0 .. Len(path) :
             /\ Length(SubSeq(path, 1, n)) <= MaxPath
             /\ n < Len(path) => Length(SubSeq(path, 1, n + 1)) > MaxPath
      whole == SubSeq(path, 1, n)
  IN  IF Length(path) <= MaxPath THEN path
      ELSE IF Length(whole) = MaxPath THEN whole
      ELSE Append(whole, Null)

(* resolve_references, from the root.  An item whose reference leads       *)
(* nowhere stays None.                                                     *)
Walk(found, path) ==
  LET at[n \in 0 .. Len(path)] ==
        IF n = 0 THEN 1 ELSE Follow(found, at[n - 1], path[n])
  IN  at[Len(path)]

(* The item that is read back for an item that was written.                *)
ReadBack(found, c, k) ==
  LET x == Entry(c, k)
      n == Walk(found, Cut(PathTo(found, x)))
  IN  IF Swallowed(found, c, k) THEN Absent
      ELSE IF x \notin Containers THEN x
      ELSE IF InFull(found, c, k) THEN Copy(IndexIn(found, x))
      ELSE IF n = 0 THEN Null ELSE Copy(n)

Plain(m) ==
  m \in Maps => \A k \in KeysOf(m) : Parse[k] = << k >> /\ k \notin MetaKeys

(* Whatever graph scripts build is the same after it was written to JSON   *)
(* and read back: containers that are shared are shared, and cycles are    *)
(* cycles - if no key of a JMap is empty, has a dot or a bracket in it or  *)
(* is a name of meta information, and except for references whose path has *)
(* more than MaxPath characters.                                           *)
JsonKeepsGraph ==
  loop.over = Null => \A root \in Containers :
    LET found == Written(root) IN
    (\A i \in DOMAIN found : Plain(found[i].obj)) =>
      \A i \in DOMAIN found : \A k \in Range(EntryKeys(found[i].obj)) :
        LET c == found[i].obj
            x == Entry(c, k)
        IN  /\ x \notin Containers => ReadBack(found, c, k) = x
            /\ x \in Containers /\ (InFull(found, c, k) \/ Length(PathTo(found, x)) <= MaxPath)
                 => ReadBack(found, c, k) = Copy(IndexIn(found, x))

(* A loop over nextKey returns every key that is in the map from its begin *)
(* to its end but the end key, whatever is added and removed meanwhile -   *)
(* unless the key it is at is removed, when it ends early.                 *)
LoopVisitsAll ==
  [][ LET m == loop.over IN
      LoopNext /\ loop.at \in KeysOf(m) /\ loop.at' = EndKey
        => loop.since \ {EndKey} \subseteq Range(loop.given) ]_vars

(* An item that is added at an index is at that index then, also when it   *)
(* is negative, and the others are as before.  What is left of a range     *)
(* that is erased is what is outside, be its ends negative or positive.    *)
EditsAreExact ==
  \A a \in Arrays :
    LET s == arr[a]
        n == Len(s)
    IN  /\ \A i \in Indices(n + 1), x \in Scalars : \A t \in Inserted(s, i, << x >>) :
             \E r \in ReadIndex(i, n + 1) : t[r + 1] = x /\ RemoveAt(t, r + 1) = s
        /\ \A i, j \in AnyIndex : \A t \in Erased(s, i, j) :
             LET first == FromEnd(i, n)
                 last  == FromEnd(j, n)
                 gone  == last - first + 1
             IN  /\ Len(t) = n - gone
                 /\ \A q \in 1 .. first : t[q] = s[q]
                 /\ \A q \in last + 2 .. n : t[q - gone] = s[q]
=============================================================================
