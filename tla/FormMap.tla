------------------------------ MODULE FormMap -------------------------------
(***************************************************************************)
(* A form_map whose keys are form_refs of FormObserver, as far as one form *)
(* id goes.  stable_less_comparer orders keys by id and, within an id, the *)
(* ones that are not expired before the ones that are.  A deletion event   *)
(* therefore changes the order of keys that are in the map, and keys that  *)
(* differed become equivalent in place.                                    *)
(*                                                                         *)
(* A holder of FormObserver is a key of the map if it is in `order`, else  *)
(* an item, a key of another map or a native's variable.                   *)
(***************************************************************************)
EXTENDS FormObserver, SequencesExt

VARIABLES
  order,  (* the keys, as the tree has them                                *)
  val,    (* of a key: the form its item was stored under                  *)
  lateVal (* the keys whose item was stored under a late form_ref          *)

mvars == << vars, order, val, lateVal >>

Keys == ToSet(order)

MapInit == Init /\ order = << >> /\ val = [t \in Threads |-> 0] /\ lateVal = {}

(* Faulty variant: keys are compared by id alone.                          *)
Rank_by_id(t) == IF ref[t] = Null THEN 0 ELSE 1

(* stable_less_comparer goes by << get_raw(), is_expired() >>, and the raw *)
(* id of a null form_ref is zero.                                          *)
Rank(t) == IF ref[t] = Null THEN 0 ELSE IF ~deleted[ref[t]] THEN 1 ELSE 2

Live == 1

LowerBound(x) == Cardinality({i \in DOMAIN order : Rank(order[i]) < x}) + 1

(* lower_bound, then stable_equal_comparer: the index of a key, or 0.      *)
IndexOf(x) ==
  LET i == LowerBound(x) IN
  IF i \in DOMAIN order /\ Rank(order[i]) = x THEN i ELSE 0

(* Faulty variant: a new key goes where the keys of its id end.            *)
Place_behind(t) == Len(order) + 1

Place(t) == LowerBound(Rank(t))

Observe ==
  /\ \/ \E t \in Threads \ Keys : Watch(t)
     \/ FormDeleted \/ LockWeak \/ SetDeleted \/ Reset \/ FormCreated \/ Purge
  /\ UNCHANGED << order, val, lateVal >>

(* cnt[key] = item: the item of an equivalent key is replaced, or the      *)
(* holder becomes a key.  addPairs does this with keys that are expired.   *)
SetItem(t) ==
  /\ pc[t] = "has" /\ t \notin Keys
  /\ LET i == IndexOf(Rank(t))
         key == IF i # 0 THEN order[i] ELSE t
     IN  /\ order' = IF i # 0 THEN order ELSE InsertAt(order, Place(t), t)
         /\ val' = [val EXCEPT ![key] = arg[t]]
         /\ lateVal' = IF t \in late THEN lateVal \cup {key} ELSE lateVal \ {key}
  /\ UNCHANGED vars

Erased(i) ==
  /\ order' = RemoveAt(order, i)
  /\ val' = [val EXCEPT ![order[i]] = 0]
  /\ lateVal' = lateVal \ {order[i]}

(* removeKey, with the present form as the key.                            *)
RemoveKey ==
  /\ formLives /\ IndexOf(Live) # 0
  /\ Erased(IndexOf(Live))
  /\ Drop(order[IndexOf(Live)])

(* What is left of the holders and of the items if only these stay.        *)
Keep(kept) ==
  /\ ref' = [t \in Threads |-> IF t \in kept THEN ref[t] ELSE Null]
  /\ arg' = [t \in Threads |-> IF t \in kept THEN arg[t] ELSE 0]
  /\ pc' = [t \in Threads |-> IF t \in kept THEN pc[t] ELSE "idle"]
  /\ late' = late \cap kept
  /\ weak' = WeakAfter(ref', victim, weak)
  /\ val' = [t \in Threads |-> IF t \in kept THEN val[t] ELSE 0]
  /\ lateVal' = lateVal \cap kept

Clear ==
  /\ Keys # {}
  /\ order' = << >>
  /\ Keep(Threads \ Keys)
  /\ UNCHANGED << form, formLives, inMap, deleted, victim, delPc >>

(* The keys that are not expired are inserted into an empty map, in their  *)
(* order: of equivalent keys the first stays.                              *)
Reloaded ==
  LET live == {i \in DOMAIN order : Rank(order[i]) = Live}
  IN  IF live = {} THEN << >> ELSE << order[CHOOSE i \in live : \A j \in live : i <= j] >>

(* A save and a load of it.  An expired key or item is saved as null, a    *)
(* null key is erased by u_onLoaded, and what natives hold is not saved.   *)
(* If the form cannot be resolved any more its entry is flagged deleted.   *)
(* The observer's map is made of the entries that are not.                 *)
SaveAndLoad(lost, gone) ==
  /\ NoNativeInside /\ delPc = "idle"
  /\ order' = IF gone THEN << >> ELSE Reloaded
  /\ Keep({t \in Threads \ lost :
             IsNotExpired(t) /\ ~gone /\ (t \in Keys => t \in ToSet(order'))})
  /\ formLives' = (formLives /\ ~gone)
  /\ inMap' = (weak' # Null)
  /\ UNCHANGED << form, deleted, victim, delPc >>

MapNext ==
  \/ Observe
  \/ \E t \in Threads : SetItem(t)
  \/ RemoveKey
  \/ Clear
  \/ \E lost \in SUBSET (Threads \ Keys), gone \in BOOLEAN : SaveAndLoad(lost, gone)

MapSpec == MapInit /\ [][MapNext]_mvars

-----------------------------------------------------------------------------
(* Although keys expire while they are in the map, the tree stays sorted:  *)
(* no key is less than a key before it.                                    *)
KeysSorted ==
  \A i, j \in DOMAIN order : i < j => Rank(order[i]) <= Rank(order[j])

(* What was stored under a form is found under it ("the new form should    *)
(* not be equal to the old, already deleted form") - unless the form_ref   *)
(* that was to be its key came out null - and nothing else is, never the   *)
(* item of a deleted form with the same id - unless the form_ref that is   *)
(* its key, or that it was stored under, was made late.                    *)
FindsItsOwn ==
  LET found == IF IndexOf(Live) = 0 THEN {} ELSE {order[IndexOf(Live)]}
      own   == {t \in Keys : val[t] = form /\ ref[t] # Null}
  IN  formLives => own \subseteq found /\ found \subseteq own \cup late \cup lateVal
=============================================================================
