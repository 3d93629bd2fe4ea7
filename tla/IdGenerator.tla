---------------------------- MODULE IdGenerator ----------------------------
(***************************************************************************)
(* id_generator: the free ids as an ascending deque of ranges, and the     *)
(* range the next id comes from.  object_registry takes a new id when an   *)
(* object is exposed and gives it back when the object is deleted, both    *)
(* under its write lock.                                                   *)
(*                                                                         *)
(* _current_range is an index; Len(_empty_ranges) + 1 is end().  An id     *)
(* handed out twice, or lost, makes a script's handle lead to a wrong      *)
(* object: registerNewObjectId asserts it does not happen.                 *)
(***************************************************************************)
EXTENDS Integers, Sequences, FiniteSets, SequencesExt

CONSTANTS
  max_identifier,  (* the ids are 1 .. max_identifier                      *)
  MaxHanded        (* bound on the ids in use at the same time             *)

ASSUME IdAssumption == /\ max_identifier \in Nat \ {0}
                       /\ MaxHanded \in 0 .. max_identifier

VARIABLES
  _empty_ranges,   (* sequence of [first, last]                            *)
  _current_range,
  handed           (* the ids in use: the keys of the registry's _map      *)

idVars == << _empty_ranges, _current_range, handed >>

Ids == 1 .. max_identifier

with_first_last(first_, last_) == [first |-> first_, last |-> last_]

IsEmpty(r) == r.first > r.last

(* std::upper_bound and std::lower_bound for the range (val, val): the     *)
(* index of the first range that begins behind val, or not before it.      *)
FirstIndex(found) ==
  IF found = {} THEN Len(_empty_ranges) + 1
                ELSE CHOOSE i \in found : \A j \in found : i <= j

NotBefore(val) == {i \in DOMAIN _empty_ranges : _empty_ranges[i].first >= val}

Behind(val) == {i \in DOMAIN _empty_ranges : _empty_ranges[i].first > val}

(* Faulty variant: std::lower_bound where std::upper_bound belongs.        *)
upper_bound_inclusive(val) == FirstIndex(NotBefore(val))

upper_bound(val) == FirstIndex(Behind(val))
lower_bound(val) == FirstIndex(NotBefore(val))

is_free_id(val) ==
  LET right == upper_bound(val)
  IN  right > 1 /\ _empty_ranges[right - 1].first <= val
                /\ val <= _empty_ranges[right - 1].last

-----------------------------------------------------------------------------
u_clear ==
  /\ _empty_ranges' = << with_first_last(1, max_identifier) >>
  /\ _current_range' = 1
  /\ handed' = {}

IdsInit ==
  /\ _empty_ranges = << with_first_last(1, max_identifier) >>
  /\ _current_range = 1
  /\ handed = {}

(* Faulty variant: the index is not moved along with the erased range.     *)
index_after_merge_unmoved(right) == _current_range

(* The index of the current range after the insertion of a range before    *)
(* index right, or after the erasure of the range at index right.          *)
index_after_insert(right) == _current_range + (IF _current_range < right THEN 0 ELSE 1)
index_after_merge(right) == _current_range - (IF _current_range < right THEN 0 ELSE 1)

(* Faulty variant: an exhausted range stays in the deque.                  *)
new_id_keeping_range ==
  LET rn == _empty_ranges[_current_range]
  IN  /\ Cardinality(handed) < MaxHanded
      /\ handed' = handed \cup {rn.first}
      /\ _empty_ranges' = [_empty_ranges EXCEPT ![_current_range].first = @ + 1]
      /\ UNCHANGED _current_range

new_id ==
  LET rn   == _empty_ranges[_current_range]
      rest == with_first_last(rn.first + 1, rn.last)
  IN
  /\ Cardinality(handed) < MaxHanded
  /\ _current_range \in DOMAIN _empty_ranges
  /\ handed' = handed \cup {rn.first}
  /\ IF IsEmpty(rest)
     THEN /\ _empty_ranges' = RemoveAt(_empty_ranges, _current_range)
          /\ _current_range' = IF _current_range = Len(_empty_ranges)
                               THEN 1 ELSE _current_range
     ELSE /\ _empty_ranges' = [_empty_ranges EXCEPT ![_current_range] = rest]
          /\ UNCHANGED _current_range

(* Faulty variant: end() taken for the last id.                            *)
left_meets_last(right, val) == right > 1 /\ _empty_ranges[right - 1].last = val

(* Whether val continues the range before index right, or precedes the one *)
(* at right.                                                               *)
left_meets(right, val) == right > 1 /\ _empty_ranges[right - 1].last + 1 = val
right_meets(right, val) ==
  right <= Len(_empty_ranges) /\ _empty_ranges[right].first - 1 = val

reuse_id(val) ==
  LET right     == lower_bound(val)
      leftMeets  == left_meets(right, val)
      rightMeets == right_meets(right, val)
  IN
  /\ val \in handed
  /\ handed' = handed \ {val}
  /\ \/ /\ ~leftMeets /\ ~rightMeets
        /\ _empty_ranges' = InsertAt(_empty_ranges, right, with_first_last(val, val))
        /\ _current_range' = index_after_insert(right)
     \/ /\ leftMeets /\ rightMeets
        /\ _empty_ranges' =
             RemoveAt([_empty_ranges EXCEPT ![right - 1].last = _empty_ranges[right].last], right)
        /\ _current_range' = index_after_merge(right)
     \/ /\ leftMeets /\ ~rightMeets
        /\ _empty_ranges' = [_empty_ranges EXCEPT ![right - 1].last = val]
        /\ UNCHANGED _current_range
     \/ /\ rightMeets /\ ~leftMeets
        /\ _empty_ranges' = [_empty_ranges EXCEPT ![right].first = val]
        /\ UNCHANGED _current_range

IdsNext == new_id \/ (\E val \in Ids : reuse_id(val)) \/ u_clear

IdsSpec == IdsInit /\ [][IdsNext]_idVars

-----------------------------------------------------------------------------
(* Every variable has its type; while there is a free id, what new_id      *)
(* dereferences is a range: assert(_current_range != _empty_ranges.end())  *)
(* in reuse_id.                                                            *)
TypeOK ==
  /\ _empty_ranges \in Seq([first : Ids, last : Ids])
  /\ _current_range \in 1 .. Len(_empty_ranges) + 1
  /\ _empty_ranges # <<>> => _current_range <= Len(_empty_ranges)
  /\ handed \in SUBSET Ids

(* is_valid, without its demand for a free id: the ranges ascend and do    *)
(* not touch, and the current range is one of them.  noOverlap() compares  *)
(* less: begins with begins and ends with ends.                            *)
RangesApart ==
  \A i, j \in DOMAIN _empty_ranges :
    i < j => _empty_ranges[i].last + 1 < _empty_ranges[j].first

(* The binary search of is_free_id finds an id in the ranges exactly when  *)
(* nobody uses it: none is lost and none is in use and free at once.       *)
FreeIffNotHanded == \A val \in Ids : is_free_id(val) <=> val \notin handed

(* An id is never handed out a second time while it is in use.             *)
Pool == INSTANCE IdPool
HandsOutFreeIds == Pool!Spec
=============================================================================
