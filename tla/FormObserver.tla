---------------------------- MODULE FormObserver ----------------------------
(***************************************************************************)
(* form_observer: containers do not hold forms of the game but form-       *)
(* entries, one per form, that are flagged when the game deletes the form, *)
(* for the game reuses form ids.  The observer's concurrent map leads from *)
(* an id to the entry, by a weak pointer.                                  *)
(*                                                                         *)
(* Different ids share nothing but a spinlock pool, so there is one id     *)
(* here.  Natives look it up before they take the lock, and the game's     *)
(* deletion event takes the lock for its last step only; nothing keeps     *)
(* natives that were called with the form from running meanwhile, or from  *)
(* coming to watch_form's second half when the event is over.              *)
(***************************************************************************)
EXTENDS Integers, FiniteSets

CONSTANTS
  Threads,    (* natives that make a form_ref of the form and drop it      *)
  Entries,    (* memory of form-entries, reused                            *)
  Null,       (* no entry                                                  *)
  MaxForms    (* bound on the forms that have the id one after the other   *)

ASSUME ObserverAssumption ==
  /\ Null \notin Entries
  /\ MaxForms \in Nat \ {0}

VARIABLES
  form,      (* how many forms have had the id                             *)
  formLives, (* whether the present one exists                             *)
  inMap,     (* whether _watched_forms has the id                          *)
  weak,      (* the entry its weak pointer leads to, Null if expired       *)
  deleted,   (* _deleted of each entry                                     *)
  arg,       (* the form each native was called with                       *)
  ref,       (* the entry its form_ref holds, Null for a null one          *)
  pc,        (* where each native is in watch_form                         *)
  late,      (* the natives that watch_form answered after the game had    *)
             (* begun to delete their form: a history                      *)
  victim, delPc   (* on_form_deleted: its local reference and its place    *)

vars == << form, formLives, inMap, weak, deleted, arg, ref, pc, late, victim, delPc >>

Referenced == ({ref[t] : t \in Threads} \cup {victim}) \ {Null}

(* weak_ptr::lock: expired once the last strong reference is gone.         *)
WeakAfter(refs, vic, w) ==
  IF w \in {refs[t] : t \in Threads} \cup {vic} THEN w ELSE Null

Init ==
  /\ form = 1 /\ formLives = TRUE
  /\ inMap = FALSE /\ weak = Null
  /\ deleted = [e \in Entries |-> FALSE]
  /\ arg = [t \in Threads |-> 0]
  /\ ref = [t \in Threads |-> Null]
  /\ pc = [t \in Threads |-> "idle"]
  /\ late = {}
  /\ victim = Null /\ delPc = "idle"

NoNativeInside == \A t \in Threads : pc[t] \in {"idle", "has"}

(* A native with the form as its argument: _watched_forms.find(fId).       *)
Find(t) ==
  /\ pc[t] = "idle"
  /\ formLives
  /\ arg' = [arg EXCEPT ![t] = form]
  /\ pc' = [pc EXCEPT ![t] = IF inMap THEN "found" ELSE "missed"]
  /\ UNCHANGED << form, formLives, inMap, weak, deleted, ref, late, victim, delPc >>

(* form_entry::make                                                        *)
Make(e) ==
  /\ e \in Entries \ Referenced
  /\ deleted' = [deleted EXCEPT ![e] = FALSE]

InTime(t) == formLives /\ arg[t] = form

Return(t, e) ==
  /\ ref' = [ref EXCEPT ![t] = e]
  /\ pc' = [pc EXCEPT ![t] = "has"]
  /\ late' = IF InTime(t) THEN late ELSE late \cup {t}
  /\ UNCHANGED << form, formLives, arg, victim, delPc >>

(* Under the lock, the id was found: the entry it leads to, or a new one.  *)
WatchFound(t) ==
  /\ pc[t] = "found"
  /\ IF weak = Null \/ deleted[weak]
     THEN \E e \in Entries :
            /\ Make(e)
            /\ weak' = e
            /\ Return(t, e)
     ELSE /\ Return(t, weak)
          /\ UNCHANGED << weak, deleted >>
  /\ UNCHANGED inMap

(* Faulty variant: the entry just made is returned, inserted or not.       *)
WatchMissed_returning_own(t) ==
  /\ pc[t] = "missed"
  /\ \E e \in Entries :
       /\ Make(e)
       /\ weak' = IF inMap THEN weak ELSE e
       /\ Return(t, e)
  /\ inMap' = TRUE

(* Under the lock, the id was not found: insert a new entry, and return    *)
(* what the map leads to, be it what another native inserted meanwhile,    *)
(* and then the new one goes.  That may be expired again: the form_ref is  *)
(* null, though the form exists.                                           *)
WatchMissed(t) ==
  /\ pc[t] = "missed"
  /\ IF inMap
     THEN /\ Return(t, weak)
          /\ UNCHANGED << weak, deleted >>
     ELSE \E e \in Entries :
            /\ Make(e)
            /\ weak' = e
            /\ Return(t, e)
  /\ inMap' = TRUE

(* The native's form_ref goes, and its entry if it was the last.           *)
Drop(t) ==
  /\ pc[t] = "has"
  /\ pc' = [pc EXCEPT ![t] = "idle"]
  /\ ref' = [ref EXCEPT ![t] = Null]
  /\ arg' = [arg EXCEPT ![t] = 0]
  /\ late' = late \ {t}
  /\ weak' = WeakAfter(ref', victim, weak)
  /\ UNCHANGED << form, formLives, inMap, deleted, victim, delPc >>

-----------------------------------------------------------------------------
(* on_form_deleted: the id is looked up, its entry is kept, flagged and    *)
(* unlinked.                                                               *)
FormDeleted ==
  /\ formLives /\ delPc = "idle"
  /\ formLives' = FALSE
  /\ delPc' = IF inMap THEN "lock" ELSE "idle"
  /\ UNCHANGED << form, inMap, weak, deleted, arg, ref, pc, late, victim >>

(* itr->second.lock()                                                      *)
LockWeak ==
  /\ delPc = "lock"
  /\ victim' = weak
  /\ delPc' = IF weak # Null THEN "flag" ELSE "idle"
  /\ UNCHANGED << form, formLives, inMap, weak, deleted, arg, ref, pc, late >>

(* Faulty variant: the entry is unlinked, not flagged.                     *)
SetDeleted_skipped ==
  /\ delPc = "flag"
  /\ delPc' = "reset"
  /\ UNCHANGED << form, formLives, inMap, weak, deleted, arg, ref, pc, late, victim >>

SetDeleted ==
  /\ delPc = "flag"
  /\ deleted' = [deleted EXCEPT ![victim] = TRUE]
  /\ delPc' = "reset"
  /\ UNCHANGED << form, formLives, inMap, weak, arg, ref, pc, late, victim >>

(* Under the lock: itr->second.reset(), of whatever it leads to by now.    *)
Reset ==
  /\ delPc = "reset"
  /\ weak' = Null
  /\ victim' = Null
  /\ delPc' = "idle"
  /\ UNCHANGED << form, formLives, inMap, deleted, arg, ref, pc, late >>

(* A new form gets the id.                                                 *)
FormCreated ==
  /\ ~formLives /\ delPc = "idle"
  /\ form < MaxForms
  /\ form' = form + 1
  /\ formLives' = TRUE
  /\ UNCHANGED << inMap, weak, deleted, arg, ref, pc, late, victim, delPc >>

(* u_remove_expired_forms, before a save.                                  *)
Purge ==
  /\ NoNativeInside /\ delPc = "idle"
  /\ inMap /\ weak = Null
  /\ inMap' = FALSE
  /\ UNCHANGED << form, formLives, weak, deleted, arg, ref, pc, late, victim, delPc >>

Watch(t) == Find(t) \/ WatchFound(t) \/ WatchMissed(t) \/ Drop(t)

Next ==
  \/ \E t \in Threads : Watch(t)
  \/ FormDeleted
  \/ LockWeak
  \/ SetDeleted
  \/ Reset
  \/ FormCreated
  \/ Purge

Spec == Init /\ [][Next]_vars

-----------------------------------------------------------------------------
(* Every variable has its type; on_form_deleted flags an entry that exists *)
(* and that it keeps itself until it has unlinked it.                      *)
TypeOK ==
  /\ form \in 1 .. MaxForms /\ formLives \in BOOLEAN
  /\ inMap \in BOOLEAN
  /\ weak \in Entries \cup {Null}
  /\ deleted \in [Entries -> BOOLEAN]
  /\ arg \in [Threads -> 0 .. MaxForms]
  /\ ref \in [Threads -> Entries \cup {Null}]
  /\ pc \in [Threads -> {"idle", "found", "missed", "has"}]
  /\ late \in SUBSET Threads
  /\ delPc \in {"idle", "lock", "flag", "reset"}
  /\ victim \in IF delPc \in {"idle", "lock"} THEN {Null} ELSE Entries

IsNotExpired(t) == ref[t] # Null /\ ~deleted[ref[t]]

(* Form-refs of the same id that are not expired "should expire in the     *)
(* same moment of time, should point to the same form-entry" (the test     *)
(* dynamic_form_id), whatever natives and deletions overlap, except those  *)
(* that watch_form made of a form which the game had begun to delete: the  *)
(* event unlinks such a one unseen, or is over already.                    *)
SameEntry ==
  \A t, u \in Threads \ late : IsNotExpired(t) /\ IsNotExpired(u) => ref[t] = ref[u]

(* Once the deletion event is over every form-ref of the form is expired,  *)
(* and stays so when another form gets the id: a reference never comes to  *)
(* mean a form it was not made for, with the same exception.               *)
ExpiresWithForm ==
  \A t \in Threads \ late :
    IsNotExpired(t) /\ delPc = "idle" => formLives /\ arg[t] = form

(* The form_ref made of a form that exists is not expired (the test        *)
(* simple_2; "this code assumes that @watch_form tries to watch real       *)
(* existing form").                                                        *)
WatchedIsKnown ==
  \A t \in Threads : pc[t] = "has" /\ arg[t] = form /\ formLives => IsNotExpired(t)
=============================================================================
