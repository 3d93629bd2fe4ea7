---------------------------- MODULE FormMapProofs -----------------------------
(***************************************************************************)
(* Proofs about form entries and the keys of a form map, for any natives,  *)
(* memory and number of forms with the id, with a form map among the       *)
(* holders, with saves and loads, and natives that run while the game      *)
(* deletes the form.                                                       *)
(***************************************************************************)
EXTENDS FormMap, FiniteSetTheorems, SequenceTheorems, TLAPS

(* What the observer's map leads to.  A reference that is not expired is   *)
(* to the entry that a native would be given, so there is no second one -  *)
(* leave aside what was made late.                                         *)
LeadsToLive ==
  /\ ~inMap => weak = Null
  /\ \A t \in Threads \ late : IsNotExpired(t) => ref[t] = weak

(* What each native knows at its place.                                    *)
NativeKnows(t) ==
  /\ pc[t] # "has" => ref[t] = Null /\ t \notin late
  /\ pc[t] = "found" => inMap
  /\ arg[t] <= form
  /\ t \in late => ~InTime(t)
  /\ t \notin late /\ IsNotExpired(t) => arg[t] = form
  /\ t \notin late /\ IsNotExpired(t) /\ delPc = "idle" => formLives

(* The deletion event works on the entry the map leads to, until it has    *)
(* flagged it; then natives may have made the map lead elsewhere.          *)
EventKnows ==
  /\ delPc # "idle" => ~formLives
  /\ delPc \in {"lock", "flag"} => inMap
  /\ delPc = "flag" => victim = weak
  /\ delPc = "reset" => \A t \in Threads \ late : ~IsNotExpired(t)
  /\ delPc # "reset" /\ weak # Null => ~deleted[weak]

FormInv ==
  /\ TypeOK
  /\ LeadsToLive
  /\ \A t \in Threads : NativeKnows(t)
  /\ EventKnows

-----------------------------------------------------------------------------
LEMMA FormInit == MapInit => FormInv
<1> SUFFICES ASSUME Init PROVE FormInv
  BY DEF MapInit
<1>1. TypeOK
  <2>1. form \in 1 .. MaxForms /\ 0 \in 0 .. MaxForms
    BY ObserverAssumption DEF Init
  <2>2. formLives \in BOOLEAN /\ inMap \in BOOLEAN /\ deleted \in [Entries -> BOOLEAN]
    BY DEF Init
  <2>3. arg \in [Threads -> 0 .. MaxForms]
    BY <2>1 DEF Init
  <2>4. ref \in [Threads -> Entries \cup {Null}] /\ weak \in Entries \cup {Null}
    BY DEF Init
  <2>5. pc \in [Threads -> {"idle", "found", "missed", "has"}]
    BY DEF Init
  <2> QED
    BY <2>1, <2>2, <2>3, <2>4, <2>5 DEF Init, TypeOK
<1>2. LeadsToLive /\ EventKnows
  BY DEF Init, LeadsToLive, EventKnows, IsNotExpired
<1>3. \A t \in Threads : NativeKnows(t)
  BY DEF Init, NativeKnows, IsNotExpired
<1> QED
  BY <1>1, <1>2, <1>3 DEF FormInv

LEMMA FindKeeps ==
  ASSUME FormInv, NEW t \in Threads, Find(t)
  PROVE  FormInv'
<1> USE DEF FormInv, TypeOK
<1>1. TypeOK'
  BY DEF Find
<1>2. \A u \in Threads : (u \in late => u \in late') /\ (IsNotExpired(u)' <=> IsNotExpired(u))
  BY DEF Find, IsNotExpired
<1>3. LeadsToLive'
  BY <1>2 DEF Find, LeadsToLive
<1>4. \A u \in Threads : NativeKnows(u)'
  BY <1>2 DEF Find, NativeKnows, InTime, IsNotExpired
<1>5. EventKnows'
  BY <1>2 DEF Find, EventKnows
<1> QED
  BY <1>1, <1>3, <1>4, <1>5

(* A native past the lookup is given an entry that none refers to, which   *)
(* the map leads to from now on.                                           *)
LEMMA FreshKeeps ==
  ASSUME FormInv, NEW t \in Threads, NEW e \in Entries,
         pc[t] \in {"found", "missed"},
         weak = Null \/ deleted[weak],
         delPc # "flag",
         Make(e), Return(t, e), weak' = e, inMap' = TRUE
  PROVE  FormInv'
<1> USE DEF FormInv, TypeOK
<1>1. e # Null /\ ~deleted'[e] /\ \A u \in Threads : ref[u] # e
  BY ObserverAssumption DEF Make, Referenced
<1>2. \A u \in Threads \ late : ~IsNotExpired(u)
  BY DEF LeadsToLive, IsNotExpired
<1>3. \A u \in Threads : u # t => (IsNotExpired(u)' <=> IsNotExpired(u)) /\ (u \in late' <=> u \in late)
  BY <1>1 DEF IsNotExpired, Make, Return
<1>4. TypeOK'
  BY DEF Make, Return
<1>5. LeadsToLive'
  BY <1>1, <1>2, <1>3 DEF LeadsToLive, Return
<1>6. t \notin late' => formLives /\ arg[t] = form /\ delPc = "idle"
  BY DEF Return, InTime, EventKnows
<1>7. \A u \in Threads : NativeKnows(u)'
  <2>1. NativeKnows(t)'
    BY <1>6 DEF NativeKnows, Return, InTime
  <2>2. ASSUME NEW u \in Threads, u # t PROVE NativeKnows(u)'
    BY <1>3, <2>2 DEF NativeKnows, Return, InTime
  <2> QED
    BY <2>1, <2>2
<1>8. EventKnows'
  BY <1>1, <1>2, <1>3, <1>6 DEF EventKnows, Return
<1> QED
  BY <1>4, <1>5, <1>7, <1>8

(* A native past the lookup is given what the map leads to.                *)
LEMMA SharedKeeps ==
  ASSUME FormInv, NEW t \in Threads,
         pc[t] \in {"found", "missed"},
         Return(t, weak), UNCHANGED << weak, deleted >>,
         inMap' = TRUE
  PROVE  FormInv'
<1> USE DEF FormInv, TypeOK
<1>1. TypeOK'
  BY DEF Return
<1>2. \A u \in Threads : u # t => (IsNotExpired(u)' <=> IsNotExpired(u)) /\ (u \in late' <=> u \in late)
  BY DEF IsNotExpired, Return
<1>3. t \notin late' => formLives /\ arg[t] = form /\ delPc = "idle"
  BY DEF Return, InTime, EventKnows
<1>4. LeadsToLive'
  BY <1>2 DEF LeadsToLive, Return
<1>5. \A u \in Threads : NativeKnows(u)'
  <2>1. NativeKnows(t)'
    BY <1>3 DEF NativeKnows, Return, InTime
  <2>2. ASSUME NEW u \in Threads, u # t PROVE NativeKnows(u)'
    BY <1>2, <2>2 DEF NativeKnows, Return, InTime
  <2> QED
    BY <2>1, <2>2
<1>6. EventKnows'
  BY <1>2, <1>3 DEF EventKnows, Return
<1> QED
  BY <1>1, <1>4, <1>5, <1>6

LEMMA WatchFoundKeeps ==
  ASSUME FormInv, NEW t \in Threads, WatchFound(t)
  PROVE  FormInv'
<1>1. inMap' = TRUE /\ pc[t] \in {"found", "missed"}
  BY DEF WatchFound, FormInv, TypeOK, NativeKnows
<1>2. CASE weak = Null \/ deleted[weak]
  <2>1. PICK e \in Entries : Make(e) /\ weak' = e /\ Return(t, e)
    BY <1>2 DEF WatchFound
  <2>2. delPc # "flag"
    BY <1>2, ObserverAssumption DEF FormInv, TypeOK, EventKnows
  <2> QED
    BY <1>1, <1>2, <2>1, <2>2, FreshKeeps
<1>3. CASE ~(weak = Null \/ deleted[weak])
  BY <1>1, <1>3, SharedKeeps DEF WatchFound
<1> QED
  BY <1>2, <1>3

LEMMA WatchMissedKeeps ==
  ASSUME FormInv, NEW t \in Threads, WatchMissed(t)
  PROVE  FormInv'
<1>1. inMap' = TRUE /\ pc[t] \in {"found", "missed"}
  BY DEF WatchMissed
<1>2. CASE inMap
  BY <1>1, <1>2, SharedKeeps DEF WatchMissed
<1>3. CASE ~inMap
  <2>1. PICK e \in Entries : Make(e) /\ weak' = e /\ Return(t, e)
    BY <1>3 DEF WatchMissed
  <2>2. weak = Null /\ delPc # "flag"
    BY <1>3 DEF FormInv, LeadsToLive, EventKnows
  <2> QED
    BY <1>1, <2>1, <2>2, FreshKeeps
<1> QED
  BY <1>2, <1>3

(* Holders that let go of their references leave the others as they were:  *)
(* the weak pointer expires only when nobody is left.                      *)
LetGo ==
  /\ ref' \in [Threads -> Entries \cup {Null}]
  /\ arg' \in [Threads -> 0 .. MaxForms]
  /\ pc' \in [Threads -> {"idle", "found", "missed", "has"}]
  /\ \A t \in Threads :
       \/ ref'[t] = ref[t] /\ arg'[t] = arg[t] /\ pc'[t] = pc[t] /\ (t \in late' <=> t \in late)
       \/ ref'[t] = Null /\ pc'[t] = "idle" /\ arg'[t] = 0 /\ t \notin late'
  /\ late' \in SUBSET Threads
  /\ weak' = WeakAfter(ref', victim, weak)
  /\ UNCHANGED << form, deleted, victim, delPc >>

LEMMA LetGoLeads ==
  ASSUME FormInv, LetGo
  PROVE  /\ weak' \in {weak, Null}
         /\ \A t \in Threads : IsNotExpired(t)' => IsNotExpired(t) /\ (t \in late' <=> t \in late)
         /\ \A t \in Threads \ late' : IsNotExpired(t)' => ref'[t] = weak'
         /\ delPc = "flag" => weak' = weak
<1> USE DEF FormInv, LetGo
<1>1. weak' \in {weak, Null}
  BY DEF WeakAfter
<1>2. ASSUME NEW t \in Threads, IsNotExpired(t)'
      PROVE  IsNotExpired(t) /\ (t \in late' <=> t \in late) /\ ref'[t] = ref[t]
  BY <1>2 DEF IsNotExpired
<1>3. ASSUME NEW t \in Threads \ late', IsNotExpired(t)'
      PROVE  ref'[t] = weak'
  <2>1. ref'[t] = weak
    BY <1>2, <1>3 DEF LeadsToLive
  <2> QED
    BY <2>1 DEF WeakAfter
<1>4. delPc = "flag" => weak' = weak
  BY DEF WeakAfter, EventKnows
<1> QED
  BY <1>1, <1>2, <1>3, <1>4

LEMMA LetGoKeeps ==
  ASSUME FormInv, LetGo, UNCHANGED << formLives, inMap >>
  PROVE  FormInv'
<1>1. TypeOK'
  BY LetGoLeads DEF FormInv, TypeOK, LetGo
<1>2. LeadsToLive'
  BY LetGoLeads DEF FormInv, LeadsToLive
<1>3. ASSUME NEW t \in Threads PROVE NativeKnows(t)'
  <2>1. NativeKnows(t) /\ (IsNotExpired(t)' => IsNotExpired(t) /\ (t \in late' <=> t \in late))
    BY LetGoLeads DEF FormInv
  <2>2. form \in Nat /\ 1 <= form
    BY DEF FormInv, TypeOK
  <2> QED
    BY <2>1, <2>2 DEF LetGo, NativeKnows, IsNotExpired, InTime
<1>4. EventKnows'
  <2>1. \A t \in Threads \ late' : IsNotExpired(t)' => IsNotExpired(t) /\ t \notin late
    BY LetGoLeads
  <2>2. weak' \in {weak, Null} /\ (delPc = "flag" => weak' = weak)
    BY LetGoLeads
  <2> QED
    BY <2>1, <2>2 DEF FormInv, EventKnows, LetGo
<1> QED
  BY <1>1, <1>2, <1>3, <1>4 DEF FormInv

LEMMA DropKeeps ==
  ASSUME FormInv, NEW t, Drop(t)
  PROVE  FormInv'
<1>1. /\ ref' \in [Threads -> Entries \cup {Null}]
      /\ arg' \in [Threads -> 0 .. MaxForms]
      /\ pc' \in [Threads -> {"idle", "found", "missed", "has"}]
  <2>1. ref' \in [Threads -> Entries \cup {Null}]
    BY DEF FormInv, TypeOK, Drop
  <2>2. arg' \in [Threads -> 0 .. MaxForms]
    <3>1. 0 \in 0 .. MaxForms
      BY ObserverAssumption
    <3> QED
      BY <3>1 DEF FormInv, TypeOK, Drop
  <2>3. pc' \in [Threads -> {"idle", "found", "missed", "has"}]
    BY DEF FormInv, TypeOK, Drop
  <2> QED
    BY <2>1, <2>2, <2>3
<1>2. ASSUME NEW u \in Threads
      PROVE  \/ /\ ref'[u] = ref[u] /\ arg'[u] = arg[u] /\ pc'[u] = pc[u]
                /\ u \in late' <=> u \in late
             \/ ref'[u] = Null /\ pc'[u] = "idle" /\ arg'[u] = 0 /\ u \notin late'
  <2>1. CASE u = t
    BY <2>1 DEF FormInv, TypeOK, Drop
  <2>2. CASE u # t
    BY <2>2 DEF FormInv, TypeOK, Drop
  <2> QED
    BY <2>1, <2>2
<1>3. LetGo
  BY <1>1, <1>2 DEF Drop, LetGo, FormInv, TypeOK
<1> QED
  BY <1>3, LetGoKeeps DEF Drop

LEMMA ClearKeeps ==
  ASSUME FormInv, Clear
  PROVE  FormInv'
<1>1. LetGo
  BY ObserverAssumption DEF FormInv, TypeOK, Clear, Keep, LetGo
<1> QED
  BY <1>1, LetGoKeeps DEF Clear

LEMMA SaveAndLoadKeeps ==
  ASSUME FormInv, NEW lost, NEW gone \in BOOLEAN, SaveAndLoad(lost, gone)
  PROVE  FormInv'
<1>1. LetGo
  BY ObserverAssumption DEF FormInv, TypeOK, SaveAndLoad, Keep, LetGo
<1>2. gone => \A t \in Threads : ref'[t] = Null
  BY DEF SaveAndLoad, Keep
<1>3. TypeOK'
  BY <1>1, LetGoLeads DEF FormInv, TypeOK, LetGo, SaveAndLoad
<1>4. LeadsToLive'
  BY <1>1, LetGoLeads DEF FormInv, LeadsToLive, SaveAndLoad
<1>5. ASSUME NEW t \in Threads PROVE NativeKnows(t)'
  <2>1. NativeKnows(t) /\ (IsNotExpired(t)' => IsNotExpired(t) /\ (t \in late' <=> t \in late))
    BY <1>1, LetGoLeads DEF FormInv
  <2>2. pc'[t] \in {"idle", "has"}
    BY <1>1 DEF SaveAndLoad, NoNativeInside, LetGo
  <2>3. form \in Nat /\ 1 <= form
    BY DEF FormInv, TypeOK
  <2>4. t \in late' => t \in late /\ arg'[t] = arg[t]
    BY <1>1 DEF LetGo
  <2>5. t \in late' => ~InTime(t)'
    BY <2>1, <2>4 DEF NativeKnows, SaveAndLoad, InTime
  <2>6. IsNotExpired(t)' => ~gone /\ arg'[t] = arg[t]
    BY <1>1, <1>2, <2>3 DEF LetGo, IsNotExpired
  <2>7. arg'[t] = arg[t] \/ arg'[t] = 0
    BY <1>1 DEF LetGo
  <2>8. pc'[t] # "has" => ref'[t] = Null /\ t \notin late'
    BY <1>1, <2>1 DEF LetGo, NativeKnows
  <2>9. t \notin late' /\ IsNotExpired(t)' => formLives /\ arg[t] = form
    BY <2>1 DEF NativeKnows, SaveAndLoad
  <2>10. formLives /\ ~gone => formLives'
    BY DEF SaveAndLoad
  <2>11. t \notin late' /\ IsNotExpired(t)' => formLives' /\ arg'[t] = form
    BY <2>6, <2>9, <2>10
  <2>12. arg'[t] <= form /\ form' = form
    BY <2>1, <2>3, <2>7 DEF NativeKnows, SaveAndLoad
  <2> QED
    BY <2>2, <2>5, <2>8, <2>11, <2>12 DEF NativeKnows
<1>6. EventKnows'
  <2>1. weak' \in {weak, Null}
    BY <1>1, LetGoLeads
  <2> QED
    BY <2>1 DEF EventKnows, SaveAndLoad, FormInv
<1> QED
  BY <1>3, <1>4, <1>5, <1>6 DEF FormInv

LEMMA EventKeeps ==
  ASSUME FormInv, FormDeleted \/ LockWeak \/ SetDeleted \/ Reset
  PROVE  FormInv'
<1> USE DEF FormInv, TypeOK
<1>1. CASE FormDeleted
  <2>1. TypeOK'
    BY <1>1 DEF FormDeleted
  <2>2. \A t \in Threads : (IsNotExpired(t)' <=> IsNotExpired(t)) /\ (t \in late' <=> t \in late)
    BY <1>1 DEF FormDeleted, IsNotExpired
  <2>3. LeadsToLive' /\ EventKnows'
    BY <1>1, <2>2 DEF FormDeleted, LeadsToLive, EventKnows
  <2>4. ASSUME NEW t \in Threads PROVE NativeKnows(t)'
    <3>1. t \notin late /\ IsNotExpired(t) => inMap
      BY DEF LeadsToLive, IsNotExpired
    <3> QED
      BY <1>1, <2>2, <3>1 DEF FormDeleted, NativeKnows, InTime
  <2> QED
    BY <2>1, <2>3, <2>4
<1>2. CASE LockWeak
  <2>1. TypeOK'
    BY <1>2 DEF LockWeak
  <2>2. \A t \in Threads : (IsNotExpired(t)' <=> IsNotExpired(t)) /\ (t \in late' <=> t \in late)
    BY <1>2 DEF LockWeak, IsNotExpired
  <2>3. LeadsToLive' /\ EventKnows'
    BY <1>2, <2>2 DEF LockWeak, LeadsToLive, EventKnows
  <2>4. ASSUME NEW t \in Threads PROVE NativeKnows(t)'
    <3>1. t \notin late /\ IsNotExpired(t) => weak # Null
      BY DEF LeadsToLive, IsNotExpired
    <3> QED
      BY <1>2, <2>2, <3>1 DEF LockWeak, NativeKnows, InTime
  <2> QED
    BY <2>1, <2>3, <2>4
<1>3. CASE SetDeleted
  <2>1. ~formLives /\ victim = weak /\ weak \in Entries /\ delPc = "flag"
    BY <1>3 DEF SetDeleted, EventKnows
  <2>2. TypeOK'
    BY <1>3, <2>1 DEF SetDeleted
  <2>3. \A t \in Threads \ late : ~IsNotExpired(t)'
    BY <1>3, <2>1 DEF SetDeleted, LeadsToLive, IsNotExpired
  <2>4. LeadsToLive' /\ EventKnows'
    BY <1>3, <2>1, <2>3 DEF SetDeleted, LeadsToLive, EventKnows
  <2>5. \A t \in Threads : NativeKnows(t)'
    BY <1>3, <2>1, <2>3 DEF SetDeleted, NativeKnows, InTime
  <2> QED
    BY <2>2, <2>4, <2>5
<1>4. CASE Reset
  <2>1. \A t \in Threads \ late : ~IsNotExpired(t) /\ ~IsNotExpired(t)'
    BY <1>4 DEF Reset, EventKnows, IsNotExpired
  <2>2. TypeOK' /\ EventKnows'
    BY <1>4 DEF Reset, EventKnows
  <2>3. LeadsToLive'
    BY <1>4, <2>1 DEF Reset, LeadsToLive
  <2>4. \A t \in Threads : NativeKnows(t)'
    BY <1>4, <2>1 DEF Reset, NativeKnows, InTime
  <2> QED
    BY <2>2, <2>3, <2>4
<1> QED
  BY <1>1, <1>2, <1>3, <1>4

LEMMA CreatedKeeps ==
  ASSUME FormInv, FormCreated
  PROVE  FormInv'
<1> USE DEF FormInv, TypeOK
<1>1. \A t \in Threads \ late : ~IsNotExpired(t) /\ ~IsNotExpired(t)'
  BY DEF FormCreated, NativeKnows, IsNotExpired
<1>2. TypeOK'
  BY ObserverAssumption DEF FormCreated
<1>3. LeadsToLive' /\ EventKnows'
  BY <1>1 DEF FormCreated, LeadsToLive, EventKnows
<1>4. ASSUME NEW t \in Threads PROVE NativeKnows(t)'
  <2>1. form \in Nat /\ arg[t] \in Nat /\ arg[t] <= form /\ form' = form + 1
    BY DEF FormCreated, NativeKnows
  <2>2. ~InTime(t)'
    BY <2>1 DEF InTime, FormCreated
  <2> QED
    BY <1>1, <2>1, <2>2 DEF FormCreated, NativeKnows
<1> QED
  BY <1>2, <1>3, <1>4

LEMMA PurgeKeeps ==
  ASSUME FormInv, Purge
  PROVE  FormInv'
<1> USE DEF FormInv, TypeOK
<1>1. TypeOK'
  BY DEF Purge
<1>2. \A t \in Threads : (IsNotExpired(t)' <=> IsNotExpired(t)) /\ (t \in late' <=> t \in late)
  BY DEF Purge, IsNotExpired
<1>3. LeadsToLive' /\ EventKnows'
  BY <1>2 DEF Purge, LeadsToLive, EventKnows
<1>4. \A t \in Threads : NativeKnows(t)'
  BY <1>2 DEF Purge, NoNativeInside, NativeKnows, InTime
<1> QED
  BY <1>1, <1>3, <1>4

LEMMA FormStands ==
  ASSUME FormInv, UNCHANGED vars
  PROVE  FormInv'
<1>1. TypeOK' /\ LeadsToLive' /\ EventKnows'
  BY DEF FormInv, vars, TypeOK, LeadsToLive, EventKnows, IsNotExpired
<1>2. \A t \in Threads : NativeKnows(t)'
  BY DEF FormInv, vars, NativeKnows, IsNotExpired, InTime
<1> QED
  BY <1>1, <1>2 DEF FormInv

LEMMA FormInductive == MapSpec => []FormInv
<1>1. MapInit => FormInv
  BY FormInit
<1>2. ASSUME FormInv, [MapNext]_mvars PROVE FormInv'
  <2>1. CASE Observe
    <3>1. ASSUME NEW t \in Threads, Watch(t) PROVE FormInv'
      BY <1>2, <3>1, FindKeeps, WatchFoundKeeps, WatchMissedKeeps, DropKeeps DEF Watch
    <3> QED
      BY <1>2, <2>1, <3>1, EventKeeps, CreatedKeeps, PurgeKeeps DEF Observe
  <2>2. CASE \E t \in Threads : SetItem(t)
    <3>1. UNCHANGED vars
      BY <2>2 DEF SetItem
    <3> QED
      BY <1>2, <3>1, FormStands
  <2>3. CASE RemoveKey
    BY <1>2, <2>3, DropKeeps DEF RemoveKey
  <2>4. CASE Clear
    BY <1>2, <2>4, ClearKeeps
  <2>5. CASE \E lost \in SUBSET (Threads \ Keys), gone \in BOOLEAN : SaveAndLoad(lost, gone)
    BY <1>2, <2>5, SaveAndLoadKeeps
  <2>6. CASE UNCHANGED mvars
    BY <1>2, <2>6, FormStands DEF mvars
  <2> QED
    BY <1>2, <2>1, <2>2, <2>3, <2>4, <2>5, <2>6 DEF MapNext
<1> QED
  BY <1>1, <1>2, PTL DEF MapSpec

(* Types; and the deletion event flags an entry that it keeps itself.      *)
THEOREM FormTypeCorrect == MapSpec => []TypeOK
<1>1. FormInv => TypeOK
  BY DEF FormInv
<1> QED
  BY FormInductive, <1>1, PTL

(* However many natives make the form's form_ref at once, and whatever     *)
(* deletions run meanwhile, those that are not expired share an entry,     *)
(* saves and loads included, unless watch_form came late: its form was     *)
(* being deleted.                                                          *)
THEOREM OneEntryForAll == MapSpec => []SameEntry
<1>1. FormInv => SameEntry
  BY DEF FormInv, LeadsToLive, SameEntry
<1> QED
  BY FormInductive, <1>1, PTL

(* A form_ref never outlives its form: it never means the next form with   *)
(* the same id - unless it was made late.                                  *)
THEOREM NeverMeansAnother == MapSpec => []ExpiresWithForm
<1>1. FormInv => ExpiresWithForm
  BY DEF FormInv, NativeKnows, ExpiresWithForm
<1> QED
  BY FormInductive, <1>1, PTL

-----------------------------------------------------------------------------
(* The map.                                                                *)

(* What was stored under a form-reference, or a native was called with:    *)
(* not the present form, if that lives and the reference is expired.       *)
Stored(t, f) ==
  /\ f <= form
  /\ ~IsNotExpired(t) /\ formLives => f # form

(* The item of a key that is not expired was stored under the present form. *)
OwnItem(t) == IsNotExpired(t) /\ t \notin late /\ t \notin lateVal => val[t] = form

OneLiveKey ==
  \A i, j \in DOMAIN order : Rank(order[i]) = Live /\ Rank(order[j]) = Live => i = j

TreeInv ==
  /\ order \in Seq(Threads)
  /\ KeysSorted
  /\ OneLiveKey

StoreInv ==
  /\ val \in [Threads -> 0 .. MaxForms]
  /\ \A t \in Threads : ref[t] # Null => Stored(t, arg[t])
  /\ \A t \in Keys : ref[t] # Null => Stored(t, val[t])
  /\ \A t \in Keys : OwnItem(t)

KeyInv == TreeInv /\ StoreInv

(* Sequences and numbers.                                                  *)
LEMMA LeastIndex ==
  ASSUME NEW F \in SUBSET Nat, F # {}
  PROVE  \E i \in F : \A j \in F : i <= j
<1> DEFINE R == OpToRel(<, Nat)
<1>1. \A i, j \in Nat : i < j => << i, j >> \in R
  BY DEF OpToRel
<1>2. IsWellFoundedOn(R, Nat)
  BY NatLessThanWellFounded
<1> HIDE DEF R
<1>3. \E i \in F : \A j \in F : ~ (<< j, i >> \in R)
  BY <1>2, WFMin
<1>4. PICK i \in F : \A j \in F : ~ (<< j, i >> \in R)
  BY <1>3
<1>5. ASSUME NEW j \in F PROVE i <= j
  <2>1. i \in Nat /\ j \in Nat /\ ~(j < i)
    BY <1>1, <1>4
  <2> QED
    BY <2>1
<1> QED
  BY <1>4, <1>5

LEMMA Inserted ==
  ASSUME NEW S, NEW s \in Seq(S), NEW i \in 1 .. Len(s) + 1, NEW e \in S
  PROVE  /\ InsertAt(s, i, e) \in Seq(S)
         /\ Len(InsertAt(s, i, e)) = Len(s) + 1
         /\ \A j \in 1 .. Len(s) + 1 :
              InsertAt(s, i, e)[j] = IF j < i THEN s[j] ELSE IF j = i THEN e ELSE s[j - 1]
<1> DEFINE a == SubSeq(s, 1, i - 1)
           b == << e >>
           c == SubSeq(s, i, Len(s))
<1>0. Len(s) \in Nat
  BY LenProperties
<1>1. a \in Seq(S) /\ Len(a) = i - 1 /\ \A j \in 1 .. i - 1 : a[j] = s[j]
  BY <1>0, SubSeqProperties
<1>2. b \in Seq(S) /\ Len(b) = 1 /\ b[1] = e
  OBVIOUS
<1>3. c \in Seq(S) /\ Len(c) = Len(s) - i + 1 /\ \A j \in 1 .. Len(s) - i + 1 : c[j] = s[i + j - 1]
  BY <1>0, SubSeqProperties
<1> HIDE DEF a, b, c
<1>4. /\ a \o b \in Seq(S) /\ Len(a \o b) = i
      /\ \A j \in 1 .. i : (a \o b)[j] = IF j < i THEN s[j] ELSE e
  <2>1. /\ a \o b \in Seq(S) /\ Len(a \o b) = Len(a) + Len(b)
        /\ \A j \in 1 .. Len(a) + Len(b) :
             (a \o b)[j] = IF j <= Len(a) THEN a[j] ELSE b[j - Len(a)]
    BY <1>1, <1>2, ConcatProperties
  <2>2. ASSUME NEW j \in 1 .. i PROVE (a \o b)[j] = IF j < i THEN s[j] ELSE e
    BY <1>0, <1>1, <1>2, <2>1
  <2> QED
    BY <1>0, <1>1, <1>2, <2>1, <2>2
<1>5. /\ (a \o b) \o c \in Seq(S) /\ Len((a \o b) \o c) = Len(s) + 1
      /\ \A j \in 1 .. Len(s) + 1 :
           ((a \o b) \o c)[j] = IF j < i THEN s[j] ELSE IF j = i THEN e ELSE s[j - 1]
  <2> DEFINE d == a \o b
  <2>1. d \in Seq(S) /\ Len(d) = i /\ \A j \in 1 .. i : d[j] = IF j < i THEN s[j] ELSE e
    BY <1>4
  <2> HIDE DEF d
  <2>2. /\ d \o c \in Seq(S) /\ Len(d \o c) = Len(d) + Len(c)
        /\ \A j \in 1 .. Len(d) + Len(c) :
             (d \o c)[j] = IF j <= Len(d) THEN d[j] ELSE c[j - Len(d)]
    BY <1>3, <2>1, ConcatProperties
  <2>3. ASSUME NEW j \in 1 .. Len(s) + 1
        PROVE  (d \o c)[j] = IF j < i THEN s[j] ELSE IF j = i THEN e ELSE s[j - 1]
    BY <1>0, <1>3, <2>1, <2>2
  <2>4. Len(d \o c) = Len(s) + 1
    BY <1>0, <1>3, <2>1, <2>2
  <2> QED
    BY <2>2, <2>3, <2>4 DEF d
<1>6. InsertAt(s, i, e) = (a \o b) \o c
  BY DEF InsertAt, a, b, c
<1> QED
  BY <1>5, <1>6

LEMMA Removed ==
  ASSUME NEW S, NEW s \in Seq(S), NEW i \in 1 .. Len(s)
  PROVE  /\ RemoveAt(s, i) \in Seq(S)
         /\ Len(RemoveAt(s, i)) = Len(s) - 1
         /\ \A j \in 1 .. Len(s) - 1 :
              RemoveAt(s, i)[j] = IF j < i THEN s[j] ELSE s[j + 1]
<1> DEFINE a == SubSeq(s, 1, i - 1)
           c == SubSeq(s, i + 1, Len(s))
<1>0. Len(s) \in Nat
  BY LenProperties
<1>1. a \in Seq(S) /\ Len(a) = i - 1 /\ \A j \in 1 .. i - 1 : a[j] = s[j]
  BY <1>0, SubSeqProperties
<1>2. c \in Seq(S) /\ Len(c) = Len(s) - i /\ \A j \in 1 .. Len(s) - i : c[j] = s[i + j]
  BY <1>0, SubSeqProperties
<1> HIDE DEF a, c
<1>3. /\ a \o c \in Seq(S) /\ Len(a \o c) = Len(s) - 1
      /\ \A j \in 1 .. Len(s) - 1 : (a \o c)[j] = IF j < i THEN s[j] ELSE s[j + 1]
  <2>1. /\ a \o c \in Seq(S) /\ Len(a \o c) = Len(a) + Len(c)
        /\ \A j \in 1 .. Len(a) + Len(c) :
             (a \o c)[j] = IF j <= Len(a) THEN a[j] ELSE c[j - Len(a)]
    BY <1>1, <1>2, ConcatProperties
  <2>2. ASSUME NEW j \in 1 .. Len(s) - 1
        PROVE  (a \o c)[j] = IF j < i THEN s[j] ELSE s[j + 1]
    BY <1>0, <1>1, <1>2, <2>1
  <2> QED
    BY <1>0, <1>1, <1>2, <2>1, <2>2
<1>4. RemoveAt(s, i) = a \o c
  BY DEF RemoveAt, a, c
<1> QED
  BY <1>3, <1>4


-----------------------------------------------------------------------------
(* The search.                                                             *)
LEMMA OrderLength ==
  ASSUME TreeInv
  PROVE  /\ Len(order) \in Nat /\ DOMAIN order = 1 .. Len(order)
         /\ \A i \in 1 .. Len(order) : order[i] \in Threads /\ order[i] \in Keys
         /\ \A t \in Keys : t \in Threads /\ \E i \in 1 .. Len(order) : t = order[i]
BY LenProperties, ElementOfSeq DEF TreeInv, Keys, ToSet

LEMMA RankTyped == \A t : Rank(t) \in 0 .. 2
BY DEF Rank

LEMMA LowerBoundIs ==
  ASSUME TreeInv, NEW x \in 0 .. 2
  PROVE  /\ LowerBound(x) \in 1 .. Len(order) + 1
         /\ \A i \in 1 .. Len(order) : i < LowerBound(x) <=> Rank(order[i]) < x
<1> DEFINE n == Len(order)
           F == {i \in 1 .. n : Rank(order[i]) < x}
           G == (1 .. n + 1) \ F
<1>0. n \in Nat /\ DOMAIN order = 1 .. n
  BY OrderLength
<1>1. G \in SUBSET Nat /\ n + 1 \in G
  BY <1>0
<1>2. PICK k \in G : \A j \in G : k <= j
  BY <1>1, LeastIndex
<1>3. k \in 1 .. n + 1 /\ k \notin F
  BY <1>2
<1>4. ASSUME NEW i \in 1 .. n PROVE i < k <=> i \in F
  <2>1. i < k => i \in F
    BY <1>0, <1>2, <1>3
  <2>2. ASSUME k <= i, i \in F PROVE FALSE
    <3>1. k \in 1 .. n /\ ~(Rank(order[k]) < x) /\ Rank(order[i]) < x /\ k # i
      BY <1>0, <1>3, <2>2
    <3>2. Rank(order[k]) <= Rank(order[i])
      BY <1>0, <2>2, <3>1 DEF TreeInv, KeysSorted
    <3> QED
      BY <3>1, <3>2, RankTyped
  <2> QED
    BY <1>0, <1>3, <2>1, <2>2
<1>5. F = 1 .. (k - 1)
  <2>1. \A i \in 1 .. (k - 1) : i \in F
    BY <1>0, <1>3, <1>4
  <2>2. \A i \in F : i \in 1 .. n /\ i < k
    BY <1>4
  <2>3. \A i \in F : i \in 1 .. (k - 1)
    BY <1>0, <1>3, <2>2
  <2> QED
    BY <2>1, <2>3
<1>6. Cardinality(1 .. (k - 1)) = k - 1
  <2>1. Cardinality(1 .. (k - 1)) = IF 1 > k - 1 THEN 0 ELSE (k - 1) - 1 + 1
    BY <1>0, <1>3, FS_Interval
  <2> QED
    BY <1>0, <1>3, <2>1
<1>7. LowerBound(x) = Cardinality(F) + 1
  BY <1>0 DEF LowerBound
<1>8. Cardinality(F) = k - 1
  BY <1>5, <1>6, Zenon
<1>9. LowerBound(x) = k
  BY <1>0, <1>3, <1>7, <1>8
<1> QED
  BY <1>3, <1>4, <1>9

LEMMA Indexed ==
  ASSUME TreeInv, NEW x \in 0 .. 2
  PROVE  /\ IndexOf(x) = 0 => \A i \in 1 .. Len(order) : Rank(order[i]) # x
         /\ IndexOf(x) # 0 => /\ IndexOf(x) \in 1 .. Len(order)
                              /\ Rank(order[IndexOf(x)]) = x
<1> DEFINE n == Len(order)
           k == LowerBound(x)
<1>0. n \in Nat /\ DOMAIN order = 1 .. n
  BY OrderLength
<1>1. k \in 1 .. n + 1 /\ \A i \in 1 .. n : i < k <=> Rank(order[i]) < x
  BY LowerBoundIs
<1>2. IndexOf(x) = IF k \in 1 .. n /\ Rank(order[k]) = x THEN k ELSE 0
  BY <1>0 DEF IndexOf
<1> HIDE DEF k
<1>3. ASSUME IndexOf(x) = 0, NEW i \in 1 .. n, Rank(order[i]) = x PROVE FALSE
  <2>1. k \in 1 .. n /\ k <= i
    BY <1>0, <1>1, <1>3
  <2>2. Rank(order[k]) # x /\ ~(Rank(order[k]) < x)
    BY <1>0, <1>1, <1>2, <1>3, <2>1
  <2>3. Rank(order[k]) <= Rank(order[i])
    BY <1>0, <1>3, <2>1 DEF TreeInv, KeysSorted
  <2> QED
    BY <1>3, <2>2, <2>3, RankTyped
<1> QED
  BY <1>0, <1>1, <1>2, <1>3

LEMMA FindsStored ==
  ASSUME KeyInv
  PROVE  FindsItsOwn
<1> DEFINE found == IF IndexOf(Live) = 0 THEN {} ELSE {order[IndexOf(Live)]}
           own   == {t \in Keys : val[t] = form /\ ref[t] # Null}
<1> SUFFICES ASSUME formLives
             PROVE  own \subseteq found /\ found \subseteq own \cup late \cup lateVal
  BY DEF FindsItsOwn
<1>1. TreeInv /\ Live \in 0 .. 2
  BY DEF KeyInv, Live
<1>2. \A t \in Keys : val[t] = form /\ ref[t] # Null => Rank(t) = Live
  BY DEF KeyInv, StoreInv, Stored, IsNotExpired, Rank, Live
<1>3. \A t \in Keys : Rank(t) = Live => t \in own \cup late \cup lateVal
  BY DEF KeyInv, StoreInv, OwnItem, IsNotExpired, Rank, Live
<1>4. CASE IndexOf(Live) = 0
  <2>1. \A t \in Keys : Rank(t) # Live
    BY <1>1, <1>4, Indexed, OrderLength
  <2> QED
    BY <1>2, <1>4, <2>1
<1>5. CASE IndexOf(Live) # 0
  <2> DEFINE k == IndexOf(Live)
  <2>1. k \in 1 .. Len(order) /\ Rank(order[k]) = Live
    BY <1>1, <1>5, Indexed
  <2>2. found = {order[k]}
    BY <1>5
  <2> HIDE DEF k, found
  <2>3. order[k] \in Keys
    BY <1>1, <2>1, OrderLength
  <2>4. \A t \in Keys : Rank(t) = Live => t = order[k]
    BY <1>1, <2>1, OrderLength DEF TreeInv, OneLiveKey
  <2>5. own \subseteq {order[k]}
    BY <1>2, <2>4
  <2>6. order[k] \in own \cup late \cup lateVal
    BY <1>3, <2>1, <2>3
  <2> QED
    BY <2>2, <2>5, <2>6
<1> QED
  BY <1>4, <1>5

-----------------------------------------------------------------------------
(* Steps of the observer: the tree keeps its keys, and a key its rank,     *)
(* unless the one that is not expired expires.                             *)
LEMMA TreeStays ==
  ASSUME TreeInv, order' = order,
         \A t \in Keys : Rank(t)' = Rank(t) \/ (Rank(t) = Live /\ Rank(t)' = 2)
  PROVE  TreeInv'
<1>1. /\ DOMAIN order' = DOMAIN order /\ DOMAIN order = 1 .. Len(order)
      /\ \A i \in DOMAIN order : order[i] \in Keys /\ order'[i] = order[i]
  BY OrderLength
<1>2. \A i \in DOMAIN order : Rank(order[i]) \in 0 .. 2
  BY RankTyped
<1>3. KeysSorted'
  <2> SUFFICES ASSUME NEW i \in DOMAIN order, NEW k \in DOMAIN order, i < k
               PROVE  Rank(order[i])' <= Rank(order[k])'
    BY <1>1 DEF KeysSorted
  <2>1. Rank(order[i]) <= Rank(order[k])
    BY DEF TreeInv, KeysSorted
  <2>2. /\ \/ Rank(order[i])' = Rank(order[i])
           \/ Rank(order[i]) = Live /\ Rank(order[i])' = 2
        /\ \/ Rank(order[k])' = Rank(order[k])
           \/ Rank(order[k]) = Live /\ Rank(order[k])' = 2
    BY <1>1
  <2>3. ~(Rank(order[i]) = Live /\ Rank(order[k]) = Live)
    BY <1>1 DEF TreeInv, OneLiveKey
  <2>4. Rank(order[i]) \in 0 .. 2 /\ Rank(order[k]) \in 0 .. 2
    BY <1>2
  <2> QED
    BY <2>1, <2>2, <2>3, <2>4 DEF Live
<1>4. OneLiveKey'
  <2> SUFFICES ASSUME NEW i \in DOMAIN order, NEW k \in DOMAIN order,
                      Rank(order[i])' = Live, Rank(order[k])' = Live
               PROVE  i = k
    BY <1>1 DEF OneLiveKey, Live
  <2>1. Rank(order[i]) = Live /\ Rank(order[k]) = Live
    BY <1>1 DEF Live
  <2> QED
    BY <2>1 DEF TreeInv, OneLiveKey
<1> QED
  BY <1>3, <1>4 DEF TreeInv

(* Only this holder changes.                                               *)
Others(t) ==
  /\ \A u \in Threads \ {t} : /\ ref'[u] = ref[u] /\ arg'[u] = arg[u]
                              /\ u \in late' <=> u \in late
                              /\ ref[u] # Null => deleted'[ref[u]] = deleted[ref[u]]
  /\ form' = form /\ formLives' = formLives

LEMMA OthersKeep ==
  ASSUME KeyInv, NEW t \in Threads, Others(t), t \notin Keys,
         UNCHANGED << order, val, lateVal >>,
         ref'[t] # Null => Stored(t, arg[t])'
  PROVE  KeyInv'
<1>1. \A u \in Threads \ {t} : Rank(u)' = Rank(u) /\ (IsNotExpired(u)' <=> IsNotExpired(u))
  BY DEF Others, Rank, IsNotExpired
<1>2. \A u \in Keys : u \in Threads \ {t}
  BY OrderLength DEF KeyInv
<1>3. TreeInv'
  BY <1>1, <1>2, TreeStays DEF KeyInv
<1>4. Keys' = Keys
  BY DEF Keys
<1>5. \A u \in Threads \ {t} : \A f : ref[u] # Null /\ Stored(u, f) => Stored(u, f)'
  BY <1>1 DEF Others, Stored
<1>6. \A u \in Keys : OwnItem(u)'
  BY <1>1, <1>2 DEF KeyInv, StoreInv, OwnItem, Others
<1>7. StoreInv'
  BY <1>2, <1>4, <1>5, <1>6 DEF KeyInv, StoreInv, Others
<1> QED
  BY <1>3, <1>7 DEF KeyInv

LEMMA FreshStores ==
  ASSUME FormInv, KeyInv, NEW t \in Threads \ Keys, NEW e \in Entries,
         pc[t] \in {"found", "missed"},
         Make(e), Return(t, e), UNCHANGED << order, val, lateVal >>
  PROVE  KeyInv'
<1>1. e # Null /\ ~deleted'[e] /\ \A u \in Threads : ref[u] # e
  BY ObserverAssumption DEF FormInv, TypeOK, Make, Referenced
<1>2. Others(t)
  BY <1>1 DEF FormInv, TypeOK, Make, Return, Others
<1>3. ref'[t] = e /\ arg'[t] = arg[t] /\ arg[t] <= form /\ form' = form
  BY DEF FormInv, TypeOK, NativeKnows, Return
<1>4. Stored(t, arg[t])'
  BY <1>1, <1>3 DEF Stored, IsNotExpired
<1> QED
  BY <1>2, <1>4, OthersKeep

LEMMA SharedStores ==
  ASSUME FormInv, KeyInv, NEW t \in Threads \ Keys,
         pc[t] \in {"found", "missed"},
         Return(t, weak), UNCHANGED << deleted, order, val, lateVal >>
  PROVE  KeyInv'
<1>1. Others(t)
  BY DEF FormInv, TypeOK, Return, Others
<1>2. /\ ref'[t] = weak /\ arg'[t] = arg[t] /\ arg[t] <= form
      /\ form' = form /\ formLives' = formLives /\ deleted' = deleted
  BY DEF FormInv, TypeOK, NativeKnows, Return
<1>3. ref'[t] # Null => Stored(t, arg[t])'
  BY <1>2 DEF Stored, IsNotExpired, FormInv, EventKnows
<1> QED
  BY <1>1, <1>3, OthersKeep

LEMMA WatchStores ==
  ASSUME FormInv, KeyInv, NEW t \in Threads \ Keys, Watch(t), UNCHANGED << order, val, lateVal >>
  PROVE  KeyInv'
<1>1. CASE Find(t)
  <2>1. Others(t) /\ ref'[t] = Null
    BY <1>1 DEF Find, Others, FormInv, TypeOK, NativeKnows
  <2> QED
    BY <2>1, OthersKeep
<1>2. CASE WatchFound(t)
  <2>1. pc[t] \in {"found", "missed"}
    BY <1>2 DEF WatchFound
  <2>2. CASE weak = Null \/ deleted[weak]
    <3>1. PICK e \in Entries : Make(e) /\ weak' = e /\ Return(t, e)
      BY <1>2, <2>2 DEF WatchFound
    <3> QED
      BY <2>1, <3>1, FreshStores
  <2>3. CASE ~(weak = Null \/ deleted[weak])
    BY <1>2, <2>1, <2>3, SharedStores DEF WatchFound
  <2> QED
    BY <2>2, <2>3
<1>3. CASE WatchMissed(t)
  <2>1. pc[t] \in {"found", "missed"}
    BY <1>3 DEF WatchMissed
  <2>2. CASE inMap
    BY <1>3, <2>1, <2>2, SharedStores DEF WatchMissed
  <2>3. CASE ~inMap
    <3>1. PICK e \in Entries : Make(e) /\ weak' = e /\ Return(t, e)
      BY <1>3, <2>3 DEF WatchMissed
    <3> QED
      BY <2>1, <3>1, FreshStores
  <2> QED
    BY <2>2, <2>3
<1>4. CASE Drop(t)
  <2>1. Others(t) /\ ref'[t] = Null
    BY <1>4 DEF Drop, Others, FormInv, TypeOK
  <2> QED
    BY <2>1, OthersKeep
<1> QED
  BY <1>1, <1>2, <1>3, <1>4 DEF Watch

LEMMA EventStores ==
  ASSUME FormInv, KeyInv, UNCHANGED << order, val, lateVal >>,
         FormDeleted \/ LockWeak \/ SetDeleted \/ Reset \/ FormCreated \/ Purge
  PROVE  KeyInv'
<1>1. ref' = ref /\ arg' = arg /\ late' = late /\ Keys' = Keys
  BY DEF FormDeleted, LockWeak, SetDeleted, Reset, FormCreated, Purge, Keys
<1>0. \A t \in Keys : t \in Threads
  BY OrderLength DEF KeyInv
<1>2. CASE FormDeleted \/ LockWeak \/ Reset \/ Purge
  <2>1. form' = form /\ deleted' = deleted /\ (formLives' => formLives)
    BY <1>2 DEF FormDeleted, LockWeak, Reset, Purge
  <2>2. \A t : Rank(t)' = Rank(t)
    BY <1>1, <2>1 DEF Rank
  <2>3. TreeInv'
    BY <2>2, TreeStays DEF KeyInv
  <2>4. \A t, f : Stored(t, f) => Stored(t, f)'
    BY <1>1, <2>1 DEF Stored, IsNotExpired
  <2>5. \A t : OwnItem(t) => OwnItem(t)'
    BY <1>1, <2>1 DEF OwnItem, IsNotExpired
  <2> QED
    BY <1>1, <2>3, <2>4, <2>5 DEF KeyInv, StoreInv
<1>3. CASE SetDeleted
  <2>1. ~formLives /\ form' = form /\ formLives' = formLives /\ deleted' = [deleted EXCEPT ![victim] = TRUE]
    BY <1>3 DEF SetDeleted, FormInv, EventKnows
  <2>2. \A t \in Threads : IsNotExpired(t)' => IsNotExpired(t)
    BY <1>1, <2>1 DEF IsNotExpired, FormInv, TypeOK
  <2>3. \A t \in Threads : Rank(t)' = Rank(t) \/ (Rank(t) = Live /\ Rank(t)' = 2)
    BY <1>1, <2>2 DEF Rank, IsNotExpired, Live
  <2>4. TreeInv'
    BY <1>0, <2>3, TreeStays DEF KeyInv
  <2>5. \A t \in Threads : \A f : Stored(t, f) => Stored(t, f)'
    BY <2>1 DEF Stored
  <2>6. \A t \in Threads : OwnItem(t) => OwnItem(t)'
    BY <1>1, <2>1, <2>2 DEF OwnItem
  <2> QED
    BY <1>0, <1>1, <2>4, <2>5, <2>6 DEF KeyInv, StoreInv
<1>4. CASE FormCreated
  <2>1. ~formLives /\ delPc = "idle" /\ form' = form + 1 /\ deleted' = deleted /\ form \in Int
    BY <1>4 DEF FormCreated, FormInv, TypeOK
  <2>2. \A t \in Threads \ late : ~IsNotExpired(t)
    BY <2>1 DEF FormInv, NativeKnows
  <2>3. \A t : Rank(t)' = Rank(t) /\ (IsNotExpired(t)' <=> IsNotExpired(t))
    BY <1>1, <2>1 DEF Rank, IsNotExpired
  <2>4. TreeInv'
    BY <2>3, TreeStays DEF KeyInv
  <2>5. \A t \in Threads : \A f \in Int : Stored(t, f) => Stored(t, f)'
    BY <2>1 DEF Stored
  <2>6. \A t \in Threads : OwnItem(t)'
    BY <1>1, <2>2, <2>3 DEF OwnItem
  <2>7. \A t \in Threads : arg[t] \in Int /\ val[t] \in Int
    BY ObserverAssumption DEF KeyInv, StoreInv, FormInv, TypeOK
  <2> QED
    BY <1>0, <1>1, <2>4, <2>5, <2>6, <2>7 DEF KeyInv, StoreInv
<1> QED
  BY <1>2, <1>3, <1>4

-----------------------------------------------------------------------------
(* Steps of the map.                                                       *)
LEMMA TreeOf ==
  ASSUME NEW s \in Seq(Threads), order' = s,
         \A i \in 1 .. Len(s) : Rank(s[i])' = Rank(s[i]),
         \A i, k \in 1 .. Len(s) : i < k => Rank(s[i]) <= Rank(s[k]),
         \A i, k \in 1 .. Len(s) : Rank(s[i]) = Live /\ Rank(s[k]) = Live => i = k
  PROVE  TreeInv'
<1>1. DOMAIN s = 1 .. Len(s) /\ Live' = Live
  BY LenProperties DEF Live
<1> QED
  BY <1>1 DEF TreeInv, KeysSorted, OneLiveKey

LEMMA StoreOf ==
  ASSUME StoreInv, UNCHANGED vars, val' \in [Threads -> 0 .. MaxForms],
         \A u \in Keys' : ref[u] # Null => Stored(u, val'[u]),
         \A u \in Keys' : IsNotExpired(u) /\ u \notin late /\ u \notin lateVal' => val'[u] = form
  PROVE  StoreInv'
<1>1. \A u \in Threads : ref[u] # Null => Stored(u, arg[u])
  BY DEF StoreInv
<1>2. \A u, f : (Stored(u, f)' <=> Stored(u, f)) /\ (IsNotExpired(u)' <=> IsNotExpired(u))
  BY DEF vars, Stored, IsNotExpired
<1>3. ref' = ref /\ arg' = arg /\ late' = late /\ form' = form
  BY DEF vars
<1>4. \A u \in Keys' : OwnItem(u)'
  BY <1>2, <1>3 DEF OwnItem
<1> QED
  BY <1>1, <1>2, <1>3, <1>4 DEF StoreInv

LEMMA SetItemReplaces ==
  ASSUME FormInv, KeyInv, NEW t \in Threads, SetItem(t), IndexOf(Rank(t)) # 0
  PROVE  KeyInv'
<1> DEFINE k == IndexOf(Rank(t))
<1>1. k \in 1 .. Len(order) /\ Rank(order[k]) = Rank(t)
  BY RankTyped, Indexed DEF KeyInv
<1>2. /\ UNCHANGED << vars, order >> /\ val' = [val EXCEPT ![order[k]] = arg[t]]
      /\ lateVal' = IF t \in late THEN lateVal \cup {order[k]} ELSE lateVal \ {order[k]}
  BY DEF SetItem
<1> HIDE DEF k
<1>3. TreeInv'
  <2>1. \A u : Rank(u)' = Rank(u)
    BY <1>2 DEF vars, Rank
  <2> QED
    BY <1>2, <2>1, TreeStays DEF KeyInv
<1>4. ref[order[k]] # Null => Stored(order[k], arg[t])
  <2>1. ref[order[k]] # Null => ref[t] # Null
    BY <1>1 DEF Rank
  <2>2. ref[t] # Null => Stored(t, arg[t])
    BY DEF KeyInv, StoreInv
  <2>3. ref[order[k]] # Null => (IsNotExpired(order[k]) <=> IsNotExpired(t))
    BY <1>1, <2>1 DEF Rank, IsNotExpired
  <2> QED
    BY <2>1, <2>2, <2>3 DEF Stored
<1>5. StoreInv'
  <2>1. Keys' = Keys /\ \A u \in Keys : u \in Threads
    BY <1>2, OrderLength DEF Keys, KeyInv
  <2>2. val' \in [Threads -> 0 .. MaxForms]
    BY <1>2 DEF KeyInv, StoreInv, FormInv, TypeOK
  <2>3. \A u \in Keys : val'[u] = IF u = order[k] THEN arg[t] ELSE val[u]
    BY <1>2, <2>1 DEF KeyInv, StoreInv
  <2>4. \A u \in Keys : ref[u] # Null => Stored(u, val'[u])
    BY <1>4, <2>3 DEF KeyInv, StoreInv
  <2>5. ASSUME IsNotExpired(order[k]), order[k] \notin lateVal' PROVE arg[t] = form
    <3>1. t \notin late
      BY <1>2, <2>5
    <3>2. IsNotExpired(t)
      BY <1>1, <2>5 DEF Rank, IsNotExpired
    <3> QED
      BY <3>1, <3>2 DEF FormInv, NativeKnows
  <2>6. \A u \in Keys : IsNotExpired(u) /\ u \notin late /\ u \notin lateVal' => val'[u] = form
    BY <1>2, <2>3, <2>5 DEF KeyInv, StoreInv, OwnItem
  <2> QED
    BY <1>2, <2>1, <2>2, <2>4, <2>6, StoreOf DEF KeyInv
<1> QED
  BY <1>3, <1>5 DEF KeyInv

LEMMA SetItemInserts ==
  ASSUME FormInv, KeyInv, NEW t \in Threads, SetItem(t), IndexOf(Rank(t)) = 0
  PROVE  KeyInv'
<1> DEFINE n == Len(order)
           x == Rank(t)
           k == Place(t)
           s == InsertAt(order, k, t)
           at(i) == IF i < k THEN i ELSE i - 1
<1>0. n \in Nat /\ order \in Seq(Threads) /\ TreeInv
  BY OrderLength DEF KeyInv, TreeInv
<1>1. /\ k \in 1 .. n + 1 /\ x \in 0 .. 2
      /\ \A i \in 1 .. n : i < k <=> Rank(order[i]) < x
      /\ \A i \in 1 .. n : Rank(order[i]) # x
  BY <1>0, RankTyped, LowerBoundIs, Indexed DEF Place
<1>2. /\ UNCHANGED vars /\ order' = s /\ val' = [val EXCEPT ![t] = arg[t]] /\ t \notin Keys
      /\ lateVal' = IF t \in late THEN lateVal \cup {t} ELSE lateVal \ {t}
  BY DEF SetItem
<1> HIDE DEF k, x
<1>3. /\ s \in Seq(Threads) /\ Len(s) = n + 1
      /\ \A i \in 1 .. n + 1 : s[i] = IF i < k THEN order[i] ELSE IF i = k THEN t ELSE order[i - 1]
  BY <1>0, <1>1, Inserted
<1> HIDE DEF s
<1>4. \A i \in 1 .. n + 1 : i # k => at(i) \in 1 .. n /\ s[i] = order[at(i)]
  BY <1>0, <1>1, <1>3
<1>5. \A i \in 1 .. n : Rank(order[i]) \in 0 .. 2
  BY RankTyped
<1>6. ASSUME NEW i \in 1 .. n + 1, NEW j \in 1 .. n + 1, i < j
      PROVE  Rank(s[i]) <= Rank(s[j])
  <2>1. CASE i # k /\ j # k
    <3>1. at(i) < at(j) /\ at(i) \in 1 .. n /\ at(j) \in 1 .. n
      BY <1>0, <1>1, <1>6, <2>1
    <3>2. Rank(order[at(i)]) <= Rank(order[at(j)])
      BY <1>0, <3>1, OrderLength DEF TreeInv, KeysSorted
    <3> QED
      BY <1>4, <2>1, <3>2
  <2>2. CASE i = k
    <3>1. s[i] = t /\ s[j] = order[j - 1] /\ j - 1 \in 1 .. n /\ ~(j - 1 < k)
      BY <1>0, <1>1, <1>3, <1>6, <2>2
    <3>2. Rank(order[j - 1]) >= x
      BY <1>1, <1>5, <3>1
    <3> QED
      BY <3>1, <3>2 DEF x
  <2>3. CASE j = k
    <3>1. s[j] = t /\ s[i] = order[i] /\ i \in 1 .. n /\ i < k
      BY <1>0, <1>1, <1>3, <1>6, <2>3
    <3>2. Rank(order[i]) < x
      BY <1>1, <3>1
    <3> QED
      BY <1>1, <1>5, <3>1, <3>2 DEF x
  <2> QED
    BY <2>1, <2>2, <2>3
<1>7. ASSUME NEW i \in 1 .. n + 1, NEW j \in 1 .. n + 1, Rank(s[i]) = Live, Rank(s[j]) = Live
      PROVE  i = j
  <2>1. CASE i # k /\ j # k
    <3>1. at(i) = at(j)
      <4>1. at(i) \in 1 .. n /\ at(j) \in 1 .. n /\ Rank(order[at(i)]) = Live /\ Rank(order[at(j)]) = Live
        BY <1>4, <1>7, <2>1
      <4> HIDE DEF at
      <4> QED
        BY <1>0, <4>1, OrderLength DEF TreeInv, OneLiveKey
    <3> QED
      BY <1>0, <1>1, <2>1, <3>1
  <2>2. CASE i = k /\ j # k
    <3>1. s[i] = t /\ at(j) \in 1 .. n /\ s[j] = order[at(j)]
      BY <1>3, <1>4, <2>2
    <3> HIDE DEF at
    <3> QED
      BY <1>1, <1>7, <3>1 DEF x
  <2>3. CASE j = k /\ i # k
    <3>1. s[j] = t /\ at(i) \in 1 .. n /\ s[i] = order[at(i)]
      BY <1>3, <1>4, <2>3
    <3> HIDE DEF at
    <3> QED
      BY <1>1, <1>7, <3>1 DEF x
  <2> QED
    BY <2>1, <2>2, <2>3
<1>8. TreeInv'
  <2>1. \A u \in Threads : Rank(u)' = Rank(u)
    BY <1>2 DEF vars, Rank
  <2>2. PICK z \in Seq(Threads) : z = s
    BY <1>3
  <2>3. order' = z /\ Len(z) = n + 1
    BY <1>2, <1>3, <2>2
  <2>4. \A i \in 1 .. Len(z) : Rank(z[i])' = Rank(z[i])
    BY <2>1, ElementOfSeq
  <2>5. \A i, j \in 1 .. Len(z) : i < j => Rank(z[i]) <= Rank(z[j])
    BY <1>6, <2>2, <2>3
  <2>6. \A i, j \in 1 .. Len(z) : Rank(z[i]) = Live /\ Rank(z[j]) = Live => i = j
    BY <1>7, <2>2, <2>3
  <2> QED
    BY <2>3, <2>4, <2>5, <2>6, TreeOf
<1>9. \A u \in Keys' : u = t \/ u \in Keys
  <2>1. \A i \in 1 .. n : order[i] \in Keys
    BY <1>0, OrderLength
  <2>2. \A i \in 1 .. n + 1 : s[i] = t \/ s[i] \in Keys
    <3> HIDE DEF at
    <3> QED
      BY <1>0, <1>1, <1>3, <1>4, <2>1
  <2>3. DOMAIN s = 1 .. n + 1
    BY <1>3, LenProperties
  <2> QED
    BY <1>2, <2>2, <2>3 DEF Keys, ToSet
<1>10. StoreInv'
  <2>1. val' \in [Threads -> 0 .. MaxForms]
    BY <1>2 DEF KeyInv, StoreInv, FormInv, TypeOK
  <2>2. \A u \in Keys : u \in Threads
    BY <1>0, OrderLength
  <2>3. \A u \in Keys' : val'[u] = IF u = t THEN arg[t] ELSE val[u]
    BY <1>2, <1>9, <2>2 DEF KeyInv, StoreInv
  <2>4. \A u \in Keys' : ref[u] # Null => Stored(u, val'[u])
    BY <1>9, <2>3 DEF KeyInv, StoreInv
  <2>5. IsNotExpired(t) /\ t \notin late => arg[t] = form
    BY DEF FormInv, NativeKnows
  <2>6. \A u \in Keys' : IsNotExpired(u) /\ u \notin late /\ u \notin lateVal' => val'[u] = form
    BY <1>2, <1>9, <2>3, <2>5 DEF KeyInv, StoreInv, OwnItem
  <2> QED
    BY <1>2, <2>1, <2>4, <2>6, StoreOf DEF KeyInv
<1> QED
  BY <1>8, <1>10 DEF KeyInv

(* Holders let go, keys among them, and the others stay as they were.      *)
KeysLetGo ==
  /\ val' \in [Threads -> 0 .. MaxForms]
  /\ \A t \in Threads :
       ref'[t] # Null => /\ ref'[t] = ref[t] /\ arg'[t] = arg[t] /\ val'[t] = val[t]
                         /\ t \in late' <=> t \in late
                         /\ t \in lateVal' <=> t \in lateVal
  /\ \A t \in Keys' : t \in Keys
  /\ formLives' => formLives
  /\ UNCHANGED << form, deleted >>

LEMMA LetGoStores ==
  ASSUME KeyInv, KeysLetGo
  PROVE  StoreInv'
<1>1. \A t \in Threads : \A f : ref'[t] # Null /\ Stored(t, f) => Stored(t, f)'
  BY DEF KeysLetGo, Stored, IsNotExpired
<1>2. \A t \in Threads : ref'[t] # Null => Stored(t, arg[t])'
  BY <1>1 DEF KeyInv, StoreInv, KeysLetGo
<1>3. \A t \in Keys' : t \in Threads /\ t \in Keys
  BY OrderLength DEF KeyInv, KeysLetGo
<1>4. \A t \in Keys' : ref'[t] # Null => Stored(t, val[t])'
  BY <1>1, <1>3 DEF KeyInv, StoreInv, KeysLetGo
<1>5. \A t \in Keys' : OwnItem(t)'
  BY <1>3 DEF KeyInv, StoreInv, KeysLetGo, OwnItem, IsNotExpired
<1> QED
  BY <1>2, <1>4, <1>5 DEF StoreInv, KeysLetGo

LEMMA RemoveKeyStores ==
  ASSUME FormInv, KeyInv, RemoveKey
  PROVE  KeyInv'
<1> DEFINE n == Len(order)
           k == IndexOf(Live)
           h == order[k]
           s == RemoveAt(order, k)
           at(i) == IF i < k THEN i ELSE i + 1
<1>0. n \in Nat /\ order \in Seq(Threads) /\ TreeInv /\ Live \in 0 .. 2
  BY OrderLength DEF KeyInv, TreeInv, Live
<1>1. k \in 1 .. n /\ Rank(order[k]) = Live
  BY <1>0, Indexed DEF RemoveKey
<1>2. order' = s /\ val' = [val EXCEPT ![h] = 0] /\ lateVal' = lateVal \ {h} /\ Drop(h)
  BY DEF RemoveKey, Erased
<1> HIDE DEF k
<1>3. /\ s \in Seq(Threads) /\ Len(s) = n - 1
      /\ \A i \in 1 .. n - 1 : s[i] = IF i < k THEN order[i] ELSE order[i + 1]
  BY <1>0, <1>1, Removed
<1> HIDE DEF s
<1>4. \A i \in 1 .. n - 1 : at(i) \in 1 .. n /\ at(i) # k /\ s[i] = order[at(i)]
  BY <1>0, <1>1, <1>3
<1>5. h \in Threads /\ \A i \in 1 .. n : order[i] \in Keys /\ order[i] \in Threads
  BY <1>0, <1>1, OrderLength
<1>6. \A i \in 1 .. n : i # k => order[i] # h
  BY <1>0, <1>1, OrderLength DEF TreeInv, OneLiveKey
<1>7. \A t \in Threads \ {h} : ref'[t] = ref[t] /\ arg'[t] = arg[t] /\ Rank(t)' = Rank(t)
  BY <1>2 DEF Drop, FormInv, TypeOK, Rank
<1>8. ref'[h] = Null
  BY <1>2, <1>5 DEF Drop, FormInv, TypeOK
<1>9. \A i \in 1 .. n - 1 : s[i] \in Threads \ {h} /\ s[i] \in Keys
  <2> HIDE DEF at
  <2> QED
    BY <1>4, <1>5, <1>6
<1>10. ASSUME NEW i \in 1 .. n - 1, NEW j \in 1 .. n - 1, i < j
       PROVE  Rank(s[i]) <= Rank(s[j])
  <2>1. at(i) \in 1 .. n /\ at(j) \in 1 .. n /\ at(i) < at(j)
    BY <1>0, <1>1, <1>10
  <2>2. s[i] = order[at(i)] /\ s[j] = order[at(j)]
    BY <1>4
  <2> HIDE DEF at
  <2> QED
    BY <1>0, <2>1, <2>2, OrderLength DEF TreeInv, KeysSorted
<1>11. \A i \in 1 .. n - 1 : Rank(s[i]) # Live
  <2> HIDE DEF at
  <2> QED
    BY <1>0, <1>1, <1>4, OrderLength DEF TreeInv, OneLiveKey
<1>12. TreeInv'
  <2>1. PICK z \in Seq(Threads) : z = s
    BY <1>3
  <2>2. order' = z /\ Len(z) = n - 1
    BY <1>2, <1>3, <2>1
  <2>3. \A i \in 1 .. Len(z) : z[i] \in Threads \ {h}
    BY <1>9, <2>1, <2>2
  <2>4. \A i \in 1 .. Len(z) : Rank(z[i])' = Rank(z[i])
    BY <1>7, <2>3
  <2>5. \A i, j \in 1 .. Len(z) : i < j => Rank(z[i]) <= Rank(z[j])
    BY <1>10, <2>1, <2>2
  <2>6. \A i \in 1 .. Len(z) : Rank(z[i]) # Live
    BY <1>11, <2>1, <2>2
  <2> QED
    BY <2>2, <2>4, <2>5, <2>6, TreeOf
<1>13. \A u \in Keys' : u \in Threads \ {h} /\ u \in Keys
  <2>1. DOMAIN s = 1 .. n - 1
    BY <1>3, LenProperties
  <2> QED
    BY <1>2, <1>9, <2>1 DEF Keys, ToSet
<1>14. KeysLetGo
  <2>0. 0 \in 0 .. MaxForms
    BY ObserverAssumption
  <2>1. val' \in [Threads -> 0 .. MaxForms]
    BY <1>2, <2>0 DEF KeyInv, StoreInv
  <2>2. \A t \in Threads \ {h} : val'[t] = val[t]
    BY <1>2 DEF KeyInv, StoreInv
  <2> QED
    BY <1>2, <1>7, <1>8, <1>13, <2>1, <2>2 DEF Drop, KeysLetGo
<1> QED
  BY <1>12, <1>14, LetGoStores DEF KeyInv

LEMMA ShortTree ==
  ASSUME NEW s \in Seq(Threads), Len(s) <= 1, order' = s
  PROVE  TreeInv'
<1>1. DOMAIN s = 1 .. Len(s) /\ Len(s) \in Nat
  BY LenProperties
<1>2. \A i, k \in DOMAIN order' : i = k /\ ~(i < k)
  BY <1>1
<1> QED
  BY <1>2 DEF TreeInv, KeysSorted, OneLiveKey

LEMMA KeepsLetGo ==
  ASSUME FormInv, KeyInv, NEW kept, Keep(kept),
         \A t \in Keys' : t \in Keys,
         formLives' => formLives, UNCHANGED << form, deleted >>
  PROVE  KeysLetGo
<1>1. val' \in [Threads -> 0 .. MaxForms]
  BY ObserverAssumption DEF Keep, KeyInv, StoreInv
<1>2. ASSUME NEW t \in Threads, ref'[t] # Null
      PROVE  /\ ref'[t] = ref[t] /\ arg'[t] = arg[t] /\ val'[t] = val[t]
             /\ t \in late' <=> t \in late
             /\ t \in lateVal' <=> t \in lateVal
  <2>1. t \in kept
    BY <1>2 DEF Keep
  <2> QED
    BY <2>1 DEF Keep
<1> QED
  BY <1>1, <1>2 DEF KeysLetGo

LEMMA ClearStores ==
  ASSUME FormInv, KeyInv, Clear
  PROVE  KeyInv'
<1>1. order' = << >> /\ Keys' = {}
  BY DEF Clear, Keys, ToSet
<1>2. TreeInv'
  <2>1. << >> \in Seq(Threads) /\ Len(<< >>) <= 1
    OBVIOUS
  <2> QED
    BY <1>1, <2>1, ShortTree
<1>3. KeysLetGo
  BY <1>1, KeepsLetGo DEF Clear
<1> QED
  BY <1>2, <1>3, LetGoStores DEF KeyInv

(* What a load inserts is a key, and no second one.                        *)
LEMMA ReloadedIsShort ==
  ASSUME TreeInv
  PROVE  /\ Reloaded \in Seq(Threads) /\ Len(Reloaded) <= 1
         /\ ToSet(Reloaded) \subseteq Keys
<1> DEFINE live == {i \in DOMAIN order : Rank(order[i]) = Live}
<1>1. CASE live = {}
  BY <1>1 DEF Reloaded, ToSet
<1>2. CASE live # {}
  <2>1. live \in SUBSET Nat
    BY OrderLength
  <2>2. \E i \in live : \A j \in live : i <= j
    BY <1>2, <2>1, LeastIndex
  <2>3. PICK i \in live : Reloaded = << order[i] >>
    BY <1>2, <2>2 DEF Reloaded
  <2>4. order[i] \in Threads /\ order[i] \in Keys
    BY <2>3, OrderLength
  <2> QED
    BY <2>3, <2>4 DEF ToSet
<1> QED
  BY <1>1, <1>2

LEMMA SaveAndLoadStores ==
  ASSUME FormInv, KeyInv, NEW lost, NEW gone \in BOOLEAN, SaveAndLoad(lost, gone)
  PROVE  KeyInv'
<1> DEFINE s == IF gone THEN << >> ELSE Reloaded
<1>1. s \in Seq(Threads) /\ Len(s) <= 1 /\ ToSet(s) \subseteq Keys
  BY ReloadedIsShort DEF KeyInv, ToSet
<1>2. order' = s
  BY DEF SaveAndLoad
<1> HIDE DEF s
<1>3. TreeInv'
  BY <1>1, <1>2, ShortTree
<1>4. \A t \in Keys' : t \in Keys
  BY <1>1, <1>2 DEF Keys, ToSet
<1>5. KeysLetGo
  BY <1>4, KeepsLetGo DEF SaveAndLoad
<1> QED
  BY <1>3, <1>5, LetGoStores DEF KeyInv

LEMMA KeysStand ==
  ASSUME KeyInv, UNCHANGED mvars
  PROVE  KeyInv'
<1>1. \A t : Rank(t)' = Rank(t)
  BY DEF mvars, vars, Rank
<1>2. TreeInv'
  BY <1>1, TreeStays DEF KeyInv, mvars
<1>3. /\ Keys' = Keys /\ \A t, f : Stored(t, f) => Stored(t, f)'
      /\ \A t : OwnItem(t) => OwnItem(t)'
  BY DEF mvars, vars, Keys, Stored, OwnItem, IsNotExpired
<1>4. StoreInv'
  BY <1>3 DEF KeyInv, StoreInv, mvars, vars
<1> QED
  BY <1>2, <1>4 DEF KeyInv

LEMMA KeysInductive == MapSpec => [](FormInv /\ KeyInv)
<1>1. MapInit => KeyInv
  <2> SUFFICES ASSUME MapInit PROVE KeyInv
    OBVIOUS
  <2>1. TreeInv
    BY DEF MapInit, TreeInv, KeysSorted, OneLiveKey
  <2>2. StoreInv
    BY ObserverAssumption DEF MapInit, Init, StoreInv, Keys, ToSet
  <2> QED
    BY <2>1, <2>2 DEF KeyInv
<1>2. ASSUME FormInv, KeyInv, [MapNext]_mvars PROVE KeyInv'
  <2>1. CASE Observe
    BY <1>2, <2>1, WatchStores, EventStores DEF Observe
  <2>2. CASE \E t \in Threads : SetItem(t)
    BY <1>2, <2>2, SetItemReplaces, SetItemInserts
  <2>3. CASE RemoveKey
    BY <1>2, <2>3, RemoveKeyStores
  <2>4. CASE Clear
    BY <1>2, <2>4, ClearStores
  <2>5. CASE \E lost \in SUBSET (Threads \ Keys), gone \in BOOLEAN : SaveAndLoad(lost, gone)
    BY <1>2, <2>5, SaveAndLoadStores
  <2>6. CASE UNCHANGED mvars
    BY <1>2, <2>6, KeysStand
  <2> QED
    BY <1>2, <2>1, <2>2, <2>3, <2>4, <2>5, <2>6 DEF MapNext
<1> QED
  BY <1>1, <1>2, FormInductive, PTL DEF MapSpec

(* Keys expire while they are in the map, and the tree stays sorted, late  *)
(* form_refs or not: one key at most is not expired, whichever entry it    *)
(* has, and after it come the expired ones.                                *)
THEOREM KeysStaySorted == MapSpec => []KeysSorted
<1>1. KeyInv => KeysSorted
  BY DEF KeyInv, TreeInv
<1> QED
  BY KeysInductive, <1>1, PTL

(* What was stored under a form is found under it, and nothing else is,    *)
(* never the item of a deleted form which had the id, unless a late        *)
(* form_ref is its key or was used to store it.                            *)
THEOREM ScriptsFindTheirOwn == MapSpec => []FindsItsOwn
<1>1. KeyInv => FindsItsOwn
  BY FindsStored
<1> QED
  BY KeysInductive, <1>1, PTL
=============================================================================
