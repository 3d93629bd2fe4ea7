------------------------- MODULE DomainMasterProofs -------------------------
(***************************************************************************)
(* Proofs about DomainMaster, for any domains, any sets of them a game is  *)
(* started with, and any contents of the contexts.                         *)
(***************************************************************************)
EXTENDS DomainMaster, TLAPS

Places == {"game", "reverted", "reading", "loaded"}

(* The variables have their types, and active domains exist throughout.    *)
DomainTypeOK ==
  /\ active_domain_names \subseteq _domains
  /\ _domains \subseteq Names
  /\ content \in [Contexts -> Nat]
  /\ usable \in [Contexts -> BOOLEAN]
  /\ stopped \in [Contexts -> BOOLEAN]
  /\ DOMAIN file \subseteq Contexts
  /\ \A c \in DOMAIN file : file[c] \in Nat
  /\ pc \in Places

(* Where no load is under way the objects have their contexts; during one  *)
(* the active contexts' timers are stopped, and nothing is read yet if     *)
(* everything is left to read.                                             *)
UsableAt ==
  /\ pc # "reading" => usable = AllUsable
  /\ pc = "reading" =>
       \A c \in active_domain_names \cup {Default} : stopped[c]
  /\ pc = "reading" /\ toLoad = DOMAIN file => usable = AllUsable /\ content = Nothing

(* What a load has read so far, and that there is nothing else; nothing    *)
(* inactive has a content outside a load.                                  *)
ReadSoFar ==
  /\ pc = "reading" =>
       /\ toLoad \subseteq DOMAIN file
       /\ \A c \in Contexts :
            content[c] = IF c \in DOMAIN file \ toLoad THEN file[c] ELSE 0
       /\ \A c \in DOMAIN file \ toLoad : c \in Exists
  /\ pc # "reading" => \A d \in Names \ active_domain_names : content[d] = 0

DomainInv ==
  /\ DomainTypeOK
  /\ TimersRun
  /\ AllOrNothing
  /\ UsableAt
  /\ ReadSoFar

-----------------------------------------------------------------------------
(* A game starts with empty contexts and running timers.                   *)
LEMMA InitInv == Init => DomainInv
BY DomainAssumption
DEF Init, DomainInv, DomainTypeOK, TimersRun, AllOrNothing, UsableAt, ReadSoFar,
    Contexts, Exists, Nothing, AllUsable, Places

(* Every callback keeps the invariant.                                     *)
LEMMA NextInv == DomainInv /\ [Next]_vars => DomainInv'
<1> SUFFICES ASSUME DomainInv, [Next]_vars PROVE DomainInv'
  OBVIOUS
<1> USE DomainAssumption DEF DomainInv, Contexts, Exists
<1>1. CASE Restart
  <2>1. DomainTypeOK'
    BY <1>1 DEF Restart, Registered, DomainTypeOK, Nothing, AllUsable, Places
  <2>2. TimersRun'
    BY <1>1 DEF Restart, Registered, DomainTypeOK, TimersRun
  <2>3. AllOrNothing'
    BY <1>1 DEF Restart, Registered, DomainTypeOK, AllOrNothing, ReadSoFar, Nothing
  <2>4. UsableAt'
    BY <1>1 DEF Restart, Registered, DomainTypeOK, UsableAt, ReadSoFar, AllUsable, Nothing
  <2>5. ReadSoFar'
    BY <1>1 DEF Restart, Registered, DomainTypeOK, UsableAt, ReadSoFar, Nothing
  <2> QED BY <2>1, <2>2, <2>3, <2>4, <2>5
<1>2. ASSUME NEW c \in Contexts, Native(c) PROVE DomainInv'
  <2>1. DomainTypeOK'
    BY <1>2 DEF Native, DomainTypeOK, Nothing, AllUsable, Places
  <2>2. TimersRun'
    BY <1>2 DEF Native, DomainTypeOK, TimersRun
  <2>3. AllOrNothing'
    BY <1>2 DEF Native, DomainTypeOK, AllOrNothing, ReadSoFar, Nothing
  <2>4. UsableAt'
    BY <1>2 DEF Native, DomainTypeOK, UsableAt, ReadSoFar, AllUsable, Nothing
  <2>5. ReadSoFar'
    BY <1>2 DEF Native, DomainTypeOK, UsableAt, ReadSoFar, Nothing
  <2> QED BY <2>1, <2>2, <2>3, <2>4, <2>5
<1>3. CASE Save
  <2>1. DomainTypeOK'
    BY <1>3 DEF Save, DomainTypeOK, Nothing, AllUsable, Places
  <2>2. TimersRun'
    BY <1>3 DEF Save, DomainTypeOK, TimersRun
  <2>3. AllOrNothing'
    BY <1>3 DEF Save, DomainTypeOK, AllOrNothing, ReadSoFar, Nothing
  <2>4. UsableAt'
    BY <1>3 DEF Save, DomainTypeOK, UsableAt, ReadSoFar, AllUsable, Nothing
  <2>5. ReadSoFar'
    BY <1>3 DEF Save, DomainTypeOK, UsableAt, ReadSoFar, Nothing
  <2> QED BY <2>1, <2>2, <2>3, <2>4, <2>5
<1>4. CASE Revert
  <2>1. DomainTypeOK'
    BY <1>4 DEF Revert, DomainTypeOK, Nothing, AllUsable, Places
  <2>2. TimersRun'
    BY <1>4 DEF Revert, DomainTypeOK, TimersRun
  <2>3. AllOrNothing'
    BY <1>4 DEF Revert, DomainTypeOK, AllOrNothing, ReadSoFar, Nothing
  <2>4. UsableAt'
    BY <1>4 DEF Revert, DomainTypeOK, UsableAt, ReadSoFar, AllUsable, Nothing
  <2>5. ReadSoFar'
    BY <1>4 DEF Revert, DomainTypeOK, UsableAt, ReadSoFar, Nothing
  <2> QED BY <2>1, <2>2, <2>3, <2>4, <2>5
<1>5. CASE LoadBegin
  <2>1. DomainTypeOK'
    BY <1>5 DEF LoadBegin, AllStopped, DomainTypeOK, Nothing, AllUsable, Places
  <2>2. TimersRun'
    BY <1>5 DEF LoadBegin, AllStopped, DomainTypeOK, TimersRun
  <2>3. AllOrNothing'
    BY <1>5 DEF LoadBegin, AllStopped, DomainTypeOK, AllOrNothing, ReadSoFar, Nothing
  <2>4. UsableAt'
    BY <1>5 DEF LoadBegin, AllStopped, DomainTypeOK, UsableAt, ReadSoFar, AllUsable, Nothing
  <2>5. ReadSoFar'
    BY <1>5 DEF LoadBegin, AllStopped, DomainTypeOK, UsableAt, ReadSoFar, Nothing
  <2> QED BY <2>1, <2>2, <2>3, <2>4, <2>5
<1>6. ASSUME NEW c \in Contexts, ReadContext(c) PROVE DomainInv'
  <2>1. DomainTypeOK'
    BY <1>6 DEF ReadContext, DomainTypeOK, ReadSoFar, Places
  <2>2. TimersRun'
    BY <1>6 DEF ReadContext, DomainTypeOK, TimersRun
  <2>3. AllOrNothing'
    BY <1>6 DEF ReadContext, DomainTypeOK, AllOrNothing, ReadSoFar, Nothing
  <2>4. UsableAt'
    BY <1>6 DEF ReadContext, DomainTypeOK, UsableAt, ReadSoFar, AllUsable, Nothing
  <2>5. ReadSoFar'
    BY <1>6 DEF ReadContext, DomainTypeOK, UsableAt, ReadSoFar, Nothing
  <2> QED BY <2>1, <2>2, <2>3, <2>4, <2>5
<1>7. CASE PostLoad
  <2>1. DomainTypeOK'
    BY <1>7 DEF PostLoad, DomainTypeOK, Nothing, AllUsable, Places
  <2>2. TimersRun'
    BY <1>7 DEF PostLoad, DomainTypeOK, TimersRun
  <2>3. AllOrNothing'
    BY <1>7 DEF PostLoad, DomainTypeOK, AllOrNothing, ReadSoFar, Nothing
  <2>4. UsableAt'
    BY <1>7 DEF PostLoad, DomainTypeOK, UsableAt, ReadSoFar, AllUsable, Nothing
  <2>5. ReadSoFar'
    BY <1>7 DEF PostLoad, DomainTypeOK, UsableAt, ReadSoFar, Nothing
  <2> QED BY <2>1, <2>2, <2>3, <2>4, <2>5
<1>8. CASE NothingToRead
  <2>1. DomainTypeOK'
    BY <1>8 DEF NothingToRead, DomainTypeOK, Nothing, AllUsable, Places
  <2>2. TimersRun'
    BY <1>8 DEF NothingToRead, DomainTypeOK, TimersRun
  <2>3. AllOrNothing'
    BY <1>8 DEF NothingToRead, DomainTypeOK, AllOrNothing, ReadSoFar, Nothing
  <2>4. UsableAt'
    BY <1>8 DEF NothingToRead, DomainTypeOK, UsableAt, ReadSoFar, AllUsable, Nothing
  <2>5. ReadSoFar'
    BY <1>8 DEF NothingToRead, DomainTypeOK, UsableAt, ReadSoFar, Nothing
  <2> QED BY <2>1, <2>2, <2>3, <2>4, <2>5
<1>9. CASE Caught
  <2>1. DomainTypeOK'
    BY <1>9 DEF Caught, AllStopped, DomainTypeOK, Nothing, AllUsable, Places
  <2>2. TimersRun'
    BY <1>9 DEF Caught, AllStopped, DomainTypeOK, TimersRun
  <2>3. AllOrNothing'
    BY <1>9 DEF Caught, AllStopped, DomainTypeOK, AllOrNothing, ReadSoFar, Nothing
  <2>4. UsableAt'
    BY <1>9 DEF Caught, AllStopped, DomainTypeOK, UsableAt, ReadSoFar, AllUsable, Nothing
  <2>5. ReadSoFar'
    BY <1>9 DEF Caught, AllStopped, DomainTypeOK, UsableAt, ReadSoFar, Nothing
  <2> QED BY <2>1, <2>2, <2>3, <2>4, <2>5
<1>10. CASE LoadEnd
  <2>1. DomainTypeOK'
    BY <1>10 DEF LoadEnd, AllStarted, DomainTypeOK, Nothing, AllUsable, Places
  <2>2. TimersRun'
    BY <1>10 DEF LoadEnd, AllStarted, DomainTypeOK, TimersRun
  <2>3. AllOrNothing'
    BY <1>10 DEF LoadEnd, AllStarted, DomainTypeOK, AllOrNothing, ReadSoFar, Nothing
  <2>4. UsableAt'
    BY <1>10 DEF LoadEnd, AllStarted, DomainTypeOK, UsableAt, ReadSoFar, AllUsable, Nothing
  <2>5. ReadSoFar'
    BY <1>10 DEF LoadEnd, AllStarted, DomainTypeOK, UsableAt, ReadSoFar, Nothing
  <2> QED BY <2>1, <2>2, <2>3, <2>4, <2>5
<1>11. CASE UNCHANGED vars
  BY <1>11 DEF vars, DomainTypeOK, TimersRun, AllOrNothing, UsableAt, ReadSoFar, Nothing,
             AllUsable, Places
<1> QED BY <1>1, <1>2, <1>3, <1>4, <1>5, <1>6, <1>7, <1>8, <1>9, <1>10, <1>11 DEF Next

LEMMA InvHolds == Spec => []DomainInv
BY InitInv, NextInv, PTL DEF Spec

-----------------------------------------------------------------------------
(* Whatever loads fail, whatever domains the games were started with: no   *)
(* timer of a registered context ticks on half-loaded objects.             *)
THEOREM NoTickOnHalfLoaded == Spec => []ActiveTickOnUsable
<1>1. DomainInv => ActiveTickOnUsable
  <2> SUFFICES ASSUME DomainInv, NEW c \in active_domain_names \cup {Default},
                      MayTick(c)
               PROVE  usable[c]
    BY DEF ActiveTickOnUsable
  <2>1. c \in Contexts
    BY DEF DomainInv, DomainTypeOK, Contexts
  <2>2. pc # "reading"
    BY DEF DomainInv, UsableAt, MayTick
  <2> QED
    BY <2>1, <2>2 DEF DomainInv, UsableAt, AllUsable
<1> QED BY <1>1, InvHolds, PTL

(* A load restores all the contexts as they were saved, or none of them.   *)
THEOREM LoadsAllOrNothing == Spec => []AllOrNothing
<1>1. DomainInv => AllOrNothing
  BY DEF DomainInv
<1> QED BY <1>1, InvHolds, PTL

(* When the game goes on every queue's timer runs.                         *)
THEOREM TimersAreRestarted == Spec => []TimersRun
<1>1. DomainInv => TimersRun
  BY DEF DomainInv
<1> QED BY <1>1, InvHolds, PTL

(* Nothing is left of inactive domains once a load is over.                *)
THEOREM NothingInactive == Spec => []InactiveIsEmpty
<1>1. DomainInv => InactiveIsEmpty
  BY DEF DomainInv, ReadSoFar, InactiveIsEmpty
<1> QED BY <1>1, InvHolds, PTL

(* No callback destroys a context that natives were registered for.        *)
THEOREM ContextsOutliveCallbacks == Spec => RegisteredStay
<1>1. ASSUME [Next]_vars, NEW d \in _domains \ _domains'
      PROVE  d \notin active_domain_names'
  <2>1. CASE Restart
    BY <1>1, <2>1 DEF Restart, Registered
  <2>2. CASE Revert
    BY <1>1, <2>2 DEF Revert
  <2>3. CASE PostLoad
    BY <1>1, <2>3 DEF PostLoad
  <2>4. _domains \subseteq _domains' \/ Restart \/ Revert \/ PostLoad
    BY <1>1 DEF Next, vars, Native, ReadContext, Save, LoadBegin, NothingToRead, Caught, LoadEnd
  <2> QED BY <1>1, <2>1, <2>2, <2>3, <2>4
<1>2. [Next]_vars => [\A d \in _domains \ _domains' : d \notin active_domain_names']_vars
  BY <1>1
<1> QED BY <1>2, PTL DEF Spec, RegisteredStay
=============================================================================
