---------------------------- MODULE DomainMaster ----------------------------
(***************************************************************************)
(* domain_master: the default context and the contexts of the domains,     *)
(* each with an autorelease queue and its timer, and SKSE's callbacks that *)
(* revert, save and load all of them together, on the game's main thread   *)
(* while no script runs.  A domain is active when the game starts with a   *)
(* file of its name; the functions registered for it keep a pointer to its *)
(* context.  A save may have been made with other domains active.          *)
(*                                                                         *)
(* The content of a context is a number, 0 if it holds nothing.  Where     *)
(* stop() makes the main thread wait no tick is half done (see             *)
(* AutoreleaseQueue); otherwise a tick runs between any two of its steps.  *)
(***************************************************************************)
EXTENDS Integers, FiniteSets

CONSTANTS
  Names,        (* names of domains                                        *)
  Default,      (* the default context                                     *)
  ActiveSets,   (* the sets of domains the game may be started with        *)
  Contents      (* what natives may leave in a context                     *)

ASSUME DomainAssumption ==
  /\ Default \notin Names
  /\ ActiveSets \subseteq SUBSET Names /\ ActiveSets # {}
  /\ Contents \subseteq Nat \ {0}

VARIABLES
  active_domain_names,
  _domains,    (* the domains whose context exists                         *)
  content,     (* what is in each context                                  *)
  usable,      (* whether all its objects have been given their context    *)
  stopped,     (* whether its timer is stopped                             *)
  file,        (* the save: the content of each context, by name           *)
  pc,          (* the main thread's place in a callback                    *)
  toLoad       (* the contexts a load has yet to read                      *)

vars == << active_domain_names, _domains, content, usable, stopped, file, pc, toLoad >>

Contexts == Names \cup {Default}

Exists == _domains \cup {Default}

(* invoke_for_all(stop_activity) and (start_activity)                      *)
AllStopped == [c \in Contexts |-> c \in Exists \/ stopped[c]]

(* Faulty variant: only the contexts of the save are started.              *)
AllStarted_of_file == [c \in Contexts |-> ~(c \in Exists /\ c \in DOMAIN file) /\ stopped[c]]

AllStarted == [c \in Contexts |-> c \notin Exists /\ stopped[c]]

Nothing == [c \in Contexts |-> 0]

AllUsable == [c \in Contexts |-> TRUE]

-----------------------------------------------------------------------------
(* The game starts: registerAllFunctions creates the active domains.       *)
Registered(active) ==
  /\ active_domain_names' = active
  /\ _domains' = active
  /\ content' = Nothing
  /\ usable' = AllUsable
  /\ stopped' = [c \in Contexts |-> FALSE]
  /\ pc' = "game"
  /\ toLoad' = {}

Init ==
  /\ active_domain_names \in ActiveSets
  /\ _domains = active_domain_names
  /\ content = Nothing
  /\ usable = AllUsable
  /\ stopped = [c \in Contexts |-> FALSE]
  /\ file = [c \in {Default} |-> 0]
  /\ pc = "game"
  /\ toLoad = {}

Restart ==
  /\ \E active \in ActiveSets : Registered(active)
  /\ UNCHANGED file

(* Natives work on the context they were registered for.                   *)
Native(c) ==
  /\ pc = "game" /\ c \in active_domain_names \cup {Default}
  /\ \E n \in Contents : content' = [content EXCEPT ![c] = n]
  /\ UNCHANGED << active_domain_names, _domains, usable, stopped, file, pc, toLoad >>

(* Saving, on the main thread between a stop and a start.                  *)
Save ==
  /\ pc = "game"
  /\ file' = [c \in Exists |-> content[c]]
  /\ UNCHANGED << active_domain_names, _domains, content, usable, stopped, pc, toLoad >>

-----------------------------------------------------------------------------
(* Faulty variant: active domains are destroyed with the rest.             *)
Revert_dropping_all ==
  /\ pc = "game"
  /\ content' = Nothing
  /\ usable' = AllUsable
  /\ _domains' = {}
  /\ stopped' = [c \in Contexts |-> FALSE]
  /\ pc' \in {"game", "reverted"}
  /\ UNCHANGED << active_domain_names, file, toLoad >>

(* clear_state(), which reverts a game, also before a load: the timers are *)
(* stopped, the contexts emptied, inactive domains destroyed, the timers   *)
(* started.                                                                *)
Revert ==
  /\ pc = "game"
  /\ content' = Nothing
  /\ usable' = AllUsable
  /\ _domains' = _domains \cap active_domain_names
  /\ stopped' = [c \in Contexts |-> FALSE]
  /\ pc' \in {"game", "reverted"}
  /\ UNCHANGED << active_domain_names, file, toLoad >>

(* Faulty variant: the timers run on.                                      *)
LoadBegin_running ==
  /\ pc = "reverted"
  /\ content' = Nothing
  /\ pc' = "reading"
  /\ toLoad' = DOMAIN file
  /\ UNCHANGED << active_domain_names, _domains, usable, stopped, file >>

(* read_from_stream(): activity_stopper, u_clearState                      *)
LoadBegin ==
  /\ pc = "reverted"
  /\ stopped' = AllStopped
  /\ content' = Nothing
  /\ pc' = "reading"
  /\ toLoad' = DOMAIN file
  /\ UNCHANGED << active_domain_names, _domains, usable, file >>

(* The default context first, then domain by domain; a domain not yet      *)
(* there is created, and its queue's constructor starts a timer.           *)
ReadContext(c) ==
  /\ pc = "reading" /\ c \in toLoad
  /\ c = Default \/ Default \notin toLoad
  /\ toLoad' = toLoad \ {c}
  /\ _domains' = _domains \cup ({c} \ {Default})
  /\ stopped' = [stopped EXCEPT ![c] = c \in Exists /\ stopped[c]]
  /\ content' = [content EXCEPT ![c] = file[c]]
  /\ usable' = [usable EXCEPT ![c] = FALSE]
  /\ UNCHANGED << active_domain_names, file, pc >>

(* u_delete_inactive_domains, u_postLoadInitializations and the rest, once *)
(* form_observer has been read too.                                        *)
PostLoad ==
  /\ pc = "reading" /\ toLoad = {}
  /\ _domains' = _domains \cap active_domain_names
  /\ content' = [c \in Contexts |->
                   IF c \in _domains \ active_domain_names THEN 0 ELSE content[c]]
  /\ usable' = AllUsable
  /\ pc' = "loaded"
  /\ UNCHANGED << active_domain_names, stopped, file, toLoad >>

(* The game has no record of ours.                                         *)
NothingToRead ==
  /\ pc = "reading" /\ toLoad = DOMAIN file
  /\ toLoad' = {}
  /\ pc' = "loaded"
  /\ UNCHANGED << active_domain_names, _domains, content, usable, stopped, file >>

(* Faulty variant: only the rest of the archive is given up.               *)
Caught_keeping_content ==
  /\ pc = "reading"
  /\ toLoad' = {}
  /\ usable' = AllUsable
  /\ pc' = "loaded"
  /\ UNCHANGED << active_domain_names, _domains, content, stopped, file >>

(* An exception, wherever it was thrown: all contexts are emptied, which   *)
(* stops their timers.                                                     *)
Caught ==
  /\ pc = "reading"
  /\ toLoad' = {}
  /\ content' = Nothing
  /\ usable' = AllUsable
  /\ stopped' = AllStopped
  /\ pc' = "loaded"
  /\ UNCHANGED << active_domain_names, _domains, file >>

LoadEnd ==
  /\ pc = "loaded"
  /\ stopped' = AllStarted
  /\ pc' = "game"
  /\ UNCHANGED << active_domain_names, _domains, content, usable, file, toLoad >>

(* A tick of a context's queue can run now.                                *)
MayTick(c) == c \in Exists /\ ~stopped[c]

Next ==
  \/ Restart
  \/ \E c \in Contexts : Native(c) \/ ReadContext(c)
  \/ Save
  \/ Revert
  \/ LoadBegin
  \/ PostLoad
  \/ NothingToRead
  \/ Caught
  \/ LoadEnd

Spec == Init /\ [][Next]_vars

-----------------------------------------------------------------------------
(* "We can't delete objects during loading even if noOwners() is true -    *)
(* more owners may be loaded later" (object_base::release): no load, where *)
(* ever it fails, lets the queue of a domain that natives are registered   *)
(* for tick on objects that were read and have no context yet.             *)
ActiveTickOnUsable ==
  \A c \in active_domain_names \cup {Default} : MayTick(c) => usable[c]

(* A load restores every context as it was saved, or else none, wherever   *)
(* it failed; and what the save does not have is empty.                    *)
AllOrNothing ==
  pc = "loaded" =>
    \/ content = Nothing
    \/ \A c \in Exists : content[c] = IF c \in DOMAIN file THEN file[c] ELSE 0

(* Whatever callbacks the game has made, when it goes on every queue's     *)
(* timer runs, those of domains that a load created included.              *)
TimersRun == pc = "game" => \A c \in Exists : ~stopped[c]

(* "We must preserve context pointers during ALL gaming session"           *)
(* (registerAllFunctions): no callback destroys an active domain.          *)
RegisteredStay ==
  [][\A d \in _domains \ _domains' : d \notin active_domain_names']_vars

(* Of a domain whose file is gone nothing is left once a load is over, nor *)
(* is it saved again.                                                      *)
InactiveIsEmpty ==
  pc = "game" => \A d \in Names \ active_domain_names : content[d] = 0
=============================================================================
