------------------------------- MODULE IdPool -------------------------------
(***************************************************************************)
(* What id_generator promises: an id it hands out is in use by nobody.     *)
(***************************************************************************)
CONSTANT Ids

VARIABLE handed   (* the ids in use *)

Init == handed = {}

New(id) == id \in Ids \ handed /\ handed' = handed \cup {id}

Reuse(id) == id \in handed /\ handed' = handed \ {id}

Clear == handed' = {}

Next == Clear \/ \E id \in Ids : New(id) \/ Reuse(id)

Spec == Init /\ [][Next]_handed
=============================================================================
