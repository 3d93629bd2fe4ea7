--------------------------- MODULE MCIdGenerator ---------------------------
(***************************************************************************)
(* Instances of IdGenerator for TLC.                                       *)
(***************************************************************************)
EXTENDS IdGenerator
=============================================================================
