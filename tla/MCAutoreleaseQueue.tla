------------------------- MODULE MCAutoreleaseQueue -------------------------
(***************************************************************************)
(* An instance of AutoreleaseQueue for TLC: a ring so short that the       *)
(* counter wraps several times in a behaviour.                             *)
(***************************************************************************)
EXTENDS AutoreleaseQueue
=============================================================================
