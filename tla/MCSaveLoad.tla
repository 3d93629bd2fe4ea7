----------------------------- MODULE MCSaveLoad -----------------------------
(***************************************************************************)
(* Instances of SaveLoad for TLC.                                          *)
(***************************************************************************)
EXTENDS SaveLoad
=============================================================================
