-------------------------- MODULE MCTesContextRoot --------------------------
(***************************************************************************)
(* Instances of TesContextRoot for TLC.                                    *)
(***************************************************************************)
EXTENDS TesContextRoot
=============================================================================
