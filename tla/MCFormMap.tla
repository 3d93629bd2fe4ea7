----------------------------- MODULE MCFormMap ------------------------------
(***************************************************************************)
(* Instances of FormMap for TLC.                                           *)
(***************************************************************************)
EXTENDS FormMap

Symmetry == Permutations(Threads) \cup Permutations(Entries)
=============================================================================
