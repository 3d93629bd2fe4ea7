------------------------- MODULE MCGarbageCollector -------------------------
(***************************************************************************)
(* Instances of GarbageCollector for TLC.                                  *)
(***************************************************************************)
EXTENDS GarbageCollector, TLC

Symmetry == Permutations(Objects) \cup Permutations(Slots)
=============================================================================
