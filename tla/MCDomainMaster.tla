--------------------------- MODULE MCDomainMaster ---------------------------
(***************************************************************************)
(* Instances of DomainMaster for TLC.                                      *)
(***************************************************************************)
EXTENDS DomainMaster

CONSTANTS d1, d2, d3

Varying == {{d1, d2}, {d1, d3}, {d1}, {}}
=============================================================================
