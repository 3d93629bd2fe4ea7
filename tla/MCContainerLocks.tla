-------------------------- MODULE MCContainerLocks --------------------------
(***************************************************************************)
(* Instances of ContainerLocks for TLC.                                    *)
(***************************************************************************)
EXTENDS ContainerLocks

CONSTANTS r1, r2, m1, l1, l2, a, n

(* Nothing; or a map that both roots lead to, one of them in a cycle.      *)
MCHeaps ==
  LET Nothing == [m \in Maps |-> Empty]
  IN  { Nothing,
        [Nothing EXCEPT ![r1] = [k \in Keys |-> m1], ![r2][a] = m1, ![m1][a] = r1] }

PathCall(o, r, p, c) == [op |-> o, obj |-> r, path |-> p, creative |-> c]
TwoCall(o, r, s, b) == [op |-> o, obj |-> r, source |-> s, overrides |-> b]

MCCalls ==
  {PathCall("add", r1, << a, n >>, c) : c \in BOOLEAN} \cup
  {PathCall("add", r2, << a, n >>, TRUE), PathCall("set", r1, << a, n >>, TRUE),
   PathCall("remove", r1, << a >>, FALSE), PathCall("copy", r1, << >>, FALSE),
   TwoCall("addPairs", r1, r2, TRUE), TwoCall("addPairs", r2, r2, FALSE),
   TwoCall("addFromArray", l1, l2, TRUE), TwoCall("addFromArray", l2, l1, TRUE)}
=============================================================================
