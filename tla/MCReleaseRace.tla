--------------------------- MODULE MCReleaseRace ---------------------------
(***************************************************************************)
(* Instances of ReleaseRace for TLC.                                       *)
(***************************************************************************)
EXTENDS ReleaseRace

CONSTANTS t1, t2, t3

(* Threads are alike: of the casts that differ only in who is who one will *)
(* do, the one whose roles are in this order.                              *)
Order == << "leave", "erase", "insert", "resolve", "release", "retain", "untag",
            "nothing" >>

CastOf(f, n, b) ==
  [role     |-> [t \in {t1, t2, t3} |-> Order[f[IF t = t1 THEN 1 ELSE IF t = t2 THEN 2 ELSE 3]]],
   retained |-> n,
   ticking  |-> b]

InOrder == {f \in [1 .. 3 -> 1 .. 8] : f[1] <= f[2] /\ f[2] <= f[3]}

(* Any two calls and the timer, any three calls without it.                *)
Any == {CastOf(f, n, TRUE) : f \in {g \in InOrder : g[3] = 8}, n \in 0 .. 1}
         \cup {CastOf(f, 1, FALSE) : f \in InOrder}

(* One call resolves the id while the timer runs.                          *)
ResolveAndTick == {[role |-> [t \in {t1} |-> "resolve"], retained |-> 0, ticking |-> TRUE]}
=============================================================================
