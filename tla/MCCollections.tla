--------------------------- MODULE MCCollections ----------------------------
(***************************************************************************)
(* Instances of Collections for TLC.                                       *)
(***************************************************************************)
EXTENDS Collections

Symmetry == Permutations(Arrays)

(* A JIntMap has keys before its end key, too.                             *)
MCKeys == -1 .. 3

(* One is the name of meta information.                                    *)
MCMetaKeys == {3}

(* Of the keys of a JMap one is empty, and one is another twice with a dot *)
(* between.                                                                *)
MCParse == [k \in Keys |-> IF k = 0 THEN << Null >> ELSE IF k = 2 THEN << 1, 1 >> ELSE << k >>]

(* Keys of one character and of two: a path of two keys may fit, or be cut *)
(* after a key or within one.                                              *)
MCChars(k) == IF k \in {2, 3} THEN 2 ELSE 1
=============================================================================
