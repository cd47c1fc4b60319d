------------------------------ MODULE MCRuntime -------------------------------
(***************************************************************************)
(* Two requests, of one subject or of two; the names of two directories    *)
(* and one that is no name; a Thread in one of the workspaces and one      *)
(* outside of both.                                                        *)
(***************************************************************************)
EXTENDS Runtime, TLC

CONSTANTS r1, r2, s1, s2, ann, bob, odd, annDir, bobDir, t1, t2

Spelled == [n \in {ann, bob, odd} |->
               CASE n = odd -> None [] n = bob -> bobDir [] OTHER -> annDir]
Placed == [t \in {t1, t2} |-> IF t = t1 THEN annDir ELSE Root]
Symmetry == Permutations({r1, r2}) \cup Permutations({s1, s2})
=============================================================================
