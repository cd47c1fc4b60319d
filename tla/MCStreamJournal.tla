-------------------------- MODULE MCStreamJournal --------------------------
(* Live events and an import of two items and its baseline marker.         *)
EXTENDS StreamJournal, TLC

CONSTANTS p, q, opened, e1, h1, h2, base

OneLive == {opened}
TwoLive == {opened, e1}
ShortImport == <<h1, base>>
Import == <<h1, h2, base>>

\* The two paths are alike.
Symmetry == Permutations({p, q})
=============================================================================
