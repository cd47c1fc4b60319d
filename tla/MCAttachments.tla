---------------------------- MODULE MCAttachments ----------------------------
(* Two attachments; a request with both, one that repeats it, and one with *)
(* one of them that makes a Session of its own.                            *)
EXTENDS Attachments

CONSTANTS p, q, a1, a2, k1, k2, r1, r2, n1

MCItems == {a1, a2}
MCPaths == {p, q}
MCThreads == {k1, k2}
MCRequests == {r1, r2, n1}
MCNew == {n1}
MCThreadOf == [r \in MCRequests |-> IF r = n1 THEN k2 ELSE k1]
MCIds == [r \in MCRequests |-> IF r = n1 THEN <<a2>> ELSE <<a1, a2>>]
=============================================================================
