----------------------------- MODULE MCSessions ------------------------------
(* Two names, one of them a Project with two Sessions; a client that       *)
(* renames or deletes it and two others with any request that could meet.  *)
EXTENDS Sessions, TLC

CONSTANTS p, q, t1, t2, t3, c1, c2, c3

MCNames == {p, q}
MCThreads == {t1, t2, t3}
MCClients == {c1, c2, c3}
MCPlaced == [t \in MCThreads |-> IF t = t3 THEN None ELSE p]

Does(o, t, n, m) == [op |-> o, thread |-> t, name |-> n, to |-> m, copy |-> t3]

MCJobs ==
    (c1 :> {Does("rename project", t1, p, q), Does("delete project", t1, p, q)}) @@
    (c2 :> {Does(o, t1, p, q) : o \in {"archive", "unarchive", "delete", "turn", "title", "list"}}
           \cup {Does("create project", t1, p, q), Does("create project", t1, q, p)}) @@
    (c3 :> {Does(o, t3, p, q) : o \in Creating}
           \cup {Does("fork", t2, p, q), Does("rename project", t1, q, p),
                  Does("list", t1, p, q)})

\* One Session is listed; the other is listed or pending, and may be archived.
\* A title and a list hold nothing that a third request could want: they are
\* paired with a fork only.  But a list forgets that a Session was pending, which
\* a Turn makes it find.
MCInit ==
    /\ Init
    /\ t2 \in listed \ archived
    /\ job[c2].op \in {"title", "list"} => job[c3].op = "fork"
    /\ job[c3].op = "list" => job[c2].op = "turn"

MCSpec == MCInit /\ [][Next]_vars
=============================================================================
