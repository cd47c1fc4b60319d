---------------------------- MODULE JournalLog -----------------------------
(***************************************************************************)
(* What a Thread's Stream Journal promises: an append-only log in which    *)
(* the n-th record has sequence n, a key is recorded once, and the only    *)
(* way to lose a record is to remove the whole log.                        *)
(***************************************************************************)
EXTENDS Naturals, Sequences

CONSTANT Keys       \* deduplication keys

VARIABLE log

Init == log = <<>>

Append1(k) ==
    /\ \A i \in DOMAIN log : log[i].key # k
    /\ log' = Append(log, [seq |-> Len(log) + 1, key |-> k])

RemoveAll == log' = <<>>

Next == RemoveAll \/ \E k \in Keys : Append1(k)

Spec == Init /\ [][Next]_log
=============================================================================
