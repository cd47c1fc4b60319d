-------------------------- MODULE ThreadExclusion --------------------------
(***************************************************************************)
(* What the console promises about a Thread, with nothing of how it is     *)
(* kept: at any time a Thread is free, held by one operation (a Turn or a  *)
(* logical Goal), or held by one mutation (archive, delete, fork, ...).    *)
(*                                                                         *)
(* A Thread changes hands only through being free, and an operation that   *)
(* was granted once is never granted again: a request that lost its        *)
(* reservation cannot find itself holding a Thread later.                  *)
(***************************************************************************)
CONSTANTS Keys,        \* (owner, thread) pairs
          Holders,     \* operations that may be granted a Thread
          Free,        \* the Thread is held by nobody
          Mutation     \* the Thread is held by a mutation

VARIABLES holder,      \* who holds each Thread
          granted      \* the operations that were ever granted a Thread

vars == <<holder, granted>>

Init ==
    /\ holder = [k \in Keys |-> Free]
    /\ granted = {}

Acquire(k, h) ==
    /\ holder[k] = Free
    /\ h \notin granted
    /\ holder' = [holder EXCEPT ![k] = h]
    /\ granted' = granted \cup {h}

BeginMutation(k) ==
    /\ holder[k] = Free
    /\ holder' = [holder EXCEPT ![k] = Mutation]
    /\ UNCHANGED granted

\* A release may cover several Threads: a shutdown releases them all.
Release(S) ==
    /\ holder' = [k \in Keys |-> IF k \in S THEN Free ELSE holder[k]]
    /\ UNCHANGED granted

Next ==
    \/ \E k \in Keys, h \in Holders : Acquire(k, h)
    \/ \E k \in Keys : BeginMutation(k)
    \/ \E S \in SUBSET Keys : Release(S)

Spec == Init /\ [][Next]_vars
=============================================================================
