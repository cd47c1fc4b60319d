--------------------------- MODULE MCTurnManager ---------------------------
(* Two Threads, two reservations and two Turns: enough for a Turn's late   *)
(* finish to meet another's reservation on the same or the other Thread.   *)
EXTENDS TurnManager

CONSTANTS k1, k2, o1, o2, t1, t2

MCKeys  == {k1, k2}
MCOps   == {o1, o2}
MCTurns == {t1, t2}

=============================================================================
