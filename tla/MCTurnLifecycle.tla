-------------------------- MODULE MCTurnLifecycle --------------------------
(* Two Turns and a Goal that want the same Thread, and one user who may    *)
(* interrupt whatever runs.                                                *)
EXTENDS TurnLifecycle

CONSTANTS k1, t1, t2, g1, u1, u2

OneTurn == {t1}
TwoTurns == {t1, t2}
TurnAndGoal == {t1, g1}
Three == {t1, t2, g1}

OneThread == {k1}
OneUser == {u1}
TwoUsers == {u1, u2}
NoUser == {}

SameThread == [r \in Requests |-> k1]
Kinds == [r \in Requests |-> IF r = g1 THEN "goal" ELSE "turn"]

=============================================================================
