--------------------------- MODULE MCGoalControl ---------------------------
(* An ordinary Turn, a Goal to start and one to resume, a pause and a      *)
(* clear: all of one Thread and in any order.                              *)
EXTENDS GoalControl

CONSTANTS t1, g1, g2, p1, c1

Five == {t1, g1, g2, p1, c1}

Calls == [r \in Requests |->
            CASE r = t1 -> "turn"
              [] r = g1 -> "start"
              [] r = g2 -> "resume"
              [] r = p1 -> "pause"
              [] r = c1 -> "clear"]

EveryFault == FaultKinds
=============================================================================
