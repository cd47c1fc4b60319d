---------------------------- MODULE GoalControl ----------------------------
(***************************************************************************)
(* Long-running Goals of one Thread: start_goal, resume_goal, pause_goal,  *)
(* clear_goal and _pump_goal (codex_service.py), the logical operations of *)
(* codex_goal_adapter.py, and what start_turn does about Goals.            *)
(*                                                                         *)
(* A Goal lives in the Thread store of Codex, not in the console: it       *)
(* survives a restart, an ordinary Turn's agent may set one, and Codex     *)
(* works on an active one by itself.  The console keeps a registration and *)
(* a handle of the Goal it activated.  The model is about the distance     *)
(* between the two.                                                        *)
(*                                                                         *)
(* A request r of Requests stands for one call and for all that it makes:  *)
(* the ActiveTurn it reserves, its Turn or logical operation, the handle   *)
(* and the pump task.  A call to Codex takes effect in one step and is     *)
(* answered in a later one; the caller may give up in between, and Codex   *)
(* may take up what nobody waits for any more.                             *)
(*                                                                         *)
(* Codex and its SDK are external.  cancel_goal_operation acts on its own  *)
(* operation: it pauses the Goal if that operation activated it.           *)
(* Publications, which TurnLifecycle models, do not fail here, and the     *)
(* physical Turns of one Goal are one activity.                            *)
(***************************************************************************)
EXTENDS Naturals

CONSTANTS Requests,
          KindOf,         \* what each request calls
          Thread,
          None,
          Faults,         \* what may go wrong, a subset of FaultKinds
          MaxFaults       \* bound on how often

Kinds == {"turn", "start", "resume", "pause", "clear"}

FaultKinds == {"timeout",  \* a call fails or _call gives up
               "cancel",   \* cancel_goal_operation raises
               "stream",   \* the stream of notifications raises
               "restart"}  \* the process dies and starts again

ASSUME Parameters ==
    /\ KindOf \in [Requests -> Kinds]
    /\ None \notin Requests
    /\ Faults \subseteq FaultKinds
    /\ MaxFaults \in Nat

VARIABLES active, mutating, accepting, op, \* the registry, see TurnManager
          at,       \* where each request is
          saw,      \* the operation that pause_goal or clear_goal found, or None
          stream,   \* the pump task of each request
          goal,     \* the persisted Goal and the request that activated it
          working,  \* the ordinary Turns that Codex runs
          late,     \* calls that nobody waits for and Codex may still take up
          lost,     \* requests whose call or handle a fault took away
          faults    \* how many faults there were

registry == <<active, mutating, accepting, op>>
codex    == <<goal, working>>
vars     == <<active, mutating, accepting, op, at, saw, stream, goal, working,
              late, lost, faults>>

TM == INSTANCE TurnManager WITH
        Keys <- {Thread}, Ops <- Requests, Turns <- Requests,
        NoOp <- None, NoTurn <- None

Phases == {"new", "reserved", "submitting", "executed", "confirming", "marked",
           "cancelling", "cancelled",
           "idle", "stopping", "interrupting", "acting", "closing",
           "accepted", "refused", "failed"}

Final == {"accepted", "refused", "failed"}

Starting(r) == KindOf[r] \in {"turn", "start", "resume"}
Activates(r) == KindOf[r] \in {"start", "resume"}

NoGoal == [by |-> None, status |-> "none", late |-> FALSE]

TypeOK ==
    /\ TM!TypeOK
    /\ at \in [Requests -> Phases]
    /\ saw \in [Requests -> Requests \cup {None}]
    /\ stream \in [Requests -> {"none", "open", "ended", "done"}]
    /\ goal \in [by : Requests \cup {None},
                 status : {"none", "active", "paused", "complete"}, late : BOOLEAN]
    /\ working \subseteq Requests
    /\ late \in [Requests -> {"none", "submit", "cancel", "act"}]
    /\ lost \subseteq Requests
    /\ faults \in 0..MaxFaults

Init ==
    /\ TM!Init
    /\ at = [r \in Requests |-> "new"]
    /\ saw = [r \in Requests |-> None]
    /\ stream = [r \in Requests |-> "none"]
    /\ goal = NoGoal
    /\ working = {}
    /\ late = [r \in Requests |-> "none"]
    /\ lost = {}
    /\ faults = 0

-----------------------------------------------------------------------------
(* PARTS OF ACTIONS *)

Move(r, phase) == at' = [at EXCEPT ![r] = phase]

Fault(kind) ==
    /\ kind \in Faults
    /\ faults < MaxFaults
    /\ faults' = faults + 1

\* What pause_goal and clear_goal do in their finally clause.
Holds(r) == ~Starting(r) /\ saw[r] = None

LetGo(r) == IF Holds(r) THEN TM!FinishMutation(Thread) ELSE UNCHANGED registry

\* The except clauses of start_turn, start_goal and resume_goal.
GiveUp(r) == TM!Finish(Thread, None) /\ Move(r, "failed")

-----------------------------------------------------------------------------
(* CODEX *)

IsActive == goal.status = "active"
Exists   == goal.status # "none"
ActiveBy(r) == IsActive /\ goal.by = r

\* A Goal activated by what a request asked for when nobody waited any more.
Activate(r) == goal' = [by |-> r, status |-> "active", late |-> r \in lost]

Pause == goal' = [goal EXCEPT !.status = "paused"]

\* cancel_goal_operation of the operation o.
CancelOperation(o) == IF ActiveBy(o) THEN Pause ELSE goal' = goal

\* The call of a request takes effect: turn/start, the activation of a Goal, ...
Submitted(r) ==
    \/ KindOf[r] = "turn" /\ working' = working \cup {r} /\ goal' = goal
    \/ KindOf[r] = "start" /\ Activate(r) /\ working' = working
    \/ KindOf[r] = "resume" /\ Exists /\ Activate(r) /\ working' = working

\* ... thread/goal/set with status paused, or thread/goal/clear.
Acted(r) ==
    /\ \/ KindOf[r] = "pause" /\ Exists /\ Pause
       \/ KindOf[r] = "clear" /\ goal' = NoGoal
    /\ working' = working

GoalCompletes ==
    /\ IsActive
    /\ goal' = [goal EXCEPT !.status = "complete"]
    /\ UNCHANGED <<registry, at, saw, stream, working, late, lost, faults>>

\* The agent of an ordinary Turn sets a Goal, on which Codex goes on to work
\* after that Turn.
AgentSetsGoal(r) ==
    /\ r \in working
    /\ ~IsActive
    /\ Activate(r)
    /\ UNCHANGED <<registry, at, saw, stream, working, late, lost, faults>>

TurnEnds(r) ==
    /\ r \in working
    /\ working' = working \ {r}
    /\ UNCHANGED <<registry, at, saw, stream, goal, late, lost, faults>>

\* Codex takes up an abandoned call, or rejects it.
TakeUp(r) ==
    /\ \/ late[r] = "submit" /\ Submitted(r)
       \/ late[r] = "cancel" /\ CancelOperation(saw[r]) /\ working' = working
       \/ late[r] = "act" /\ Acted(r)
       \/ late[r] # "none" /\ UNCHANGED codex
    /\ late' = [late EXCEPT ![r] = "none"]
    /\ UNCHANGED <<registry, at, saw, stream, lost, faults>>

-----------------------------------------------------------------------------
(* start_turn, start_goal, resume_goal *)

Reserve(r) ==
    /\ Starting(r)
    /\ at[r] = "new"
    /\ TM!Reserve(Thread, r, IF Activates(r) THEN "goal" ELSE "turn")
    /\ Move(r, "reserved")
    /\ UNCHANGED <<saw, stream, codex, late, lost, faults>>

Refuse(r) ==
    /\ Starting(r)
    /\ at[r] = "new"
    /\ ~TM!Reservable(Thread)
    /\ Move(r, "refused")
    /\ UNCHANGED <<registry, saw, stream, codex, late, lost, faults>>

\* Faulty variant of Allowed: start_turn asks only the registry.
AllowedUnread(r) == KindOf[r] = "resume" => Exists

\* start_turn reads the persisted Goal and refuses to compete with an active
\* one; resume_goal needs one.
Allowed(r) ==
    /\ KindOf[r] = "turn" => ~IsActive
    /\ KindOf[r] = "resume" => Exists

Prepare(r) ==
    /\ at[r] = "reserved"
    /\ Allowed(r)
    /\ Move(r, "submitting")
    /\ UNCHANGED <<registry, saw, stream, codex, late, lost, faults>>

\* The Goal forbids the request, cannot be read, or went away before Codex had
\* the call.
Deny(r) ==
    /\ \/ at[r] = "reserved" /\ ~Allowed(r) /\ UNCHANGED faults
       \/ at[r] = "reserved" /\ Fault("timeout")
       \/ at[r] = "submitting" /\ KindOf[r] = "resume" /\ ~Exists /\ UNCHANGED faults
    /\ GiveUp(r)
    /\ UNCHANGED <<saw, stream, codex, late, lost>>

Execute(r) ==
    /\ at[r] = "submitting"
    /\ Submitted(r)
    /\ Move(r, "executed")
    /\ UNCHANGED <<registry, saw, stream, late, lost, faults>>

\* The adapter has the logical operation: from here on it can cancel it.
Confirm(r) ==
    /\ at[r] = "executed"
    /\ Activates(r)
    /\ Move(r, "confirming")
    /\ UNCHANGED <<registry, saw, stream, codex, late, lost, faults>>

\* start reads the Goal back and fails without one.
Confirmed(r) ==
    \/ at[r] = "executed" /\ KindOf[r] = "turn"
    \/ at[r] = "confirming" /\ KindOf[r] = "resume"
    \/ at[r] = "confirming" /\ KindOf[r] = "start" /\ Exists

MarkRunning(r) ==
    /\ Confirmed(r)
    /\ TM!MarkRunning(Thread, r)
    /\ Move(r, "marked")
    /\ UNCHANGED <<saw, stream, codex, late, lost, faults>>

Attach(r) ==
    /\ at[r] = "marked"
    /\ TM!AttachTask(Thread, r)
    /\ Move(r, "accepted")
    /\ stream' = [stream EXCEPT ![r] = "open"]
    /\ UNCHANGED <<saw, codex, late, lost, faults>>

\* An error after the activation: the adapter cancels before it raises.
Abort(r) ==
    /\ at[r] = "confirming"
    /\ \/ KindOf[r] = "start" /\ ~Exists /\ UNCHANGED faults
       \/ Fault("timeout")
    /\ Move(r, "cancelling")
    /\ UNCHANGED <<registry, saw, stream, codex, late, lost>>

\* Faulty variant of CancelOwn: the adapter forgets that it activated the Goal.
CancelOwnForgotten(r) ==
    /\ at[r] = "cancelling"
    /\ Move(r, "cancelled")
    /\ UNCHANGED <<registry, saw, stream, codex, late, lost, faults>>

CancelOwn(r) ==
    /\ at[r] = "cancelling"
    /\ \/ CancelOperation(r) /\ UNCHANGED <<lost, faults>>
       \/ Fault("cancel") /\ goal' = goal /\ lost' = lost \cup {r}
    /\ Move(r, "cancelled")
    /\ UNCHANGED <<registry, saw, stream, working, late>>

Raise(r) ==
    /\ at[r] = "cancelled"
    /\ GiveUp(r)
    /\ UNCHANGED <<saw, stream, codex, late, lost, faults>>

\* The call that submits times out: Codex has it already, or still takes it up.
SubmissionTimesOut(r) ==
    /\ Fault("timeout")
    /\ at[r] \in {"submitting", "executed"}
    /\ GiveUp(r)
    /\ late' = [late EXCEPT ![r] = IF at[r] = "submitting" THEN "submit" ELSE @]
    /\ lost' = lost \cup {r}
    /\ UNCHANGED <<saw, stream, codex>>

-----------------------------------------------------------------------------
(* pause_goal, clear_goal *)

\* current(): an ordinary Turn or an operation without a handle is a conflict.
Look(r) ==
    /\ ~Starting(r)
    /\ at[r] = "new"
    /\ \/ ~TM!Held(Thread) /\ Move(r, "idle") /\ UNCHANGED saw
       \/ /\ TM!Held(Thread)
          /\ op[active[Thread]].kind = "goal" /\ TM!Controllable(Thread)
          /\ saw' = [saw EXCEPT ![r] = active[Thread]]
          /\ Move(r, "stopping")
       \/ /\ TM!Held(Thread)
          /\ op[active[Thread]].kind = "turn" \/ ~TM!Controllable(Thread)
          /\ Move(r, "refused")
          /\ UNCHANGED saw
    /\ UNCHANGED <<registry, stream, codex, late, lost, faults>>

\* Faulty variant of Hold: pause_goal and clear_goal without a reservation.
HoldNothing(r) ==
    /\ at[r] = "idle"
    /\ Move(r, "acting")
    /\ UNCHANGED <<registry, saw, stream, codex, late, lost, faults>>

Hold(r) ==
    /\ at[r] = "idle"
    /\ \/ TM!ReserveMutation(Thread) /\ Move(r, "acting")
       \/ ~TM!Reservable(Thread) /\ Move(r, "refused") /\ UNCHANGED registry
    /\ UNCHANGED <<saw, stream, codex, late, lost, faults>>

\* interrupt() takes the registry's lock anew.  The lock is fair, so that an
\* operation reserved since current() has no handle yet.
Interrupt(r) ==
    /\ at[r] = "stopping"
    /\ \/ active[Thread] = saw[r] /\ TM!Interrupt(Thread) /\ Move(r, "interrupting")
       \/ active[Thread] # saw[r] /\ Move(r, "refused") /\ UNCHANGED registry
    /\ UNCHANGED <<saw, stream, codex, late, lost, faults>>

Cancel(r) ==
    /\ at[r] = "interrupting"
    /\ CancelOperation(saw[r])
    /\ Move(r, IF KindOf[r] = "pause" THEN "closing" ELSE "acting")
    /\ UNCHANGED <<registry, saw, stream, working, late, lost, faults>>

Act(r) ==
    /\ at[r] = "acting"
    /\ Acted(r)
    /\ Move(r, "closing")
    /\ UNCHANGED <<registry, saw, stream, late, lost, faults>>

\* pause_goal finds no Goal to pause, or none when it reads the result.
NothingToPause(r) ==
    /\ KindOf[r] = "pause" /\ ~Exists
    /\ at[r] \in {"acting", "closing"}
    /\ LetGo(r)
    /\ Move(r, "refused")
    /\ UNCHANGED <<saw, stream, codex, late, lost, faults>>

Close(r) ==
    /\ at[r] = "closing"
    /\ KindOf[r] = "pause" => Exists
    /\ LetGo(r)
    /\ Move(r, "accepted")
    /\ UNCHANGED <<saw, stream, codex, late, lost, faults>>

ControlTimesOut(r) ==
    /\ Fault("timeout")
    /\ \/ at[r] = "interrupting" /\ late' = [late EXCEPT ![r] = "cancel"]
       \/ at[r] = "acting" /\ late' = [late EXCEPT ![r] = "act"]
       \/ at[r] = "closing" /\ KindOf[r] = "pause" /\ UNCHANGED late
    /\ LetGo(r)
    /\ Move(r, "failed")
    /\ lost' = lost \cup {r}
    /\ UNCHANGED <<saw, stream, codex>>

-----------------------------------------------------------------------------
(* _pump_turn, _pump_goal *)

Over(r) == IF Activates(r) THEN ~ActiveBy(r) ELSE r \notin working

StreamEnds(r) ==
    /\ stream[r] = "open"
    /\ \/ Over(r) /\ UNCHANGED <<lost, faults>>
       \/ Fault("stream") /\ lost' = lost \cup {r}
    /\ stream' = [stream EXCEPT ![r] = "ended"]
    /\ UNCHANGED <<registry, at, saw, codex, late>>

\* Faulty variant of PumpFinishes: interrupt() is taken to have released it.
PumpFinishesRunning(r) ==
    /\ stream[r] = "ended"
    /\ IF op[r].status = "running" THEN TM!Finish(Thread, r) ELSE UNCHANGED registry
    /\ stream' = [stream EXCEPT ![r] = "done"]
    /\ UNCHANGED <<at, saw, codex, late, lost, faults>>

PumpFinishes(r) ==
    /\ stream[r] = "ended"
    /\ TM!Finish(Thread, r)
    /\ stream' = [stream EXCEPT ![r] = "done"]
    /\ UNCHANGED <<at, saw, codex, late, lost, faults>>

-----------------------------------------------------------------------------
\* The process and the Codex it runs die; the Thread store and its Goal stay.
Restart ==
    /\ Fault("restart")
    /\ TM!Clear
    /\ at' = [r \in Requests |-> IF at[r] \in Final \cup {"new"} THEN at[r] ELSE "failed"]
    /\ stream' = [r \in Requests |-> IF stream[r] = "none" THEN "none" ELSE "done"]
    /\ working' = {}
    /\ late' = [r \in Requests |-> "none"]
    /\ lost' = lost \cup {r \in Requests : at[r] \notin {"new", "refused"}}
    /\ UNCHANGED <<saw, goal>>

Begin(r) == Reserve(r) \/ Refuse(r) \/ Look(r)

Submit(r) ==
    \/ Prepare(r) \/ Deny(r) \/ Execute(r) \/ Confirm(r) \/ MarkRunning(r)
    \/ Attach(r) \/ Abort(r) \/ CancelOwn(r) \/ Raise(r)

Control(r) ==
    Hold(r) \/ Interrupt(r) \/ Cancel(r) \/ Act(r) \/ NothingToPause(r) \/ Close(r)

Pump(r) == StreamEnds(r) \/ PumpFinishes(r)

TimeOut(r) == SubmissionTimesOut(r) \/ ControlTimesOut(r)

Environment(r) == AgentSetsGoal(r) \/ TurnEnds(r) \/ TakeUp(r)

\* All requests were answered, no pump runs and Codex has nothing to do.
Ended ==
    /\ \A r \in Requests : at[r] \in Final /\ stream[r] \in {"none", "done"}
    /\ UNCHANGED vars

Next ==
    \/ \E r \in Requests :
          \/ Begin(r) \/ Submit(r) \/ Control(r)
          \/ Pump(r) \/ TimeOut(r) \/ Environment(r)
    \/ GoalCompletes
    \/ Restart
    \/ Ended

\* Codex answers what it was asked or the call times out, and the event loop
\* runs every task that can run.  Nothing says that a Goal is ever completed.
Fairness ==
    \A r \in Requests : WF_vars(Submit(r) \/ Control(r)) /\ WF_vars(Pump(r))

Spec == Init /\ [][Next]_vars
FairSpec == Spec /\ Fairness

-----------------------------------------------------------------------------
(* PROPERTIES *)

\* Codex never runs an ordinary Turn that the console holds next to an active
\* Goal, unless that Turn's own agent set the Goal or Codex activated it for a
\* caller that had given up.  In particular a Goal whose handle is gone
\* (restart, failed stream, an earlier Turn's agent) keeps Turns out:
\* start_turn's check of the persisted Goal.
TurnsRunAlone ==
    \A r \in working \ lost : IsActive => goal.by = r \/ goal.late

\* An active Goal that start_goal or resume_goal activated is registered under
\* its own operation, so that pause_goal, clear_goal and the shutdown find its
\* handle, unless a fault took the call's answer or the stream away.
GoalsAreManaged ==
    IsActive /\ Activates(goal.by) /\ goal.by \notin lost => active[Thread] = goal.by

\* A Goal that its operation runs is paused only by a request that found that
\* operation (or by the operation itself, when it fails), never by one that
\* found the Thread idle: the reservation of pause_goal.
PausesHitTheirOwn ==
    [][\A o \in Requests :
          ActiveBy(o) /\ active[Thread] = o /\ goal'.status = "paused" =>
            \E r \in Requests :
                /\ at'[r] # at[r] \/ late'[r] # late[r]
                /\ r = o \/ saw[r] = o \/ r \in lost]_vars

\* The same of clear_goal.
ClearsHitTheirOwn ==
    [][\A o \in Requests :
          ActiveBy(o) /\ active[Thread] = o /\ goal'.status = "none" =>
            \E r \in Requests :
                /\ at'[r] # at[r] \/ late'[r] # late[r]
                /\ saw[r] = o \/ r \in lost]_vars

\* A Goal that was told to stop gives its Thread back, unless a fault got in
\* the way: the handle, its stream, the pump and finish() work together.
StoppedGoalsEnd ==
    \A o \in {r \in Requests : Activates(r)} :
        (active[Thread] = o /\ op[o].status = "stopping")
            ~> (active[Thread] # o \/ lost # {})
=============================================================================
