------------------------- MODULE GoalControlProofs --------------------------
(***************************************************************************)
(* Theorems about GoalControl.                                             *)
(*                                                                         *)
(* A request that is starting something, and a pump that runs, hold the    *)
(* registration (Ownership), so that there is one of them at most; a pause *)
(* or clear that found the Thread idle holds its mutation alone            *)
(* (Mutations).  Of the Goal it matters who activated it, and that this    *)
(* request had got that far (Origins): a request that gives up has either  *)
(* activated nothing, or cancelled it, or lost an answer (Management).     *)
(***************************************************************************)
EXTENDS GoalControl, TLAPS

USE DEF registry, codex

Owning == {"reserved", "submitting", "executed", "confirming", "marked",
           "cancelling", "cancelled"}

\* The phases in which Codex may have done what the request submitted.
Taken == {"executed", "confirming", "marked", "cancelling", "cancelled",
          "accepted", "failed"}

\* Where requests of each kind can be.
Places ==
    \A r \in Requests :
        /\ at[r] \in Owning => Starting(r)
        /\ at[r] \in {"confirming", "cancelling", "cancelled"} => Activates(r)
        /\ at[r] \in {"idle", "stopping", "interrupting", "acting", "closing"} => ~Starting(r)
        /\ at[r] \in {"new", "idle"} => saw[r] = None
        /\ at[r] \in {"stopping", "interrupting"} => saw[r] # None
        /\ at[r] = "acting" /\ KindOf[r] = "pause" => saw[r] = None
        /\ stream[r] # "none" <=> Starting(r) /\ at[r] = "accepted"
        /\ late[r] # "none" => at[r] = "failed" /\ r \in lost
        /\ late[r] = "submit" <=> late[r] # "none" /\ Starting(r)

Ownership ==
    \A r \in Requests :
        at[r] \in Owning \/ stream[r] \in {"open", "ended"} => active[Thread] = r

Using(r) == at[r] \in {"acting", "closing"} /\ Holds(r)

Mutations ==
    /\ Thread \in mutating => active[Thread] = None
    /\ \A r \in Requests : Using(r) => Thread \in mutating
    /\ \A r, s \in Requests : Using(r) /\ Using(s) => r = s

Origins ==
    /\ IsActive => goal.by \in Requests
    /\ goal.by # None => Starting(goal.by) /\ at[goal.by] \in Taken
    /\ \A r \in working : KindOf[r] = "turn" /\ at[r] \in Taken

Management ==
    /\ GoalsAreManaged
    /\ \A r \in Requests \ lost :
          Activates(r) /\ (at[r] = "cancelled" \/ stream[r] \in {"ended", "done"})
              => ~ActiveBy(r)

\* The Turns that the console holds, and a Turn about to be submitted.
Solitude ==
    /\ \A r \in working \ lost :
          at[r] \in {"executed", "marked"} \/ stream[r] = "open"
    /\ TurnsRunAlone
    /\ \A r \in Requests \ lost :
          KindOf[r] = "turn" /\ at[r] = "submitting" /\ IsActive => goal.late
-----------------------------------------------------------------------------
(* Types *)

\* The registry's own part, and the console's and Codex's.
RestOK ==
    /\ at \in [Requests -> Phases]
    /\ saw \in [Requests -> Requests \cup {None}]
    /\ stream \in [Requests -> {"none", "open", "ended", "done"}]

Goals == [by : Requests \cup {None},
          status : {"none", "active", "paused", "complete"}, late : BOOLEAN]

WorldOK ==
    /\ goal \in Goals
    /\ working \subseteq Requests
    /\ late \in [Requests -> {"none", "submit", "cancel", "act"}]
    /\ lost \subseteq Requests

LEMMA TypeParts == TypeOK <=> TM!TypeOK /\ RestOK /\ WorldOK /\ faults \in 0..MaxFaults
BY DEF TypeOK, RestOK, WorldOK, Goals

\* The methods of the registry keep its types.
LEMMA RegistryTyped ==
    ASSUME TM!TypeOK, NEW r \in Requests,
           \/ UNCHANGED registry
           \/ \E kind \in {"turn", "goal"} : TM!Reserve(Thread, r, kind)
           \/ TM!ReserveMutation(Thread) \/ TM!FinishMutation(Thread)
           \/ TM!MarkRunning(Thread, r) \/ TM!AttachTask(Thread, r)
           \/ TM!Finish(Thread, None) \/ TM!Finish(Thread, r)
           \/ TM!Interrupt(Thread) \/ TM!Clear
    PROVE  TM!TypeOK'
<1> USE DEF TM!TypeOK, TM!ActiveTurn, TM!Kinds, TM!Statuses, TM!Unborn
<1>1. CASE UNCHANGED registry
  BY <1>1
<1>2. ASSUME NEW kind \in {"turn", "goal"}, TM!Reserve(Thread, r, kind) PROVE TM!TypeOK'
  BY <1>2 DEF TM!Reserve
<1>3. CASE TM!ReserveMutation(Thread) \/ TM!FinishMutation(Thread) \/ TM!Clear
  BY <1>3 DEF TM!ReserveMutation, TM!FinishMutation, TM!Clear
<1>4. CASE TM!MarkRunning(Thread, r)
  BY <1>4 DEF TM!MarkRunning, TM!Held
<1>5. CASE TM!AttachTask(Thread, r)
  BY <1>5 DEF TM!AttachTask, TM!Held
<1>6. CASE TM!Finish(Thread, None) \/ TM!Finish(Thread, r)
  BY <1>6 DEF TM!Finish
<1>7. CASE TM!Interrupt(Thread)
  BY <1>7 DEF TM!Interrupt, TM!Controllable, TM!Held
<1> QED
  BY <1>1, <1>2, <1>3, <1>4, <1>5, <1>6, <1>7

\* What Codex does to a Goal keeps its type.
LEMMA GoalTyped ==
    ASSUME goal \in Goals,
           \/ goal' = goal
           \/ goal' = NoGoal
           \/ goal' = [goal EXCEPT !.status = "complete"]
           \/ Pause
           \/ \E o \in Requests : Activate(o)
           \/ \E o \in Requests \cup {None} : CancelOperation(o)
    PROVE  goal' \in Goals
<1>1. CASE Pause
  BY <1>1 DEF Pause, Goals
<1>2. ASSUME NEW o \in Requests, Activate(o) PROVE goal' \in Goals
  <2>1. (o \in lost) \in BOOLEAN
    OBVIOUS
  <2> QED
    BY <1>2, <2>1 DEF Activate, Goals
<1>3. ASSUME NEW o \in Requests \cup {None}, CancelOperation(o) PROVE goal' \in Goals
  BY <1>1, <1>3 DEF CancelOperation
<1>4. CASE goal' = [goal EXCEPT !.status = "complete"]
  BY <1>4 DEF Goals
<1>5. CASE goal' = NoGoal
  BY <1>5 DEF NoGoal, Goals
<1> QED
  BY <1>1, <1>2, <1>3, <1>4, <1>5

LEMMA TypeInit == Init => TypeOK
BY Parameters DEF Init, TypeOK, Parameters, Phases, NoGoal, TM!Init, TM!TypeOK, TM!ActiveTurn,
   TM!Kinds, TM!Statuses, TM!Unborn

LEMMA TypeKept == TypeOK /\ [Next]_vars => TypeOK'
<1> SUFFICES ASSUME TypeOK, [Next]_vars PROVE TypeOK'
  OBVIOUS
<1>0. TM!TypeOK /\ RestOK /\ WorldOK /\ faults \in 0..MaxFaults /\ MaxFaults \in Nat
  BY TypeParts, Parameters DEF Parameters
<1> USE DEF RestOK, WorldOK, Phases, Move
<1>1. CASE UNCHANGED vars
  BY <1>1, <1>0 DEF vars, TypeOK, TM!TypeOK, Goals
<1>2. ASSUME NEW r \in Requests, Begin(r) PROVE TypeOK'
  <2>1. TM!TypeOK'
    BY <1>0, <1>2, RegistryTyped DEF Begin, Reserve, Refuse, Look
  <2>2. (RestOK /\ WorldOK)' /\ faults' = faults
    BY <1>0, <1>2 DEF Begin, Reserve, Refuse, Look, TM!Held, TM!TypeOK
  <2> QED
    BY <1>0, <2>1, <2>2 DEF TypeOK, Goals
<1>3. ASSUME NEW r \in Requests, Submit(r) PROVE TypeOK'
  <2>1. TM!TypeOK'
    BY <1>0, <1>3, RegistryTyped DEF Submit, Prepare, Deny, Execute, Confirm, MarkRunning,
       Attach, Abort, CancelOwn, Raise, GiveUp
  <2>2. RestOK'
    BY <1>0, <1>3 DEF Submit, Prepare, Deny, Execute, Confirm, MarkRunning,
       Attach, Abort, CancelOwn, Raise, GiveUp
  <2>3. goal' \in Goals
    BY <1>0, <1>3, GoalTyped DEF Submit, Prepare, Deny, Execute, Confirm, MarkRunning,
       Attach, Abort, CancelOwn, Raise, GiveUp, Submitted
  <2>5. WorldOK'
    BY <1>0, <1>3, <2>3 DEF Submit, Prepare, Deny, Execute, Confirm, MarkRunning,
       Attach, Abort, CancelOwn, Raise, GiveUp, Submitted
  <2>4. faults' \in 0..MaxFaults
    BY <1>0, <1>3 DEF Submit, Prepare, Deny, Execute, Confirm, MarkRunning,
       Attach, Abort, CancelOwn, Raise, Fault
  <2> QED
    BY <2>1, <2>2, <2>4, <2>5 DEF TypeOK, Goals
<1>4. ASSUME NEW r \in Requests, Control(r) PROVE TypeOK'
  <2>1. TM!TypeOK'
    BY <1>0, <1>4, RegistryTyped DEF Control, Hold, Interrupt, Cancel, Act, NothingToPause,
       Close, LetGo
  <2>2. goal' \in Goals
    BY <1>0, <1>4, GoalTyped DEF Control, Hold, Interrupt, Cancel, Act, NothingToPause, Close,
       Acted
  <2>3. RestOK' /\ WorldOK' /\ faults' = faults
    BY <1>0, <1>4, <2>2 DEF Control, Hold, Interrupt, Cancel, Act, NothingToPause, Close, Acted
  <2> QED
    BY <1>0, <2>1, <2>3 DEF TypeOK, Goals
<1>5. ASSUME NEW r \in Requests, Pump(r) \/ TimeOut(r) PROVE TypeOK'
  <2>1. TM!TypeOK'
    BY <1>0, <1>5, RegistryTyped DEF Pump, StreamEnds, PumpFinishes, TimeOut,
       SubmissionTimesOut, ControlTimesOut, GiveUp, LetGo
  <2>2. RestOK' /\ WorldOK'
    BY <1>0, <1>5 DEF Pump, StreamEnds, PumpFinishes, TimeOut, SubmissionTimesOut,
       ControlTimesOut, GiveUp
  <2>3. faults' \in 0..MaxFaults
    BY <1>0, <1>5 DEF Pump, StreamEnds, PumpFinishes, TimeOut, SubmissionTimesOut,
       ControlTimesOut, Fault
  <2> QED
    BY <2>1, <2>2, <2>3 DEF TypeOK, Goals
<1>6. CASE GoalCompletes \/ Ended \/ \E r \in Requests : Environment(r)
  <2>1. TM!TypeOK' /\ RestOK' /\ faults' = faults
    BY <1>0, <1>6 DEF GoalCompletes, Ended, vars, Environment, AgentSetsGoal, TurnEnds, TakeUp,
       TM!TypeOK
  <2>2. goal' \in Goals
    BY <1>0, <1>6, GoalTyped DEF GoalCompletes, Ended, vars, Environment, AgentSetsGoal,
       TurnEnds, TakeUp, Submitted, Acted
  <2>3. WorldOK'
    BY <1>0, <1>6, <2>2 DEF GoalCompletes, Ended, vars, Environment, AgentSetsGoal, TurnEnds,
       TakeUp, Submitted, Acted
  <2> QED
    BY <1>0, <2>1, <2>3 DEF TypeOK, Goals
<1>7. CASE Restart
  <2>1. TM!TypeOK'
    BY <1>0, <1>7 DEF Restart, TM!Clear, TM!TypeOK
  <2>2. RestOK' /\ WorldOK'
    BY <1>0, <1>7 DEF Restart
  <2>3. faults' \in 0..MaxFaults
    BY <1>0, <1>7 DEF Restart, Fault
  <2> QED
    BY <2>1, <2>2, <2>3 DEF TypeOK, Goals
<1> QED
  BY <1>1, <1>2, <1>3, <1>4, <1>5, <1>6, <1>7 DEF Next

\* Every request, pump, handle and answer is where the code can have it.
THEOREM TypeCorrect == Spec => []TypeOK
BY TypeInit, TypeKept, PTL DEF Spec

-----------------------------------------------------------------------------
(* Where requests are *)

LEMMA PlacesKept == TypeOK /\ Places /\ [Next]_vars => Places'
<1> SUFFICES ASSUME TypeOK, Places, [Next]_vars PROVE Places'
  OBVIOUS
<1>0. RestOK /\ late \in [Requests -> {"none", "submit", "cancel", "act"}]
  BY TypeParts DEF WorldOK
<1> USE DEF RestOK, Phases, Places, Owning, Starting, Activates, Move
<1>1. CASE UNCHANGED <<at, saw, stream, late, lost>>
  BY <1>1
<1>2. ASSUME NEW r \in Requests, Begin(r) PROVE Places'
  BY <1>0, <1>2 DEF Begin, Reserve, Refuse, Look, TM!Held
<1>3. ASSUME NEW r \in Requests, Submit(r) PROVE Places'
  <2>1. CASE Prepare(r) \/ Execute(r) \/ Confirm(r)
    BY <1>0, <2>1 DEF Prepare, Execute, Submitted, Confirm
  <2>2. CASE MarkRunning(r) \/ Abort(r)
    BY <1>0, <2>2 DEF MarkRunning, Confirmed, Abort
  <2>3. CASE Attach(r)
    BY <1>0, <2>3 DEF Attach
  <2>4. CASE Deny(r) \/ Raise(r)
    BY <1>0, <2>4 DEF Deny, Raise, GiveUp
  <2>5. CASE CancelOwn(r)
    BY <1>0, <2>5 DEF CancelOwn
  <2> QED
    BY <1>3, <2>1, <2>2, <2>3, <2>4, <2>5 DEF Submit
<1>4. ASSUME NEW r \in Requests, Control(r) PROVE Places'
  <2>1. CASE Hold(r) \/ Interrupt(r)
    BY <1>0, <2>1 DEF Hold, Interrupt
  <2>2. CASE Cancel(r) \/ Act(r)
    BY <1>0, <2>2 DEF Cancel, Act
  <2>3. CASE NothingToPause(r) \/ Close(r)
    BY <1>0, <2>3 DEF NothingToPause, Close
  <2> QED
    BY <1>4, <2>1, <2>2, <2>3 DEF Control
<1>5. ASSUME NEW r \in Requests, Pump(r) PROVE Places'
  BY <1>0, <1>5 DEF Pump, StreamEnds, PumpFinishes
<1>6. ASSUME NEW r \in Requests, TimeOut(r) PROVE Places'
  <2>1. CASE SubmissionTimesOut(r)
    BY <1>0, <2>1 DEF SubmissionTimesOut, GiveUp
  <2>2. CASE ControlTimesOut(r)
    BY <1>0, <2>2 DEF ControlTimesOut
  <2> QED
    BY <1>6, <2>1, <2>2 DEF TimeOut
<1>7. ASSUME NEW r \in Requests, TakeUp(r) PROVE Places'
  BY <1>0, <1>7 DEF TakeUp
<1>8. CASE Restart
  BY <1>0, <1>8 DEF Restart, Final
<1> QED
  BY <1>1, <1>2, <1>3, <1>4, <1>5, <1>6, <1>7, <1>8
  DEF Next, Environment, AgentSetsGoal, TurnEnds, GoalCompletes, Ended, vars

-----------------------------------------------------------------------------
(* The registration *)

\* What the registry's methods do to the registration and to mutations.
LEMMA Registrations ==
    ASSUME TM!TypeOK, NEW r \in Requests
    PROVE  /\ \A kind \in {"turn", "goal"} : TM!Reserve(Thread, r, kind) =>
                 /\ active[Thread] = None /\ active'[Thread] = r
                 /\ Thread \notin mutating /\ mutating' = mutating
           /\ TM!Finish(Thread, None) => active'[Thread] = None /\ mutating' = mutating
           /\ TM!Finish(Thread, r) =>
                 active'[Thread] \in {active[Thread], None} /\ mutating' = mutating
           /\ TM!ReserveMutation(Thread) =>
                 /\ active[Thread] = None /\ active' = active
                 /\ Thread \notin mutating /\ Thread \in mutating'
           /\ TM!FinishMutation(Thread) => active' = active /\ Thread \notin mutating'
           /\ TM!MarkRunning(Thread, r) \/ TM!AttachTask(Thread, r) \/ TM!Interrupt(Thread)
                 => active' = active /\ mutating' = mutating
           /\ TM!Clear => active'[Thread] = None /\ mutating' = {}
BY DEF TM!TypeOK, TM!Reserve, TM!Reservable, TM!Held, TM!Finish, TM!Releases,
   TM!ReserveMutation, TM!FinishMutation, TM!MarkRunning, TM!AttachTask, TM!Interrupt, TM!Clear

LEMMA OwnershipKept ==
    TypeOK /\ Places /\ Ownership /\ [Next]_vars => Ownership'
<1> SUFFICES ASSUME TypeOK, Places, Ownership, [Next]_vars PROVE Ownership'
  OBVIOUS
<1>0. TM!TypeOK /\ RestOK /\ None \notin Requests
  BY TypeParts, Parameters DEF Parameters
<1> USE DEF RestOK, Phases, Places, Ownership, Owning, Move
<1>1. CASE UNCHANGED <<at, stream, active>>
  BY <1>1
<1>2. ASSUME NEW r \in Requests, Begin(r) PROVE Ownership'
  BY <1>0, <1>2, Registrations DEF Begin, Reserve, Refuse, Look
<1>3. ASSUME NEW r \in Requests, Submit(r) PROVE Ownership'
  <2>1. CASE Prepare(r) \/ Execute(r) \/ Confirm(r) \/ Abort(r) \/ CancelOwn(r)
    BY <1>0, <2>1 DEF Prepare, Execute, Confirm, Abort, CancelOwn
  <2>2. CASE MarkRunning(r) \/ Attach(r)
    BY <1>0, <2>2, Registrations DEF MarkRunning, Confirmed, Attach
  <2>3. CASE Deny(r) \/ Raise(r)
    BY <1>0, <2>3, Registrations DEF Deny, Raise, GiveUp
  <2> QED
    BY <1>3, <2>1, <2>2, <2>3 DEF Submit
<1>4. ASSUME NEW r \in Requests, Control(r) PROVE Ownership'
  <2>1. active' = active /\ stream' = stream
    BY <1>0, <1>4, Registrations DEF Control, Hold, Interrupt, Cancel, Act, NothingToPause,
       Close, LetGo
  <2> QED
    BY <1>0, <1>4, <2>1 DEF Control, Hold, Interrupt, Cancel, Act, NothingToPause, Close
<1>5. ASSUME NEW r \in Requests, Pump(r) PROVE Ownership'
  BY <1>0, <1>5, Registrations DEF Pump, StreamEnds, PumpFinishes
<1>6. ASSUME NEW r \in Requests, TimeOut(r) PROVE Ownership'
  BY <1>0, <1>6, Registrations DEF TimeOut, SubmissionTimesOut, GiveUp, ControlTimesOut, LetGo
<1>7. CASE Restart
  BY <1>0, <1>7 DEF Restart, Final
<1> QED
  BY <1>1, <1>2, <1>3, <1>4, <1>5, <1>6, <1>7
  DEF Next, Environment, AgentSetsGoal, TurnEnds, TakeUp, GoalCompletes, Ended, vars

LEMMA MutationsKept ==
    TypeOK /\ Places /\ Ownership /\ Mutations /\ [Next]_vars => Mutations'
<1> SUFFICES ASSUME TypeOK, Places, Ownership, Mutations, [Next]_vars PROVE Mutations'
  OBVIOUS
<1>0. TM!TypeOK /\ RestOK /\ None \notin Requests
  BY TypeParts, Parameters DEF Parameters
<1> USE DEF RestOK, Phases, Mutations, Using, Holds, Starting, Move
<1>1. CASE UNCHANGED <<at, saw, active, mutating>>
  BY <1>1
<1>2. ASSUME NEW r \in Requests, Begin(r) PROVE Mutations'
  <2>1. CASE Reserve(r)
    BY <1>0, <2>1, Registrations DEF Reserve
  <2>2. CASE Refuse(r) \/ Look(r)
    BY <1>0, <2>2 DEF Refuse, Look
  <2> QED
    BY <1>2, <2>1, <2>2 DEF Begin
<1>3. ASSUME NEW r \in Requests, Submit(r) \/ Pump(r) PROVE Mutations'
  <2>1. /\ mutating' = mutating /\ saw' = saw
        /\ active'[Thread] \in {active[Thread], None}
    BY <1>0, <1>3, Registrations DEF Submit, Prepare, Deny, Execute, Confirm, MarkRunning,
       Attach, Abort, CancelOwn, Raise, GiveUp, Pump, StreamEnds, PumpFinishes
  <2>2. \A x \in Requests : Using(x)' => Using(x)
    BY <1>0, <1>3, <2>1 DEF Submit, Prepare, Deny, Execute, Confirm, MarkRunning,
       Attach, Abort, CancelOwn, Raise, GiveUp, Pump, StreamEnds, PumpFinishes
  <2> QED
    BY <2>1, <2>2
<1>4. ASSUME NEW r \in Requests, Control(r) PROVE Mutations'
  <2>1. CASE Hold(r)
    BY <1>0, <2>1, Registrations DEF Hold
  <2>2. CASE Interrupt(r)
    BY <1>0, <2>2, Registrations DEF Interrupt, Places
  <2>3. CASE Cancel(r) \/ Act(r)
    BY <1>0, <2>3 DEF Cancel, Act, Places
  <2>4. CASE NothingToPause(r) \/ Close(r)
    BY <1>0, <2>4, Registrations DEF NothingToPause, Close, LetGo
  <2> QED
    BY <1>4, <2>1, <2>2, <2>3, <2>4 DEF Control
<1>5. ASSUME NEW r \in Requests, TimeOut(r) PROVE Mutations'
  <2>1. CASE SubmissionTimesOut(r)
    BY <1>0, <2>1, Registrations DEF SubmissionTimesOut, GiveUp
  <2>2. CASE ControlTimesOut(r)
    BY <1>0, <2>2, Registrations DEF ControlTimesOut, LetGo, Places
  <2> QED
    BY <1>5, <2>1, <2>2 DEF TimeOut
<1>6. CASE Restart
  BY <1>0, <1>6, Registrations DEF Restart, Final, TM!Clear
<1> QED
  BY <1>1, <1>2, <1>3, <1>4, <1>5, <1>6
  DEF Next, Environment, AgentSetsGoal, TurnEnds, TakeUp, GoalCompletes, Ended, vars

-----------------------------------------------------------------------------
(* The Goal *)

\* What the steps do to the Goal: they leave it, stop it, or a request
\* activates it that submits, that runs, or that was given up.
Starters(r) ==
    \/ Execute(r) /\ Activates(r)
    \/ AgentSetsGoal(r)
    \/ TakeUp(r) /\ Activates(r) /\ late[r] = "submit"

LEMMA GoalSteps ==
    ASSUME TypeOK, Places, [Next]_vars
    PROVE  \/ goal' = goal
           \/ goal' = NoGoal
           \/ goal' \in Goals /\ goal'.by = goal.by /\ goal'.status \in {"paused", "complete"}
           \/ \E r \in Requests : Starters(r) /\ Activate(r)
<1>0. goal \in Goals /\ RestOK /\ late \in [Requests -> {"none", "submit", "cancel", "act"}]
  BY TypeParts DEF WorldOK
<1>1. CASE UNCHANGED goal
  BY <1>1
<1>2. ASSUME NEW r \in Requests, Execute(r)
      PROVE  goal' = goal \/ (Starters(r) /\ Activate(r))
  BY <1>2 DEF Execute, Submitted, Starters, Activates
<1>3. ASSUME NEW r \in Requests, AgentSetsGoal(r)
      PROVE  Starters(r) /\ Activate(r)
  BY <1>3 DEF AgentSetsGoal, Starters
<1>4. ASSUME NEW r \in Requests, TakeUp(r)
      PROVE  \/ goal' = goal \/ goal' = NoGoal \/ Pause
             \/ Starters(r) /\ Activate(r)
  BY <1>4 DEF TakeUp, Submitted, CancelOperation, Acted, Starters, Activates
<1>5. ASSUME NEW r \in Requests, CancelOwn(r) \/ Cancel(r) \/ Act(r)
      PROVE  goal' = goal \/ goal' = NoGoal \/ Pause
  BY <1>5 DEF CancelOwn, Cancel, CancelOperation, Act, Acted
<1>6. CASE GoalCompletes \/ Pause
  BY <1>0, <1>6 DEF GoalCompletes, Pause, Goals
<1>7. ASSUME NEW r \in Requests, Begin(r) \/ Pump(r) \/ TimeOut(r) PROVE goal' = goal
  BY <1>7 DEF Begin, Reserve, Refuse, Look, Pump, StreamEnds, PumpFinishes, TimeOut,
     SubmissionTimesOut, ControlTimesOut
<1>8. ASSUME NEW r \in Requests, Submit(r), ~Execute(r), ~CancelOwn(r) PROVE goal' = goal
  BY <1>8 DEF Submit, Prepare, Deny, Confirm, MarkRunning, Attach, Abort, Raise
<1>9. ASSUME NEW r \in Requests, Control(r), ~Cancel(r), ~Act(r) PROVE goal' = goal
  BY <1>9 DEF Control, Hold, Interrupt, NothingToPause, Close
<1>10. CASE Restart \/ Ended \/ UNCHANGED vars
  BY <1>10 DEF Restart, Ended, vars
<1>11. ASSUME NEW r \in Requests, TurnEnds(r) PROVE goal' = goal
  BY <1>11 DEF TurnEnds
<1>12. CASE \E r \in Requests : Environment(r)
  BY <1>12, <1>3, <1>4, <1>6, <1>11 DEF Environment
<1>13. CASE \E r \in Requests : Submit(r) \/ Control(r)
  BY <1>13, <1>2, <1>5, <1>6, <1>8, <1>9
<1> QED
  BY <1>6, <1>7, <1>10, <1>12, <1>13 DEF Next

\* Codex knows what a request submitted for good, and losses are not undone.
LEMMA TakenStays ==
    ASSUME TypeOK, [Next]_vars
    PROVE  /\ \A r \in Requests : at[r] \in Taken => at'[r] \in Taken
           /\ lost \subseteq lost'
<1>0. RestOK /\ lost \subseteq Requests
  BY TypeParts DEF WorldOK
<1> USE DEF RestOK, Phases, Taken, Move
<1>1. CASE UNCHANGED <<at, lost>>
  BY <1>1
<1>2. ASSUME NEW r \in Requests, Begin(r)
      PROVE  /\ \A x \in Requests : at[x] \in Taken => at'[x] \in Taken
             /\ lost \subseteq lost'
  BY <1>0, <1>2 DEF Begin, Reserve, Refuse, Look
<1>3. ASSUME NEW r \in Requests, Submit(r)
      PROVE  /\ \A x \in Requests : at[x] \in Taken => at'[x] \in Taken
             /\ lost \subseteq lost'
  BY <1>0, <1>3 DEF Submit, Prepare, Deny, Execute, Confirm, MarkRunning, Attach, Abort,
     CancelOwn, Raise, GiveUp
<1>4. ASSUME NEW r \in Requests, Control(r)
      PROVE  /\ \A x \in Requests : at[x] \in Taken => at'[x] \in Taken
             /\ lost \subseteq lost'
  BY <1>0, <1>4 DEF Control, Hold, Interrupt, Cancel, Act, NothingToPause, Close
<1>5. ASSUME NEW r \in Requests, Pump(r) \/ TimeOut(r)
      PROVE  /\ \A x \in Requests : at[x] \in Taken => at'[x] \in Taken
             /\ lost \subseteq lost'
  BY <1>0, <1>5 DEF Pump, StreamEnds, PumpFinishes, TimeOut, SubmissionTimesOut, GiveUp,
     ControlTimesOut
<1>6. CASE Restart
  BY <1>0, <1>6 DEF Restart, Final
<1> QED
  BY <1>1, <1>2, <1>3, <1>4, <1>5, <1>6
  DEF Next, Environment, AgentSetsGoal, TurnEnds, TakeUp, GoalCompletes, Ended, vars

\* A Turn is new to Codex when it is submitted or taken up late.
LEMMA TurnSteps ==
    ASSUME TypeOK, Places, [Next]_vars, NEW t \in Requests, t \in working', t \notin working
    PROVE  /\ KindOf[t] = "turn" /\ at'[t] \in Taken /\ goal' = goal
           /\ Execute(t) \/ t \in lost
<1>0. RestOK /\ working \subseteq Requests
  BY TypeParts DEF WorldOK
<1> USE DEF RestOK, Phases, Taken, Move, Places, Submitted
<1>1. ASSUME NEW r \in Requests, Execute(r) PROVE r = t /\ KindOf[t] = "turn" /\ goal' = goal /\ at'[t] = "executed"
  BY <1>0, <1>1 DEF Execute
<1>2. ASSUME NEW r \in Requests, TakeUp(r)
      PROVE  r = t /\ KindOf[t] = "turn" /\ goal' = goal /\ late[t] = "submit" /\ at' = at
  BY <1>0, <1>2 DEF TakeUp, Acted
<1>3. ASSUME NEW r \in Requests, Begin(r) \/ Pump(r) \/ TimeOut(r) PROVE FALSE
  BY <1>3 DEF Begin, Reserve, Refuse, Look, Pump, StreamEnds, PumpFinishes, TimeOut,
     SubmissionTimesOut, ControlTimesOut
<1>4. ASSUME NEW r \in Requests, Submit(r), ~Execute(r) PROVE FALSE
  BY <1>4 DEF Submit, Prepare, Deny, Confirm, MarkRunning, Attach, Abort, CancelOwn, Raise
<1>5. ASSUME NEW r \in Requests, Control(r) PROVE FALSE
  BY <1>5 DEF Control, Hold, Interrupt, Cancel, Act, Acted, NothingToPause, Close
<1>6. ASSUME GoalCompletes \/ Restart \/ Ended \/ UNCHANGED vars \/
             \E r \in Requests : AgentSetsGoal(r) \/ TurnEnds(r)
      PROVE  FALSE
  BY <1>6 DEF GoalCompletes, Restart, Ended, vars, AgentSetsGoal, TurnEnds
<1> QED
  BY <1>1, <1>2, <1>3, <1>4, <1>5, <1>6 DEF Next, Environment

LEMMA OriginsKept ==
    TypeOK /\ Places /\ Origins /\ [Next]_vars => Origins'
<1> SUFFICES ASSUME TypeOK, Places, Origins, [Next]_vars PROVE Origins'
  OBVIOUS
<1>0. goal \in Goals /\ RestOK /\ None \notin Requests
  BY TypeParts, Parameters DEF WorldOK, Parameters
<1>1. \A r \in Requests : at[r] \in Taken => at'[r] \in Taken
  BY TakenStays
<1>2. \A r \in working' : KindOf[r] = "turn" /\ at'[r] \in Taken
  <2>1. working' \subseteq Requests /\ working \subseteq Requests
    BY TypeKept DEF TypeOK
  <2> QED
    BY <1>1, <2>1, TurnSteps DEF Origins
<1>3. ASSUME NEW r \in Requests, Starters(r), Activate(r)
      PROVE  goal'.by = r /\ Starting(r) /\ at'[r] \in Taken
  <2>1. goal'.by = r
    BY <1>3 DEF Activate
  <2>2. CASE Execute(r) /\ Activates(r)
    BY <1>0, <2>1, <2>2 DEF Execute, Activates, Starting, Move, RestOK, Taken
  <2>3. CASE AgentSetsGoal(r)
    BY <1>1, <2>1, <2>3 DEF AgentSetsGoal, Origins, Starting
  <2>4. CASE TakeUp(r) /\ Activates(r) /\ late[r] = "submit"
    BY <2>1, <2>4 DEF TakeUp, Places, Activates, Starting, Taken
  <2> QED
    BY <1>3, <2>2, <2>3, <2>4 DEF Starters
<1>4. goal'.by # None => Starting(goal'.by) /\ at'[goal'.by] \in Taken
  <2>1. goal.by # None => Starting(goal.by) /\ at'[goal.by] \in Taken
    BY <1>0, <1>1 DEF Origins, Goals
  <2> QED
    BY <1>3, <2>1, GoalSteps DEF NoGoal
<1>5. IsActive' => goal'.by \in Requests
  BY <1>3, GoalSteps DEF Origins, IsActive, NoGoal
<1> QED
  BY <1>2, <1>4, <1>5 DEF Origins

-----------------------------------------------------------------------------
(* Goals have handles *)

\* Who starts activating a Goal still has the registration, or lost its call.
LEMMA StartersHold ==
    ASSUME TypeOK, Places, Ownership, Origins, [Next]_vars,
           NEW r \in Requests, Starters(r), Activate(r)
    PROVE  /\ Activates(r) /\ r \notin lost' => active'[Thread] = r
           /\ Activates(r) /\ r \notin lost' => at'[r] = "executed" /\ stream'[r] = "none"
<1>0. RestOK
  BY TypeParts
<1>1. CASE Execute(r) /\ Activates(r)
  BY <1>0, <1>1 DEF Execute, RestOK, Move, Places, Ownership, Owning
<1>2. CASE AgentSetsGoal(r)
  BY <1>2 DEF AgentSetsGoal, Origins, Activates
<1>3. CASE TakeUp(r) /\ Activates(r) /\ late[r] = "submit"
  BY <1>3 DEF TakeUp, Places
<1> QED
  BY <1>1, <1>2, <1>3 DEF Starters

\* The other steps leave the active Goal with the registration it has, or
\* with a request that lost an answer.
LEMMA HandlesKept ==
    ASSUME TypeOK, Places, Ownership, Mutations, Origins, Management, [Next]_vars,
           ActiveBy(goal.by), Activates(goal.by), goal.by \in Requests,
           goal.by \notin lost', goal' = goal
    PROVE  active'[Thread] = goal.by
<1>0. /\ TM!TypeOK /\ RestOK /\ None \notin Requests
      /\ active[Thread] = goal.by /\ goal.by \notin lost /\ at[goal.by] \in Taken
  BY TypeParts, Parameters, TakenStays
  DEF Parameters, Management, GoalsAreManaged, ActiveBy, Origins
<1>1. CASE UNCHANGED active
  BY <1>0, <1>1
<1>2. ASSUME NEW r \in Requests, Begin(r) PROVE active'[Thread] = goal.by
  BY <1>0, <1>2, Registrations DEF Begin, Reserve, Refuse, Look
<1>3. ASSUME NEW r \in Requests, Deny(r) \/ Raise(r) \/ SubmissionTimesOut(r)
      PROVE  active'[Thread] = goal.by
  <2>1. active[Thread] = r
    BY <1>3 DEF Deny, Raise, SubmissionTimesOut, Ownership, Owning
  <2>2. r # goal.by
    BY <1>0, <1>3 DEF Deny, Raise, SubmissionTimesOut, Taken, Management
  <2> QED
    BY <1>0, <2>1, <2>2
<1>4. ASSUME NEW r \in Requests, PumpFinishes(r) PROVE active'[Thread] = goal.by
  <2>1. active[Thread] = r
    BY <1>4 DEF PumpFinishes, Ownership
  <2>2. r # goal.by
    BY <1>0, <1>4 DEF PumpFinishes, Management
  <2> QED
    BY <1>0, <2>1, <2>2
<1>5. ASSUME NEW r \in Requests, MarkRunning(r) \/ Attach(r) PROVE active' = active
  BY <1>0, <1>5, Registrations DEF MarkRunning, Attach
<1>6. ASSUME NEW r \in Requests, Control(r) \/ ControlTimesOut(r) PROVE active' = active
  BY <1>0, <1>6, Registrations DEF Control, Hold, Interrupt, Cancel, Act, NothingToPause,
     Close, LetGo, ControlTimesOut
<1>7. ASSUME Restart PROVE FALSE
  BY <1>0, <1>7 DEF Restart, Taken
<1>8. ASSUME NEW r \in Requests,
             Prepare(r) \/ Execute(r) \/ Confirm(r) \/ Abort(r) \/ CancelOwn(r)
      PROVE  active' = active
  BY <1>8 DEF Prepare, Execute, Confirm, Abort, CancelOwn
<1>9. ASSUME NEW r \in Requests, Submit(r) PROVE active'[Thread] = goal.by
  BY <1>0, <1>3, <1>5, <1>8, <1>9 DEF Submit
<1>10. ASSUME NEW r \in Requests, Pump(r) \/ TimeOut(r) PROVE active'[Thread] = goal.by
  BY <1>0, <1>3, <1>4, <1>6, <1>10 DEF Pump, StreamEnds, TimeOut
<1> QED
  BY <1>0, <1>1, <1>2, <1>6, <1>7, <1>9, <1>10
  DEF Next, Environment, AgentSetsGoal, TurnEnds, TakeUp, GoalCompletes, Ended, vars

\* A request whose operation is over has no active Goal.
LEMMA OverKept ==
    ASSUME TypeOK, Places, Ownership, Origins, Management, [Next]_vars,
           NEW r \in Requests, r \notin lost', Activates(r),
           at'[r] = "cancelled" \/ stream'[r] \in {"ended", "done"}
    PROVE  ~ActiveBy(r)'
<1>0. goal \in Goals /\ RestOK /\ Places' /\ r \notin lost /\ at \in [Requests -> Phases]
  BY TypeParts, PlacesKept, TakenStays DEF WorldOK, RestOK
<1>1. CASE at[r] = "cancelled" \/ stream[r] \in {"ended", "done"}
  <2>1. ~ActiveBy(r)
    BY <1>0, <1>1 DEF Management
  <2>2. ASSUME NEW s \in Requests, Starters(s), Activate(s) PROVE ~ActiveBy(r)'
    <3>1. s = r => at'[r] = "executed" /\ stream'[r] = "none"
      BY <2>2, StartersHold
    <3> QED
      BY <2>2, <3>1 DEF Activate, ActiveBy
  <2> QED
    BY <2>1, <2>2, GoalSteps DEF ActiveBy, IsActive, NoGoal
<1>2. CASE ~(at[r] = "cancelled" \/ stream[r] \in {"ended", "done"})
  <2>1. CASE \E s \in Requests : CancelOwn(s)
    BY <1>0, <1>2, <2>1 DEF CancelOwn, CancelOperation, ActiveBy, IsActive, Pause, Goals,
       Move, RestOK
  <2>2. CASE \E s \in Requests : StreamEnds(s)
    BY <1>0, <1>2, <2>2 DEF StreamEnds, Over, ActiveBy, IsActive, RestOK
  <2>3. ASSUME Restart PROVE FALSE
    BY <1>0, <1>2, <2>3 DEF Restart, Final, RestOK, Places
  <2>4. ASSUME NEW s \in Requests, Submit(s), ~CancelOwn(s) PROVE FALSE
    BY <1>0, <1>2, <2>4 DEF RestOK, Move, Submit, Prepare, Deny, Execute, Confirm, MarkRunning,
       Attach, Abort, Raise, GiveUp
  <2>5. ASSUME NEW s \in Requests, Control(s) \/ Begin(s) PROVE FALSE
    BY <1>0, <1>2, <2>5 DEF RestOK, Move, Control, Hold, Interrupt, Cancel, Act, NothingToPause,
       Close, Begin, Reserve, Refuse, Look
  <2>6. ASSUME NEW s \in Requests, PumpFinishes(s) \/ TimeOut(s) PROVE FALSE
    BY <1>0, <1>2, <2>6 DEF RestOK, Move, PumpFinishes, TimeOut, SubmissionTimesOut, GiveUp,
       ControlTimesOut
  <2>7. ~UNCHANGED <<at, stream>>
    BY <1>2
  <2> QED
    BY <2>1, <2>2, <2>3, <2>4, <2>5, <2>6, <2>7
    DEF Next, Pump, Environment, AgentSetsGoal, TurnEnds, TakeUp, GoalCompletes, Ended, vars
<1> QED
  BY <1>1, <1>2

LEMMA ManagementKept ==
    TypeOK /\ Places /\ Ownership /\ Mutations /\ Origins /\ Management /\ [Next]_vars
        => Management'
<1> SUFFICES ASSUME TypeOK, Places, Ownership, Mutations, Origins, Management, [Next]_vars
             PROVE  Management'
  OBVIOUS
<1>1. GoalsAreManaged'
  <2> SUFFICES ASSUME IsActive', Activates(goal'.by), goal'.by \notin lost'
               PROVE  active'[Thread] = goal'.by
    BY DEF GoalsAreManaged, Activates
  <2>1. CASE goal' = goal
    <3>1. ActiveBy(goal.by) /\ Activates(goal.by) /\ goal.by \in Requests /\ goal.by \notin lost'
      BY <2>1 DEF Origins, ActiveBy, IsActive
    <3> QED
      BY <2>1, <3>1, HandlesKept
  <2>2. ASSUME NEW r \in Requests, Starters(r), Activate(r)
        PROVE  active'[Thread] = goal'.by
    <3>1. goal'.by = r
      BY <2>2 DEF Activate
    <3> QED
      BY <2>2, <3>1, StartersHold
  <2> QED
    BY <2>1, <2>2, GoalSteps DEF IsActive, NoGoal
<1>2. \A r \in Requests \ lost' :
         Activates(r) /\ (at'[r] = "cancelled" \/ stream'[r] \in {"ended", "done"})
             => ~ActiveBy(r)'
  BY OverKept
<1> QED
  BY <1>1, <1>2 DEF Management, Activates

-----------------------------------------------------------------------------
(* Turns and Goals *)

\* A Turn that Codex runs for somebody belongs to who holds the registration.
LEMMA RunningKept ==
    ASSUME TypeOK, Places, Origins, Solitude, [Next]_vars,
           NEW t \in working', t \notin lost'
    PROVE  at'[t] \in {"executed", "marked"} \/ stream'[t] = "open"
<1>0. /\ RestOK /\ working \subseteq Requests /\ t \in Requests /\ t \notin lost
      /\ KindOf[t] = "turn"
  BY TypeParts, TypeKept, TakenStays, OriginsKept DEF WorldOK, TypeOK, Origins
<1>1. CASE t \notin working
  BY <1>0, <1>1, TurnSteps DEF Execute, Move, RestOK
<1>2. CASE t \in working
  <2>0. at[t] \in {"executed", "marked"} \/ (stream[t] = "open" /\ at[t] = "accepted")
    BY <1>0, <1>2 DEF Solitude, Places
  <2>1. CASE UNCHANGED <<at, stream>>
    BY <2>0, <2>1
  <2>2. ASSUME NEW r \in Requests, Submit(r)
        PROVE  at'[t] \in {"executed", "marked"} \/ stream'[t] = "open"
    BY <1>0, <2>0, <2>2 DEF RestOK, Move, Activates, Places, Submit, Prepare, Deny, Execute, Confirm,
       MarkRunning, Attach, Abort, CancelOwn, Raise, GiveUp
  <2>3. ASSUME NEW r \in Requests, Control(r) \/ Begin(r)
        PROVE  at'[t] \in {"executed", "marked"} \/ stream'[t] = "open"
    BY <1>0, <2>0, <2>3 DEF RestOK, Move, Control, Hold, Interrupt, Cancel, Act, NothingToPause,
       Close, Begin, Reserve, Refuse, Look
  <2>4. CASE \E r \in Requests : StreamEnds(r)
    BY <1>0, <1>2, <2>0, <2>4 DEF RestOK, StreamEnds, Over, Activates
  <2>5. CASE \E r \in Requests : PumpFinishes(r) \/ TimeOut(r)
    BY <1>0, <2>0, <2>5 DEF RestOK, Move, PumpFinishes, TimeOut, SubmissionTimesOut, GiveUp,
       ControlTimesOut
  <2>6. ASSUME Restart PROVE FALSE
    BY <2>6 DEF Restart
  <2> QED
    BY <2>1, <2>2, <2>3, <2>4, <2>5, <2>6
    DEF Next, Pump, Environment, AgentSetsGoal, TurnEnds, TakeUp, GoalCompletes, Ended, vars
<1> QED
  BY <1>1, <1>2

\* A request that nobody lost holds the registration when it activates a Goal.
LEMMA ActivationsAlone ==
    ASSUME TypeOK, Places, Ownership, Origins, Solitude, [Next]_vars,
           NEW r \in Requests, Starters(r), Activate(r),
           NEW t \in Requests, t \notin lost', KindOf[t] = "turn",
           t \in working' \/ at'[t] = "submitting"
    PROVE  goal'.late \/ (goal'.by = t /\ at'[t] # "submitting")
<1>1. goal'.by = r /\ (r \in lost => goal'.late)
  BY DEF Activate
<1>2. active[Thread] = t
  <2>1. t \notin lost
    BY TakenStays
  <2>2. CASE t \in working
    BY <2>1, <2>2 DEF Solitude, Ownership, Owning
  <2>3. CASE t \notin working /\ t \in working'
    BY <2>1, <2>3, TurnSteps DEF Execute, Ownership, Owning
  <2>4. CASE at'[t] = "submitting"
    <3>1. at[t] = "submitting"
      BY <2>4, TypeParts DEF Starters, Execute, Move, AgentSetsGoal, TakeUp, RestOK
    <3> QED
      BY <3>1 DEF Ownership, Owning
  <2> QED
    BY <2>2, <2>3, <2>4
<1>3. CASE Execute(r) /\ Activates(r)
  BY <1>2, <1>3 DEF Execute, Ownership, Owning, Activates
<1>4. CASE AgentSetsGoal(r)
  BY <1>1, <1>2, <1>4 DEF AgentSetsGoal, Solitude, Ownership, Owning, Places
<1>5. CASE TakeUp(r) /\ Activates(r) /\ late[r] = "submit"
  BY <1>1, <1>5 DEF TakeUp, Places
<1> QED
  BY <1>3, <1>4, <1>5 DEF Starters

LEMMA SolitudeKept ==
    TypeOK /\ Places /\ Ownership /\ Origins /\ Solitude /\ [Next]_vars => Solitude'
<1> SUFFICES ASSUME TypeOK, Places, Ownership, Origins, Solitude, [Next]_vars
             PROVE  Solitude'
  OBVIOUS
<1>0. /\ goal \in Goals /\ RestOK /\ working' \subseteq Requests
      /\ lost \subseteq lost'
      /\ \A t \in working' : KindOf[t] = "turn"
  BY TypeParts, TypeKept, TakenStays, OriginsKept DEF WorldOK, TypeOK, Origins
<1>1. CASE goal' = goal
  <2>1. TurnsRunAlone'
    <3> SUFFICES ASSUME NEW t \in working', t \notin lost', IsActive
                 PROVE  goal.by = t \/ goal.late
      BY <1>1 DEF TurnsRunAlone, IsActive
    <3>1. CASE t \in working
      BY <1>0, <3>1 DEF Solitude, TurnsRunAlone
    <3>2. CASE t \notin working
      BY <1>0, <3>2, TurnSteps DEF Execute, Solitude
    <3> QED
      BY <3>1, <3>2
  <2>2. ASSUME NEW t \in Requests, t \notin lost', KindOf[t] = "turn",
               at'[t] = "submitting", IsActive
        PROVE  goal.late
    <3>1. CASE at[t] = "submitting"
      BY <1>0, <2>2, <3>1 DEF Solitude
    <3>2. CASE at[t] # "submitting"
      <4>1. ASSUME NEW r \in Requests, Submit(r) PROVE Prepare(r) /\ r = t
        BY <1>0, <2>2, <3>2, <4>1 DEF RestOK, Move, Submit, Deny, Execute, Confirm, MarkRunning,
           Attach, Abort, CancelOwn, Raise, GiveUp, Prepare
      <4>2. ASSUME NEW r \in Requests, Control(r) \/ Begin(r) PROVE FALSE
        BY <1>0, <2>2, <3>2, <4>2 DEF RestOK, Move, Control, Hold, Interrupt, Cancel, Act,
           NothingToPause, Close, Begin, Reserve, Refuse, Look
      <4>3. ASSUME NEW r \in Requests, Pump(r) \/ TimeOut(r) PROVE FALSE
        BY <1>0, <2>2, <3>2, <4>3 DEF RestOK, Move, Pump, StreamEnds, PumpFinishes, TimeOut,
           SubmissionTimesOut, GiveUp, ControlTimesOut
      <4>4. ASSUME Restart PROVE FALSE
        BY <1>0, <2>2, <3>2, <4>4 DEF Restart, RestOK
      <4>5. at' # at
        BY <2>2, <3>2
      <4>6. Prepare(t)
        BY <4>1, <4>2, <4>3, <4>4, <4>5
        DEF Next, Environment, AgentSetsGoal, TurnEnds, TakeUp, GoalCompletes, Ended, vars
      <4> QED
        BY <2>2, <4>6 DEF Prepare, Allowed
    <3> QED
      BY <3>1, <3>2
  <2> QED
    BY <1>1, <2>1, <2>2, RunningKept DEF Solitude, IsActive
<1>2. CASE ~IsActive'
  BY <1>2, RunningKept DEF Solitude, TurnsRunAlone
<1>3. ASSUME NEW r \in Requests, Starters(r), Activate(r) PROVE Solitude'
  BY <1>0, <1>3, ActivationsAlone, RunningKept DEF Solitude, TurnsRunAlone
<1> QED
  BY <1>1, <1>2, <1>3, GoalSteps DEF IsActive, NoGoal

-----------------------------------------------------------------------------
(* Pauses *)

LEMMA PausesAlone ==
    ASSUME TypeOK, Places, Mutations, [Next]_vars,
           NEW o \in Requests, ActiveBy(o), active[Thread] = o, goal'.status = "paused"
    PROVE  \E r \in Requests :
              /\ at'[r] # at[r] \/ late'[r] # late[r]
              /\ r = o \/ saw[r] = o \/ r \in lost
<1>0. /\ RestOK /\ None \notin Requests /\ goal.status # "paused" /\ goal.by = o
      /\ late \in [Requests -> {"none", "submit", "cancel", "act"}]
  BY TypeParts, Parameters DEF Parameters, WorldOK, ActiveBy, IsActive
<1>1. ASSUME NEW r \in Requests, CancelOwn(r) PROVE r = o /\ at'[r] # at[r]
  BY <1>0, <1>1 DEF CancelOwn, CancelOperation, ActiveBy, Move, RestOK
<1>2. ASSUME NEW r \in Requests, Cancel(r) PROVE saw[r] = o /\ at'[r] # at[r]
  BY <1>0, <1>2 DEF Cancel, CancelOperation, ActiveBy, Move, RestOK
<1>3. ASSUME NEW r \in Requests, Act(r) PROVE FALSE
  <2>1. KindOf[r] = "pause" /\ at[r] = "acting"
    BY <1>3 DEF Act, Acted, NoGoal
  <2>2. Using(r)
    BY <2>1 DEF Using, Holds, Starting, Places
  <2> QED
    BY <1>0, <2>2 DEF Mutations
<1>4. ASSUME NEW r \in Requests, TakeUp(r) PROVE r \in lost /\ late'[r] # late[r]
  BY <1>0, <1>4 DEF TakeUp, Places
<1>5. ASSUME NEW r \in Requests, Execute(r) \/ AgentSetsGoal(r) PROVE FALSE
  BY <1>0, <1>5 DEF Execute, Submitted, Activate, AgentSetsGoal
<1>6. ASSUME GoalCompletes PROVE FALSE
  BY <1>0, <1>6, TypeParts DEF GoalCompletes, WorldOK, Goals
<1>7. goal' # goal
  BY <1>0
<1>8. ASSUME NEW r \in Requests, Begin(r) \/ Pump(r) \/ TimeOut(r) PROVE FALSE
  BY <1>7, <1>8 DEF Begin, Reserve, Refuse, Look, Pump, StreamEnds, PumpFinishes, TimeOut,
     SubmissionTimesOut, ControlTimesOut
<1>9. ASSUME NEW r \in Requests, Submit(r) PROVE CancelOwn(r) \/ Execute(r)
  BY <1>7, <1>9 DEF Submit, Prepare, Deny, Confirm, MarkRunning, Attach, Abort, Raise
<1>10. ASSUME NEW r \in Requests, Control(r) PROVE Cancel(r) \/ Act(r)
  BY <1>7, <1>10 DEF Control, Hold, Interrupt, NothingToPause, Close
<1> QED
  BY <1>1, <1>2, <1>3, <1>4, <1>5, <1>6, <1>7, <1>8, <1>9, <1>10
  DEF Next, Environment, TurnEnds, Restart, Ended, vars

-----------------------------------------------------------------------------
(* Theorems *)

IInv == TypeOK /\ Places /\ Ownership /\ Mutations /\ Origins /\ Management /\ Solitude

LEMMA Inductive == Spec => []IInv
<1>1. Init => IInv
  BY TypeInit, Parameters
  DEF IInv, Init, TM!Init, NoGoal, Places, Ownership, Owning, Mutations, Using, Origins,
      IsActive, Management, GoalsAreManaged, ActiveBy, Solitude, TurnsRunAlone
<1>2. IInv /\ [Next]_vars => IInv'
  BY TypeKept, PlacesKept, OwnershipKept, MutationsKept, OriginsKept, ManagementKept,
     SolitudeKept DEF IInv
<1> QED
  BY <1>1, <1>2, PTL DEF Spec

\* Codex never runs an ordinary Turn of the console next to an active Goal
\* that start_goal, resume_goal or an earlier Turn's agent set: what start_turn
\* reads after its reservation still holds when Codex has the Turn.
THEOREM TurnsAreAlone == Spec => []TurnsRunAlone
<1>1. IInv => TurnsRunAlone
  BY DEF IInv, Solitude
<1> QED
  BY <1>1, Inductive, PTL

\* An active Goal that was not lost is registered under its own operation:
\* every error path of start_goal and resume_goal cancels before it unregisters.
THEOREM GoalsHaveHandles == Spec => []GoalsAreManaged
<1>1. IInv => GoalsAreManaged
  BY DEF IInv, Management
<1> QED
  BY <1>1, Inductive, PTL

\* pause_goal pauses no Goal that another client activated in the meantime.
THEOREM PausesAreOwn == Spec => PausesHitTheirOwn
<1> DEFINE Own(o) == \E r \in Requests :
                        /\ at'[r] # at[r] \/ late'[r] # late[r]
                        /\ r = o \/ saw[r] = o \/ r \in lost
           A == \A o \in Requests :
                   ActiveBy(o) /\ active[Thread] = o /\ goal'.status = "paused" => Own(o)
<1>1. IInv /\ [Next]_vars => [A]_vars
  BY PausesAlone DEF IInv
<1> QED
  BY <1>1, Inductive, PTL DEF Spec, PausesHitTheirOwn
=============================================================================
