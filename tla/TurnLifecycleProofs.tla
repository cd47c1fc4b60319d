------------------------ MODULE TurnLifecycleProofs --------------------------
(***************************************************************************)
(* Theorems about TurnLifecycle, for any requests, Threads and users.      *)
(*                                                                         *)
(* Types and the promise of the registry hold whatever fails.  The others  *)
(* rest on Ownership: whoever operates on a Thread is registered for it.   *)
(* It is not inductive without how far each request is (Progress), without *)
(* what a task that releases a Turn still knows of it (Releasers) and      *)
(* without an order: the prompt of a Turn leaves the queue for the lock    *)
(* before the error of whoever releases that Turn (PromptFirst).  A user   *)
(* who shares a release with another task, and a journal that cannot be    *)
(* written, break it, hence SoleReleaser and "write" \notin Faults; the    *)
(* model checker shows each of them needed.                                *)
(*                                                                         *)
(* On it rest: a Thread that is taken will be given back (HeldKept), the   *)
(* reconciler spares what Codex runs (Ended), and what browsers are shown  *)
(* agrees with the registry (StatusOrder).                                 *)
(***************************************************************************)
EXTENDS TurnLifecycle, Integers, TLAPS

Registry == INSTANCE TurnManagerProofs WITH
                Ops <- Requests, Turns <- Requests, NoOp <- None, NoTurn <- None

\* No user is about to give back the Thread of a Turn together with another task.
\* The code does not see to it: two interrupts, or an interrupt and the reconciler,
\* may both find a Turn stale.  It is a hypothesis of what follows; without Users it
\* is true.
SoleReleaser ==
    \A u \in Users, x \in Requests \cup Users :
        rel[u].at = "idling" /\ rel[x].at = "idling" /\ rel[u].turn = rel[x].turn => u = x

Consuming == {"created", "streaming", "failing", "cancelled"}

\* How far a request is says what its registration knows and if it has a pump.
Progress ==
    \A r \in Requests :
        /\ pump[r] # "none" <=> phase[r] \in {"running", "accepted"}
        /\ pump[r] # "none" <=> op[r].task # None
        /\ op[r].turn # None <=> phase[r] \in {"userItem", "running", "accepted"}
        /\ op[r].turn # None => codex[r] \notin {"none", "late"}

\* The prompt of a Turn is published before the error of whoever releases it, and
\* before the idle notification that was read for it.
PromptFirst ==
    \A r \in Requests : phase[r] = "userItem" =>
        /\ Req(r) \in lockq[Req(r)]
        /\ \A x \in Requests \cup Users :
               rel[x].at = "erring" /\ rel[x].turn = r => Req(r) \in lockq[Rel(x)]
        /\ reader.at = "publishing" /\ reader.turn = r => Req(r) \in lockq[Reader]

\* What a task that releases a Turn holds on to.
ReleaserOK(x) ==
    LET t == rel[x].turn IN
    /\ rel[x].at # "none" => t \in Requests /\ op[t].turn = t
    /\ rel[x].at \in {"erring", "draining"} => rel[x].op = t
    /\ rel[x].at \in {"sleeping", "draining", "idling"} => phase[t] # "userItem"
    /\ rel[x].at = "idling" =>
           ~Operates(t) /\ (TM!Runs(ThreadOf[t], t) \/ stop.at = "done")
    /\ x \in Requests => rel[x].at \notin {"calling", "stopping"} /\ t \in {None, x}
    /\ x \in Users => rel[x].at # "sleeping"

Releasers == \A x \in Requests \cup Users : ReleaserOK(x)

ReaderOK == reader.turn # None => op[reader.turn].turn = reader.turn

Shutdown ==
    /\ stop.at # "none" =>
           /\ ~accepting
           /\ \A r \in Requests :
                 /\ phase[r] \in {"new", "accepted", "failed", "refused", "abandoned"}
                 /\ pump[r] \in Consuming => r \in stop.ops
    /\ stop.at = "done" => \A k \in Keys : ~TM!Held(k)

Ownership ==
    /\ OperatorIsRegistered /\ OwnTurnAndPump
    /\ Progress /\ PromptFirst /\ Releasers /\ ReaderOK /\ Shutdown /\ StoppedMeansDrained

-----------------------------------------------------------------------------
(* The registry *)

USE DEF registry

LEMMA RegistryAssumptions == Registry!Sentinels
BY Parameters DEF Parameters, Registry!Sentinels

\* start_goal gives the registration its Goal and its pump in one step.
GoalMarked(r) ==
    /\ TM!Held(ThreadOf[r])
    /\ op' = [op EXCEPT ![active[ThreadOf[r]]].status = "running",
                        ![active[ThreadOf[r]]].turn = r,
                        ![active[ThreadOf[r]]].task = r]
    /\ UNCHANGED <<active, mutating, accepting>>

\* A task that releases a Turn knows which.
Targets ==
    \A x \in Requests \cup Users :
        /\ rel[x].at # "none" => rel[x].turn \in Requests
        /\ rel[x].at \in {"erring", "draining"} => rel[x].op \in Requests

\* Every step of the callers is one call of a method of the registry, or none.
LEMMA RegistrySteps ==
    ASSUME Next, Targets
    PROVE  [Registry!Next]_(Registry!vars) \/ \E r \in Requests : GoalMarked(r)
<1> DEFINE Calls == Registry!Next \/ UNCHANGED registry
<1>0. \A r \in Requests : ThreadOf[r] \in Keys /\ KindOf[r] \in Registry!Kinds
  BY Parameters DEF Parameters, Registry!Kinds
<1>1. ASSUME NEW r \in Requests, TM!Reserve(ThreadOf[r], r, KindOf[r]) PROVE Registry!Next
  BY <1>0, <1>1 DEF Registry!Next, TM!Reserve, Registry!Reserve, TM!Reservable,
     Registry!Reservable, TM!Held, Registry!Held, TM!Unborn, Registry!Unborn
<1>2. ASSUME NEW r \in Requests, NEW t \in Requests \cup {None}, TM!Finish(ThreadOf[r], t)
      PROVE  Registry!Next
  BY <1>0, <1>2 DEF Registry!Next, TM!Finish, Registry!Finish, TM!Releases, Registry!Releases,
     TM!Held, Registry!Held
<1>3. ASSUME NEW r \in Requests, TM!MarkRunning(ThreadOf[r], r) \/ TM!AttachTask(ThreadOf[r], r)
      PROVE  Registry!Next
  BY <1>0, <1>3 DEF Registry!Next, TM!MarkRunning, Registry!MarkRunning, TM!AttachTask,
     Registry!AttachTask, TM!Held, Registry!Held
<1>4. ASSUME NEW k \in Keys, TM!Interrupt(k) \/ TM!ReserveMutation(k) \/ TM!FinishMutation(k)
      PROVE  Registry!Next
  BY <1>4 DEF Registry!Next, TM!Interrupt, Registry!Interrupt, TM!Controllable,
     Registry!Controllable, TM!ReserveMutation, Registry!ReserveMutation, TM!FinishMutation,
     Registry!FinishMutation, TM!Reservable, Registry!Reservable, TM!Held, Registry!Held
<1>5. ASSUME TM!CloseGate \/ TM!Clear PROVE Registry!Next
  BY <1>5 DEF Registry!Next, TM!CloseGate, Registry!CloseGate, TM!Clear, Registry!Clear
<1> HIDE DEF Calls
<1>c. (Registry!Next => Calls) /\ (UNCHANGED registry => Calls)
  BY DEF Calls
<1>6. ASSUME NEW r \in Requests, Reserve(r) \/ RequestSteps(r) \/ Wake(r)
      PROVE  Calls \/ GoalMarked(r)
  BY <1>1, <1>2, <1>3, <1>6, <1>c DEF Reserve, RequestSteps, Wake, Refuse, PublishStarting, StartingFails,
     Authorize, RequestFails, GiveUp, TurnStarted, PublishUserItem, GoalStarted, GoalMarked,
     PublishRunning, PublicationFails, PublishClosing
<1>7. ASSUME NEW r \in Requests, PumpSteps(r) \/ StreamFails(r) \/ CodexAccepts(r) \/ CodexEnds(r)
      PROVE  Calls
  BY <1>2, <1>7, <1>c DEF PumpSteps, StreamFails, CodexAccepts, CodexEnds, PumpStarts, StreamEnds,
     PumpCancelled, PublishStreamError, PublishPumpIdle, EndPump
<1> QED
  <2>1. ASSUME NEW r \in Requests, Reserve(r) \/ RequestSteps(r) \/ Wake(r)
        PROVE  Calls \/ GoalMarked(r)
    BY <1>6, <2>1
  <2>2. ASSUME NEW r \in Requests, PumpSteps(r) \/ StreamFails(r) \/ CodexAccepts(r) \/ CodexEnds(r)
        PROVE  Calls
    BY <1>7, <2>2
  <2>3. ASSUME NEW x \in Requests \cup Users, ReleaseSteps(x) PROVE Calls
    <3>1. rel[x].at = "idling" => rel[x].turn \in Requests
      BY DEF Targets
    <3> QED
      BY <1>2, <1>c, <2>3, <3>1 DEF ReleaseSteps, PublishStale, Drained, PublishReleased
  <2>4. ASSUME NEW u \in Users, UserSteps(u) \/ \E k \in Keys : CallInterrupt(u, k) PROVE Calls
    BY <1>4, <1>c, <2>4 DEF UserSteps, CallInterrupt, InterruptReturns, InterruptFindsStale,
       InterruptFails, PublishStopping
  <2>5. ASSUME NEW k \in Keys, BeginMutation(k) \/ EndMutation(k) PROVE Calls
    BY <1>4, <1>c, <2>5 DEF BeginMutation, EndMutation
  <2>6. ASSUME ReaderSteps PROVE Calls
    <3>1. UNCHANGED registry
      <4>1. CASE ReadNotice
        BY <4>1 DEF ReadNotice
      <4>2. CASE PublishNotice \/ NoticeFails
        BY <4>2 DEF PublishNotice, NoticeFails
      <4> QED
        BY <2>6, <4>1, <4>2 DEF ReaderSteps
    <3> QED
      BY <1>c, <3>1
  <2>7. ASSUME BeginShutdown \/ StopSteps PROVE Calls
    <3>1. CASE BeginShutdown \/ ClearRegistry
      BY <1>5, <1>c, <3>1 DEF BeginShutdown, ClearRegistry
    <3>2. CASE InterruptsDone \/ CancelPumps
      BY <1>c, <3>2 DEF InterruptsDone, CancelPumps
    <3> QED
      BY <2>7, <3>1, <3>2 DEF StopSteps
  <2> QED
    BY <2>1, <2>2, <2>3, <2>4, <2>5, <2>6, <2>7 DEF Next, Calls, Registry!vars

-----------------------------------------------------------------------------
(* Types *)

QueueOK(q) == q \in [Tasks -> SUBSET Tasks] /\ \A p \in Tasks : q[p] # {} => p \in q[p]

LEMMA QueueTyped ==
    ASSUME NEW q, QueueOK(q)
    PROVE  /\ \A S : QueueOK(Withdraw(S, q))
           /\ \A p \in Tasks : QueueOK(Last(p, q))
<1>1. ASSUME NEW S PROVE QueueOK(Withdraw(S, q))
  BY DEF QueueOK, Withdraw
<1>2. ASSUME NEW p \in Tasks PROVE QueueOK(Last(p, q))
  BY DEF QueueOK, Last
<1> QED
  BY <1>1, <1>2

LEMMA TaskNames ==
    /\ Reader \in Tasks
    /\ \A r \in Requests : Req(r) \in Tasks /\ Pump(r) \in Tasks
    /\ \A x \in Requests \cup Users : Rel(x) \in Tasks
BY DEF Tasks

LEMMA CancelTyped == \A s \in PumpStates : AfterCancel(s) \in PumpStates
BY DEF AfterCancel, PumpStates

ReleaseViews == [at : ReleaseStates, turn : Requests \cup {None}, op : Requests \cup {None}]
ReaderViews == [at : {"reading", "publishing", "dead"}, key : Keys \cup {None},
                turn : Requests \cup {None}]
StopViews == [at : {"none", "interrupting", "waiting", "done"}, ops : SUBSET Requests]

\* The types, in groups that different steps change.
TasksOK ==
    /\ phase \in [Requests -> Phases]
    /\ pump \in [Requests -> PumpStates]
    /\ codex \in [Requests -> {"none", "late", "live", "over", "lost"}]

SharedOK ==
    /\ shown \in [Keys -> ShownStates]
    /\ notices \in Seq(Keys)
    /\ reader \in ReaderViews
    /\ stop \in StopViews

RelOK == rel \in [Requests \cup Users -> ReleaseViews]

LEMMA TypeParts ==
    TypeOK <=> TM!TypeOK /\ TasksOK /\ RelOK /\ QueueOK(lockq) /\ SharedOK
BY DEF TypeOK, TasksOK, RelOK, QueueOK, SharedOK, ReleaseViews, ReaderViews, StopViews, Waits

LEMMA TypeInit == Init => TypeOK /\ Targets
BY Parameters DEF Parameters, Init, Idle, TypeOK, Targets, Waits, Phases, PumpStates, ReleaseStates,
   ShownStates, TM!Init, TM!TypeOK, TM!ActiveTurn, TM!Kinds, TM!Statuses, TM!Unborn

LEMMA RegistryKept ==
    ASSUME Registry!IInv, Targets, [Next]_vars
    PROVE  Registry!IInv'
<1>1. CASE UNCHANGED vars
  <2>1. UNCHANGED Registry!vars
    BY <1>1 DEF vars, Registry!vars
  <2> QED
    BY <2>1, RegistryAssumptions, Registry!NextIInv
<1>2. ASSUME NEW r \in Requests, GoalMarked(r) PROVE Registry!IInv'
  <2>1. ThreadOf[r] \in Keys
    BY Parameters DEF Parameters
  <2> QED
    BY <1>2, <2>1 DEF GoalMarked, TM!Held, Registry!IInv, Registry!TypeOK, Registry!ActiveTurn,
       Registry!Kinds, Registry!Statuses, Registry!MutationExcludesOperation,
       Registry!RegisteredOnce, Registry!Held
<1>3. CASE Next
  BY <1>2, <1>3, RegistrySteps, RegistryAssumptions, Registry!NextIInv
<1> QED
  BY <1>1, <1>3

LEMMA TasksTyped ==
    ASSUME TypeOK, Targets, [Next]_vars
    PROVE  TasksOK'
<1>0. TasksOK /\ SharedOK /\ RelOK /\ TM!TypeOK
  BY TypeParts
<1> USE DEF TasksOK, Phases, PumpStates
<1>1. CASE UNCHANGED vars
  BY <1>0, <1>1 DEF vars
<1>2. ASSUME NEW r \in Requests, Reserve(r) \/ RequestSteps(r) \/ Wake(r) PROVE TasksOK'
  BY <1>0, <1>2 DEF Reserve, RequestSteps, Wake, Refuse, PublishStarting, StartingFails,
     Authorize, RequestFails, GiveUp, TurnStarted, PublishUserItem, GoalStarted,
     PublishRunning, PublicationFails, PublishClosing
<1>3. ASSUME NEW r \in Requests, PumpSteps(r) \/ StreamFails(r) \/ CodexAccepts(r) \/ CodexEnds(r)
      PROVE  TasksOK'
  BY <1>0, <1>3 DEF PumpSteps, StreamFails, CodexAccepts, CodexEnds, PumpStarts, StreamEnds,
     PumpCancelled, PublishStreamError, PublishPumpIdle, EndPump
<1>4. ASSUME NEW x \in Requests \cup Users, ReleaseSteps(x) PROVE TasksOK'
  <2>1. pump' = pump \/ \E task \in Requests : pump' = [pump EXCEPT ![task] = AfterCancel(@)]
    <3>1. CASE PublishStale(x)
      <4>1. rel[x].op \in Requests /\ op[rel[x].op].task \in Requests \cup {None}
        BY <1>0, <3>1 DEF PublishStale, Targets, TM!TypeOK, TM!ActiveTurn
      <4> QED
        BY <3>1, <4>1 DEF PublishStale
    <3>2. CASE Drained(x) \/ PublishReleased(x)
      BY <3>2 DEF Drained, PublishReleased
    <3> QED
      BY <1>4, <3>1, <3>2 DEF ReleaseSteps
  <2>2. UNCHANGED <<phase, codex>>
    BY <1>4 DEF ReleaseSteps, PublishStale, Drained, PublishReleased
  <2> QED
    BY <1>0, <2>1, <2>2, CancelTyped
<1>5. ASSUME NEW u \in Users, UserSteps(u) \/ \E k \in Keys : CallInterrupt(u, k) PROVE TasksOK'
  BY <1>0, <1>5 DEF UserSteps, CallInterrupt, InterruptReturns, InterruptFindsStale,
     InterruptFails, PublishStopping
<1>6. ASSUME NEW k \in Keys, BeginMutation(k) \/ EndMutation(k) PROVE TasksOK'
  BY <1>0, <1>6 DEF BeginMutation, EndMutation
<1>7. ASSUME ReadNotice PROVE TasksOK'
  BY <1>0, <1>7 DEF ReadNotice
<1>8. ASSUME PublishNotice \/ NoticeFails \/ BeginShutdown \/ InterruptsDone \/ ClearRegistry
      PROVE  TasksOK'
  BY <1>0, <1>8 DEF PublishNotice, NoticeFails, BeginShutdown, InterruptsDone, ClearRegistry
<1>9. ASSUME CancelPumps PROVE TasksOK'
  BY <1>0, <1>9, CancelTyped DEF CancelPumps
<1> QED
  BY <1>1, <1>2, <1>3, <1>4, <1>5, <1>6, <1>7, <1>8, <1>9 DEF Next, ReaderSteps, StopSteps

\* Every step leaves the lock alone, takes tasks out of it or lets one come last.
LEMMA QueueKept ==
    ASSUME QueueOK(lockq), [Next]_vars
    PROVE  QueueOK(lockq')
<1>t. /\ \A S : QueueOK(Withdraw(S, lockq))
      /\ \A p \in Tasks : QueueOK(Last(p, lockq))
      /\ \A S : \A p \in Tasks : QueueOK(Last(p, Withdraw(S, lockq)))
  BY QueueTyped
<1>n. /\ Reader \in Tasks
      /\ \A r \in Requests : Req(r) \in Tasks /\ Pump(r) \in Tasks
      /\ \A x \in Requests \cup Users : Rel(x) \in Tasks
  BY TaskNames
<1>1. CASE UNCHANGED vars
  BY <1>1 DEF vars
<1>2. ASSUME NEW r \in Requests, Reserve(r) \/ RequestSteps(r) PROVE QueueOK(lockq')
  BY <1>t, <1>n, <1>2 DEF Reserve, RequestSteps, Refuse, PublishStarting, StartingFails,
     Authorize, RequestFails, GiveUp, TurnStarted, PublishUserItem, GoalStarted,
     PublishRunning, PublicationFails, PublishClosing, Enqueue, Release, Requeue
<1>3. ASSUME NEW r \in Requests, PumpSteps(r) \/ StreamFails(r) \/ CodexAccepts(r) \/ CodexEnds(r)
      PROVE  QueueOK(lockq')
  BY <1>t, <1>n, <1>3 DEF PumpSteps, StreamFails, CodexAccepts, CodexEnds, PumpStarts, StreamEnds,
     PumpCancelled, PublishStreamError, PublishPumpIdle, Enqueue, Release, Requeue
<1>4. ASSUME NEW x \in Requests \cup Users, ReleaseSteps(x) PROVE QueueOK(lockq')
  BY <1>t, <1>n, <1>4 DEF ReleaseSteps, PublishStale, Drained, PublishReleased, Conclude, Release
<1>5. ASSUME NEW x \in Requests \cup Users, NEW t, BeginRelease(x, t) PROVE QueueOK(lockq')
  BY <1>t, <1>n, <1>5 DEF BeginRelease, Enqueue
<1>6. ASSUME NEW u \in Users, UserSteps(u) \/ \E k \in Keys : CallInterrupt(u, k) PROVE QueueOK(lockq')
  BY <1>t, <1>n, <1>5, <1>6 DEF UserSteps, CallInterrupt, InterruptReturns, InterruptFindsStale,
     InterruptFails, PublishStopping, Enqueue, Release
<1>7. ASSUME ReaderSteps PROVE QueueOK(lockq')
  BY <1>t, <1>n, <1>7 DEF ReaderSteps, ReadNotice, PublishNotice, NoticeFails, Enqueue, Release
<1>8. ASSUME BeginShutdown \/ StopSteps PROVE QueueOK(lockq')
  BY <1>t, <1>8 DEF BeginShutdown, StopSteps, InterruptsDone, CancelPumps, ClearRegistry
<1>9. ASSUME NEW k \in Keys, BeginMutation(k) \/ EndMutation(k) PROVE QueueOK(lockq')
  BY <1>9 DEF BeginMutation, EndMutation
<1> QED
  BY <1>1, <1>2, <1>3, <1>4, <1>5, <1>6, <1>7, <1>8, <1>9 DEF Next, Wake

LEMMA SharedTyped ==
    ASSUME TypeOK, Targets, [Next]_vars
    PROVE  SharedOK'
<1>0. TasksOK /\ SharedOK /\ RelOK /\ TM!TypeOK
  BY TypeParts
<1>k. \A r \in Requests : ThreadOf[r] \in Keys
  BY Parameters DEF Parameters
<1>s. \A k \in Keys, s \in ShownStates : Show(k, s) => shown' \in [Keys -> ShownStates]
  BY <1>0 DEF SharedOK, Show
<1>d. {"none", "starting", "running", "stopping", "error", "idle"} \subseteq ShownStates
  BY DEF ShownStates
<1>1. CASE UNCHANGED vars
  BY <1>0, <1>1 DEF vars, SharedOK
<1>2. ASSUME NEW r \in Requests, Reserve(r) \/ RequestSteps(r) \/ Wake(r) PROVE SharedOK'
  <2>1. shown' \in [Keys -> ShownStates]
    BY <1>0, <1>k, <1>s, <1>d, <1>2 DEF SharedOK, Reserve, RequestSteps, Wake, Refuse,
       PublishStarting, StartingFails, Authorize, RequestFails, TurnStarted, PublishUserItem,
       GoalStarted, PublishRunning, PublicationFails, PublishClosing
  <2>2. UNCHANGED <<notices, reader, stop>>
    BY <1>2 DEF Reserve, RequestSteps, Wake, Refuse,
       PublishStarting, StartingFails, Authorize, RequestFails, TurnStarted, PublishUserItem,
       GoalStarted, PublishRunning, PublicationFails, PublishClosing
  <2> QED
    BY <1>0, <2>1, <2>2 DEF SharedOK
<1>3. ASSUME NEW r \in Requests, PumpSteps(r) \/ StreamFails(r) \/ CodexAccepts(r) \/ CodexEnds(r)
      PROVE  SharedOK'
  <2>1. CASE CodexEnds(r)
    BY <1>0, <1>k, <2>1 DEF CodexEnds, SharedOK
  <2>2. CASE PumpSteps(r) \/ StreamFails(r) \/ CodexAccepts(r)
    <3>1. shown' \in [Keys -> ShownStates]
      BY <1>0, <1>k, <1>s, <1>d, <2>2 DEF SharedOK, PumpSteps, StreamFails, CodexAccepts,
         PumpStarts, StreamEnds, PumpCancelled, PublishStreamError, PublishPumpIdle
    <3>2. UNCHANGED <<notices, reader, stop>>
      BY <2>2 DEF PumpSteps, StreamFails, CodexAccepts,
         PumpStarts, StreamEnds, PumpCancelled, PublishStreamError, PublishPumpIdle
    <3> QED
      BY <1>0, <3>1, <3>2 DEF SharedOK
  <2> QED
    BY <1>3, <2>1, <2>2
<1>4. ASSUME NEW x \in Requests \cup Users, ReleaseSteps(x) PROVE SharedOK'
  <2>1. rel[x].at # "none" => ThreadOf[rel[x].turn] \in Keys
    BY <1>k DEF Targets
  <2>2. shown' \in [Keys -> ShownStates]
    BY <1>0, <1>s, <1>d, <1>4, <2>1 DEF SharedOK, ReleaseSteps, PublishStale, Drained, PublishReleased
  <2>3. UNCHANGED <<notices, reader, stop>>
    BY <1>4 DEF ReleaseSteps, PublishStale, Drained, PublishReleased
  <2> QED
    BY <1>0, <2>2, <2>3 DEF SharedOK
<1>5. ASSUME NEW u \in Users, UserSteps(u) \/ \E k \in Keys : CallInterrupt(u, k) PROVE SharedOK'
  <2>1. rel[u].at # "none" => ThreadOf[rel[u].turn] \in Keys
    BY <1>k DEF Targets
  <2>2. shown' \in [Keys -> ShownStates]
    BY <1>0, <1>s, <1>d, <1>5, <2>1 DEF SharedOK, UserSteps, CallInterrupt, InterruptReturns,
       InterruptFindsStale, InterruptFails, PublishStopping
  <2>3. UNCHANGED <<notices, reader, stop>>
    BY <1>5 DEF UserSteps, CallInterrupt, InterruptReturns,
       InterruptFindsStale, InterruptFails, PublishStopping
  <2> QED
    BY <1>0, <2>2, <2>3 DEF SharedOK
<1>6. ASSUME ReadNotice PROVE SharedOK'
  <2>1. Head(notices) \in Keys /\ Tail(notices) \in Seq(Keys)
    BY <1>0, <1>6 DEF SharedOK, ReadNotice
  <2>2. TM!Held(Head(notices)) =>
            active[Head(notices)] \in Requests /\ op[active[Head(notices)]].turn \in Requests \cup {None}
    BY <1>0, <2>1 DEF TM!Held, TM!TypeOK, TM!ActiveTurn
  <2> QED
    BY <1>0, <1>6, <2>1, <2>2 DEF SharedOK, ReadNotice, ReaderViews
<1>7. ASSUME PublishNotice \/ NoticeFails PROVE SharedOK'
  BY <1>0, <1>7 DEF SharedOK, PublishNotice, NoticeFails, ReaderViews
<1>8. ASSUME BeginShutdown \/ StopSteps PROVE SharedOK'
  <2>1. CASE BeginShutdown
    BY <1>0, <2>1 DEF SharedOK, BeginShutdown, StopViews, TM!Held, TM!TypeOK
  <2>2. CASE StopSteps
    BY <1>0, <2>2 DEF SharedOK, StopSteps, InterruptsDone, CancelPumps, ClearRegistry, StopViews
  <2> QED
    BY <1>8, <2>1, <2>2
<1>9. ASSUME NEW k \in Keys, BeginMutation(k) \/ EndMutation(k) PROVE SharedOK'
  BY <1>0, <1>9 DEF SharedOK, BeginMutation, EndMutation
<1> QED
  BY <1>1, <1>2, <1>3, <1>4, <1>5, <1>6, <1>7, <1>8, <1>9 DEF Next, ReaderSteps

\* A task that releases a Turn is typed and knows its Turn, whatever it does next.
LEMMA ReleasersTyped ==
    ASSUME TypeOK, Targets, [Next]_vars
    PROVE  RelOK' /\ Targets'
<1>0. TasksOK /\ SharedOK /\ RelOK /\ TM!TypeOK
  BY TypeParts
<1>1. ASSUME UNCHANGED rel PROVE RelOK' /\ Targets'
  BY <1>0, <1>1 DEF RelOK, Targets
<1>2. ASSUME NEW x \in Requests \cup Users, NEW s \in ReleaseStates, At(x, s),
             s = "none" \/ rel[x].at # "none",
             s \in {"erring", "draining"} => rel[x].at \in {"erring", "draining"}
      PROVE  RelOK' /\ Targets'
  BY <1>0, <1>2 DEF At, RelOK, Targets, ReleaseViews
<1>3. ASSUME NEW x \in Requests \cup Users, NEW v \in ReleaseViews, rel' = [rel EXCEPT ![x] = v],
             v.at # "none" => v.turn \in Requests,
             v.at \in {"erring", "draining"} => v.op \in Requests
      PROVE  RelOK' /\ Targets'
  BY <1>0, <1>3 DEF RelOK, Targets
<1>4. Idle \in ReleaseViews /\ Idle.at = "none"
  BY DEF Idle, ReleaseViews, ReleaseStates
<1>5. ASSUME NEW x \in Requests \cup Users, NEW t \in Requests, BeginRelease(x, t)
      PROVE  RelOK' /\ Targets'
  <2>1. CASE Releasable(ThreadOf[t], t)
    <3> DEFINE v == [at |-> "erring", turn |-> t, op |-> active[ThreadOf[t]]]
    <3>1. active[ThreadOf[t]] \in Requests
      BY <1>0, <2>1, Parameters DEF Parameters, Releasable, TM!Runs, TM!Held, TM!TypeOK
    <3>2. v \in ReleaseViews /\ v.turn \in Requests /\ v.op \in Requests
      BY <3>1 DEF ReleaseViews, ReleaseStates
    <3>3. rel' = [rel EXCEPT ![x] = v]
      BY <1>5, <2>1 DEF BeginRelease
    <3> QED
      BY <1>3, <3>2, <3>3
  <2>2. CASE ~Releasable(ThreadOf[t], t)
    BY <1>3, <1>4, <1>5, <2>2 DEF BeginRelease
  <2> QED
    BY <2>1, <2>2
<1>s. {"none", "sleeping", "calling", "erring", "draining", "idling", "stopping"} = ReleaseStates
  BY DEF ReleaseStates
<1>6. ASSUME NEW x \in Requests \cup Users, ReleaseSteps(x) PROVE RelOK' /\ Targets'
  BY <1>2, <1>6, <1>s DEF ReleaseSteps, PublishStale, Drained, PublishReleased, Conclude
<1>7. ASSUME NEW u \in Users, UserSteps(u) PROVE RelOK' /\ Targets'
  <2>1. CASE InterruptReturns(u) \/ InterruptFails(u) \/ PublishStopping(u)
    BY <1>2, <2>1, <1>s DEF InterruptReturns, InterruptFails, PublishStopping
  <2>2. CASE InterruptFindsStale(u)
    <3>1. rel[u].turn \in Requests
      BY <2>2 DEF InterruptFindsStale, Targets
    <3> QED
      BY <1>5, <2>2, <3>1 DEF InterruptFindsStale
  <2> QED
    BY <1>7, <2>1, <2>2 DEF UserSteps
<1>8. ASSUME NEW u \in Users, NEW k \in Keys, CallInterrupt(u, k) PROVE RelOK' /\ Targets'
  <2> DEFINE v == [at |-> "calling", turn |-> op[active[k]].turn, op |-> None]
  <2>1. op[active[k]].turn \in Requests
    BY <1>0, <1>8 DEF CallInterrupt, TM!Interrupt, TM!Controllable, TM!Held, TM!TypeOK, TM!ActiveTurn
  <2>2. v \in ReleaseViews /\ v.at = "calling" /\ v.turn \in Requests
    BY <2>1 DEF ReleaseViews, ReleaseStates
  <2>3. rel' = [rel EXCEPT ![u] = v]
    BY <1>8 DEF CallInterrupt
  <2> QED
    BY <1>3, <2>2, <2>3
<1>9. ASSUME PublishNotice PROVE RelOK' /\ Targets'
  <2> DEFINE v == [at |-> "sleeping", turn |-> reader.turn, op |-> None]
  <2>1. CASE reader.turn # None /\ rel[reader.turn].at = "none"
    <3>1. reader.turn \in Requests
      BY <1>0, <2>1 DEF SharedOK, ReaderViews
    <3>2. v \in ReleaseViews /\ v.at = "sleeping" /\ v.turn \in Requests
      BY <3>1 DEF ReleaseViews, ReleaseStates
    <3>3. rel' = [rel EXCEPT ![reader.turn] = v]
      BY <1>9, <2>1 DEF PublishNotice
    <3> QED
      BY <1>3, <3>1, <3>2, <3>3
  <2>2. CASE ~(reader.turn # None /\ rel[reader.turn].at = "none")
    BY <1>1, <1>9, <2>2 DEF PublishNotice
  <2> QED
    BY <2>1, <2>2
<1>10. ASSUME NEW r \in Requests, Reserve(r) \/ RequestSteps(r) PROVE UNCHANGED rel
  BY <1>10 DEF Reserve, RequestSteps, Refuse, PublishStarting, StartingFails,
     Authorize, RequestFails, TurnStarted, PublishUserItem, GoalStarted,
     PublishRunning, PublicationFails, PublishClosing
<1>11. ASSUME NEW r \in Requests, PumpSteps(r) \/ StreamFails(r) \/ CodexAccepts(r) \/ CodexEnds(r)
       PROVE  UNCHANGED rel
  BY <1>11 DEF PumpSteps, StreamFails, CodexAccepts, CodexEnds, PumpStarts, StreamEnds,
     PumpCancelled, PublishStreamError, PublishPumpIdle
<1>12. ASSUME NEW k \in Keys, BeginMutation(k) \/ EndMutation(k) PROVE UNCHANGED rel
  BY <1>12 DEF BeginMutation, EndMutation
<1>13. ASSUME ReadNotice \/ NoticeFails \/ BeginShutdown \/ StopSteps PROVE UNCHANGED rel
  BY <1>13 DEF ReadNotice, NoticeFails, BeginShutdown, StopSteps, InterruptsDone, CancelPumps,
     ClearRegistry
<1> QED
  BY <1>1, <1>5, <1>6, <1>7, <1>8, <1>9, <1>10, <1>11, <1>12, <1>13
     DEF Next, Wake, ReaderSteps, vars

-----------------------------------------------------------------------------
(* The invariant that every step keeps, whatever goes wrong *)

Base == Registry!IInv /\ TypeOK /\ Targets

LEMMA InitBase == Init => Base
<1> SUFFICES ASSUME Init PROVE Base
  OBVIOUS
<1>1. Registry!Init
  BY DEF Init, TM!Init, Registry!Init, TM!Unborn, Registry!Unborn
<1> QED
  BY <1>1, TypeInit, RegistryAssumptions, Registry!InitIInv DEF Base

LEMMA NextBase == Base /\ [Next]_vars => Base'
<1> SUFFICES ASSUME Base, [Next]_vars PROVE Base'
  OBVIOUS
<1>1. Registry!IInv'
  BY RegistryKept DEF Base
<1>2. TM!TypeOK'
  BY <1>1 DEF Registry!IInv, Registry!TypeOK, TM!TypeOK, Registry!ActiveTurn, TM!ActiveTurn,
     Registry!Kinds, TM!Kinds, Registry!Statuses, TM!Statuses
<1>3. TasksOK' /\ SharedOK' /\ QueueOK(lockq') /\ RelOK' /\ Targets'
  BY TasksTyped, SharedTyped, QueueKept, ReleasersTyped, TypeParts DEF Base
<1>4. TypeOK'
  BY <1>2, <1>3 DEF TypeOK, TasksOK, RelOK, QueueOK, SharedOK, ReleaseViews, ReaderViews,
     StopViews, Waits
<1> QED
  BY <1>1, <1>3, <1>4 DEF Base

LEMMA SpecBase == Spec => []Base
BY InitBase, NextBase, PTL DEF Spec

\* Each task, the publish lock and the registry keep the shape the code gives
\* them, whatever fails and however the tasks interleave (codex_service.py).
THEOREM TypeCorrect == Spec => []TypeOK
<1>1. Base => TypeOK
  BY DEF Base
<1> QED
  BY <1>1, SpecBase, PTL

-----------------------------------------------------------------------------
(* The registry as its callers use it *)

LEMMA InitExclusion == Init => TM!Exclusion!Init
<1> SUFFICES ASSUME Init PROVE TM!Exclusion!Init
  OBVIOUS
<1>1. Registry!Init
  BY DEF Init, TM!Init, Registry!Init, TM!Unborn, Registry!Unborn
<1> QED
  BY <1>1, RegistryAssumptions, Registry!InitRefines DEF TM!Exclusion!Init, Registry!Exclusion!Init,
     TM!Holder, Registry!Holder, TM!Held, Registry!Held

LEMMA NextExclusion ==
    ASSUME Registry!IInv, Targets, [Next]_vars
    PROVE  [TM!Exclusion!Next]_TM!Exclusion!vars
<1>1. ASSUME UNCHANGED <<active, mutating>>,
             \A o \in Requests : op'[o].status = "unborn" <=> op[o].status = "unborn"
      PROVE  UNCHANGED TM!Exclusion!vars
  BY <1>1 DEF TM!Exclusion!vars, TM!Holder, TM!Held
<1>2. ASSUME NEW r \in Requests, GoalMarked(r) PROVE UNCHANGED TM!Exclusion!vars
  <2> DEFINE a == active[ThreadOf[r]]
  <2>1. ThreadOf[r] \in Keys
    BY Parameters DEF Parameters
  <2>2. a \in Requests /\ op[a].status # "unborn" /\ op \in [Requests -> Registry!ActiveTurn]
    BY <1>2, <2>1 DEF GoalMarked, Registry!IInv, Registry!TypeOK, Registry!RegisteredOnce,
       Registry!Held, TM!Held
  <2>3. op' = [op EXCEPT ![a].status = "running", ![a].turn = r, ![a].task = r]
    BY <1>2 DEF GoalMarked
  <2> HIDE DEF a
  <2>4. ASSUME NEW o \in Requests PROVE op'[o].status = "unborn" <=> op[o].status = "unborn"
    <3>1. CASE o = a
      BY <2>2, <2>3, <3>1 DEF Registry!ActiveTurn
    <3>2. CASE o # a
      BY <2>2, <2>3, <3>2
    <3> QED
      BY <3>1, <3>2
  <2> QED
    BY <1>1, <1>2, <2>4 DEF GoalMarked
<1>3. CASE UNCHANGED vars
  BY <1>1, <1>3 DEF vars
<1>4. ASSUME [Registry!Next]_(Registry!vars) PROVE [TM!Exclusion!Next]_TM!Exclusion!vars
  <2>1. [Registry!Exclusion!Next]_(Registry!Exclusion!vars)
    BY <1>4, RegistryAssumptions, Registry!NextRefines
  <2> QED
    BY <2>1 DEF TM!Exclusion!Next, Registry!Exclusion!Next, TM!Exclusion!vars,
       Registry!Exclusion!vars, TM!Holder, Registry!Holder, TM!Held, Registry!Held,
       TM!Exclusion!Acquire, Registry!Exclusion!Acquire, TM!Exclusion!BeginMutation,
       Registry!Exclusion!BeginMutation, TM!Exclusion!Release, Registry!Exclusion!Release
<1> QED
  BY <1>2, <1>3, <1>4, RegistrySteps

\* The callers never break the promise of the registry: a Thread changes hands
\* only through being free, and an operation that lost its Thread never has it
\* again, with every RPC, publication and cancellation between the calls.
THEOREM CallersKeepExclusion == Spec => ImplementsExclusion
<1>1. Base /\ [Next]_vars => [TM!Exclusion!Next]_TM!Exclusion!vars
  BY NextExclusion DEF Base
<1> QED
  BY <1>1, InitExclusion, SpecBase, PTL
     DEF Spec, ImplementsExclusion, TM!ImplementsExclusion, TM!Exclusion!Spec

-----------------------------------------------------------------------------
(* Whoever operates on a Thread is registered for it *)

\* What a step starts from, as long as the Stream Journal can be written.
Sound == Base /\ Ownership /\ "write" \notin Faults

LEMMA SoundTypes ==
    Sound =>
        /\ phase \in [Requests -> Phases] /\ pump \in [Requests -> PumpStates]
        /\ codex \in [Requests -> {"none", "late", "live", "over", "lost"}]
        /\ rel \in [Requests \cup Users -> ReleaseViews]
        /\ active \in [Keys -> Requests \cup {None}]
        /\ op \in [Requests -> TM!ActiveTurn]
        /\ lockq \in [Tasks -> SUBSET Tasks]
        /\ reader \in ReaderViews /\ stop \in StopViews
        /\ None \notin Requests
        /\ \A r \in Requests : ThreadOf[r] \in Keys
BY Parameters, TypeParts DEF Parameters, Sound, Base, TasksOK, RelOK, QueueOK, SharedOK, TM!TypeOK

\* The operation that runs a Turn is the Turn's own, and an operator has its Thread.
LEMMA Owners ==
    Sound =>
        /\ \A r \in Requests : Operates(r) => active[ThreadOf[r]] = r /\ TM!Held(ThreadOf[r])
        /\ \A k \in Keys : \A t \in Requests : TM!Runs(k, t) => active[k] = t
BY SoundTypes DEF Sound, Ownership, OperatorIsRegistered, OwnTurnAndPump, TM!Runs, TM!Held

\* A Turn that the reconciler, or a user, has announced to be over has its pump.
LEMMA ReleasedHavePumps ==
    ASSUME Sound, NEW x \in Requests \cup Users, NEW t, t = rel[x].turn,
           rel[x].at \in {"sleeping", "draining", "idling"} \/
           (rel[x].at = "erring" /\ Publishing(Rel(x)))
    PROVE  t \in Requests /\ phase[t] \in {"running", "accepted"} /\ op[t].task = t /\ pump[t] # "none"
<1>1. t \in Requests /\ op[t].turn = t
  BY DEF Sound, Ownership, Releasers, ReleaserOK
<1>2. phase[t] # "userItem"
  <2>1. CASE rel[x].at = "erring"
    <3>1. Req(t) # Rel(x)
      BY DEF Req, Rel
    <3> QED
      BY <1>1, <2>1, <3>1 DEF Sound, Ownership, PromptFirst, Publishing
  <2>2. CASE rel[x].at # "erring"
    BY <2>2 DEF Sound, Ownership, Releasers, ReleaserOK
  <2> QED
    BY <2>1, <2>2
<1> QED
  BY <1>1, <1>2, SoundTypes DEF Sound, Ownership, Progress, OwnTurnAndPump

LEMMA ProgressKept ==
    ASSUME Sound, Next
    PROVE  /\ Progress' /\ OwnTurnAndPump'
           /\ \A o \in Requests : op[o].turn = o => op'[o].turn = o
<1> DEFINE Goal == /\ Progress' /\ OwnTurnAndPump'
                   /\ \A o \in Requests : op[o].turn = o => op'[o].turn = o
<1>0. /\ phase \in [Requests -> Phases] /\ pump \in [Requests -> PumpStates]
      /\ codex \in [Requests -> {"none", "late", "live", "over", "lost"}]
      /\ op \in [Requests -> TM!ActiveTurn]
      /\ None \notin Requests
      /\ Progress /\ OwnTurnAndPump
      /\ \A r \in Requests : Operates(r) => active[ThreadOf[r]] = r /\ TM!Held(ThreadOf[r])
  BY SoundTypes, Owners DEF Sound, Ownership
\* The steps that change the progress of nobody.
<1>1. ASSUME \A o \in Requests : op'[o].turn = op[o].turn /\ op'[o].task = op[o].task,
             UNCHANGED phase,
             \A r \in Requests : pump'[r] = "none" <=> pump[r] = "none",
             \A r \in Requests : codex[r] \notin {"none", "late"} => codex'[r] \notin {"none", "late"}
      PROVE  Goal
  BY <1>0, <1>1 DEF Progress, OwnTurnAndPump
\* The steps of a request that change its phase alone.
<1>2. ASSUME NEW r \in Requests, NEW p \in Phases, phase' = [phase EXCEPT ![r] = p],
             UNCHANGED <<op, pump>>,
             \A q \in Requests : codex[q] \notin {"none", "late"} => codex'[q] \notin {"none", "late"},
             p = "accepted" <=> phase[r] = "running",
             p \notin {"running", "userItem"}, phase[r] \notin {"accepted", "userItem"}
      PROVE  Goal
  BY <1>0, <1>2 DEF Progress, OwnTurnAndPump, Phases
<1> HIDE DEF Goal
<1>3. ASSUME NEW r \in Requests, Reserve(r) PROVE Goal
  <2> USE <1>3 DEF Reserve, TM!Reserve, TM!Unborn
  <2>1. Progress'
    BY <1>0 DEF Progress, OwnTurnAndPump
  <2>2. OwnTurnAndPump'
    BY <1>0 DEF OwnTurnAndPump
  <2>3. op[r].turn = None
    BY <1>0 DEF OwnTurnAndPump, Progress
  <2>4. \A o \in Requests : op[o].turn = o => op'[o].turn = o
    BY <1>0, <2>3
  <2> QED
    BY <2>1, <2>2, <2>4 DEF Goal
<1>4. ASSUME NEW r \in Requests, Refuse(r) \/ PublishStarting(r) \/ StartingFails(r)
                  \/ Authorize(r) \/ RequestFails(r) \/ PublishRunning(r) \/ PublishClosing(r)
      PROVE  Goal
  <2>1. CASE RequestFails(r)
    <3>1. \A q \in Requests : codex[q] \notin {"none", "late"} => codex'[q] \notin {"none", "late"}
      BY <1>0, <2>1 DEF RequestFails
    <3> QED
      BY <1>2, <2>1, <3>1 DEF RequestFails, GiveUp, TM!Finish, Phases
  <2>2. CASE ~RequestFails(r)
    BY <1>2, <1>4, <2>2 DEF Refuse, PublishStarting, StartingFails, Authorize,
       PublishRunning, PublishClosing, Phases, registry
  <2> QED
    BY <2>1, <2>2
<1>5. ASSUME NEW r \in Requests, TurnStarted(r) PROVE Goal
  BY <1>0, <1>5 DEF TurnStarted, Operates, TM!MarkRunning, Goal, Progress, OwnTurnAndPump, TM!ActiveTurn
<1>6. ASSUME NEW r \in Requests, GoalStarted(r) PROVE Goal
  BY <1>0, <1>6 DEF GoalStarted, Operates, Goal, Progress, OwnTurnAndPump, TM!ActiveTurn
<1>7. ASSUME NEW r \in Requests, PublishUserItem(r) PROVE Goal
  <2>1. TM!AttachTask(ThreadOf[r], r) /\ active[ThreadOf[r]] = r /\ TM!Held(ThreadOf[r])
    BY <1>0, <1>7 DEF PublishUserItem, Operates
  <2>2. /\ op' = [op EXCEPT ![r].task = r]
        /\ pump' = [pump EXCEPT ![r] = "created"]
        /\ phase[r] = "userItem" /\ phase' = [phase EXCEPT ![r] = "running"]
        /\ UNCHANGED codex
    BY <1>7, <2>1 DEF PublishUserItem, TM!AttachTask
  <2> QED
    BY <1>0, <2>2 DEF Goal, Progress, OwnTurnAndPump, TM!ActiveTurn
<1>8. ASSUME NEW r \in Requests, PumpSteps(r) \/ StreamFails(r) PROVE Goal
  BY <1>0, <1>1, <1>8 DEF PumpSteps, StreamFails, PumpStarts, StreamEnds, EndPump, TM!Finish,
     PumpCancelled, PublishStreamError, PublishPumpIdle
<1>9. ASSUME NEW r \in Requests, CodexAccepts(r) \/ CodexEnds(r) PROVE Goal
  BY <1>0, <1>1, <1>9 DEF CodexAccepts, CodexEnds
<1>10. \A s \in PumpStates : AfterCancel(s) = "none" <=> s = "none"
  BY DEF AfterCancel, PumpStates
<1>11. ASSUME NEW x \in Requests \cup Users, ReleaseSteps(x) PROVE Goal
  <2>1. CASE PublishStale(x)
    <3>1. Publishing(Rel(x)) /\ rel[x].at = "erring"
      BY <2>1 DEF PublishStale
    <3>2. rel[x].op = rel[x].turn /\ rel[x].turn \in Requests /\ op[rel[x].turn].task = rel[x].turn
      BY <3>1, ReleasedHavePumps DEF Sound, Ownership, Releasers, ReleaserOK
    <3>3. \A r \in Requests : pump'[r] = "none" <=> pump[r] = "none"
      BY <1>0, <1>10, <2>1, <3>2 DEF PublishStale
    <3> QED
      BY <1>1, <2>1, <3>3 DEF PublishStale
  <2>2. CASE Drained(x) \/ PublishReleased(x)
    BY <1>1, <2>2 DEF Drained, PublishReleased, TM!Finish
  <2> QED
    BY <1>11, <2>1, <2>2 DEF ReleaseSteps
<1>12. ASSUME NEW u \in Users, UserSteps(u) PROVE Goal
  BY <1>1, <1>12 DEF UserSteps, InterruptReturns, InterruptFindsStale, InterruptFails, PublishStopping
<1>13. ASSUME NEW u \in Users, NEW k \in Keys, CallInterrupt(u, k) PROVE Goal
  BY <1>0, <1>1, <1>13 DEF CallInterrupt, TM!Interrupt, TM!ActiveTurn
<1>14. ASSUME NEW k \in Keys, BeginMutation(k) \/ EndMutation(k) PROVE Goal
  BY <1>1, <1>14 DEF BeginMutation, EndMutation, TM!ReserveMutation, TM!FinishMutation
<1>15. ASSUME ReaderSteps \/ BeginShutdown \/ InterruptsDone \/ ClearRegistry PROVE Goal
  BY <1>1, <1>15 DEF ReaderSteps, ReadNotice, PublishNotice, NoticeFails, BeginShutdown, TM!CloseGate,
     InterruptsDone, ClearRegistry, TM!Clear
<1>16. ASSUME CancelPumps PROVE Goal
  BY <1>0, <1>1, <1>10, <1>16 DEF CancelPumps
<1>17. ASSUME NEW r \in Requests, PublicationFails(r) PROVE Goal
  BY <1>17 DEF PublicationFails, WriteFails, Sound
<1>18. ASSUME NEW r \in Requests, Wake(r) PROVE Goal
  BY <1>1, <1>18 DEF Wake
<1> QED
  BY <1>3, <1>4, <1>5, <1>6, <1>7, <1>8, <1>9, <1>11, <1>12, <1>13, <1>14, <1>15, <1>16, <1>17, <1>18
     DEF Next, RequestSteps, StopSteps, Goal

\* Once the pumps that the shutdown waits for are done, nobody operates.
LEMMA NothingLeft ==
    ASSUME Sound, ClearRegistry
    PROVE  \A r \in Requests : ~Operates(r)
<1> SUFFICES ASSUME NEW r \in Requests, Operates(r) PROVE FALSE
  OBVIOUS
<1>1. pump[r] \in Consuming /\ r \in stop.ops
  BY DEF ClearRegistry, Sound, Ownership, Shutdown, Operates, Consuming
<1>2. op[r].task = r
  BY <1>1 DEF Sound, Ownership, Progress, OwnTurnAndPump, Consuming
<1>3. r \in StopTasks
  BY <1>1, <1>2, SoundTypes DEF StopTasks
<1> QED
  BY <1>1, <1>3 DEF ClearRegistry, Consuming

\* A Thread that a task is about to give back is not operated on any more.
LEMMA IdlersHold ==
    ASSUME Sound, NEW x \in Requests \cup Users, rel[x].at = "idling"
    PROVE  /\ rel[x].turn \in Requests /\ ~Operates(rel[x].turn)
           /\ active[ThreadOf[rel[x].turn]] \in {rel[x].turn, None}
           /\ active[ThreadOf[rel[x].turn]] = rel[x].turn \/ stop.at = "done"
<1>1. rel[x].turn \in Requests /\ ThreadOf[rel[x].turn] \in Keys
  BY SoundTypes DEF Sound, Base, Targets
<1> QED
  BY <1>1, Owners DEF Sound, Ownership, Releasers, ReleaserOK, Shutdown, TM!Held

LEMMA OperatorKept ==
    ASSUME Sound, Next
    PROVE  OperatorIsRegistered'
<1>0. /\ phase \in [Requests -> Phases] /\ pump \in [Requests -> PumpStates]
      /\ active \in [Keys -> Requests \cup {None}]
      /\ None \notin Requests
      /\ \A r \in Requests : ThreadOf[r] \in Keys
      /\ Progress
      /\ \A r \in Requests : Operates(r) => active[ThreadOf[r]] = r /\ TM!Held(ThreadOf[r])
  BY SoundTypes, Owners DEF Sound, Ownership
\* The steps after which nobody operates who did not before, and no Thread is given back.
<1>1. ASSUME UNCHANGED active,
             \A r \in Requests : /\ phase'[r] = phase[r] \/ phase[r] \in {"authorizing", "starting", "submitting", "userItem"}
                                    \/ phase'[r] \notin {"starting", "authorizing", "submitting", "userItem"}
                                 /\ pump'[r] \in Consuming => Operates(r)
      PROVE  OperatorIsRegistered'
  BY <1>0, <1>1 DEF OperatorIsRegistered, Operates, Consuming
\* The steps at which an operator gives its Thread back.
<1>2. ASSUME NEW r \in Requests, Operates(r), NEW t \in Requests \cup {None}, TM!Finish(ThreadOf[r], t),
             ~Operates(r)', \A q \in Requests \ {r} : Operates(q)' => Operates(q)
      PROVE  OperatorIsRegistered'
  BY <1>0, <1>2 DEF OperatorIsRegistered, TM!Finish
<1>3. ASSUME NEW r \in Requests, Reserve(r) PROVE OperatorIsRegistered'
  <2>1. \A q \in Requests : ThreadOf[q] = ThreadOf[r] => ~Operates(q)
    BY <1>0, <1>3 DEF Reserve, TM!Reserve, TM!Reservable, TM!Held
  <2>2. /\ active' = [active EXCEPT ![ThreadOf[r]] = r]
        /\ phase' = [phase EXCEPT ![r] = "starting"] /\ UNCHANGED pump
    BY <1>3 DEF Reserve, TM!Reserve
  <2> QED
    BY <1>0, <2>1, <2>2 DEF OperatorIsRegistered, Operates
<1>4. ASSUME NEW r \in Requests, Refuse(r) \/ PublishStarting(r) \/ StartingFails(r)
                  \/ Authorize(r) \/ PublishRunning(r) \/ PublishClosing(r)
      PROVE  OperatorIsRegistered'
  BY <1>0, <1>1, <1>4 DEF Refuse, PublishStarting, StartingFails, Authorize, PublishRunning,
     PublishClosing, Operates, Consuming
<1>5. ASSUME NEW r \in Requests, RequestFails(r) PROVE OperatorIsRegistered'
  BY <1>0, <1>2, <1>5 DEF RequestFails, GiveUp, Operates, Progress
<1>6. ASSUME NEW r \in Requests, TurnStarted(r) \/ GoalStarted(r) \/ PublishUserItem(r)
      PROVE OperatorIsRegistered'
  <2>1. Operates(r)
    BY <1>6 DEF TurnStarted, GoalStarted, PublishUserItem, Operates
  <2>2. UNCHANGED active
    BY <1>0, <1>6, <2>1 DEF TurnStarted, GoalStarted, PublishUserItem, TM!MarkRunning, TM!AttachTask
  <2> QED
    BY <1>0, <1>1, <1>6, <2>1, <2>2 DEF TurnStarted, GoalStarted, PublishUserItem, Operates, Consuming
<1>7. ASSUME NEW r \in Requests, PumpStarts(r) \/ StreamFails(r) \/ PublishPumpIdle(r)
      PROVE OperatorIsRegistered'
  BY <1>0, <1>1, <1>7 DEF PumpStarts, StreamFails, PublishPumpIdle, Operates, Consuming
<1>8. ASSUME NEW r \in Requests, StreamEnds(r) \/ PumpCancelled(r) \/ PublishStreamError(r)
      PROVE OperatorIsRegistered'
  <2>1. /\ pump[r] \in {"streaming", "failing", "cancelled"} /\ pump' = [pump EXCEPT ![r] = "idling"]
        /\ TM!Finish(ThreadOf[r], r) /\ UNCHANGED phase
    BY <1>8 DEF StreamEnds, PumpCancelled, PublishStreamError, EndPump
  <2>2. Operates(r) /\ ~Operates(r)'
    BY <1>0, <2>1 DEF Operates, Progress
  <2> QED
    BY <1>0, <1>2, <2>1, <2>2 DEF Operates
<1>9. ASSUME NEW r \in Requests, CodexAccepts(r) \/ CodexEnds(r) PROVE OperatorIsRegistered'
  BY <1>1, <1>9 DEF CodexAccepts, CodexEnds, Operates, Consuming
<1>10. \A s \in PumpStates : AfterCancel(s) \in Consuming => s \in Consuming
  BY DEF AfterCancel, PumpStates, Consuming
<1>11. ASSUME NEW x \in Requests \cup Users, PublishStale(x) PROVE OperatorIsRegistered'
  <2>1. Publishing(Rel(x)) /\ rel[x].at = "erring"
    BY <1>11 DEF PublishStale
  <2>2. rel[x].op = rel[x].turn /\ rel[x].turn \in Requests /\ op[rel[x].turn].task = rel[x].turn
    BY <2>1, ReleasedHavePumps DEF Sound, Ownership, Releasers, ReleaserOK
  <2>3. \A r \in Requests : pump'[r] \in Consuming => pump[r] \in Consuming
    BY <1>0, <1>10, <1>11, <2>2 DEF PublishStale
  <2> QED
    BY <1>1, <1>11, <2>3 DEF PublishStale, Operates, Consuming
<1>12. ASSUME NEW x \in Requests \cup Users, Drained(x) PROVE OperatorIsRegistered'
  BY <1>1, <1>12 DEF Drained, Operates, Consuming
<1>13. ASSUME NEW x \in Requests \cup Users, PublishReleased(x) PROVE OperatorIsRegistered'
  <2> DEFINE t == rel[x].turn
  <2>1. /\ t \in Requests /\ ~Operates(t)
        /\ active[ThreadOf[t]] \in {t, None}
    BY <1>13, IdlersHold DEF PublishReleased
  <2>2. UNCHANGED <<phase, pump>> /\ (TM!Finish(ThreadOf[t], t) \/ UNCHANGED active)
    BY <1>13 DEF PublishReleased
  <2>3. \A r \in Requests : Operates(r) => ThreadOf[r] # ThreadOf[t]
    BY <1>0, <2>1
  <2> QED
    BY <1>0, <2>1, <2>2, <2>3 DEF OperatorIsRegistered, Operates, TM!Finish
<1>14. ASSUME NEW u \in Users, UserSteps(u) \/ \E k \in Keys : CallInterrupt(u, k)
       PROVE  OperatorIsRegistered'
  BY <1>1, <1>14 DEF UserSteps, InterruptReturns, InterruptFindsStale, InterruptFails,
     PublishStopping, CallInterrupt, TM!Interrupt, Operates, Consuming
<1>15. ASSUME NEW k \in Keys, BeginMutation(k) \/ EndMutation(k) PROVE OperatorIsRegistered'
  BY <1>1, <1>15 DEF BeginMutation, EndMutation, TM!ReserveMutation, TM!FinishMutation, Operates, Consuming
<1>16. ASSUME ReaderSteps \/ BeginShutdown \/ InterruptsDone PROVE OperatorIsRegistered'
  BY <1>1, <1>16 DEF ReaderSteps, ReadNotice, PublishNotice, NoticeFails, BeginShutdown, TM!CloseGate,
     InterruptsDone, Operates, Consuming
<1>17. ASSUME CancelPumps PROVE OperatorIsRegistered'
  BY <1>0, <1>1, <1>10, <1>17 DEF CancelPumps, Operates, Consuming
<1>18. ASSUME ClearRegistry PROVE OperatorIsRegistered'
  BY <1>18, NothingLeft DEF ClearRegistry, OperatorIsRegistered, Operates
<1>19. ASSUME NEW r \in Requests, PublicationFails(r) PROVE OperatorIsRegistered'
  BY <1>19 DEF PublicationFails, WriteFails, Sound
<1>20. ASSUME NEW r \in Requests, Wake(r) PROVE OperatorIsRegistered'
  BY <1>1, <1>20 DEF Wake, Operates, Consuming
<1> QED
  BY <1>3, <1>4, <1>5, <1>6, <1>7, <1>8, <1>9, <1>11, <1>12, <1>13, <1>14, <1>15, <1>16, <1>17,
     <1>18, <1>19, <1>20 DEF Next, RequestSteps, PumpSteps, ReleaseSteps, StopSteps

-----------------------------------------------------------------------------
(* The prompt of a Turn is published first *)

LEMMA NamesDiffer ==
    /\ \A q, r \in Requests : /\ Req(r) # Pump(q) /\ Req(r) # Reader /\ Pump(q) # Reader
                              /\ Req(q) = Req(r) => q = r
                              /\ Pump(q) = Pump(r) => q = r
    /\ \A r \in Requests : \A x \in Requests \cup Users :
          Rel(x) # Req(r) /\ Rel(x) # Pump(r) /\ Rel(x) # Reader
    /\ \A x, y \in Requests \cup Users : Rel(x) = Rel(y) => x = y
BY DEF Req, Pump, Rel, Reader

\* Who stays in the lock stays behind those that were before it and stay too.
LEMMA OrderKept ==
    ASSUME QueueOK(lockq), NEW a \in Tasks, a \in lockq[a]
    PROVE  /\ \A S : a \notin S =>
                 \A q \in Tasks \ S : a \in lockq[q] => a \in Withdraw(S, lockq)[q]
           /\ \A p \in Tasks \ {a} :
                 /\ a \in Last(p, lockq)[p]
                 /\ \A q \in Tasks : a \in lockq[q] => a \in Last(p, lockq)[q]
                 /\ a \in Last(p, Withdraw({p}, lockq))[p]
                 /\ \A q \in Tasks : a \in lockq[q] => a \in Last(p, Withdraw({p}, lockq))[q]
BY DEF QueueOK, Withdraw, Last

LEMMA PromptKept ==
    ASSUME Sound, Next
    PROVE  PromptFirst'
<1> SUFFICES ASSUME NEW r \in Requests, phase'[r] = "userItem"
             PROVE  /\ Req(r) \in lockq'[Req(r)]
                    /\ \A x \in Requests \cup Users :
                          rel'[x].at = "erring" /\ rel'[x].turn = r => Req(r) \in lockq'[Rel(x)]
                    /\ reader'.at = "publishing" /\ reader'.turn = r => Req(r) \in lockq'[Reader]
  BY DEF PromptFirst
<1> DEFINE Goal == /\ Req(r) \in lockq'[Req(r)]
                   /\ \A x \in Requests \cup Users :
                         rel'[x].at = "erring" /\ rel'[x].turn = r => Req(r) \in lockq'[Rel(x)]
                   /\ reader'.at = "publishing" /\ reader'.turn = r => Req(r) \in lockq'[Reader]
<1>0. /\ phase \in [Requests -> Phases]
      /\ rel \in [Requests \cup Users -> ReleaseViews]
      /\ lockq \in [Tasks -> SUBSET Tasks] /\ QueueOK(lockq)
  BY SoundTypes, TypeParts DEF Sound, Base
<1>n. /\ Reader \in Tasks /\ Req(r) \in Tasks
      /\ \A q \in Requests : Req(q) \in Tasks /\ Pump(q) \in Tasks
      /\ \A x \in Requests \cup Users : Rel(x) \in Tasks
  BY TaskNames
<1>p. phase[r] = "userItem" =>
         /\ Req(r) \in lockq[Req(r)]
         /\ \A x \in Requests \cup Users :
               rel[x].at = "erring" /\ rel[x].turn = r => Req(r) \in lockq[Rel(x)]
         /\ reader.at = "publishing" /\ reader.turn = r => Req(r) \in lockq[Reader]
  BY DEF Sound, Ownership, PromptFirst
<1>o. phase[r] = "userItem" =>
         /\ \A S : Req(r) \notin S =>
               \A q \in Tasks \ S : Req(r) \in lockq[q] => Req(r) \in Withdraw(S, lockq)[q]
         /\ \A p \in Tasks \ {Req(r)} :
               /\ Req(r) \in Last(p, lockq)[p]
               /\ \A q \in Tasks : Req(r) \in lockq[q] => Req(r) \in Last(p, lockq)[q]
               /\ Req(r) \in Last(p, Withdraw({p}, lockq))[p]
               /\ \A q \in Tasks : Req(r) \in lockq[q] => Req(r) \in Last(p, Withdraw({p}, lockq))[q]
  BY <1>0, <1>n, <1>p, OrderKept
<1> HIDE DEF Goal
\* Steps of somebody else that leave the releasers and the reader alone.
<1>1. ASSUME phase[r] = "userItem", UNCHANGED <<rel, reader>>,
             NEW p \in Tasks \ {Req(r)}, \A x \in Requests \cup Users : p # Rel(x), p # Reader,
             lockq' \in {lockq, Withdraw({p}, lockq), Last(p, lockq), Last(p, Withdraw({p}, lockq))}
      PROVE  Goal
  BY <1>n, <1>p, <1>o, <1>1, NamesDiffer DEF Goal
<1>2. ASSUME NEW q \in Requests, q # r, Reserve(q) \/ RequestSteps(q) PROVE Goal
  <2>1. phase[r] = "userItem" /\ UNCHANGED <<rel, reader>>
    BY <1>0, <1>2 DEF Reserve, RequestSteps, Refuse, PublishStarting, StartingFails, Authorize,
       RequestFails, GiveUp, TurnStarted, PublishUserItem, GoalStarted, PublishRunning,
       PublicationFails, PublishClosing
  <2>2. lockq' \in {lockq, Withdraw({Req(q)}, lockq), Last(Req(q), lockq),
                    Last(Req(q), Withdraw({Req(q)}, lockq))}
    BY <1>2 DEF Reserve, RequestSteps, Refuse, PublishStarting, StartingFails, Authorize,
       RequestFails, TurnStarted, PublishUserItem, GoalStarted, PublishRunning,
       PublicationFails, PublishClosing, Enqueue, Release, Requeue
  <2> QED
    BY <1>1, <1>2, <1>n, <2>1, <2>2, NamesDiffer
<1>3. ASSUME TurnStarted(r) PROVE Goal
  <2>1. lockq' = Last(Req(r), lockq) /\ UNCHANGED <<rel, reader>> /\ phase[r] = "submitting"
    BY <1>3 DEF TurnStarted, Enqueue
  <2>2. op[r].turn = None
    BY <2>1 DEF Sound, Ownership, Progress
  <2>3. \A x \in Requests \cup Users : rel[x].at = "erring" => rel[x].turn # r
    BY <2>2, SoundTypes DEF Sound, Ownership, Releasers, ReleaserOK
  <2>4. reader.turn # r
    BY <2>2, SoundTypes DEF Sound, Ownership, ReaderOK
  <2> QED
    BY <1>0, <1>n, <2>1, <2>3, <2>4 DEF Goal, Last
<1>4. ASSUME Reserve(r) \/ RequestSteps(r) PROVE TurnStarted(r) \/ (phase[r] = "userItem" /\ UNCHANGED vars)
  BY <1>0, <1>4 DEF Reserve, RequestSteps, Refuse, PublishStarting, StartingFails, Authorize,
     RequestFails, GiveUp, TurnStarted, PublishUserItem, GoalStarted, PublishRunning,
     PublicationFails, PublishClosing
<1>5. ASSUME UNCHANGED phase PROVE phase[r] = "userItem"
  BY <1>5
<1>6. ASSUME NEW q \in Requests, PumpSteps(q) \/ StreamFails(q) \/ CodexAccepts(q) \/ CodexEnds(q) PROVE Goal
  <2>1. UNCHANGED <<phase, rel, reader>>
    BY <1>6 DEF PumpSteps, StreamFails, CodexAccepts, CodexEnds, PumpStarts, StreamEnds,
       PumpCancelled, PublishStreamError, PublishPumpIdle
  <2>2. lockq' \in {lockq, Withdraw({Pump(q)}, lockq), Last(Pump(q), lockq),
                    Last(Pump(q), Withdraw({Pump(q)}, lockq))}
    BY <1>6 DEF PumpSteps, StreamFails, CodexAccepts, CodexEnds, PumpStarts, StreamEnds,
       PumpCancelled, PublishStreamError, PublishPumpIdle, Enqueue, Release, Requeue
  <2> QED
    BY <1>1, <1>5, <1>n, <2>1, <2>2, NamesDiffer
<1>a. ASSUME NEW x \in Requests \cup Users, NEW s, At(x, s), s # "erring"
      PROVE  rel'[x].at # "erring" /\ \A y \in (Requests \cup Users) \ {x} : rel'[y] = rel[y]
  BY <1>0, <1>a DEF At, ReleaseViews
\* Steps of a releaser x: the others keep their place.
<1>7. ASSUME NEW x \in Requests \cup Users, UNCHANGED <<phase, reader>>,
             \A y \in (Requests \cup Users) \ {x} : rel'[y] = rel[y],
             rel'[x].at # "erring",
             \/ \E S : lockq' = Withdraw(S, lockq) /\ \A q \in S : q = Rel(x) \/ \E z \in Requests : q = Pump(z)
             \/ lockq' \in {lockq, Last(Rel(x), lockq), Last(Rel(x), Withdraw({Rel(x)}, lockq))}
      PROVE  Goal
  <2>1. phase[r] = "userItem"
    BY <1>5, <1>7
  <2>2. CASE \E S : lockq' = Withdraw(S, lockq) /\ \A q \in S : q = Rel(x) \/ \E z \in Requests : q = Pump(z)
    BY <1>n, <1>p, <1>o, <1>7, <2>1, <2>2, NamesDiffer DEF Goal
  <2>3. CASE lockq' \in {lockq, Last(Rel(x), lockq), Last(Rel(x), Withdraw({Rel(x)}, lockq))}
    BY <1>n, <1>p, <1>o, <1>7, <2>1, <2>3, NamesDiffer DEF Goal
  <2> QED
    BY <1>7, <2>2, <2>3
<1>8. ASSUME NEW x \in Requests \cup Users, NEW t \in Requests, BeginRelease(x, t), UNCHANGED <<phase, reader>>
      PROVE  Goal
  <2>1. phase[r] = "userItem"
    BY <1>5, <1>8
  <2>2. CASE Releasable(ThreadOf[t], t)
    <3>1. lockq' = Last(Rel(x), lockq) /\ \A y \in (Requests \cup Users) \ {x} : rel'[y] = rel[y]
      BY <1>0, <1>8, <2>2 DEF BeginRelease, Enqueue
    <3> QED
      BY <1>n, <1>p, <1>o, <1>8, <2>1, <3>1, NamesDiffer DEF Goal
  <2>3. CASE ~Releasable(ThreadOf[t], t)
    BY <1>0, <1>7, <1>8, <2>3 DEF BeginRelease, Idle
  <2> QED
    BY <2>2, <2>3
<1>9. ASSUME NEW x \in Requests \cup Users, ReleaseSteps(x) PROVE Goal
  <2>1. /\ UNCHANGED <<phase, reader>> /\ \A y \in (Requests \cup Users) \ {x} : rel'[y] = rel[y]
        /\ rel'[x].at # "erring"
    BY <1>a, <1>9 DEF ReleaseSteps, PublishStale, Drained, PublishReleased, Conclude
  <2>2. CASE PublishStale(x)
    <3>1. Publishing(Rel(x)) /\ rel[x].at = "erring"
      BY <2>2 DEF PublishStale
    <3>2. rel[x].op = rel[x].turn /\ rel[x].turn \in Requests /\ op[rel[x].turn].task = rel[x].turn
      BY <3>1, ReleasedHavePumps DEF Sound, Ownership, Releasers, ReleaserOK
    <3>3. \/ lockq' = Withdraw({Rel(x), Pump(rel[x].turn)}, lockq)
          \/ lockq' \in {Withdraw({Rel(x)}, lockq), Last(Rel(x), Withdraw({Rel(x)}, lockq))}
      BY <2>2, <3>2 DEF PublishStale, Conclude
    <3> QED
      BY <1>7, <2>1, <3>2, <3>3
  <2>3. CASE Drained(x) \/ PublishReleased(x)
    <3>1. lockq' \in {lockq, Withdraw({Rel(x)}, lockq), Last(Rel(x), lockq)}
      BY <2>3 DEF Drained, PublishReleased, Conclude, Release
    <3> QED
      BY <1>7, <2>1, <3>1
  <2> QED
    BY <1>9, <2>2, <2>3 DEF ReleaseSteps
<1>10. ASSUME NEW q \in Requests, Wake(q) PROVE Goal
  BY <1>8, <1>10 DEF Wake
<1>11. ASSUME NEW u \in Users, UserSteps(u) PROVE Goal
  <2>1. CASE InterruptFindsStale(u)
    BY <1>8, <2>1, SoundTypes DEF InterruptFindsStale, Sound, Base, Targets
  <2>2. CASE InterruptReturns(u) \/ InterruptFails(u) \/ PublishStopping(u)
    <3>1. /\ UNCHANGED <<phase, reader>> /\ \A y \in (Requests \cup Users) \ {u} : rel'[y] = rel[y]
          /\ rel'[u].at # "erring"
      BY <1>a, <2>2 DEF InterruptReturns, InterruptFails, PublishStopping
    <3>2. lockq' \in {lockq, Withdraw({Rel(u)}, lockq), Last(Rel(u), lockq)}
      BY <2>2 DEF InterruptReturns, InterruptFails, PublishStopping, Enqueue, Release
    <3> QED
      BY <1>7, <3>1, <3>2
  <2> QED
    BY <1>11, <2>1, <2>2 DEF UserSteps
<1>12. ASSUME NEW u \in Users, NEW k \in Keys, CallInterrupt(u, k) PROVE Goal
  BY <1>0, <1>7, <1>12 DEF CallInterrupt
<1>13. ASSUME NEW k \in Keys, BeginMutation(k) \/ EndMutation(k) PROVE Goal
  BY <1>5, <1>p, <1>13 DEF BeginMutation, EndMutation, Goal
<1>14. ASSUME ReadNotice PROVE Goal
  BY <1>5, <1>n, <1>p, <1>o, <1>14, NamesDiffer DEF ReadNotice, Goal, Enqueue
<1>15. ASSUME PublishNotice PROVE Goal
  <2>1. \A x \in Requests \cup Users : rel'[x].at = "erring" => rel'[x] = rel[x]
    BY <1>0, <1>15 DEF PublishNotice
  <2>2. lockq' = Withdraw({Reader}, lockq) /\ reader'.at # "publishing" /\ UNCHANGED phase
    BY <1>15 DEF PublishNotice, Release
  <2> QED
    BY <1>5, <1>n, <1>p, <1>o, <2>1, <2>2, NamesDiffer DEF Goal
<1>16. ASSUME BeginShutdown \/ InterruptsDone \/ ClearRegistry PROVE Goal
  BY <1>5, <1>p, <1>16 DEF BeginShutdown, InterruptsDone, ClearRegistry, Goal
<1>17. ASSUME CancelPumps PROVE Goal
  <2>1. UNCHANGED <<phase, rel, reader>> /\ lockq' = Withdraw({Pump(z) : z \in StopTasks}, lockq)
    BY <1>17 DEF CancelPumps
  <2>2. StopTasks \subseteq Requests
    BY SoundTypes DEF StopTasks, StopViews, TM!ActiveTurn
  <2> QED
    BY <1>5, <1>n, <1>p, <1>o, <2>1, <2>2, NamesDiffer DEF Goal
<1>18. ~NoticeFails
  BY DEF NoticeFails, WriteFails, Sound
<1> QED
  BY <1>2, <1>3, <1>4, <1>6, <1>9, <1>10, <1>11, <1>12, <1>13, <1>14, <1>15, <1>16, <1>17, <1>18, <1>p
     DEF Next, ReaderSteps, StopSteps, Goal, vars

-----------------------------------------------------------------------------
(* What releasers and the reader rely on stays so *)

\* The steps, by whom they change: nobody's phase or pump, or only one request's.
LEMMA PumpsAdvance ==
    ASSUME Sound, Next, NEW t \in Requests, phase[t] \in {"running", "accepted"}
    PROVE  /\ phase'[t] \in {"running", "accepted"}
           /\ pump[t] \in {"idling", "done"} => pump'[t] \in {"idling", "done"}
<1> DEFINE Goal == /\ phase'[t] \in {"running", "accepted"}
                   /\ pump[t] \in {"idling", "done"} => pump'[t] \in {"idling", "done"}
<1>0. phase \in [Requests -> Phases] /\ pump \in [Requests -> PumpStates]
  BY SoundTypes
<1>1. ASSUME UNCHANGED <<phase, pump>> PROVE Goal
  BY <1>1
<1> HIDE DEF Goal
<1>2. ASSUME NEW r \in Requests, Reserve(r) \/ RequestSteps(r) PROVE Goal
  <2>1. ~PublicationFails(r)
    BY DEF PublicationFails, WriteFails, Sound
  <2> QED
    BY <1>0, <1>2, <2>1 DEF Goal, Reserve, RequestSteps, Refuse, PublishStarting, StartingFails,
       Authorize, RequestFails, GiveUp, TurnStarted, PublishUserItem, GoalStarted, PublishRunning,
       PublishClosing
<1>3. ASSUME NEW r \in Requests, PumpSteps(r) \/ StreamFails(r) PROVE Goal
  BY <1>0, <1>3 DEF Goal, PumpSteps, StreamFails, PumpStarts, StreamEnds, EndPump,
     PumpCancelled, PublishStreamError, PublishPumpIdle
<1>4. ASSUME NEW r \in Requests, CodexAccepts(r) \/ CodexEnds(r) \/ Wake(r) PROVE Goal
  BY <1>1, <1>4 DEF CodexAccepts, CodexEnds, Wake
<1>5. \A s \in {"idling", "done"} : AfterCancel(s) \in {"idling", "done"}
  BY DEF AfterCancel
<1>6. ASSUME NEW x \in Requests \cup Users, ReleaseSteps(x) PROVE Goal
  <2>1. CASE PublishStale(x)
    <3>1. Publishing(Rel(x)) /\ rel[x].at = "erring"
      BY <2>1 DEF PublishStale
    <3>2. rel[x].op = rel[x].turn /\ rel[x].turn \in Requests /\ op[rel[x].turn].task = rel[x].turn
      BY <3>1, ReleasedHavePumps DEF Sound, Ownership, Releasers, ReleaserOK
    <3> QED
      BY <1>0, <1>5, <2>1, <3>2 DEF PublishStale, Goal
  <2>2. CASE Drained(x) \/ PublishReleased(x)
    BY <1>1, <2>2 DEF Drained, PublishReleased
  <2> QED
    BY <1>6, <2>1, <2>2 DEF ReleaseSteps
<1>7. ASSUME NEW u \in Users, UserSteps(u) \/ \E k \in Keys : CallInterrupt(u, k) PROVE Goal
  BY <1>1, <1>7 DEF UserSteps, InterruptReturns, InterruptFindsStale, InterruptFails,
     PublishStopping, CallInterrupt
<1>8. ASSUME NEW k \in Keys, BeginMutation(k) \/ EndMutation(k) PROVE Goal
  BY <1>1, <1>8 DEF BeginMutation, EndMutation
<1>9. ASSUME ReaderSteps \/ BeginShutdown \/ InterruptsDone \/ ClearRegistry PROVE Goal
  BY <1>1, <1>9 DEF ReaderSteps, ReadNotice, PublishNotice, NoticeFails, BeginShutdown,
     InterruptsDone, ClearRegistry
<1>10. ASSUME CancelPumps PROVE Goal
  BY <1>0, <1>5, <1>10 DEF CancelPumps, Goal
<1> QED
  BY <1>2, <1>3, <1>4, <1>6, <1>7, <1>8, <1>9, <1>10 DEF Next, StopSteps, Goal

\* A registration whose pump is done stays until a releaser of its Turn, or the
\* shutdown, removes it.
LEMMA HolderStays ==
    ASSUME Sound, Next, NEW t \in Requests, ~Operates(t), active[ThreadOf[t]] = t
    PROVE  \/ active'[ThreadOf[t]] = t
           \/ stop'.at = "done"
           \/ \E x \in Requests \cup Users : PublishReleased(x) /\ rel[x].turn = t
<1> DEFINE Goal == \/ active'[ThreadOf[t]] = t
                   \/ stop'.at = "done"
                   \/ \E x \in Requests \cup Users : PublishReleased(x) /\ rel[x].turn = t
<1>0. /\ active \in [Keys -> Requests \cup {None}]
      /\ None \notin Requests /\ stop \in StopViews
      /\ \A r \in Requests : ThreadOf[r] \in Keys
      /\ \A r \in Requests : Operates(r) => active[ThreadOf[r]] = r /\ TM!Held(ThreadOf[r])
      /\ TM!Held(ThreadOf[t])
  BY SoundTypes, Owners DEF TM!Held
<1>1. ASSUME UNCHANGED active PROVE Goal
  BY <1>1
\* Who gives a Thread back on its own account operated on it.
<1>2. ASSUME NEW r \in Requests, Operates(r), NEW q \in Requests \cup {None}, TM!Finish(ThreadOf[r], q)
      PROVE  Goal
  BY <1>0, <1>2 DEF TM!Finish
<1> HIDE DEF Goal
<1>3. ASSUME NEW r \in Requests, Reserve(r) PROVE Goal
  BY <1>0, <1>3 DEF Goal, Reserve, TM!Reserve, TM!Reservable
<1>4. ASSUME NEW r \in Requests, RequestSteps(r) PROVE Goal
  <2>1. CASE RequestFails(r) \/ TurnStarted(r) \/ PublishUserItem(r) \/ GoalStarted(r)
    <3>1. Operates(r)
      BY <2>1 DEF RequestFails, TurnStarted, PublishUserItem, GoalStarted, Operates
    <3> QED
      BY <1>1, <1>2, <2>1, <3>1 DEF RequestFails, TurnStarted, PublishUserItem, GoalStarted, GiveUp,
         TM!MarkRunning, TM!AttachTask
  <2>2. ~PublicationFails(r)
    BY DEF PublicationFails, WriteFails, Sound
  <2> QED
    BY <1>1, <1>4, <2>1, <2>2 DEF RequestSteps, Refuse, PublishStarting, StartingFails, Authorize,
       PublishRunning, PublishClosing
<1>5. ASSUME NEW r \in Requests, PumpSteps(r) \/ StreamFails(r) PROVE Goal
  <2>1. CASE StreamEnds(r) \/ PumpCancelled(r) \/ PublishStreamError(r)
    <3>1. Operates(r) /\ TM!Finish(ThreadOf[r], r)
      BY <2>1 DEF StreamEnds, PumpCancelled, PublishStreamError, EndPump, Operates
    <3> QED
      BY <1>2, <3>1
  <2>2. CASE PumpStarts(r) \/ PublishPumpIdle(r) \/ StreamFails(r)
    BY <1>1, <2>2 DEF PumpStarts, PublishPumpIdle, StreamFails
  <2> QED
    BY <1>5, <2>1, <2>2 DEF PumpSteps
<1>6. ASSUME NEW r \in Requests, CodexAccepts(r) \/ CodexEnds(r) \/ Wake(r) PROVE Goal
  BY <1>1, <1>6 DEF CodexAccepts, CodexEnds, Wake
<1>7. ASSUME NEW x \in Requests \cup Users, ReleaseSteps(x) PROVE Goal
  <2>1. CASE PublishReleased(x)
    <3> DEFINE s == rel[x].turn
    <3>1. s \in Requests /\ (active[ThreadOf[s]] = s \/ stop.at = "done") /\ active[ThreadOf[s]] \in {s, None}
      BY <2>1, IdlersHold DEF PublishReleased
    <3>2. UNCHANGED stop /\ (TM!Finish(ThreadOf[s], s) \/ UNCHANGED active)
      BY <2>1 DEF PublishReleased
    <3>3. CASE s = t
      BY <2>1, <3>3 DEF Goal
    <3>4. CASE s # t
      BY <1>0, <3>1, <3>2, <3>4 DEF Goal, TM!Finish
    <3> QED
      BY <3>3, <3>4
  <2>2. CASE PublishStale(x) \/ Drained(x)
    BY <1>1, <2>2 DEF PublishStale, Drained
  <2> QED
    BY <1>7, <2>1, <2>2 DEF ReleaseSteps
<1>8. ASSUME NEW u \in Users, UserSteps(u) \/ \E k \in Keys : CallInterrupt(u, k) PROVE Goal
  BY <1>1, <1>8 DEF UserSteps, InterruptReturns, InterruptFindsStale, InterruptFails,
     PublishStopping, CallInterrupt, TM!Interrupt
<1>9. ASSUME NEW k \in Keys, BeginMutation(k) \/ EndMutation(k) PROVE Goal
  BY <1>1, <1>9 DEF BeginMutation, EndMutation, TM!ReserveMutation, TM!FinishMutation
<1>10. ASSUME ReaderSteps \/ BeginShutdown \/ InterruptsDone \/ CancelPumps PROVE Goal
  BY <1>1, <1>10 DEF ReaderSteps, ReadNotice, PublishNotice, NoticeFails, BeginShutdown, TM!CloseGate,
     InterruptsDone, CancelPumps
<1>11. ASSUME ClearRegistry PROVE Goal
  BY <1>0, <1>11 DEF ClearRegistry, Goal, StopViews
<1> QED
  BY <1>3, <1>4, <1>5, <1>6, <1>7, <1>8, <1>9, <1>10, <1>11 DEF Next, StopSteps, Goal

LEMMA ShutdownKept ==
    ASSUME Sound, Next
    PROVE  Shutdown' /\ StoppedMeansDrained' /\ (stop.at = "done" => stop'.at = "done")
<1> DEFINE Goal == Shutdown' /\ StoppedMeansDrained' /\ (stop.at = "done" => stop'.at = "done")
<1>0. /\ phase \in [Requests -> Phases] /\ pump \in [Requests -> PumpStates]
      /\ active \in [Keys -> Requests \cup {None}] /\ None \notin Requests
      /\ stop \in StopViews /\ Shutdown /\ Progress
      /\ StoppedMeansDrained
      /\ \A r \in Requests : ThreadOf[r] \in Keys
      /\ \A r \in Requests : Operates(r) => active[ThreadOf[r]] = r /\ TM!Held(ThreadOf[r])
  BY SoundTypes, Owners DEF Sound, Ownership
\* A step that takes no Thread and starts no pump.
<1>1. ASSUME UNCHANGED stop, stop.at # "none" => ~accepting',
             \A k \in Keys : active'[k] \in {active[k], None},
             stop.at # "none" => \A r \in Requests :
                /\ phase'[r] \in {phase[r], "accepted", "failed", "refused", "abandoned"}
                /\ pump'[r] \in Consuming => pump[r] \in Consuming
      PROVE  Goal
  BY <1>0, <1>1 DEF Shutdown, StoppedMeansDrained, Operates, Consuming, TM!Held
<1> HIDE DEF Goal
<1>q. stop.at # "none" => \A r \in Requests :
         phase[r] \in {"new", "accepted", "failed", "refused", "abandoned"} /\ ~accepting
  BY <1>0 DEF Shutdown
\* A step of no request, that starts no pump.
<1>s. ASSUME UNCHANGED <<phase, stop, accepting>>,
             \A k \in Keys : active'[k] \in {active[k], None},
             \A r \in Requests : pump'[r] \in Consuming => pump[r] \in Consuming
      PROVE  Goal
  BY <1>0, <1>s DEF Goal, Shutdown, StoppedMeansDrained, Operates, Consuming, TM!Held
<1>u. ASSUME UNCHANGED <<phase, stop, accepting, pump, active>> PROVE Goal
  BY <1>s, <1>u
<1>f. ASSUME NEW k \in Keys, NEW t, TM!Finish(k, t)
      PROVE  UNCHANGED accepting /\ \A j \in Keys : active'[j] \in {active[j], None}
  BY <1>0, <1>f DEF TM!Finish
<1>2. ASSUME NEW r \in Requests, Reserve(r) PROVE Goal
  <2>1. stop.at = "none" /\ UNCHANGED stop
    BY <1>2, <1>q DEF Reserve, TM!Reserve
  <2> QED
    BY <1>0, <2>1 DEF Goal, Shutdown, StoppedMeansDrained
<1>3. ASSUME NEW r \in Requests, RequestSteps(r) PROVE Goal
  <2>1. UNCHANGED stop
    BY <1>3 DEF RequestSteps, Refuse, PublishStarting, StartingFails, Authorize,
       RequestFails, TurnStarted, PublishUserItem, GoalStarted, PublishRunning,
       PublicationFails, PublishClosing
  <2>2. CASE stop.at = "none"
    BY <2>1, <2>2 DEF Goal, Shutdown, StoppedMeansDrained
  <2>3. CASE stop.at # "none"
    <3>1. Refuse(r)
      BY <1>3, <1>q, <2>3 DEF RequestSteps, PublishStarting, StartingFails, Authorize,
         RequestFails, TurnStarted, PublishUserItem, GoalStarted, PublishRunning,
         PublicationFails, PublishClosing
    <3> QED
      BY <1>0, <1>1, <1>q, <2>3, <3>1 DEF Refuse
  <2> QED
    BY <2>2, <2>3
<1>4. ASSUME NEW r \in Requests, PumpSteps(r) \/ StreamFails(r) PROVE Goal
  <2>1. UNCHANGED <<phase, stop>> /\ \A q \in Requests : pump'[q] \in Consuming => pump[q] \in Consuming
    BY <1>0, <1>4 DEF PumpSteps, StreamFails, PumpStarts, StreamEnds, EndPump, PumpCancelled,
       PublishStreamError, PublishPumpIdle, Consuming
  <2>2. UNCHANGED accepting /\ \A k \in Keys : active'[k] \in {active[k], None}
    BY <1>0, <1>f, <1>4 DEF PumpSteps, StreamFails, PumpStarts, StreamEnds, EndPump, PumpCancelled,
       PublishStreamError, PublishPumpIdle
  <2> QED
    BY <1>s, <2>1, <2>2
<1>5. ASSUME NEW r \in Requests, CodexAccepts(r) \/ CodexEnds(r) \/ Wake(r) PROVE Goal
  BY <1>u, <1>5 DEF CodexAccepts, CodexEnds, Wake
<1>6. \A s \in PumpStates : AfterCancel(s) \in Consuming => s \in Consuming
  BY DEF AfterCancel, PumpStates, Consuming
<1>7. ASSUME NEW x \in Requests \cup Users, ReleaseSteps(x) PROVE Goal
  <2>1. CASE PublishStale(x)
    <3>1. Publishing(Rel(x)) /\ rel[x].at = "erring"
      BY <2>1 DEF PublishStale
    <3>2. rel[x].op = rel[x].turn /\ rel[x].turn \in Requests /\ op[rel[x].turn].task = rel[x].turn
      BY <3>1, ReleasedHavePumps DEF Sound, Ownership, Releasers, ReleaserOK
    <3>3. \A r \in Requests : pump'[r] \in Consuming => pump[r] \in Consuming
      BY <1>0, <1>6, <2>1, <3>2 DEF PublishStale
    <3> QED
      BY <1>s, <2>1, <3>3 DEF PublishStale
  <2>2. CASE Drained(x)
    BY <1>u, <2>2 DEF Drained
  <2>3. CASE PublishReleased(x)
    <3>1. ThreadOf[rel[x].turn] \in Keys
      BY <1>0, <2>3, IdlersHold DEF PublishReleased
    <3>2. UNCHANGED accepting /\ \A k \in Keys : active'[k] \in {active[k], None}
      BY <1>0, <1>f, <2>3, <3>1 DEF PublishReleased
    <3> QED
      BY <1>s, <2>3, <3>2 DEF PublishReleased
  <2> QED
    BY <1>7, <2>1, <2>2, <2>3 DEF ReleaseSteps
<1>8. ASSUME NEW u \in Users, UserSteps(u) \/ \E k \in Keys : CallInterrupt(u, k) PROVE Goal
  BY <1>u, <1>8 DEF UserSteps, InterruptReturns, InterruptFindsStale, InterruptFails,
     PublishStopping, CallInterrupt, TM!Interrupt
<1>9. ASSUME NEW k \in Keys, BeginMutation(k) \/ EndMutation(k) PROVE Goal
  BY <1>u, <1>9 DEF BeginMutation, EndMutation, TM!ReserveMutation, TM!FinishMutation
<1>10. ASSUME ReaderSteps PROVE Goal
  BY <1>u, <1>10 DEF ReaderSteps, ReadNotice, PublishNotice, NoticeFails
<1>11. ASSUME BeginShutdown PROVE Goal
  <2>1. /\ stop.at = "none" /\ stop'.at = "interrupting" /\ ~accepting'
        /\ UNCHANGED <<phase, pump, active>>
        /\ stop'.ops = {active[k] : k \in {j \in Keys : TM!Held(j)}}
    BY <1>11 DEF BeginShutdown, TM!CloseGate
  <2>2. \A r \in Requests : phase[r] \in {"new", "accepted", "failed", "refused", "abandoned"}
    BY <1>11 DEF BeginShutdown, RequestsDrained
  <2>3. \A r \in Requests : pump[r] \in Consuming => r \in stop'.ops
    BY <1>0, <2>1 DEF Operates, Consuming
  <2> QED
    BY <1>0, <2>1, <2>2, <2>3 DEF Goal, Shutdown, StoppedMeansDrained
<1>12. ASSUME InterruptsDone PROVE Goal
  BY <1>0, <1>12 DEF InterruptsDone, Goal, Shutdown, StoppedMeansDrained, StopViews
<1>13. ASSUME CancelPumps PROVE Goal
  BY <1>0, <1>6, <1>s, <1>13 DEF CancelPumps
<1>14. ASSUME ClearRegistry PROVE Goal
  <2>1. \A r \in Requests : ~Operates(r)
    BY <1>14, NothingLeft
  <2> QED
    BY <1>0, <1>14, <2>1 DEF ClearRegistry, TM!Clear, Goal, Shutdown, StoppedMeansDrained, Operates,
       Consuming, TM!Held, StopViews
<1> QED
  BY <1>2, <1>3, <1>4, <1>5, <1>7, <1>8, <1>9, <1>10, <1>11, <1>12, <1>13, <1>14
     DEF Next, StopSteps, Goal

LEMMA ReaderKept ==
    ASSUME Sound, Next
    PROVE  ReaderOK'
<1>0. /\ reader \in ReaderViews /\ active \in [Keys -> Requests \cup {None}]
      /\ op \in [Requests -> TM!ActiveTurn]
      /\ None \notin Requests
      /\ notices \in Seq(Keys)
  BY SoundTypes, TypeParts DEF Sound, Base, SharedOK
<1>m. \A o \in Requests : op[o].turn = o => op'[o].turn = o
  BY ProgressKept
<1>1. ASSUME UNCHANGED reader \/ reader'.turn = None PROVE ReaderOK'
  BY <1>0, <1>1, <1>m DEF Sound, Ownership, ReaderOK, ReaderViews
<1>2. CASE ReadNotice
  <2> DEFINE k == Head(notices)
  <2>1. k \in Keys
    BY <1>0, <1>2 DEF ReadNotice
  <2>2. reader'.turn = IF TM!Held(k) THEN op[active[k]].turn ELSE None
    BY <1>2 DEF ReadNotice
  <2>3. TM!Held(k) => active[k] \in Requests /\ op[active[k]].turn \in {None, active[k]}
    BY <1>0, <2>1 DEF TM!Held, Sound, Ownership, OwnTurnAndPump
  <2> HIDE DEF k
  <2> QED
    BY <1>m, <2>2, <2>3 DEF ReaderOK
<1>3. CASE PublishNotice \/ NoticeFails
  BY <1>1, <1>3 DEF PublishNotice, NoticeFails
<1>4. ASSUME NEW r \in Requests, Reserve(r) \/ RequestSteps(r) \/ Wake(r) PROVE UNCHANGED reader
  BY <1>4 DEF Reserve, RequestSteps, Wake, Refuse, PublishStarting, StartingFails, Authorize,
     RequestFails, TurnStarted, PublishUserItem, GoalStarted, PublishRunning,
     PublicationFails, PublishClosing
<1>5. ASSUME NEW r \in Requests, PumpSteps(r) \/ StreamFails(r) \/ CodexAccepts(r) \/ CodexEnds(r)
      PROVE  UNCHANGED reader
  BY <1>5 DEF PumpSteps, StreamFails, CodexAccepts, CodexEnds, PumpStarts, StreamEnds,
     PumpCancelled, PublishStreamError, PublishPumpIdle
<1>6. ASSUME NEW x \in Requests \cup Users, ReleaseSteps(x) PROVE UNCHANGED reader
  BY <1>6 DEF ReleaseSteps, PublishStale, Drained, PublishReleased
<1>7. ASSUME NEW u \in Users, UserSteps(u) \/ \E k \in Keys : CallInterrupt(u, k) PROVE UNCHANGED reader
  BY <1>7 DEF UserSteps, InterruptReturns, InterruptFindsStale, InterruptFails,
     PublishStopping, CallInterrupt
<1>8. ASSUME NEW k \in Keys, BeginMutation(k) \/ EndMutation(k) PROVE UNCHANGED reader
  BY <1>8 DEF BeginMutation, EndMutation
<1>9. ASSUME BeginShutdown \/ StopSteps PROVE UNCHANGED reader
  BY <1>9 DEF BeginShutdown, StopSteps, InterruptsDone, CancelPumps, ClearRegistry
<1> QED
  BY <1>1, <1>2, <1>3, <1>4, <1>5, <1>6, <1>7, <1>8, <1>9 DEF Next, ReaderSteps

\* A releaser keeps to its Turn, and is about to give back a Thread only while
\* that Turn still has it.
LEMMA ReleasersKept ==
    ASSUME Sound, SoleReleaser, Next
    PROVE  Releasers'
<1> SUFFICES ASSUME NEW x \in Requests \cup Users PROVE ReleaserOK(x)'
  BY DEF Releasers
<1>0. /\ rel \in [Requests \cup Users -> ReleaseViews]
      /\ op \in [Requests -> TM!ActiveTurn]
      /\ None \notin Requests /\ Requests \cap Users = {}
      /\ ReleaserOK(x)
      /\ \A r \in Requests : ThreadOf[r] \in Keys
  BY SoundTypes, Parameters DEF Parameters, Sound, Ownership, Releasers
<1>m. \A o \in Requests : op[o].turn = o => op'[o].turn = o
  BY ProgressKept
<1>p. \A t \in Requests : phase[t] \in {"running", "accepted"} =>
          /\ phase'[t] # "userItem"
          /\ pump[t] \in {"idling", "done"} => ~Operates(t)'
  BY PumpsAdvance DEF Operates
\* The Turns of the releasers that are past their error are past their prompt.
<1>t. rel[x].at \in {"sleeping", "draining", "idling"} \/ (rel[x].at = "erring" /\ Publishing(Rel(x))) =>
          /\ rel[x].turn \in Requests /\ phase[rel[x].turn] \in {"running", "accepted"}
          /\ op[rel[x].turn].task = rel[x].turn /\ pump[rel[x].turn] # "none"
  BY ReleasedHavePumps
<1>1. ASSUME rel'[x].at = "none", x \in Requests => rel'[x].turn \in {None, x}
      PROVE  ReleaserOK(x)'
  BY <1>1 DEF ReleaserOK
\* The other tasks do not disturb x.
<1>2. ASSUME rel'[x] = rel[x] PROVE ReleaserOK(x)'
  <2>0. PICK t : t = rel[x].turn
    OBVIOUS
  <2>1. rel[x].at # "none" => t \in Requests /\ op'[t].turn = t
    BY <1>0, <1>m, <2>0 DEF ReleaserOK
  <2>2. rel[x].at \in {"sleeping", "draining", "idling"} => phase'[t] # "userItem"
    BY <1>p, <1>t, <2>0
  <2>3. ASSUME rel[x].at = "idling" PROVE ~Operates(t)' /\ (TM!Runs(ThreadOf[t], t)' \/ stop'.at = "done")
    <3>1. t \in Requests /\ ~Operates(t) /\ (active[ThreadOf[t]] = t \/ stop.at = "done")
      BY <2>0, <2>3, IdlersHold
    <3>2. pump[t] \in {"idling", "done"}
      BY <1>t, <2>0, <2>3, <3>1, SoundTypes DEF Operates, PumpStates
    <3>3. ~Operates(t)'
      BY <1>p, <1>t, <2>0, <2>3, <3>2
    <3>4. CASE stop.at = "done"
      BY <3>3, <3>4, ShutdownKept
    <3>5. CASE active[ThreadOf[t]] = t
      <4>1. ~\E y \in Requests \cup Users : PublishReleased(y) /\ rel[y].turn = t
        <5> SUFFICES ASSUME NEW y \in Requests \cup Users, PublishReleased(y), rel[y].turn = t
                     PROVE  FALSE
          OBVIOUS
        <5>1. y = x
          <6>1. x \in Requests /\ y \in Requests => x = t /\ y = t
            BY <2>0, <2>3, <3>1, <1>0, SoundTypes DEF Sound, Ownership, Releasers, ReleaserOK
          <6> QED
            BY <2>0, <2>3, <6>1 DEF SoleReleaser, PublishReleased
        <5>2. rel'[x].at = "none"
          BY <1>0, <5>1 DEF PublishReleased, At, ReleaseViews
        <5> QED
          BY <1>2, <2>3, <5>2
      <4>2. active'[ThreadOf[t]] = t \/ stop'.at = "done"
        BY <3>1, <3>5, <4>1, HolderStays
      <4> QED
        BY <1>0, <2>1, <2>3, <3>1, <3>3, <4>2 DEF TM!Runs, TM!Held
    <3> QED
      BY <3>1, <3>4, <3>5
  <2> QED
    BY <1>0, <1>2, <2>0, <2>1, <2>2, <2>3 DEF ReleaserOK
<1>3. ASSUME NEW y \in Requests \cup Users, \A z \in (Requests \cup Users) \ {y} : rel'[z] = rel[z], y # x
      PROVE  ReleaserOK(x)'
  BY <1>2, <1>3
<1>a. ASSUME NEW y \in Requests \cup Users, NEW s, At(y, s)
      PROVE  /\ \A z \in (Requests \cup Users) \ {y} : rel'[z] = rel[z]
             /\ rel'[y].at = s /\ rel'[y].turn = rel[y].turn /\ rel'[y].op = rel[y].op
  BY <1>0, <1>a DEF At, ReleaseViews
<1>4. ASSUME NEW y \in Requests \cup Users, NEW t \in Requests, BeginRelease(y, t),
             y \in Requests => y = t
      PROVE  ReleaserOK(x)'
  <2>1. CASE y # x
    BY <1>0, <1>3, <1>4, <2>1 DEF BeginRelease
  <2>2. CASE y = x /\ Releasable(ThreadOf[t], t)
    <3>1. active[ThreadOf[t]] = t /\ op[t].turn = t
      BY <1>0, <2>2, Owners DEF Releasable, TM!Runs
    <3>2. rel'[x] = [at |-> "erring", turn |-> t, op |-> t]
      BY <1>0, <1>4, <2>2, <3>1 DEF BeginRelease
    <3> QED
      BY <1>4, <1>m, <2>2, <3>1, <3>2 DEF ReleaserOK
  <2>3. CASE y = x /\ ~Releasable(ThreadOf[t], t)
    <3>1. rel'[x] = Idle
      BY <1>0, <1>4, <2>3 DEF BeginRelease
    <3> QED
      BY <1>1, <3>1 DEF Idle
  <2> QED
    BY <2>1, <2>2, <2>3
\* x finds that the Turn it waited for still has its Thread, or not.
<1>5. ASSUME NEW q, NEW t \in Requests, t = rel[x].turn, Conclude(x, q), UNCHANGED registry,
             rel[x].at \in {"erring", "draining"},
             phase'[t] # "userItem", ~Operates(t)'
      PROVE  ReleaserOK(x)'
  <2>1. CASE TM!Runs(ThreadOf[t], t)
    <3>1. At(x, "idling") /\ TM!Runs(ThreadOf[t], t)'
      BY <1>5, <2>1 DEF Conclude, TM!Runs, TM!Held
    <3> QED
      BY <1>0, <1>5, <1>a, <1>m, <3>1 DEF ReleaserOK
  <2>2. CASE ~TM!Runs(ThreadOf[t], t)
    BY <1>0, <1>1, <1>5, <1>a, <2>2 DEF Conclude, ReleaserOK
  <2> QED
    BY <2>1, <2>2
<1>6. ASSUME NEW y \in Requests \cup Users, PublishStale(y) PROVE ReleaserOK(x)'
  <2>1. CASE y # x
    BY <1>3, <1>6, <1>a, <2>1 DEF PublishStale, Conclude
  <2>2. CASE y = x
    <3>0. PICK t : t = rel[x].turn
      OBVIOUS
    <3>1. /\ Publishing(Rel(x)) /\ rel[x].at = "erring" /\ UNCHANGED phase
      BY <1>6, <2>2 DEF PublishStale
    <3>2. /\ rel[x].op = t /\ t \in Requests /\ op[t].task = t /\ op[t].turn = t
          /\ phase[t] \in {"running", "accepted"}
      BY <1>0, <1>t, <3>0, <3>1 DEF ReleaserOK
    <3>3. CASE pump[t] # "done"
      <4>1. At(x, "draining")
        BY <1>0, <1>6, <2>2, <3>0, <3>2, <3>3 DEF PublishStale
      <4> QED
        BY <1>0, <1>a, <1>m, <1>p, <3>0, <3>1, <3>2, <4>1 DEF ReleaserOK
    <3>4. CASE pump[t] = "done"
      <4>1. Conclude(x, Withdraw({Rel(x)}, lockq)) /\ UNCHANGED registry
        BY <1>6, <2>2, <3>0, <3>2, <3>4 DEF PublishStale
      <4> QED
        BY <1>5, <1>p, <3>0, <3>1, <3>2, <3>4, <4>1
    <3> QED
      BY <3>3, <3>4
  <2> QED
    BY <2>1, <2>2
<1>7. ASSUME NEW y \in Requests \cup Users, Drained(y) PROVE ReleaserOK(x)'
  <2>1. CASE y # x
    BY <1>3, <1>7, <1>a, <2>1 DEF Drained, Conclude
  <2>2. CASE y = x
    <3>0. PICK t : t = rel[x].turn
      OBVIOUS
    <3>1. rel[x].at = "draining" /\ pump[op[rel[x].op].task] = "done" /\ Conclude(x, lockq) /\ UNCHANGED registry
      BY <1>7, <2>2 DEF Drained
    <3>2. /\ rel[x].op = t /\ t \in Requests /\ op[t].task = t
          /\ phase[t] \in {"running", "accepted"}
      BY <1>0, <1>t, <3>0, <3>1 DEF ReleaserOK
    <3> QED
      BY <1>5, <1>p, <3>0, <3>1, <3>2
  <2> QED
    BY <2>1, <2>2
<1>8. ASSUME NEW y \in Requests \cup Users, PublishReleased(y) PROVE ReleaserOK(x)'
  <2>1. At(y, "none")
    BY <1>8 DEF PublishReleased
  <2>2. CASE y # x
    BY <1>3, <1>a, <2>1, <2>2
  <2>3. CASE y = x
    BY <1>0, <1>1, <1>a, <2>1, <2>3 DEF ReleaserOK
  <2> QED
    BY <2>2, <2>3
<1>9. ASSUME NEW u \in Users, UserSteps(u) PROVE ReleaserOK(x)'
  <2>1. CASE InterruptFindsStale(u)
    <3>1. rel[u].turn \in Requests
      BY <2>1 DEF InterruptFindsStale, Sound, Base, Targets
    <3> QED
      BY <1>0, <1>4, <2>1, <3>1 DEF InterruptFindsStale
  <2>2. CASE InterruptReturns(u) \/ InterruptFails(u) \/ PublishStopping(u)
    <3>1. rel[u].at \in {"calling", "stopping"} /\ (At(u, "stopping") \/ At(u, "none"))
      BY <2>2 DEF InterruptReturns, InterruptFails, PublishStopping
    <3>2. CASE u # x
      BY <1>3, <1>a, <3>1, <3>2
    <3>3. CASE u = x
      BY <1>0, <1>a, <1>m, <3>1, <3>3 DEF ReleaserOK
    <3> QED
      BY <3>2, <3>3
  <2> QED
    BY <1>9, <2>1, <2>2 DEF UserSteps
<1>10. ASSUME NEW u \in Users, NEW k \in Keys, CallInterrupt(u, k) PROVE ReleaserOK(x)'
  <2> DEFINE t == op[active[k]].turn
  <2>1. rel' = [rel EXCEPT ![u] = [at |-> "calling", turn |-> t, op |-> None]]
    BY <1>10 DEF CallInterrupt
  <2>2. t \in Requests /\ op[t].turn = t
    BY <1>10, SoundTypes DEF CallInterrupt, TM!Interrupt, TM!Controllable, TM!Held, Sound, Ownership,
       OwnTurnAndPump
  <2> HIDE DEF t
  <2>3. CASE u # x
    BY <1>0, <1>3, <2>1, <2>3
  <2>4. CASE u = x
    BY <1>0, <1>m, <2>1, <2>2, <2>4 DEF ReleaserOK
  <2> QED
    BY <2>3, <2>4
<1>11. ASSUME PublishNotice PROVE ReleaserOK(x)'
  <2> DEFINE t == reader.turn
  <2>1. CASE rel'[x] = rel[x]
    BY <1>2, <2>1
  <2>2. CASE rel'[x] # rel[x]
    <3>1. t # None /\ rel' = [rel EXCEPT ![t] = [at |-> "sleeping", turn |-> t, op |-> None]]
      BY <1>11, <2>2 DEF PublishNotice
    <3>2. t \in Requests /\ op[t].turn = t
      BY <3>1, SoundTypes DEF ReaderViews, Sound, Ownership, ReaderOK
    <3>3. x = t
      BY <1>0, <2>2, <3>1
    <3>4. phase[t] # "userItem" /\ UNCHANGED phase
      <4>1. Reader # Req(t)
        BY <3>2, NamesDiffer
      <4> QED
        BY <1>11, <3>2, <4>1 DEF PublishNotice, Publishing, Sound, Ownership, PromptFirst
    <3> HIDE DEF t
    <3> QED
      BY <1>0, <1>m, <3>1, <3>2, <3>3, <3>4 DEF ReleaserOK
  <2> QED
    BY <2>1, <2>2
<1>12. ASSUME NEW r \in Requests, Reserve(r) \/ RequestSteps(r) PROVE UNCHANGED rel
  BY <1>12 DEF Reserve, RequestSteps, Refuse, PublishStarting, StartingFails,
     Authorize, RequestFails, TurnStarted, PublishUserItem, GoalStarted,
     PublishRunning, PublicationFails, PublishClosing
<1>13. ASSUME NEW r \in Requests, PumpSteps(r) \/ StreamFails(r) \/ CodexAccepts(r) \/ CodexEnds(r)
       PROVE  UNCHANGED rel
  BY <1>13 DEF PumpSteps, StreamFails, CodexAccepts, CodexEnds, PumpStarts, StreamEnds,
     PumpCancelled, PublishStreamError, PublishPumpIdle
<1>14. ASSUME NEW k \in Keys, BeginMutation(k) \/ EndMutation(k) PROVE UNCHANGED rel
  BY <1>14 DEF BeginMutation, EndMutation
<1>15. ASSUME ReadNotice \/ NoticeFails \/ BeginShutdown \/ StopSteps PROVE UNCHANGED rel
  BY <1>15 DEF ReadNotice, NoticeFails, BeginShutdown, StopSteps, InterruptsDone, CancelPumps,
     ClearRegistry
<1>16. ASSUME NEW r \in Requests, Wake(r) PROVE ReleaserOK(x)'
  BY <1>4, <1>16 DEF Wake
<1> QED
  BY <1>2, <1>6, <1>7, <1>8, <1>9, <1>10, <1>11, <1>12, <1>13, <1>14, <1>15, <1>16
     DEF Next, ReleaseSteps, ReaderSteps

-----------------------------------------------------------------------------
(* The ownership of Threads and Turns *)

LEMMA InitSound ==
    ASSUME "write" \notin Faults
    PROVE  Init => Sound
<1> SUFFICES ASSUME Init PROVE Sound
  OBVIOUS
<1>1. Base
  BY InitBase
<1>2. /\ \A r \in Requests : phase[r] = "new" /\ pump[r] = "none" /\ ~Operates(r)
      /\ \A r \in Requests : op[r].turn = None /\ op[r].task = None
      /\ \A x \in Requests \cup Users : rel[x] = [at |-> "none", turn |-> None, op |-> None]
      /\ reader.turn = None /\ stop.at = "none"
  BY DEF Init, TM!Init, TM!Unborn, Idle, Operates
<1>3. OperatorIsRegistered /\ OwnTurnAndPump /\ Progress /\ PromptFirst
  BY <1>2, Parameters DEF Parameters, OperatorIsRegistered, OwnTurnAndPump, Progress, PromptFirst
<1>4. Releasers /\ ReaderOK /\ Shutdown /\ StoppedMeansDrained
  BY <1>2, Parameters DEF Parameters, Releasers, ReleaserOK, ReaderOK, Shutdown, StoppedMeansDrained
<1> QED
  BY <1>1, <1>3, <1>4 DEF Sound, Ownership

LEMMA NextSound == Sound /\ SoleReleaser /\ [Next]_vars => Sound'
<1> SUFFICES ASSUME Sound, SoleReleaser, [Next]_vars PROVE Sound'
  OBVIOUS
<1>1. Base'
  BY NextBase DEF Sound
<1>2. CASE Next
  BY <1>1, <1>2, ProgressKept, OperatorKept, PromptKept, ReleasersKept, ReaderKept, ShutdownKept
     DEF Sound, Ownership
<1>3. CASE UNCHANGED vars
  <2>1. /\ OperatorIsRegistered' = OperatorIsRegistered /\ OwnTurnAndPump' = OwnTurnAndPump
        /\ StoppedMeansDrained' = StoppedMeansDrained
    BY <1>3 DEF vars, OperatorIsRegistered, OwnTurnAndPump, StoppedMeansDrained, Operates
  <2>2. Progress' /\ PromptFirst'
    BY <1>3 DEF vars, Sound, Ownership, Progress, PromptFirst
  <2>3. Releasers'
    BY <1>3 DEF vars, Sound, Ownership, Releasers, ReleaserOK, Operates, TM!Runs, TM!Held
  <2>4. ReaderOK' /\ Shutdown'
    BY <1>3 DEF vars, Sound, Ownership, ReaderOK, Shutdown, TM!Held
  <2> QED
    BY <1>1, <2>1, <2>2, <2>3, <2>4 DEF Sound, Ownership
<1> QED
  BY <1>2, <1>3

LEMMA SpecSound ==
    ASSUME "write" \notin Faults
    PROVE  Spec /\ []SoleReleaser => []Sound
BY InitSound, NextSound, PTL DEF Spec

\* Whoever operates on a Thread is registered for it (start_turn, start_goal and
\* their pumps), so that a finish() by its request or its pump gives back its own
\* Thread and no other's.
THEOREM OperatorsAreRegistered ==
    ASSUME "write" \notin Faults
    PROVE  Spec /\ []SoleReleaser => []OperatorIsRegistered
<1>1. Sound => OperatorIsRegistered
  BY DEF Sound, Ownership
<1> QED
  BY <1>1, SpecSound, PTL

\* A Thread runs one operation at a time.
THEOREM OperationsExclude ==
    ASSUME "write" \notin Faults
    PROVE  Spec /\ []SoleReleaser => []OneOperation
<1>1. Sound => OneOperation
  BY DEF Sound, Ownership, OperatorIsRegistered, OneOperation
<1> QED
  BY <1>1, SpecSound, PTL

\* mark_running and attach_task, which name a Thread and no operation, only ever
\* reach the registration of the request that calls them.
THEOREM TurnsStayOwn ==
    ASSUME "write" \notin Faults
    PROVE  Spec /\ []SoleReleaser => []OwnTurnAndPump
<1>1. Sound => OwnTurnAndPump
  BY DEF Sound, Ownership
<1> QED
  BY <1>1, SpecSound, PTL

\* shutdown() leaves no pump behind that consumes a Turn.
THEOREM ShutdownDrains ==
    ASSUME "write" \notin Faults
    PROVE  Spec /\ []SoleReleaser => []StoppedMeansDrained
<1>1. Sound => StoppedMeansDrained
  BY DEF Sound, Ownership
<1> QED
  BY <1>1, SpecSound, PTL

-----------------------------------------------------------------------------
(* A Thread that is taken is on its way to be free *)

\* An operation is registered for its own Thread.
Home == \A k \in Keys : TM!Held(k) => ThreadOf[active[k]] = k

\* Only reserve() takes a Thread.
LEMMA OnlyReserveTakes ==
    ASSUME Base, Next, NEW k \in Keys
    PROVE  \/ active'[k] \in {active[k], None}
           \/ \E r \in Requests : Reserve(r) /\ k = ThreadOf[r] /\ active'[k] = r
<1> DEFINE Goal == \/ active'[k] \in {active[k], None}
                   \/ \E r \in Requests : Reserve(r) /\ k = ThreadOf[r] /\ active'[k] = r
<1>0. active \in [Keys -> Requests \cup {None}] /\ \A r \in Requests : ThreadOf[r] \in Keys
  BY Parameters DEF Parameters, Base, TypeOK, TM!TypeOK
<1>u. ASSUME UNCHANGED active PROVE Goal
  BY <1>u
<1>f. ASSUME NEW j, NEW t, TM!Finish(j, t) PROVE Goal
  BY <1>0, <1>f DEF TM!Finish
<1> HIDE DEF Goal
<1>1. ASSUME NEW r \in Requests, Reserve(r) PROVE Goal
  BY <1>0, <1>1 DEF Goal, Reserve, TM!Reserve
<1>2. ASSUME NEW r \in Requests, RequestSteps(r) \/ Wake(r) PROVE Goal
  BY <1>u, <1>f, <1>2 DEF RequestSteps, Wake, Refuse, PublishStarting, StartingFails,
     Authorize, RequestFails, GiveUp, TurnStarted, TM!MarkRunning, PublishUserItem, TM!AttachTask,
     GoalStarted, PublishRunning, PublicationFails, PublishClosing
<1>3. ASSUME NEW r \in Requests, PumpSteps(r) \/ StreamFails(r) \/ CodexAccepts(r) \/ CodexEnds(r)
      PROVE  Goal
  BY <1>u, <1>f, <1>3 DEF PumpSteps, StreamFails, CodexAccepts, CodexEnds, PumpStarts, StreamEnds,
     PumpCancelled, PublishStreamError, PublishPumpIdle, EndPump
<1>4. ASSUME NEW x \in Requests \cup Users, ReleaseSteps(x) PROVE Goal
  BY <1>u, <1>f, <1>4 DEF ReleaseSteps, PublishStale, Drained, PublishReleased
<1>5. ASSUME NEW u \in Users, UserSteps(u) \/ \E j \in Keys : CallInterrupt(u, j) PROVE Goal
  BY <1>u, <1>5 DEF UserSteps, InterruptReturns, InterruptFindsStale, InterruptFails,
     PublishStopping, CallInterrupt, TM!Interrupt
<1>6. ASSUME NEW j \in Keys, BeginMutation(j) \/ EndMutation(j) PROVE Goal
  BY <1>u, <1>6 DEF BeginMutation, EndMutation, TM!ReserveMutation, TM!FinishMutation
<1>7. ASSUME ReaderSteps \/ BeginShutdown \/ InterruptsDone \/ CancelPumps PROVE Goal
  BY <1>u, <1>7 DEF ReaderSteps, ReadNotice, PublishNotice, NoticeFails, BeginShutdown, TM!CloseGate,
     InterruptsDone, CancelPumps
<1>8. ASSUME ClearRegistry PROVE Goal
  BY <1>8 DEF ClearRegistry, TM!Clear, Goal
<1> QED
  BY <1>1, <1>2, <1>3, <1>4, <1>5, <1>6, <1>7, <1>8 DEF Next, StopSteps, Goal

LEMMA HomeKept ==
    ASSUME Base, Home, Next
    PROVE  Home'
<1> SUFFICES ASSUME NEW k \in Keys, active'[k] # None PROVE ThreadOf[active'[k]] = k
  BY DEF Home, TM!Held
<1> QED
  BY OnlyReserveTakes DEF Home, TM!Held

\* An operator that keeps its Thread goes on, or its pump was cancelled before it
\* ever ran, by a task that will give the Thread back.
LEMMA OperatorStays ==
    ASSUME Sound, "lookup" \notin Faults, Next, NEW o \in Requests, Operates(o),
           active'[ThreadOf[o]] = o
    PROVE  \/ Operates(o)'
           \/ \E x \in Requests \cup Users :
                 rel'[x].at = "draining" /\ rel'[x].turn = o /\ op'[o].turn = o
<1> DEFINE Goal == \/ Operates(o)'
                   \/ \E x \in Requests \cup Users :
                         rel'[x].at = "draining" /\ rel'[x].turn = o /\ op'[o].turn = o
<1>0. /\ phase \in [Requests -> Phases] /\ pump \in [Requests -> PumpStates]
      /\ active \in [Keys -> Requests \cup {None}] /\ None \notin Requests
      /\ op \in [Requests -> TM!ActiveTurn]
      /\ stop \in StopViews
      /\ rel \in [Requests \cup Users -> ReleaseViews]
      /\ ThreadOf[o] \in Keys
      /\ \A r \in Requests : ThreadOf[r] \in Keys
      /\ \A r \in Requests : Operates(r) => active[ThreadOf[r]] = r /\ TM!Held(ThreadOf[r])
      /\ OwnTurnAndPump /\ Progress
  BY SoundTypes, Owners DEF Sound, Ownership
<1>1. ASSUME phase'[o] = phase[o], pump'[o] = pump[o] PROVE Goal
  BY <1>1 DEF Operates
\* Whoever gives a Thread back on its own account is not o.
<1>f. ASSUME NEW r \in Requests, NEW t \in {r, None}, TM!Finish(ThreadOf[r], t), Operates(r) PROVE r # o
  BY <1>0, <1>f DEF TM!Finish, TM!Releases, OwnTurnAndPump
<1> HIDE DEF Goal
<1>2. ASSUME NEW r \in Requests, Reserve(r) PROVE Goal
  BY <1>0, <1>1, <1>2 DEF Goal, Reserve, Operates
<1>3. ASSUME NEW r \in Requests, RequestSteps(r) PROVE Goal
  <2>1. CASE r # o
    <3>1. phase'[o] = phase[o] /\ pump'[o] = pump[o]
      BY <1>0, <1>3, <2>1 DEF RequestSteps, Refuse, PublishStarting, StartingFails,
       Authorize, RequestFails, GiveUp, TurnStarted, PublishUserItem, GoalStarted,
       PublishRunning, PublicationFails, PublishClosing
    <3> QED
      BY <1>1, <3>1
  <2>2. CASE r = o
    <3>1. ~StartingFails(r) /\ ~PublicationFails(r)
      BY DEF StartingFails, PublicationFails, LookupFails, WriteFails, Sound
    <3>2. ~RequestFails(r)
      BY <1>f, <2>2 DEF RequestFails, GiveUp
    <3>3. CASE Refuse(r) \/ PublishRunning(r) \/ PublishClosing(r)
      BY <1>0, <2>2, <3>3 DEF Goal, Refuse, PublishRunning, PublishClosing, Operates, Progress
    <3>4. CASE PublishStarting(r) \/ Authorize(r)
      BY <1>0, <2>2, <3>4 DEF Goal, PublishStarting, Authorize, Operates
    <3>5. CASE TurnStarted(r) \/ GoalStarted(r) \/ PublishUserItem(r)
      BY <1>0, <2>2, <3>5 DEF Goal, TurnStarted, GoalStarted, PublishUserItem, Operates
    <3> QED
      BY <1>3, <3>1, <3>2, <3>3, <3>4, <3>5 DEF RequestSteps
  <2> QED
    BY <2>1, <2>2
<1>4. ASSUME NEW r \in Requests, PumpSteps(r) \/ StreamFails(r) PROVE Goal
  <2>1. CASE r # o
    <3>1. phase'[o] = phase[o] /\ pump'[o] = pump[o]
      BY <1>0, <1>4, <2>1 DEF PumpSteps, StreamFails, PumpStarts, StreamEnds, EndPump,
         PumpCancelled, PublishStreamError, PublishPumpIdle
    <3> QED
      BY <1>1, <3>1
  <2>2. CASE r = o
    <3>1. ~StreamEnds(r) /\ ~PumpCancelled(r) /\ ~PublishStreamError(r)
      BY <1>f, <2>2 DEF StreamEnds, PumpCancelled, PublishStreamError, EndPump
    <3>2. CASE PumpStarts(r) \/ StreamFails(r)
      BY <1>0, <2>2, <3>2 DEF Goal, PumpStarts, StreamFails, Operates
    <3>3. CASE PublishPumpIdle(r)
      BY <1>0, <2>2, <3>3 DEF Goal, PublishPumpIdle, Operates, Progress
    <3> QED
      BY <1>4, <3>1, <3>2, <3>3 DEF PumpSteps
  <2> QED
    BY <2>1, <2>2
<1>5. ASSUME NEW r \in Requests, CodexAccepts(r) \/ CodexEnds(r) \/ Wake(r) PROVE Goal
  BY <1>1, <1>5 DEF CodexAccepts, CodexEnds, Wake
<1>6. ASSUME NEW x \in Requests \cup Users, ReleaseSteps(x) PROVE Goal
  <2>1. CASE PublishStale(x)
    <3>1. Publishing(Rel(x)) /\ rel[x].at = "erring"
      BY <2>1 DEF PublishStale
    <3>2. PICK t : t = rel[x].turn
      OBVIOUS
    <3>3. rel[x].op = t /\ t \in Requests /\ op[t].task = t /\ op[t].turn = t
      BY <3>1, <3>2, ReleasedHavePumps DEF Sound, Ownership, Releasers, ReleaserOK
    <3>4. CASE t = o /\ pump[t] # "done"
      <4>1. rel' = [rel EXCEPT ![x].at = "draining"] /\ UNCHANGED op
        BY <1>0, <2>1, <3>2, <3>3, <3>4 DEF PublishStale, At
      <4> QED
        <5>0. rel'[x].at = "draining" /\ rel'[x].turn = rel[x].turn
          BY SoundTypes, <4>1 DEF ReleaseViews
        <5>1. rel'[x].at = "draining" /\ rel'[x].turn = o
          BY <3>2, <3>4, <5>0
        <5>2. op'[o].turn = o
          BY <3>3, <3>4, <4>1
        <5> QED
          BY <5>1, <5>2 DEF Goal
    <3>5. CASE t # o \/ pump[t] = "done"
      <4>1. phase'[o] = phase[o] /\ pump'[o] = pump[o]
        BY <1>0, <2>1, <3>2, <3>3, <3>5 DEF PublishStale
      <4> QED
        BY <1>1, <4>1
    <3> QED
      BY <3>4, <3>5
  <2>2. CASE Drained(x) \/ PublishReleased(x)
    BY <1>1, <2>2 DEF Drained, PublishReleased
  <2> QED
    BY <1>6, <2>1, <2>2 DEF ReleaseSteps
<1>7. ASSUME NEW u \in Users, UserSteps(u) \/ \E j \in Keys : CallInterrupt(u, j) PROVE Goal
  BY <1>1, <1>7 DEF UserSteps, InterruptReturns, InterruptFindsStale, InterruptFails,
     PublishStopping, CallInterrupt
<1>8. ASSUME NEW j \in Keys, BeginMutation(j) \/ EndMutation(j) PROVE Goal
  BY <1>1, <1>8 DEF BeginMutation, EndMutation
<1>9. ASSUME ReaderSteps \/ BeginShutdown \/ InterruptsDone \/ ClearRegistry PROVE Goal
  BY <1>1, <1>9 DEF ReaderSteps, ReadNotice, PublishNotice, NoticeFails, BeginShutdown,
     InterruptsDone, ClearRegistry
<1>10. ASSUME CancelPumps PROVE Goal
  <2>1. pump[o] # "created" /\ UNCHANGED phase
    BY <1>10 DEF CancelPumps, Input
  <2>2. \A s \in Consuming \ {"created"} : AfterCancel(s) \in Consuming
    BY DEF AfterCancel, Consuming
  <2> QED
    BY <1>0, <1>10, <2>1, <2>2 DEF CancelPumps, Goal, Operates, Consuming
<1> QED
  BY <1>2, <1>3, <1>4, <1>5, <1>6, <1>7, <1>8, <1>9, <1>10 DEF Next, StopSteps, Goal

\* A task that waits for a pump, or for the lock to report idle, gives its Turn's
\* Thread back before it goes away.
LEMMA ReleaserStays ==
    ASSUME Sound, Next, NEW x \in Requests \cup Users, rel[x].at \in {"draining", "idling"},
           NEW t, t = rel[x].turn, active[ThreadOf[t]] = t, active'[ThreadOf[t]] = t
    PROVE  rel'[x].at \in {"draining", "idling"} /\ rel'[x].turn = t
<1> DEFINE Goal == rel'[x].at \in {"draining", "idling"} /\ rel'[x].turn = t
<1>0. /\ rel \in [Requests \cup Users -> ReleaseViews] /\ t \in Requests /\ op[t].turn = t
      /\ active \in [Keys -> Requests \cup {None}] /\ None \notin Requests
      /\ ThreadOf[t] \in Keys
  BY SoundTypes DEF Sound, Ownership, Releasers, ReleaserOK
<1>1. ASSUME rel'[x] = rel[x] PROVE Goal
  BY <1>1
<1> HIDE DEF Goal
<1>2. ASSUME NEW y \in Requests \cup Users, y # x, NEW v, rel' = [rel EXCEPT ![y] = v] \/ At(y, v)
      PROVE  Goal
  BY <1>0, <1>1, <1>2 DEF At
<1>u. ASSUME UNCHANGED rel PROVE Goal
  BY <1>1, <1>u
<1>3. ASSUME NEW y \in Requests \cup Users, ReleaseSteps(y) PROVE Goal
  <2>1. CASE y # x
    BY <1>2, <1>3, <2>1 DEF ReleaseSteps, PublishStale, Drained, PublishReleased, Conclude
  <2>2. CASE y = x
    <3>1. CASE PublishStale(y)
      BY <2>2, <3>1 DEF PublishStale
    <3>2. CASE Drained(y)
      <4>1. TM!Runs(ThreadOf[rel[x].turn], rel[x].turn)
        BY <1>0 DEF TM!Runs, TM!Held
      <4>2. At(x, "idling")
        BY <2>2, <3>2, <4>1 DEF Drained, Conclude
      <4> QED
        BY <1>0, <4>2 DEF At, Goal, ReleaseViews
    <3>3. CASE PublishReleased(y)
      <4>1. TM!Finish(ThreadOf[t], t)
        BY <2>2, <3>3 DEF PublishReleased, WriteFails, Sound
      <4> QED
        BY <1>0, <4>1 DEF TM!Finish, TM!Releases, TM!Held
    <3> QED
      BY <1>3, <3>1, <3>2, <3>3 DEF ReleaseSteps
  <2> QED
    BY <2>1, <2>2
<1>4. ASSUME NEW y \in Requests \cup Users, rel[y].at \in {"none", "calling", "stopping", "sleeping"} PROVE y # x
  BY <1>4
<1>b. ASSUME NEW y \in Requests \cup Users, NEW s, BeginRelease(y, s), y # x PROVE Goal
  BY <1>u, <1>2, <1>b DEF BeginRelease
<1>5. ASSUME NEW u \in Users, UserSteps(u) PROVE Goal
  <2>1. u # x
    BY <1>5 DEF UserSteps, InterruptReturns, InterruptFindsStale, InterruptFails, PublishStopping
  <2> QED
    BY <1>2, <1>b, <1>5, <2>1 DEF UserSteps, InterruptReturns, InterruptFindsStale, InterruptFails,
       PublishStopping
<1>6. ASSUME NEW u \in Users, NEW k \in Keys, CallInterrupt(u, k) PROVE Goal
  BY <1>2, <1>4, <1>6 DEF CallInterrupt
<1>7. ASSUME NEW r \in Requests, Wake(r) PROVE Goal
  BY <1>b, <1>4, <1>7 DEF Wake
<1>8. ASSUME PublishNotice PROVE Goal
  BY <1>0, <1>1, <1>8 DEF PublishNotice
<1>12. ASSUME NEW r \in Requests, Reserve(r) \/ RequestSteps(r) PROVE Goal
  BY <1>u, <1>12 DEF Reserve, RequestSteps, Refuse, PublishStarting, StartingFails,
     Authorize, RequestFails, TurnStarted, PublishUserItem, GoalStarted,
     PublishRunning, PublicationFails, PublishClosing
<1>13. ASSUME NEW r \in Requests, PumpSteps(r) \/ StreamFails(r) \/ CodexAccepts(r) \/ CodexEnds(r)
       PROVE  Goal
  BY <1>u, <1>13 DEF PumpSteps, StreamFails, CodexAccepts, CodexEnds, PumpStarts, StreamEnds,
     PumpCancelled, PublishStreamError, PublishPumpIdle
<1>14. ASSUME NEW k \in Keys, BeginMutation(k) \/ EndMutation(k) PROVE Goal
  BY <1>u, <1>14 DEF BeginMutation, EndMutation
<1>15. ASSUME ReadNotice \/ NoticeFails \/ BeginShutdown \/ StopSteps PROVE Goal
  BY <1>u, <1>15 DEF ReadNotice, NoticeFails, BeginShutdown, StopSteps, InterruptsDone, CancelPumps,
     ClearRegistry
<1> QED
  BY <1>3, <1>5, <1>6, <1>7, <1>8, <1>12, <1>13, <1>14, <1>15 DEF Next, ReaderSteps, Goal

LEMMA HeldKept ==
    ASSUME Sound, Home, HeldIsOperated, "lookup" \notin Faults, [Next]_vars
    PROVE  HeldIsOperated'
<1>0. active' \in [Keys -> Requests \cup {None}]
  BY NextBase DEF Sound, Base, TypeOK, TM!TypeOK
<1> SUFFICES ASSUME NEW k \in Keys, NEW o \in Requests, active'[k] = o
             PROVE  \/ Operates(o)'
                    \/ \E x \in Requests \cup Users :
                          rel'[x].at \in {"draining", "idling"} /\ op'[o].turn = rel'[x].turn
  BY <1>0, Parameters DEF Parameters, HeldIsOperated, TM!Held, TM!Runs
<1>n. o # None
  BY SoundTypes
<1>1. CASE UNCHANGED vars
  BY <1>1, <1>n DEF vars, HeldIsOperated, TM!Held, TM!Runs, Operates
<1>2. CASE Next /\ active'[k] # active[k]
  <2>1. Reserve(o)
    BY <1>2, <1>n, OnlyReserveTakes DEF Sound
  <2>2. phase'[o] = "starting"
    BY <2>1, SoundTypes DEF Reserve
  <2> QED
    BY <2>2 DEF Operates
<1>3. CASE Next /\ active'[k] = active[k]
  <2>1. o = active[k] /\ ThreadOf[o] = k
    BY <1>3, <1>n DEF Home, TM!Held
  <2>m. \A q \in Requests : op[q].turn = q => op'[q].turn = q
    BY <1>3, ProgressKept
  <2>2. CASE Operates(o)
    <3>1. \/ Operates(o)'
          \/ \E x \in Requests \cup Users : rel'[x].at = "draining" /\ rel'[x].turn = o /\ op'[o].turn = o
      BY <1>3, <2>1, <2>2, OperatorStays
    <3> QED
      BY <3>1
  <2>3. CASE ~Operates(o)
    <3>1. PICK x \in Requests \cup Users :
              rel[x].at \in {"draining", "idling"} /\ TM!Runs(k, rel[x].turn)
      BY <1>n, <2>1, <2>3 DEF HeldIsOperated, TM!Held
    <3>2. rel[x].turn = o /\ op[o].turn = o
      BY <2>1, <3>1, Owners, SoundTypes DEF Sound, Base, Targets, TM!Runs
    <3>3. rel'[x].at \in {"draining", "idling"} /\ rel'[x].turn = o
      BY <1>3, <2>1, <3>1, <3>2, ReleaserStays
    <3> QED
      BY <1>3, <2>1, <2>m, <3>2, <3>3
  <2> QED
    BY <2>2, <2>3
<1> QED
  BY <1>1, <1>2, <1>3

LEMMA SpecHome == Spec => []Home
<1>1. Init => Home
  BY DEF Init, TM!Init, Home, TM!Held
<1>2. Base /\ Home /\ [Next]_vars => Home'
  <2>1. Home /\ UNCHANGED vars => Home'
    BY DEF vars, Home, TM!Held
  <2> QED
    BY <2>1, HomeKept
<1> QED
  BY <1>1, <1>2, SpecBase, PTL DEF Spec

\* A Thread is taken only while its request, its pump or a task that releases it
\* will give it back: a 409 always means that something is in progress.
THEOREM ThreadsAreHeldForSomeone ==
    ASSUME "write" \notin Faults, "lookup" \notin Faults
    PROVE  Spec /\ []SoleReleaser => []HeldIsOperated
<1>1. Init => HeldIsOperated
  BY DEF Init, TM!Init, HeldIsOperated, TM!Held
<1>2. Sound /\ Home /\ HeldIsOperated /\ [Next]_vars => HeldIsOperated'
  BY HeldKept
<1> QED
  BY <1>1, <1>2, SpecSound, SpecHome, PTL DEF Spec

-----------------------------------------------------------------------------
(* The reconciler and the end of Turns *)

\* The Threads whose idle notification is on its way.
Noticed(k) ==
    \/ reader.at = "publishing" /\ reader.key = k
    \/ \E i \in DOMAIN notices : notices[i] = k

\* As long as notifications are not read late, a Thread that was reported idle runs
\* no Turn until the report was dealt with.
Ended ==
    /\ \A t \in Requests : rel[t].at # "none" => codex[t] \notin {"none", "late", "live"}
    /\ \A r \in Requests : codex[r] = "live" => ~Noticed(ThreadOf[r])
    /\ \A q, r \in Requests :
          codex[q] = "live" /\ codex[r] = "live" /\ ThreadOf[q] = ThreadOf[r] => q = r
    /\ reader.turn # None => reader.at = "publishing" /\ reader.key = ThreadOf[reader.turn]

\* A Turn that Codex ended does not come back, and only CodexAccepts starts one.
LEMMA CodexMoves ==
    ASSUME Sound, Next
    PROVE  \/ \E r \in Requests : CodexAccepts(r) \/ CodexEnds(r)
           \/ \E r \in Requests : codex[r] = "none" /\ codex' = [codex EXCEPT ![r] = "late"]
           \/ UNCHANGED codex
<1>0. ASSUME NEW r \in Requests, RequestFails(r)
      PROVE  (codex[r] = "none" /\ codex' = [codex EXCEPT ![r] = "late"]) \/ UNCHANGED codex
  BY <1>0 DEF RequestFails
<1>1. ASSUME NEW r \in Requests, Reserve(r) \/ RequestSteps(r) \/ Wake(r), ~RequestFails(r)
      PROVE  UNCHANGED codex
  BY <1>1 DEF Reserve, RequestSteps, Wake, Refuse, PublishStarting, StartingFails, Authorize,
     TurnStarted, PublishUserItem, GoalStarted, PublishRunning,
     PublicationFails, PublishClosing
<1>2. ASSUME NEW r \in Requests, PumpSteps(r) \/ StreamFails(r) PROVE UNCHANGED codex
  BY <1>2 DEF PumpSteps, StreamFails, PumpStarts, StreamEnds,
     PumpCancelled, PublishStreamError, PublishPumpIdle
<1>3. ASSUME NEW x \in Requests \cup Users, ReleaseSteps(x) PROVE UNCHANGED codex
  BY <1>3 DEF ReleaseSteps, PublishStale, Drained, PublishReleased
<1>4. ASSUME NEW u \in Users, UserSteps(u) \/ \E k \in Keys : CallInterrupt(u, k) PROVE UNCHANGED codex
  BY <1>4 DEF UserSteps, InterruptReturns, InterruptFindsStale, InterruptFails,
     PublishStopping, CallInterrupt
<1>5. ASSUME NEW k \in Keys, BeginMutation(k) \/ EndMutation(k) PROVE UNCHANGED codex
  BY <1>5 DEF BeginMutation, EndMutation
<1>6. ASSUME ReaderSteps \/ BeginShutdown \/ StopSteps PROVE UNCHANGED codex
  BY <1>6 DEF ReaderSteps, ReadNotice, PublishNotice, NoticeFails, BeginShutdown, StopSteps,
     InterruptsDone, CancelPumps, ClearRegistry
<1> QED
  BY <1>0, <1>1, <1>2, <1>3, <1>4, <1>5, <1>6 DEF Next

\* Only a notification starts a reconciliation.
LEMMA RelMoves ==
    ASSUME Sound, Next, NEW t \in Requests, rel'[t].at # "none"
    PROVE  rel[t].at # "none" \/ (PublishNotice /\ reader.turn = t)
<1>0. rel \in [Requests \cup Users -> ReleaseViews] /\ Requests \cap Users = {}
  BY SoundTypes, Parameters DEF Parameters
<1>1. ASSUME rel'[t] = rel[t] PROVE rel[t].at # "none"
  BY <1>1
<1>2. ASSUME NEW r \in Requests, Reserve(r) \/ RequestSteps(r) PROVE UNCHANGED rel
  BY <1>2 DEF Reserve, RequestSteps, Refuse, PublishStarting, StartingFails, Authorize,
     RequestFails, TurnStarted, PublishUserItem, GoalStarted, PublishRunning,
     PublicationFails, PublishClosing
<1>3. ASSUME NEW r \in Requests, PumpSteps(r) \/ StreamFails(r) \/ CodexAccepts(r) \/ CodexEnds(r)
      PROVE  UNCHANGED rel
  BY <1>3 DEF PumpSteps, StreamFails, CodexAccepts, CodexEnds, PumpStarts, StreamEnds,
     PumpCancelled, PublishStreamError, PublishPumpIdle
<1>4. ASSUME NEW x \in Requests \cup Users, ReleaseSteps(x) PROVE rel[t].at # "none"
  <2>1. CASE x = t
    BY <1>4, <2>1 DEF ReleaseSteps, PublishStale, Drained, PublishReleased
  <2>2. CASE x # t
    BY <1>0, <1>1, <1>4, <2>2 DEF ReleaseSteps, PublishStale, Drained, PublishReleased, Conclude, At
  <2> QED
    BY <2>1, <2>2
<1>5. ASSUME NEW r \in Requests, Wake(r) PROVE rel[t].at # "none"
  BY <1>0, <1>5 DEF Wake, BeginRelease
<1>6. ASSUME NEW u \in Users, UserSteps(u) \/ \E k \in Keys : CallInterrupt(u, k) PROVE rel'[t] = rel[t]
  BY <1>0, <1>6 DEF UserSteps, InterruptReturns, InterruptFindsStale, InterruptFails,
     PublishStopping, CallInterrupt, BeginRelease, At
<1>7. ASSUME NEW k \in Keys, BeginMutation(k) \/ EndMutation(k) PROVE UNCHANGED rel
  BY <1>7 DEF BeginMutation, EndMutation
<1>8. ASSUME ReadNotice \/ NoticeFails \/ BeginShutdown \/ StopSteps PROVE UNCHANGED rel
  BY <1>8 DEF ReadNotice, NoticeFails, BeginShutdown, StopSteps, InterruptsDone, CancelPumps,
     ClearRegistry
<1>9. ASSUME PublishNotice PROVE rel[t].at # "none" \/ reader.turn = t
  BY <1>0, <1>9 DEF PublishNotice
<1> QED
  BY <1>1, <1>2, <1>3, <1>4, <1>5, <1>6, <1>7, <1>8, <1>9 DEF Next, ReaderSteps

\* Notifications are added by the end of a Turn and taken by the reader.
LEMMA NoticesMove ==
    ASSUME Sound, Next
    PROVE  \/ UNCHANGED <<notices, reader>>
           \/ \E r \in Requests : CodexEnds(r)
           \/ ReadNotice
           \/ UNCHANGED notices /\ reader'.at # "publishing" /\ reader'.turn = None
<1>1. ASSUME NEW r \in Requests, Reserve(r) \/ RequestSteps(r) \/ Wake(r)
      PROVE  UNCHANGED <<notices, reader>>
  BY <1>1 DEF Reserve, RequestSteps, Wake, Refuse, PublishStarting, StartingFails, Authorize,
     RequestFails, TurnStarted, PublishUserItem, GoalStarted, PublishRunning,
     PublicationFails, PublishClosing
<1>2. ASSUME NEW r \in Requests, PumpSteps(r) \/ StreamFails(r) \/ CodexAccepts(r)
      PROVE  UNCHANGED <<notices, reader>>
  BY <1>2 DEF PumpSteps, StreamFails, CodexAccepts, PumpStarts, StreamEnds,
     PumpCancelled, PublishStreamError, PublishPumpIdle
<1>3. ASSUME NEW x \in Requests \cup Users, ReleaseSteps(x) PROVE UNCHANGED <<notices, reader>>
  BY <1>3 DEF ReleaseSteps, PublishStale, Drained, PublishReleased
<1>4. ASSUME NEW u \in Users, UserSteps(u) \/ \E k \in Keys : CallInterrupt(u, k)
      PROVE  UNCHANGED <<notices, reader>>
  BY <1>4 DEF UserSteps, InterruptReturns, InterruptFindsStale, InterruptFails,
     PublishStopping, CallInterrupt
<1>5. ASSUME NEW k \in Keys, BeginMutation(k) \/ EndMutation(k) PROVE UNCHANGED <<notices, reader>>
  BY <1>5 DEF BeginMutation, EndMutation
<1>6. ASSUME BeginShutdown \/ StopSteps PROVE UNCHANGED <<notices, reader>>
  BY <1>6 DEF BeginShutdown, StopSteps, InterruptsDone, CancelPumps, ClearRegistry
<1>7. ASSUME PublishNotice \/ NoticeFails
      PROVE  UNCHANGED notices /\ reader'.at # "publishing" /\ reader'.turn = None
  BY <1>7 DEF PublishNotice, NoticeFails
<1> QED
  BY <1>1, <1>2, <1>3, <1>4, <1>5, <1>6, <1>7 DEF Next, ReaderSteps

LEMMA EndedKept ==
    ASSUME Sound, Home, Ended, "lag" \notin Faults, [Next]_vars
    PROVE  Ended'
<1>0. /\ codex \in [Requests -> {"none", "late", "live", "over", "lost"}]
      /\ reader \in ReaderViews /\ notices \in Seq(Keys)
      /\ active \in [Keys -> Requests \cup {None}]
      /\ op \in [Requests -> TM!ActiveTurn]
      /\ None \notin Requests
      /\ \A r \in Requests : ThreadOf[r] \in Keys
  BY SoundTypes, TypeParts DEF Sound, Base, SharedOK
<1>s. CASE UNCHANGED vars
  BY <1>s DEF vars, Ended, Noticed
<1>n. CASE Next
  <2>1. \/ \E r \in Requests : CodexAccepts(r) \/ CodexEnds(r)
        \/ \E r \in Requests : codex[r] = "none" /\ codex' = [codex EXCEPT ![r] = "late"]
        \/ UNCHANGED codex
    BY <1>n, CodexMoves
  <2>2. ASSUME NEW t \in Requests, rel'[t].at # "none"
        PROVE  codex'[t] \notin {"none", "late", "live"}
    <3>1. codex[t] \notin {"none", "late", "live"}
      <4>1. CASE rel[t].at # "none"
        BY <4>1 DEF Ended
      <4>2. CASE PublishNotice /\ reader.turn = t
        <5>1. t # None
          BY <1>0
        <5>2. codex[t] # "live"
          BY <4>2, <5>1 DEF Ended, Noticed
        <5>3. op[t].turn = t
          BY <4>2, <5>1 DEF Sound, Ownership, ReaderOK
        <5> QED
          BY <5>1, <5>2, <5>3 DEF Sound, Ownership, Progress
      <4> QED
        BY <1>n, <2>2, <4>1, <4>2, RelMoves
    <3> QED
      BY <1>0, <2>1, <3>1 DEF CodexAccepts, CodexEnds
  <2>3. ASSUME NEW r \in Requests, codex'[r] = "live" PROVE ~Noticed(ThreadOf[r])'
    <3>1. ~Noticed(ThreadOf[r])
      <4>1. CASE codex[r] = "live"
        BY <4>1 DEF Ended
      <4>2. CASE codex[r] # "live"
        <5>1. CodexAccepts(r)
          BY <1>0, <2>1, <2>3, <4>2 DEF CodexAccepts, CodexEnds
        <5> QED
          BY <5>1 DEF CodexAccepts, NoticesRead, Noticed
      <4> QED
        BY <4>1, <4>2
    <3>2. CASE UNCHANGED <<notices, reader>>
      BY <3>1, <3>2 DEF Noticed
    <3>3. ASSUME NEW q \in Requests, CodexEnds(q) PROVE ~Noticed(ThreadOf[r])'
      <4>1. q # r /\ codex[q] = "live" /\ codex[r] = "live"
        BY <1>0, <2>3, <3>3 DEF CodexEnds
      <4>2. ThreadOf[q] # ThreadOf[r]
        BY <4>1 DEF Ended
      <4>3. notices' = Append(notices, ThreadOf[q]) /\ UNCHANGED reader
        BY <3>3 DEF CodexEnds
      <4>4. \A i \in DOMAIN notices' : notices'[i] = ThreadOf[q] \/ (i \in DOMAIN notices /\ notices'[i] = notices[i])
        BY <1>0, <4>3
      <4> QED
        BY <3>1, <4>2, <4>3, <4>4 DEF Noticed
    <3>4. CASE ReadNotice
      <4>1. notices # <<>> /\ notices' = Tail(notices) /\ reader'.key = Head(notices)
        BY <3>4 DEF ReadNotice
      <4>2. 1 \in DOMAIN notices /\ Head(notices) = notices[1]
        BY <1>0, <4>1
      <4>3. \A i \in DOMAIN notices' : i + 1 \in DOMAIN notices /\ notices'[i] = notices[i + 1]
        BY <1>0, <4>1
      <4> QED
        BY <3>1, <4>1, <4>2, <4>3 DEF Noticed
    <3>5. CASE UNCHANGED notices /\ reader'.at # "publishing" /\ reader'.turn = None
      BY <3>1, <3>5 DEF Noticed
    <3> QED
      BY <1>n, <3>2, <3>3, <3>4, <3>5, NoticesMove
  <2>4. ASSUME NEW q \in Requests, NEW r \in Requests, codex'[q] = "live", codex'[r] = "live",
               ThreadOf[q] = ThreadOf[r]
        PROVE  q = r
    BY <1>0, <2>1, <2>4 DEF Ended, CodexAccepts, CodexEnds
  <2>5. ASSUME reader'.turn # None
        PROVE  reader'.at = "publishing" /\ reader'.key = ThreadOf[reader'.turn]
    <3>1. CASE UNCHANGED reader
      BY <2>5, <3>1 DEF Ended
    <3>2. CASE ReadNotice
      <4> DEFINE k == Head(notices)
      <4>1. /\ k \in Keys
            /\ reader' = [at |-> "publishing", key |-> k,
                          turn |-> IF TM!Held(k) THEN op[active[k]].turn ELSE None]
        BY <1>0, <3>2 DEF ReadNotice
      <4> HIDE DEF k
      <4>2. TM!Held(k) /\ reader'.turn = op[active[k]].turn
        BY <2>5, <4>1
      <4>3. active[k] \in Requests /\ op[active[k]].turn = active[k]
        BY <1>0, <2>5, <4>1, <4>2 DEF TM!Held, Sound, Ownership, OwnTurnAndPump
      <4> QED
        BY <4>1, <4>2, <4>3 DEF Home
    <3>3. ASSUME NEW r \in Requests, CodexEnds(r) PROVE UNCHANGED reader
      BY <3>3 DEF CodexEnds
    <3> QED
      BY <1>n, <2>5, <3>1, <3>2, <3>3, NoticesMove
  <2> QED
    BY <2>2, <2>3, <2>4, <2>5 DEF Ended
<1> QED
  BY <1>s, <1>n

LEMMA SpecEnded ==
    ASSUME "write" \notin Faults, "lag" \notin Faults
    PROVE  Spec /\ []SoleReleaser => []Ended
<1>1. Init => Ended
  <2> SUFFICES ASSUME Init PROVE Ended
    OBVIOUS
  <2>1. \A t \in Requests : rel[t].at = "none" /\ codex[t] = "none"
    BY DEF Init, Idle
  <2>2. reader.turn = None
    BY DEF Init
  <2> QED
    BY <2>1, <2>2 DEF Ended
<1>2. Sound /\ Home /\ Ended /\ [Next]_vars => Ended'
  BY EndedKept
<1> QED
  BY <1>1, <1>2, SpecSound, SpecHome, PTL DEF Spec

\* The reconciler gives up no Turn that Codex still runs, because a Thread that was
\* reported idle starts no Turn before the report was read.
THEOREM LiveTurnsAreSpared ==
    ASSUME "write" \notin Faults, "lag" \notin Faults
    PROVE  Spec /\ []SoleReleaser => []OnlyEndedTurnsReconciled
<1>1. Sound /\ Ended => OnlyEndedTurnsReconciled
  <2> SUFFICES ASSUME Sound, Ended, NEW t \in Requests, rel[t].at \in {"erring", "draining"}
               PROVE  codex[rel[t].op] # "live"
    BY DEF OnlyEndedTurnsReconciled
  <2>1. rel[t].op = rel[t].turn /\ rel[t].turn \in {None, t} /\ rel[t].turn \in Requests
    BY DEF Sound, Ownership, Releasers, ReleaserOK
  <2>2. rel[t].op = t
    BY <2>1, SoundTypes
  <2> QED
    BY <2>2 DEF Ended
<1> QED
  BY <1>1, SpecSound, SpecEnded, PTL

-----------------------------------------------------------------------------
(* What browsers are shown agrees with the registry *)

Publications == {"starting", "userItem", "running", "closing"}

\* Who is about to publish holds the lock or waits for it.
Queued ==
    \A r \in Requests :
        /\ phase[r] \in Publications => Waits(Req(r))
        /\ pump[r] \in {"failing", "idling"} => Waits(Pump(r))
        /\ rel[r].at \in {"erring", "idling"} => Waits(Rel(r))

\* If somebody has Thread k by now, its request asked for the lock after task p.
Heir(k, p) ==
    TM!Held(k) => phase[active[k]] = "starting" /\ p \in lockq[Req(active[k])]

\* A task that will publish what is not true any more has behind it, in the queue
\* for the lock, one that will publish what is.
Order(r) ==
    LET k == ThreadOf[r] IN
    /\ phase[r] = "running" =>
           active[k] = r \/ (pump[r] = "idling" /\ Req(r) \in lockq[Pump(r)])
    /\ phase[r] = "closing" => Heir(k, Req(r))
    /\ pump[r] = "idling" => Heir(k, Pump(r))
    /\ rel[r].at = "erring" => active[k] = r \/ Heir(k, Rel(r))
    /\ rel[r].at = "erring" => phase[r] # "userItem"
    /\ rel[r].at = "erring" /\ phase[r] = "running" => Req(r) \in lockq[Rel(r)]
    /\ rel[r].at \in {"draining", "idling"} => phase[r] = "accepted"

\* Nobody is about to publish a status of Thread k.
Quiet(k) ==
    \A r \in Requests : ThreadOf[r] = k =>
        /\ phase[r] \notin Publications
        /\ pump[r] \notin {"failing", "idling"}
        /\ rel[r].at \notin {"erring", "idling"}
        /\ ~(rel[r].at = "draining" /\ active[k] = r)

Agree(k) == Quiet(k) => (shown[k] \in Busy <=> TM!Held(k))

\* What a step of the lock does to the other tasks, and to the one that asked last.
LEMMA LockMoves ==
    ASSUME QueueOK(lockq), NEW p \in Tasks,
           lockq' \in {lockq, Withdraw({p}, lockq), Last(p, lockq), Last(p, Withdraw({p}, lockq))}
    PROVE  \A t \in Tasks \ {p} :
              /\ lockq[t] # {} => lockq'[t] # {}
              /\ \A a \in Tasks \ {p} : a \in lockq[t] => a \in lockq'[t]
<1>1. CASE lockq' = lockq
  BY <1>1
<1>2. CASE lockq' = Withdraw({p}, lockq)
  BY <1>2 DEF QueueOK, Withdraw
<1>3. CASE lockq' = Last(p, lockq)
  BY <1>3 DEF QueueOK, Last
<1>4. CASE lockq' = Last(p, Withdraw({p}, lockq))
  BY <1>4 DEF QueueOK, Withdraw, Last
<1> QED
  BY <1>1, <1>2, <1>3, <1>4

LEMMA LockJoins ==
    ASSUME QueueOK(lockq), NEW p \in Tasks,
           lockq' \in {Last(p, lockq), Last(p, Withdraw({p}, lockq))}
    PROVE  lockq'[p] # {} /\ \A a \in Tasks \ {p} : lockq[a] # {} => a \in lockq'[p]
BY DEF QueueOK, Withdraw, Last

LEMMA LockLeft ==
    ASSUME QueueOK(lockq), NEW S, lockq' = Withdraw(S, lockq)
    PROVE  \A t \in Tasks : t \notin S =>
              /\ lockq[t] # {} => lockq'[t] # {}
              /\ \A a \in Tasks : a \in lockq[t] /\ a \notin S => a \in lockq'[t]
BY DEF QueueOK, Withdraw

\* What the publication of a stale Turn's error does: the Turn's own pump is cancelled
\* and waited for, or it was done already.
LEMMA StaleFacts ==
    ASSUME Sound, NEW x \in Requests \cup Users, PublishStale(x), NEW t, t = rel[x].turn
    PROVE  /\ t \in Requests /\ phase[t] \in {"running", "accepted"} /\ op[t].turn = t
           /\ lockq[Rel(x)] = {Rel(x)} /\ rel[x].at = "erring" /\ rel[x].op = t /\ op[t].task = t
           /\ shown' = [shown EXCEPT ![ThreadOf[t]] = "error"]
           /\ UNCHANGED <<active, mutating, accepting, op, phase, codex, notices, reader, stop>>
<1>1. Publishing(Rel(x)) /\ rel[x].at = "erring"
  BY DEF PublishStale
<1>2. rel[x].op = t /\ t \in Requests /\ op[t].task = t /\ op[t].turn = t
      /\ phase[t] \in {"running", "accepted"} /\ t # None
  BY <1>1, ReleasedHavePumps, SoundTypes DEF Sound, Ownership, Releasers, ReleaserOK
<1>3. ~WriteFails
  BY DEF WriteFails, Sound
<1> QED
  BY <1>1, <1>2, <1>3 DEF PublishStale, Show, Publishing

LEMMA StaleMoves ==
    ASSUME Sound, NEW x \in Requests \cup Users, PublishStale(x), NEW t, t = rel[x].turn
    PROVE  \/ /\ pump' = [pump EXCEPT ![t] = AfterCancel(@)]
              /\ lockq' = Withdraw({Rel(x), Pump(t)}, lockq)
              /\ At(x, "draining")
           \/ /\ UNCHANGED pump /\ TM!Runs(ThreadOf[t], t)
              /\ lockq' = Last(Rel(x), Withdraw({Rel(x)}, lockq))
              /\ At(x, "idling")
           \/ /\ UNCHANGED pump /\ ~TM!Runs(ThreadOf[t], t)
              /\ lockq' = Withdraw({Rel(x)}, lockq)
              /\ At(x, "none")
<1>1. rel[x].op = t /\ op[t].task = t /\ t # None
  BY StaleFacts, SoundTypes
<1>2. CASE pump[t] # "done"
  BY <1>1, <1>2 DEF PublishStale
<1>3. CASE pump[t] = "done"
  BY <1>1, <1>3 DEF PublishStale, Conclude
<1> QED
  BY <1>2, <1>3

LEMMA QueuedKept ==
    ASSUME Sound, Queued, Next
    PROVE  Queued'
<1> SUFFICES ASSUME NEW q \in Requests
             PROVE  /\ phase'[q] \in Publications => lockq'[Req(q)] # {}
                    /\ pump'[q] \in {"failing", "idling"} => lockq'[Pump(q)] # {}
                    /\ rel'[q].at \in {"erring", "idling"} => lockq'[Rel(q)] # {}
  BY DEF Queued, Waits
<1> DEFINE Goal == /\ phase'[q] \in Publications => lockq'[Req(q)] # {}
                   /\ pump'[q] \in {"failing", "idling"} => lockq'[Pump(q)] # {}
                   /\ rel'[q].at \in {"erring", "idling"} => lockq'[Rel(q)] # {}
<1>0. /\ phase \in [Requests -> Phases] /\ pump \in [Requests -> PumpStates]
      /\ rel \in [Requests \cup Users -> ReleaseViews]
      /\ QueueOK(lockq) /\ Requests \cap Users = {}
      /\ phase[q] \in Publications => lockq[Req(q)] # {}
      /\ pump[q] \in {"failing", "idling"} => lockq[Pump(q)] # {}
      /\ rel[q].at \in {"erring", "idling"} => lockq[Rel(q)] # {}
  BY SoundTypes, TypeParts, Parameters DEF Parameters, Sound, Base, Queued, Waits
<1>n. /\ Reader \in Tasks
      /\ \A r \in Requests : Req(r) \in Tasks /\ Pump(r) \in Tasks
      /\ \A x \in Requests \cup Users : Rel(x) \in Tasks
  BY TaskNames
<1>u. ASSUME phase'[q] = phase[q], pump'[q] = pump[q], rel'[q] = rel[q],
             NEW p \in Tasks, p # Req(q), p # Pump(q), p # Rel(q),
             lockq' \in {lockq, Withdraw({p}, lockq), Last(p, lockq), Last(p, Withdraw({p}, lockq))}
      PROVE  Goal
  <2>1. \A t \in Tasks \ {p} : lockq[t] # {} => lockq'[t] # {}
    BY <1>0, <1>u, LockMoves
  <2> QED
    BY <1>0, <1>n, <1>u, <2>1
<1> HIDE DEF Goal
<1>1. ASSUME NEW r \in Requests, Reserve(r) \/ RequestSteps(r) PROVE Goal
  <2>1. /\ lockq' \in {lockq, Withdraw({Req(r)}, lockq), Last(Req(r), lockq),
                       Last(Req(r), Withdraw({Req(r)}, lockq))}
        /\ UNCHANGED rel /\ \A s \in Requests \ {r} : phase'[s] = phase[s] /\ pump'[s] = pump[s]
    BY <1>0, <1>1 DEF Reserve, RequestSteps, Refuse, PublishStarting, StartingFails, Authorize,
       RequestFails, GiveUp, TurnStarted, PublishUserItem, GoalStarted, PublishRunning,
       PublicationFails, PublishClosing, Enqueue, Release, Requeue
  <2>2. CASE r # q
    BY <1>u, <1>n, <2>1, <2>2, NamesDiffer
  <2>3. CASE r = q
    <3>1. pump'[q] = pump[q] \/ pump'[q] = "created"
      BY <1>0, <1>1, <2>3 DEF Reserve, RequestSteps, Refuse, PublishStarting, StartingFails, Authorize,
       RequestFails, TurnStarted, PublishUserItem, GoalStarted, PublishRunning,
       PublicationFails, PublishClosing
    <3>2. \/ phase'[q] \notin Publications
          \/ lockq' \in {Last(Req(q), lockq), Last(Req(q), Withdraw({Req(q)}, lockq))}
      BY <1>0, <1>1, <2>3 DEF Reserve, RequestSteps, Refuse, PublishStarting, StartingFails, Authorize,
       RequestFails, GiveUp, TurnStarted, PublishUserItem, GoalStarted, PublishRunning,
       PublicationFails, PublishClosing, Enqueue, Release, Requeue, Publications
    <3>3. \A t \in Tasks \ {Req(q)} : lockq[t] # {} => lockq'[t] # {}
      BY <1>0, <1>n, <2>1, <2>3, LockMoves
    <3>4. phase'[q] \in Publications => lockq'[Req(q)] # {}
      BY <1>0, <1>n, <3>2, LockJoins
    <3> QED
      BY <1>0, <1>n, <2>1, <2>3, <3>1, <3>3, <3>4, NamesDiffer DEF Goal
  <2> QED
    BY <2>2, <2>3
<1>2. ASSUME NEW r \in Requests, PumpSteps(r) \/ StreamFails(r) \/ CodexAccepts(r) \/ CodexEnds(r) PROVE Goal
  <2>1. /\ lockq' \in {lockq, Withdraw({Pump(r)}, lockq), Last(Pump(r), lockq),
                       Last(Pump(r), Withdraw({Pump(r)}, lockq))}
        /\ UNCHANGED <<phase, rel>> /\ \A s \in Requests \ {r} : pump'[s] = pump[s]
    BY <1>0, <1>2 DEF PumpSteps, StreamFails, CodexAccepts, CodexEnds, PumpStarts, StreamEnds,
       PumpCancelled, PublishStreamError, PublishPumpIdle, EndPump, Enqueue, Release, Requeue
  <2>2. CASE r # q
    BY <1>u, <1>n, <2>1, <2>2, NamesDiffer
  <2>3. CASE r = q
    <3>1. \/ pump'[q] \notin {"failing", "idling"}
          \/ lockq' \in {Last(Pump(q), lockq), Last(Pump(q), Withdraw({Pump(q)}, lockq))}
          \/ lockq' = lockq /\ pump'[q] = pump[q]
      BY <1>0, <1>2, <2>3 DEF PumpSteps, StreamFails, CodexAccepts, CodexEnds, PumpStarts, StreamEnds,
       PumpCancelled, PublishStreamError, PublishPumpIdle, EndPump, Enqueue, Release, Requeue
    <3>3. \A t \in Tasks \ {Pump(q)} : lockq[t] # {} => lockq'[t] # {}
      BY <1>0, <1>n, <2>1, <2>3, LockMoves
    <3>4. pump'[q] \in {"failing", "idling"} => lockq'[Pump(q)] # {}
      BY <1>0, <1>n, <3>1, LockJoins
    <3> QED
      BY <1>0, <1>n, <2>1, <3>3, <3>4, NamesDiffer DEF Goal
  <2> QED
    BY <2>2, <2>3
<1>a. ASSUME NEW x \in Requests \cup Users, NEW s, At(x, s)
      PROVE  rel'[x].at = s /\ \A y \in (Requests \cup Users) \ {x} : rel'[y] = rel[y]
  BY <1>0, <1>a DEF At, ReleaseViews
\* A step of a releaser that either leaves the lock or comes last.
<1>r. ASSUME NEW x \in Requests \cup Users, UNCHANGED phase,
             \A y \in (Requests \cup Users) \ {x} : rel'[y] = rel[y],
             \/ rel'[x].at \notin {"erring", "idling"} /\ lockq' \in {lockq, Withdraw({Rel(x)}, lockq)}
             \/ lockq' \in {Last(Rel(x), lockq), Last(Rel(x), Withdraw({Rel(x)}, lockq))},
             pump'[q] = pump[q]
      PROVE  Goal
  <2>1. CASE x # q
    BY <1>u, <1>n, <1>r, <2>1, NamesDiffer
  <2>2. CASE x = q
    <3>1. \A t \in Tasks \ {Rel(q)} : lockq[t] # {} => lockq'[t] # {}
      BY <1>0, <1>n, <1>r, <2>2, LockMoves
    <3>2. rel'[q].at \in {"erring", "idling"} => lockq'[Rel(q)] # {}
      BY <1>0, <1>n, <1>r, <2>2, LockJoins
    <3> QED
      BY <1>0, <1>n, <1>r, <3>1, <3>2, NamesDiffer DEF Goal
  <2> QED
    BY <2>1, <2>2
<1>3. ASSUME NEW x \in Requests \cup Users, PublishStale(x) PROVE Goal
  <2>1. PICK t : t = rel[x].turn
    OBVIOUS
  <2>2. t \in Requests /\ UNCHANGED phase
    BY <1>3, <2>1, StaleFacts
  <2>3. CASE pump' = [pump EXCEPT ![t] = AfterCancel(@)] /\ lockq' = Withdraw({Rel(x), Pump(t)}, lockq)
             /\ At(x, "draining")
    <3>1. pump'[t] \notin {"failing", "idling"} /\ \A s \in Requests \ {t} : pump'[s] = pump[s]
      BY <1>0, <2>2, <2>3 DEF AfterCancel
    <3>2. rel'[x].at = "draining" /\ \A y \in (Requests \cup Users) \ {x} : rel'[y] = rel[y]
      BY <1>a, <2>3
    <3>3. \A p \in Tasks \ {Rel(x), Pump(t)} : lockq[p] # {} => lockq'[p] # {}
      BY <1>0, <2>3, LockLeft
    <3>4. pump'[q] \in {"failing", "idling"} => lockq'[Pump(q)] # {}
      BY <1>0, <1>n, <2>2, <3>1, <3>3, NamesDiffer
    <3>5. rel'[q].at \in {"erring", "idling"} => lockq'[Rel(q)] # {}
      BY <1>0, <1>n, <2>2, <3>2, <3>3, NamesDiffer
    <3> QED
      BY <1>0, <1>n, <2>2, <3>3, <3>4, <3>5, NamesDiffer DEF Goal
  <2>4. CASE /\ UNCHANGED pump
             /\ \/ lockq' = Last(Rel(x), Withdraw({Rel(x)}, lockq)) /\ At(x, "idling")
                \/ lockq' = Withdraw({Rel(x)}, lockq) /\ At(x, "none")
    BY <1>a, <1>r, <2>2, <2>4
  <2>5. \/ /\ pump' = [pump EXCEPT ![t] = AfterCancel(@)] /\ lockq' = Withdraw({Rel(x), Pump(t)}, lockq)
           /\ At(x, "draining")
        \/ UNCHANGED pump /\ lockq' = Last(Rel(x), Withdraw({Rel(x)}, lockq)) /\ At(x, "idling")
        \/ UNCHANGED pump /\ lockq' = Withdraw({Rel(x)}, lockq) /\ At(x, "none")
    BY <1>3, <2>1, StaleMoves
  <2> QED
    BY <2>3, <2>4, <2>5
<1>4. ASSUME NEW x \in Requests \cup Users, Drained(x) \/ PublishReleased(x) PROVE Goal
  <2>1. /\ UNCHANGED <<phase, pump>>
        /\ \/ At(x, "none") /\ lockq' \in {lockq, Withdraw({Rel(x)}, lockq)}
           \/ At(x, "idling") /\ lockq' = Last(Rel(x), lockq)
    BY <1>4 DEF Drained, PublishReleased, Conclude, Release
  <2> QED
    BY <1>a, <1>r, <2>1
<1>b. ASSUME NEW x \in Requests \cup Users, NEW t, BeginRelease(x, t), UNCHANGED <<phase, pump>> PROVE Goal
  <2>1. \A y \in (Requests \cup Users) \ {x} : rel'[y] = rel[y]
    BY <1>0, <1>b DEF BeginRelease
  <2>2. \/ rel'[x].at = "none" /\ lockq' = lockq
        \/ lockq' = Last(Rel(x), lockq)
    BY <1>0, <1>b DEF BeginRelease, Idle, Enqueue
  <2> QED
    BY <1>b, <1>r, <2>1, <2>2
<1>5. ASSUME NEW u \in Users, UserSteps(u) PROVE Goal
  <2>1. CASE InterruptFindsStale(u)
    BY <1>b, <2>1 DEF InterruptFindsStale
  <2>2. CASE InterruptReturns(u) \/ InterruptFails(u) \/ PublishStopping(u)
    <3>1. /\ UNCHANGED <<phase, pump>>
          /\ \/ At(u, "none") /\ lockq' \in {lockq, Withdraw({Rel(u)}, lockq)}
             \/ At(u, "stopping") /\ lockq' = Last(Rel(u), lockq)
      BY <2>2 DEF InterruptReturns, InterruptFails, PublishStopping, Enqueue, Release
    <3> QED
      BY <1>a, <1>r, <3>1
  <2> QED
    BY <1>5, <2>1, <2>2 DEF UserSteps
<1>6. ASSUME NEW u \in Users, NEW k \in Keys, CallInterrupt(u, k) PROVE Goal
  <2>1. \A y \in (Requests \cup Users) \ {u} : rel'[y] = rel[y]
    BY <1>0, <1>6 DEF CallInterrupt
  <2>2. rel'[u].at = "calling" /\ UNCHANGED <<phase, pump, lockq>>
    BY <1>0, <1>6 DEF CallInterrupt
  <2> QED
    BY <1>r, <2>1, <2>2
<1>7. ASSUME NEW r \in Requests, Wake(r) PROVE Goal
  BY <1>b, <1>7 DEF Wake
<1>8. ASSUME ReadNotice \/ NoticeFails \/ PublishNotice PROVE Goal
  <2>1. UNCHANGED <<phase, pump>> /\ (rel'[q] = rel[q] \/ rel'[q].at = "sleeping")
    BY <1>0, <1>8 DEF ReadNotice, NoticeFails, PublishNotice
  <2>2. lockq' \in {Withdraw({Reader}, lockq), Last(Reader, lockq)}
    BY <1>8 DEF ReadNotice, NoticeFails, PublishNotice, Enqueue, Release
  <2>3. \A t \in Tasks \ {Reader} : lockq[t] # {} => lockq'[t] # {}
    BY <1>0, <1>n, <2>2, LockMoves
  <2> QED
    BY <1>0, <1>n, <2>1, <2>3, NamesDiffer DEF Goal
<1>9. ASSUME CancelPumps PROVE Goal
  <2>1. /\ pump' = [r \in Requests |-> IF r \in StopTasks THEN AfterCancel(pump[r]) ELSE pump[r]]
        /\ lockq' = Withdraw({Pump(r) : r \in StopTasks}, lockq)
        /\ UNCHANGED <<phase, rel>>
    BY <1>9 DEF CancelPumps
  <2>2. StopTasks \subseteq Requests
    BY SoundTypes DEF StopTasks, StopViews, TM!ActiveTurn
  <2>3. q \in StopTasks => pump'[q] \notin {"failing", "idling"}
    BY <2>1 DEF AfterCancel
  <2>4. \A t \in Tasks : t \notin {Pump(r) : r \in StopTasks} /\ lockq[t] # {} => lockq'[t] # {}
    BY <1>0, <2>1, LockLeft
  <2>5. Pump(q) \in {Pump(r) : r \in StopTasks} => q \in StopTasks
    BY <2>2, NamesDiffer
  <2>6. Req(q) \notin {Pump(r) : r \in StopTasks} /\ Rel(q) \notin {Pump(r) : r \in StopTasks}
    BY <2>2, NamesDiffer
  <2> QED
    BY <1>0, <1>n, <2>1, <2>3, <2>4, <2>5, <2>6 DEF Goal
<1>10. ASSUME BeginShutdown \/ InterruptsDone \/ ClearRegistry PROVE Goal
  BY <1>0, <1>10 DEF BeginShutdown, InterruptsDone, ClearRegistry, Goal
<1>11. ASSUME NEW k \in Keys, BeginMutation(k) \/ EndMutation(k) PROVE Goal
  BY <1>0, <1>11 DEF BeginMutation, EndMutation, Goal
<1> QED
  BY <1>1, <1>2, <1>3, <1>4, <1>5, <1>6, <1>7, <1>8, <1>9, <1>10, <1>11
     DEF Next, ReleaseSteps, ReaderSteps, StopSteps, Goal

\* Nobody interrupts and the service still accepts requests.
Serving ==
    /\ Sound /\ Home /\ Queued
    /\ accepting
    /\ Users = {} /\ "lookup" \notin Faults

\* Task t is still before everybody it was before.
StillBefore(t) ==
    \A a \in Tasks : t \in lockq[a] /\ lockq'[a] # {} => t \in lockq'[a]

LEMMA ServingFacts ==
    Serving =>
        /\ phase \in [Requests -> Phases] /\ pump \in [Requests -> PumpStates]
        /\ rel \in [Requests -> ReleaseViews]
        /\ active \in [Keys -> Requests \cup {None}]
        /\ QueueOK(lockq)
        /\ stop.at = "none" /\ None \notin Requests
        /\ Requests \cup Users = Requests
        /\ \A r \in Requests :
              /\ ThreadOf[r] \in Keys
              /\ Operates(r) => active[ThreadOf[r]] = r
              /\ rel[r].at # "none" => rel[r].turn = r /\ op[r].turn = r
              /\ op[r].turn # None <=> phase[r] \in {"userItem", "running", "accepted"}
              /\ phase[r] \in Publications => Req(r) \in lockq[Req(r)]
              /\ pump[r] \in {"failing", "idling"} => Pump(r) \in lockq[Pump(r)]
              /\ rel[r].at \in {"erring", "idling"} => Rel(r) \in lockq[Rel(r)]
<1> SUFFICES ASSUME Serving
             PROVE  /\ phase \in [Requests -> Phases] /\ pump \in [Requests -> PumpStates]
                    /\ rel \in [Requests -> ReleaseViews]
                    /\ active \in [Keys -> Requests \cup {None}]
                    /\ QueueOK(lockq)
                    /\ stop.at = "none" /\ None \notin Requests
                    /\ Requests \cup Users = Requests
                    /\ \A r \in Requests :
                          /\ ThreadOf[r] \in Keys
                          /\ Operates(r) => active[ThreadOf[r]] = r
                          /\ rel[r].at # "none" => rel[r].turn = r /\ op[r].turn = r
                          /\ op[r].turn # None <=> phase[r] \in {"userItem", "running", "accepted"}
                          /\ phase[r] \in Publications => Req(r) \in lockq[Req(r)]
                          /\ pump[r] \in {"failing", "idling"} => Pump(r) \in lockq[Pump(r)]
                          /\ rel[r].at \in {"erring", "idling"} => Rel(r) \in lockq[Rel(r)]
  OBVIOUS
<1>0. Sound /\ Requests \cup Users = Requests
  BY DEF Serving
<1>1. QueueOK(lockq)
  BY <1>0, TypeParts DEF Sound, Base
<1>2. stop.at = "none"
  BY <1>0 DEF Serving, Sound, Ownership, Shutdown
<1>3. ASSUME NEW r \in Requests
      PROVE  /\ Operates(r) => active[ThreadOf[r]] = r
             /\ rel[r].at # "none" => rel[r].turn = r /\ op[r].turn = r
             /\ op[r].turn # None <=> phase[r] \in {"userItem", "running", "accepted"}
  <2>1. rel[r].at # "none" => rel[r].turn = r /\ op[r].turn = r
    BY <1>0, SoundTypes DEF Sound, Ownership, Releasers, ReleaserOK
  <2> QED
    BY <1>0, <2>1, Owners DEF Sound, Ownership, Progress
<1>4. ASSUME NEW r \in Requests
      PROVE  /\ phase[r] \in Publications => Req(r) \in lockq[Req(r)]
             /\ pump[r] \in {"failing", "idling"} => Pump(r) \in lockq[Pump(r)]
             /\ rel[r].at \in {"erring", "idling"} => Rel(r) \in lockq[Rel(r)]
  BY <1>0, <1>1, TaskNames DEF Serving, Queued, Waits, QueueOK
<1> QED
  BY <1>0, <1>1, <1>2, <1>3, <1>4, SoundTypes

\* The steps of whoever does not publish a status.
Aside ==
    /\ UNCHANGED <<active, phase, pump, shown>>
    /\ lockq' \in {lockq, Withdraw({Reader}, lockq), Last(Reader, lockq)}
    /\ \A r \in Requests : rel'[r] = rel[r] \/ (rel[r].at = "none" /\ rel'[r].at = "sleeping")

LEMMA ServingSteps ==
    ASSUME Serving, Next, accepting'
    PROVE  \/ \E r \in Requests : Reserve(r) \/ RequestSteps(r) \/ Wake(r)
           \/ \E r \in Requests : PumpSteps(r) \/ StreamFails(r) \/ ReleaseSteps(r)
           \/ Aside
<1>0. rel \in [Requests -> ReleaseViews] /\ stop.at = "none" /\ Requests \cup Users = Requests
  BY ServingFacts
<1>1. ASSUME NEW r \in Requests, CodexAccepts(r) \/ CodexEnds(r) PROVE Aside
  BY <1>1 DEF CodexAccepts, CodexEnds, Aside, registry
<1>2. ASSUME NEW k \in Keys, BeginMutation(k) \/ EndMutation(k) PROVE Aside
  BY <1>2 DEF BeginMutation, EndMutation, TM!ReserveMutation, TM!FinishMutation, Aside
<1>3. ASSUME ReadNotice \/ NoticeFails PROVE Aside
  BY <1>3 DEF ReadNotice, NoticeFails, Enqueue, Release, Aside, registry
<1>4. ASSUME PublishNotice PROVE Aside
  <2>1. \A r \in Requests : rel'[r] = rel[r] \/ (rel[r].at = "none" /\ rel'[r].at = "sleeping")
    BY <1>0, <1>4 DEF PublishNotice
  <2> QED
    BY <1>4, <2>1 DEF PublishNotice, Release, Aside, registry
<1>5. ~BeginShutdown /\ ~StopSteps
  BY <1>0 DEF BeginShutdown, TM!CloseGate, StopSteps, InterruptsDone, CancelPumps, ClearRegistry
<1>6. Users = {}
  BY DEF Serving
<1> QED
  BY <1>0, <1>1, <1>2, <1>3, <1>4, <1>5, <1>6 DEF Next, ReaderSteps

\* Who leaves the lock, or comes last, does not change who is before whom otherwise.
LEMMA LockStays ==
    ASSUME QueueOK(lockq), NEW t \in Tasks, lockq[t] # {}, NEW S, t \notin S, NEW p \in Tasks,
           lockq' \in {lockq, Withdraw(S, lockq), Last(p, lockq), Last(p, Withdraw(S, lockq))}
    PROVE  StillBefore(t)
<1>1. CASE lockq' = lockq
  BY <1>1 DEF StillBefore
<1>2. CASE lockq' = Withdraw(S, lockq)
  BY <1>2 DEF QueueOK, Withdraw, StillBefore
<1>3. CASE lockq' = Last(p, lockq)
  BY <1>3 DEF QueueOK, Last, StillBefore
<1>4. CASE lockq' = Last(p, Withdraw(S, lockq))
  BY <1>4 DEF QueueOK, Withdraw, Last, StillBefore
<1> QED
  BY <1>1, <1>2, <1>3, <1>4

\* Who publishes the error of a Turn in its reconciliation is that Turn's own task.
LEMMA StaleSteps ==
    ASSUME Serving, NEW r \in Requests, PublishStale(r)
    PROVE  /\ phase[r] \in {"running", "accepted"} /\ op[r].turn = r
           /\ lockq[Rel(r)] = {Rel(r)} /\ rel[r].at = "erring" /\ rel[r].turn = r
           /\ shown' = [shown EXCEPT ![ThreadOf[r]] = "error"]
           /\ UNCHANGED <<active, phase, op>>
<1>0. Sound /\ rel[r].turn = r /\ r \in Requests \cup Users
  BY ServingFacts DEF Serving, PublishStale
<1> QED
  BY <1>0, StaleFacts

\* It cancels and awaits the pump, or it was done: then it may have to free the Thread.
LEMMA StaleEffects ==
    ASSUME Serving, NEW r \in Requests, PublishStale(r)
    PROVE  \/ pump' = [pump EXCEPT ![r] = AfterCancel(@)] /\ At(r, "draining")
              /\ lockq' = Withdraw({Rel(r), Pump(r)}, lockq)
           \/ UNCHANGED pump /\ At(r, "idling")
              /\ lockq' = Last(Rel(r), Withdraw({Rel(r)}, lockq))
           \/ UNCHANGED pump /\ At(r, "none") /\ active[ThreadOf[r]] # r
              /\ lockq' = Withdraw({Rel(r)}, lockq)
<1>0. Sound /\ rel[r].turn = r /\ r \in Requests \cup Users /\ op[r].turn = r /\ r # None
  BY ServingFacts, StaleSteps DEF Serving
<1>1. \/ /\ pump' = [pump EXCEPT ![r] = AfterCancel(@)]
         /\ lockq' = Withdraw({Rel(r), Pump(r)}, lockq)
         /\ At(r, "draining")
      \/ /\ UNCHANGED pump /\ TM!Runs(ThreadOf[r], r)
         /\ lockq' = Last(Rel(r), Withdraw({Rel(r)}, lockq))
         /\ At(r, "idling")
      \/ /\ UNCHANGED pump /\ ~TM!Runs(ThreadOf[r], r)
         /\ lockq' = Withdraw({Rel(r)}, lockq)
         /\ At(r, "none")
  BY <1>0, StaleMoves
<1>2. ~TM!Runs(ThreadOf[r], r) => active[ThreadOf[r]] # r
  BY <1>0 DEF TM!Runs, TM!Held
<1> QED
  BY <1>1, <1>2

LEMMA AtMoves ==
    ASSUME Serving, NEW r \in Requests, NEW s, At(r, s)
    PROVE  rel'[r].at = s /\ \A q \in Requests \ {r} : rel'[q] = rel[q]
<1>1. rel \in [Requests -> ReleaseViews] /\ Requests \cup Users = Requests
  BY ServingFacts
<1> QED
  BY <1>1 DEF At, ReleaseViews

LEMMA PlacesKept ==
    ASSUME Serving, Next, accepting', NEW r \in Requests
    PROVE  /\ phase'[r] = phase[r] /\ phase[r] \in Publications => StillBefore(Req(r))
           /\ pump'[r] = pump[r] /\ pump[r] = "idling" => StillBefore(Pump(r))
           /\ rel'[r] = rel[r] /\ rel[r].at = "erring" => StillBefore(Rel(r))
<1> DEFINE Goal == /\ phase'[r] = phase[r] /\ phase[r] \in Publications => StillBefore(Req(r))
                   /\ pump'[r] = pump[r] /\ pump[r] = "idling" => StillBefore(Pump(r))
                   /\ rel'[r] = rel[r] /\ rel[r].at = "erring" => StillBefore(Rel(r))
<1>0. /\ phase \in [Requests -> Phases] /\ pump \in [Requests -> PumpStates]
      /\ rel \in [Requests -> ReleaseViews]
      /\ Requests \cup Users = Requests
      /\ QueueOK(lockq)
      /\ phase[r] \in Publications => lockq[Req(r)] # {}
      /\ pump[r] = "idling" => lockq[Pump(r)] # {}
      /\ rel[r].at = "erring" => lockq[Rel(r)] # {}
  BY ServingFacts
<1>n. Req(r) \in Tasks /\ Pump(r) \in Tasks /\ Rel(r) \in Tasks /\ Reader \in Tasks
  BY TaskNames
\* The tasks that leave did something.
<1>1. ASSUME NEW S, NEW p \in Tasks,
             lockq' \in {lockq, Withdraw(S, lockq), Last(p, lockq), Last(p, Withdraw(S, lockq))},
             Req(r) \in S => phase'[r] # phase[r],
             Pump(r) \in S => pump'[r] # pump[r] \/ pump[r] # "idling",
             Rel(r) \in S => rel'[r] # rel[r]
      PROVE  Goal
  BY <1>0, <1>1, <1>n, LockStays
<1>m. ASSUME NEW a \in Tasks,
             lockq' \in {lockq, Withdraw({a}, lockq), Last(a, lockq), Last(a, Withdraw({a}, lockq))},
             a = Req(r) => phase'[r] # phase[r],
             a = Pump(r) => pump'[r] # pump[r],
             a = Rel(r) => rel'[r] # rel[r] \/ lockq' \in {lockq, Last(a, lockq)}
      PROVE  Goal
  <2>1. CASE lockq' \in {lockq, Last(a, lockq)}
    <3>1. lockq' \in {lockq, Withdraw({}, lockq), Last(a, lockq), Last(a, Withdraw({}, lockq))}
      BY <2>1
    <3> QED
      BY <1>1, <1>m, <3>1
  <2>2. CASE lockq' \notin {lockq, Last(a, lockq)}
    <3>1. lockq' \in {lockq, Withdraw({a}, lockq), Last(a, lockq), Last(a, Withdraw({a}, lockq))}
      BY <1>m
    <3>2. /\ Req(r) \in {a} => phase'[r] # phase[r]
          /\ Pump(r) \in {a} => pump'[r] # pump[r] \/ pump[r] # "idling"
          /\ Rel(r) \in {a} => rel'[r] # rel[r]
      BY <1>m, <2>2
    <3> HIDE DEF Goal
    <3> QED
      BY <1>1, <3>1, <3>2
  <2> QED
    BY <2>1, <2>2
<1> HIDE DEF Goal
<1>2. ASSUME NEW q \in Requests, Reserve(q) \/ RequestSteps(q) PROVE Goal
  <2>1. lockq' \in {lockq, Withdraw({Req(q)}, lockq), Last(Req(q), lockq),
                    Last(Req(q), Withdraw({Req(q)}, lockq))}
    BY <1>2 DEF Reserve, RequestSteps, Refuse, PublishStarting, StartingFails, Authorize,
       RequestFails, GiveUp, TurnStarted, PublishUserItem, GoalStarted, PublishRunning,
       PublicationFails, PublishClosing, Enqueue, Release, Requeue
  <2>2. phase'[q] # phase[q]
    BY <1>0, <1>2 DEF Reserve, RequestSteps, Refuse, PublishStarting, StartingFails, Authorize,
       RequestFails, GiveUp, TurnStarted, PublishUserItem, GoalStarted, PublishRunning,
       PublicationFails, PublishClosing
  <2>3. /\ Req(q) \in Tasks
        /\ Req(q) = Req(r) => q = r
        /\ Req(q) # Pump(r) /\ Req(q) # Rel(r)
    BY <1>0, TaskNames, NamesDiffer
  <2> QED
    BY <1>m, <2>1, <2>2, <2>3
<1>3. ASSUME NEW q \in Requests, PumpSteps(q) \/ StreamFails(q) PROVE Goal
  <2>1. lockq' \in {lockq, Withdraw({Pump(q)}, lockq), Last(Pump(q), lockq),
                    Last(Pump(q), Withdraw({Pump(q)}, lockq))}
    BY <1>3 DEF PumpSteps, StreamFails, PumpStarts, StreamEnds, PumpCancelled, PublishStreamError,
       PublishPumpIdle, Enqueue, Release, Requeue
  <2>2. pump'[q] # pump[q]
    BY <1>0, <1>3 DEF PumpSteps, StreamFails, PumpStarts, StreamEnds, PumpCancelled,
       PublishStreamError, PublishPumpIdle, EndPump
  <2>3. /\ Pump(q) \in Tasks
        /\ Pump(q) = Pump(r) => q = r
        /\ Pump(q) # Req(r) /\ Pump(q) # Rel(r)
    BY <1>0, TaskNames, NamesDiffer
  <2> QED
    BY <1>m, <2>1, <2>2, <2>3
<1>4. ASSUME NEW q \in Requests, Wake(q) PROVE Goal
  <2>1. lockq' \in {lockq, Last(Rel(q), lockq)}
    BY <1>4 DEF Wake, BeginRelease, Enqueue
  <2>2. Rel(q) \in Tasks /\ Rel(q) # Req(r) /\ Rel(q) # Pump(r)
    BY <1>0, TaskNames, NamesDiffer
  <2> QED
    BY <1>m, <2>1, <2>2
<1>5. ASSUME NEW q \in Requests, PublishStale(q) PROVE Goal
  <2>1. \/ pump' = [pump EXCEPT ![q] = AfterCancel(@)] /\ At(q, "draining")
           /\ lockq' = Withdraw({Rel(q), Pump(q)}, lockq)
        \/ At(q, "idling") /\ lockq' = Last(Rel(q), Withdraw({Rel(q)}, lockq))
        \/ At(q, "none") /\ lockq' = Withdraw({Rel(q)}, lockq)
    BY <1>5, StaleEffects
  <2>2. rel[q].at = "erring" /\ \A s : At(q, s) => rel'[q].at = s
    BY <1>5, StaleSteps, AtMoves
  <2>3. rel'[q] # rel[q]
    BY <2>1, <2>2
  <2>4. /\ Rel(q) \in Tasks
        /\ Rel(q) = Rel(r) => q = r
        /\ Pump(q) = Pump(r) => q = r
        /\ Rel(q) # Req(r) /\ Rel(q) # Pump(r)
        /\ Pump(q) # Req(r) /\ Pump(q) # Rel(r)
    BY <1>0, TaskNames, NamesDiffer
  <2>5. CASE lockq' \in {Withdraw({Rel(q)}, lockq), Last(Rel(q), Withdraw({Rel(q)}, lockq))}
    BY <1>m, <2>3, <2>4, <2>5
  <2>6. CASE /\ pump' = [pump EXCEPT ![q] = AfterCancel(@)]
             /\ lockq' = Withdraw({Rel(q), Pump(q)}, lockq)
    <3> DEFINE S == {Rel(q), Pump(q)}
    <3>1. /\ Req(r) \in S => phase'[r] # phase[r]
          /\ Pump(r) \in S => pump'[r] # pump[r] \/ pump[r] # "idling"
          /\ Rel(r) \in S => rel'[r] # rel[r]
      BY <1>0, <2>3, <2>4, <2>6 DEF AfterCancel
    <3>2. lockq' \in {lockq, Withdraw(S, lockq), Last(Reader, lockq), Last(Reader, Withdraw(S, lockq))}
      BY <2>6
    <3> HIDE DEF S
    <3> QED
      BY <1>1, <1>n, <3>1, <3>2
  <2> QED
    BY <2>1, <2>5, <2>6
<1>6. ASSUME NEW q \in Requests, Drained(q) \/ PublishReleased(q) PROVE Goal
  <2>1. lockq' \in {lockq, Last(Rel(q), lockq), Withdraw({Rel(q)}, lockq)}
    BY <1>6 DEF Drained, PublishReleased, Conclude, Release
  <2>2. rel'[q] # rel[q]
    BY <1>0, <1>6 DEF Drained, PublishReleased, Conclude, At, ReleaseViews
  <2>3. /\ Rel(q) \in Tasks
        /\ Rel(q) = Rel(r) => q = r
        /\ Rel(q) # Req(r) /\ Rel(q) # Pump(r)
    BY <1>0, TaskNames, NamesDiffer
  <2> QED
    BY <1>m, <2>1, <2>2, <2>3
<1>7. ASSUME Aside PROVE Goal
  <2>1. lockq' \in {lockq, Withdraw({Reader}, lockq), Last(Reader, lockq)}
    BY <1>7 DEF Aside
  <2> QED
    BY <1>0, <1>m, <1>n, <2>1, NamesDiffer
<1> QED
  BY <1>2, <1>3, <1>4, <1>5, <1>6, <1>7, ServingSteps DEF ReleaseSteps, Goal

\* Who was behind a task in the queue when it reserved the Thread still is.
LEMMA HeirKept ==
    ASSUME Serving, Next, accepting', NEW k \in Keys, NEW t \in Tasks, t \in lockq[t],
           StillBefore(t), Heir(k, t), phase[active[k]] = "starting" => t # Req(active[k])
    PROVE  Heir(k, t)'
<1> DEFINE o == active[k]
<1> SUFFICES ASSUME active'[k] # None
             PROVE  phase'[active'[k]] = "starting" /\ t \in lockq'[Req(active'[k])]
  BY DEF Heir, TM!Held
<1>0. /\ phase \in [Requests -> Phases] /\ active \in [Keys -> Requests \cup {None}]
      /\ QueueOK(lockq) /\ Base
      /\ None \notin Requests
  BY ServingFacts DEF Serving, Sound
<1>1. ASSUME NEW r \in Requests, Reserve(r), k = ThreadOf[r], active'[k] = r
      PROVE  phase'[active'[k]] = "starting" /\ t \in lockq'[Req(active'[k])]
  <2>1. phase'[r] = "starting" /\ lockq' = Last(Req(r), lockq)
    BY <1>0, <1>1 DEF Reserve, Enqueue
  <2>2. t \in lockq'[Req(r)]
    BY <1>0, <2>1, TaskNames DEF QueueOK, Last
  <2> QED
    BY <1>1, <2>1, <2>2
<1>2. CASE active'[k] = active[k]
  <2> PICK r \in Requests : r = active[k]
    BY <1>0, <1>2
  <2>1. phase[r] = "starting" /\ t \in lockq[Req(r)] /\ t # Req(r)
    BY <1>0, <1>2 DEF Heir, TM!Held
  <2>2. ~PublishStarting(r) /\ ~StartingFails(r)
    BY <2>1 DEF PublishStarting, StartingFails, Publishing
  <2>3. phase'[r] = "starting"
    <3>1. ASSUME NEW q \in Requests, q # r, Reserve(q) \/ RequestSteps(q) PROVE phase'[r] = phase[r]
      BY <1>0, <3>1 DEF Reserve, RequestSteps, Refuse, PublishStarting, StartingFails, Authorize,
         RequestFails, GiveUp, TurnStarted, PublishUserItem, GoalStarted, PublishRunning,
         PublicationFails, PublishClosing
    <3>2. ~Reserve(r) /\ ~RequestSteps(r)
      BY <2>1, <2>2 DEF Reserve, RequestSteps, Refuse, PublishStarting, StartingFails, Authorize,
         RequestFails, TurnStarted, PublishUserItem, GoalStarted, PublishRunning,
         PublicationFails, PublishClosing
    <3>3. ASSUME NEW q \in Requests,
                 Wake(q) \/ PumpSteps(q) \/ StreamFails(q) \/ ReleaseSteps(q) \/ Aside
          PROVE  phase'[r] = phase[r]
      BY <3>3 DEF Wake, PumpSteps, StreamFails, PumpStarts, StreamEnds, PumpCancelled, PublishStreamError,
         PublishPumpIdle, ReleaseSteps, PublishStale, Drained, PublishReleased, Aside
    <3> QED
      BY <2>1, <3>1, <3>2, <3>3, ServingSteps
  <2>4. lockq'[Req(r)] # {}
    BY <2>3, QueuedKept DEF Serving, Queued, Waits, Publications
  <2> QED
    BY <1>2, <2>1, <2>3, <2>4, TaskNames DEF StillBefore
<1> QED
  BY <1>0, <1>1, <1>2, OnlyReserveTakes

\* Who changes what of a request.
LEMMA PhaseMoves ==
    ASSUME Serving, Next, accepting', NEW r \in Requests
    PROVE  phase'[r] = phase[r] \/ Reserve(r) \/ RequestSteps(r)
<1>0. phase \in [Requests -> Phases]
  BY ServingFacts
<1>1. ASSUME NEW q \in Requests, q # r, Reserve(q) \/ RequestSteps(q) PROVE phase'[r] = phase[r]
  BY <1>0, <1>1 DEF Reserve, RequestSteps, Refuse, PublishStarting, StartingFails, Authorize,
     RequestFails, GiveUp, TurnStarted, PublishUserItem, GoalStarted, PublishRunning,
     PublicationFails, PublishClosing
<1>2. ASSUME NEW q \in Requests, Wake(q) \/ PumpSteps(q) \/ StreamFails(q) \/ ReleaseSteps(q) \/ Aside
      PROVE  phase'[r] = phase[r]
  BY <1>2 DEF Wake, PumpSteps, StreamFails, PumpStarts, StreamEnds, PumpCancelled, PublishStreamError,
     PublishPumpIdle, ReleaseSteps, PublishStale, Drained, PublishReleased, Aside
<1> QED
  BY <1>1, <1>2, ServingSteps

LEMMA PumpMoves ==
    ASSUME Serving, Next, accepting', NEW r \in Requests
    PROVE  \/ pump'[r] = pump[r]
           \/ PumpSteps(r) \/ StreamFails(r) \/ PublishStale(r)
           \/ (PublishUserItem(r) \/ GoalStarted(r)) /\ pump'[r] = "created"
<1>0. pump \in [Requests -> PumpStates]
  BY ServingFacts
<1>1. ASSUME NEW q \in Requests, Reserve(q) \/ RequestSteps(q)
      PROVE  pump'[r] = pump[r] \/ ((PublishUserItem(r) \/ GoalStarted(r)) /\ pump'[r] = "created")
  <2>1. CASE PublishUserItem(q) \/ GoalStarted(q)
    <3>1. UNCHANGED pump \/ pump' = [pump EXCEPT ![q] = "created"]
      BY <2>1 DEF PublishUserItem, GoalStarted
    <3> QED
      BY <1>0, <2>1, <3>1
  <2>2. CASE ~PublishUserItem(q) /\ ~GoalStarted(q)
    BY <1>1, <2>2 DEF Reserve, RequestSteps, Refuse, PublishStarting, StartingFails, Authorize,
     RequestFails, TurnStarted, PublishRunning, PublicationFails, PublishClosing
  <2> QED
    BY <2>1, <2>2
<1>2. ASSUME NEW q \in Requests, PumpSteps(q) \/ StreamFails(q), q # r PROVE pump'[r] = pump[r]
  BY <1>0, <1>2 DEF PumpSteps, StreamFails, PumpStarts, StreamEnds, PumpCancelled, PublishStreamError,
     PublishPumpIdle, EndPump
<1>3. ASSUME NEW q \in Requests, Wake(q) \/ Drained(q) \/ PublishReleased(q) \/ Aside
      PROVE  pump'[r] = pump[r]
  BY <1>3 DEF Wake, Drained, PublishReleased, Aside
<1>4. ASSUME NEW q \in Requests, PublishStale(q), q # r PROVE pump'[r] = pump[r]
  BY <1>0, <1>4, StaleEffects
<1> QED
  BY <1>1, <1>2, <1>3, <1>4, ServingSteps DEF ReleaseSteps

LEMMA ReleaseMoves ==
    ASSUME Serving, Next, accepting', NEW r \in Requests
    PROVE  \/ rel'[r] = rel[r]
           \/ Wake(r) \/ ReleaseSteps(r)
           \/ rel[r].at = "none" /\ rel'[r].at = "sleeping" /\ Aside
<1>0. rel \in [Requests -> ReleaseViews] /\ Requests \cup Users = Requests
  BY ServingFacts
<1>1. ASSUME NEW q \in Requests, Reserve(q) \/ RequestSteps(q) PROVE UNCHANGED rel
  BY <1>1 DEF Reserve, RequestSteps, Refuse, PublishStarting, StartingFails, Authorize,
     RequestFails, TurnStarted, PublishUserItem, GoalStarted, PublishRunning,
     PublicationFails, PublishClosing
<1>2. ASSUME NEW q \in Requests, PumpSteps(q) \/ StreamFails(q) PROVE UNCHANGED rel
  BY <1>2 DEF PumpSteps, StreamFails, PumpStarts, StreamEnds, PumpCancelled, PublishStreamError,
     PublishPumpIdle
<1>3. ASSUME NEW q \in Requests, Wake(q), q # r PROVE rel'[r] = rel[r]
  BY <1>0, <1>3 DEF Wake, BeginRelease
<1>4. ASSUME NEW q \in Requests, Drained(q) \/ PublishReleased(q), q # r PROVE rel'[r] = rel[r]
  BY <1>0, <1>4 DEF Drained, PublishReleased, Conclude, At
<1>5. ASSUME NEW q \in Requests, PublishStale(q), q # r PROVE rel'[r] = rel[r]
  <2>1. \E s : At(q, s)
    BY <1>5, StaleEffects
  <2> QED
    BY <1>0, <1>5, <2>1 DEF At
<1>6. ASSUME Aside PROVE rel'[r] = rel[r] \/ (rel[r].at = "none" /\ rel'[r].at = "sleeping")
  BY <1>6 DEF Aside
<1> QED
  BY <1>1, <1>2, <1>3, <1>4, <1>5, <1>6, ServingSteps DEF ReleaseSteps

\* A request loses its Thread by giving it back, in its handler, its pump or its
\* reconciliation.
LEMMA HolderMoves ==
    ASSUME Serving, Next, accepting', NEW r \in Requests,
           active[ThreadOf[r]] = r, active'[ThreadOf[r]] # r
    PROVE  \/ RequestFails(r)
           \/ StreamEnds(r) \/ PumpCancelled(r) \/ PublishStreamError(r)
           \/ PublishReleased(r)
<1> DEFINE k == ThreadOf[r]
<1>0. /\ active \in [Keys -> Requests \cup {None}] /\ None \notin Requests /\ Sound
      /\ Requests \cup Users = Requests /\ stop.at = "none"
      /\ \A q \in Requests : /\ ThreadOf[q] \in Keys
                             /\ Operates(q) => active[ThreadOf[q]] = q
                             /\ rel[q].at # "none" => rel[q].turn = q
  BY ServingFacts DEF Serving
<1>u. ASSUME UNCHANGED active PROVE FALSE
  BY <1>u
<1>f. ASSUME NEW q \in Requests, NEW t, TM!Finish(ThreadOf[q], t), active[ThreadOf[q]] \in {q, None}
      PROVE  q = r
  BY <1>0, <1>f DEF TM!Finish, TM!Releases, TM!Held
<1>1. ASSUME NEW q \in Requests, Reserve(q) PROVE FALSE
  BY <1>0, <1>1 DEF Reserve, TM!Reserve, TM!Reservable, TM!Held
<1>2. ASSUME NEW q \in Requests, RequestSteps(q) PROVE RequestFails(r)
  <2>1. ~PublicationFails(q)
    BY <1>0 DEF PublicationFails, WriteFails, Sound
  <2>2. CASE RequestFails(q)
    <3>1. TM!Finish(ThreadOf[q], None) /\ Operates(q)
      BY <2>2 DEF RequestFails, GiveUp, Operates
    <3> QED
      BY <1>0, <1>f, <2>2, <3>1
  <2>3. CASE ~RequestFails(q)
    <3>1. UNCHANGED active
      BY <1>2, <2>1, <2>3 DEF RequestSteps, Refuse, PublishStarting, StartingFails,
        Authorize, GiveUp, TurnStarted, TM!MarkRunning, PublishUserItem, TM!AttachTask,
        GoalStarted, PublishRunning, PublishClosing, registry, TM!Finish, TM!Releases
    <3> QED
      BY <1>u, <3>1
  <2> QED
    BY <2>2, <2>3
<1>3. ASSUME NEW q \in Requests, PumpSteps(q) \/ StreamFails(q)
      PROVE  StreamEnds(r) \/ PumpCancelled(r) \/ PublishStreamError(r)
  <2>1. CASE StreamEnds(q) \/ PumpCancelled(q) \/ PublishStreamError(q)
    <3>1. TM!Finish(ThreadOf[q], q) /\ Operates(q)
      BY <2>1 DEF StreamEnds, PumpCancelled, PublishStreamError, EndPump, Operates
    <3> QED
      BY <1>0, <1>f, <2>1, <3>1
  <2>2. CASE PumpStarts(q) \/ PublishPumpIdle(q) \/ StreamFails(q)
    BY <1>u, <2>2 DEF PumpStarts, PublishPumpIdle, StreamFails, registry
  <2> QED
    BY <1>3, <2>1, <2>2 DEF PumpSteps
<1>4. ASSUME NEW q \in Requests, ReleaseSteps(q) PROVE PublishReleased(r)
  <2>1. CASE PublishReleased(q)
    <3>1. TM!Finish(ThreadOf[q], q) /\ active[ThreadOf[q]] = q
      BY <1>0, <2>1, IdlersHold DEF PublishReleased, WriteFails, Sound
    <3> QED
      BY <1>0, <1>f, <2>1, <3>1
  <2>2. CASE PublishStale(q) \/ Drained(q)
    BY <1>u, <2>2 DEF PublishStale, Drained, registry
  <2> QED
    BY <1>4, <2>1, <2>2 DEF ReleaseSteps
<1>5. ASSUME NEW q \in Requests, Wake(q) \/ Aside PROVE FALSE
  BY <1>u, <1>5 DEF Wake, Aside, registry
<1> QED
  BY <1>1, <1>2, <1>3, <1>4, <1>5, ServingSteps

LEMMA RequestOrderKept ==
    ASSUME Serving, Next, accepting', NEW r \in Requests, Order(r)
    PROVE  /\ phase'[r] = "running" =>
                 active'[ThreadOf[r]] = r \/ (pump'[r] = "idling" /\ Req(r) \in lockq'[Pump(r)])
           /\ phase'[r] = "closing" => Heir(ThreadOf[r], Req(r))'
           /\ pump'[r] = "idling" => Heir(ThreadOf[r], Pump(r))'
<1> DEFINE k == ThreadOf[r]
<1>0. /\ phase \in [Requests -> Phases] /\ pump \in [Requests -> PumpStates]
      /\ rel \in [Requests -> ReleaseViews]
      /\ active \in [Keys -> Requests \cup {None}] /\ QueueOK(lockq)
      /\ None \notin Requests /\ Sound /\ Home
      /\ ThreadOf[r] \in Keys
      /\ Operates(r) => active[ThreadOf[r]] = r
      /\ phase[r] \in Publications => Req(r) \in lockq[Req(r)]
      /\ pump[r] = "idling" => Pump(r) \in lockq[Pump(r)]
  BY ServingFacts DEF Serving
<1>n. Req(r) \in Tasks /\ Pump(r) \in Tasks /\ Rel(r) \in Tasks
      /\ Req(r) # Pump(r) /\ Req(r) # Rel(r) /\ Pump(r) # Rel(r)
  <2>1. Requests \cup Users = Requests
    BY ServingFacts
  <2> QED
    BY <2>1, TaskNames, NamesDiffer
<1>q. Queued'
  BY QueuedKept DEF Serving
<1>w. ~PublicationFails(r) /\ ~StartingFails(r)
  BY DEF PublicationFails, StartingFails, WriteFails, LookupFails, Serving, Sound
<1>1. ASSUME phase'[r] = "running"
      PROVE  active'[k] = r \/ (pump'[r] = "idling" /\ Req(r) \in lockq'[Pump(r)])
  <2>1. CASE phase[r] # "running"
    <3>1. (PublishUserItem(r) \/ GoalStarted(r)) /\ Operates(r)
      BY <1>0, <1>1, <1>w, <2>1, PhaseMoves DEF Reserve, RequestSteps, Refuse, PublishStarting,
         Authorize, RequestFails, GiveUp, TurnStarted, PublishUserItem, GoalStarted,
         PublishRunning, PublishClosing, Operates
    <3>2. UNCHANGED active
      BY <1>0, <1>1, <3>1 DEF PublishUserItem, GoalStarted, GiveUp, TM!AttachTask
    <3> QED
      BY <1>0, <3>1, <3>2
  <2>2. CASE phase[r] = "running" /\ active[k] = r
    <3>1. ~RequestFails(r)
      BY <2>2 DEF RequestFails
    <3>2. ~PublishReleased(r)
      BY <2>2 DEF PublishReleased, Order
    <3>3. ASSUME StreamEnds(r) \/ PumpCancelled(r) \/ PublishStreamError(r)
          PROVE  pump'[r] = "idling" /\ Req(r) \in lockq'[Pump(r)]
      <4>1. pump'[r] = "idling" /\ lockq' \in {Last(Pump(r), lockq), Last(Pump(r), Withdraw({Pump(r)}, lockq))}
        BY <1>0, <3>3 DEF StreamEnds, PumpCancelled, PublishStreamError, EndPump, Enqueue, Requeue
      <4>2. lockq[Req(r)] # {}
        BY <1>0, <2>2 DEF Publications
      <4> QED
        BY <1>0, <1>n, <4>1, <4>2, LockJoins
    <3> QED
      BY <2>2, <3>1, <3>2, <3>3, HolderMoves
  <2>3. CASE phase[r] = "running" /\ active[k] # r
    <3>1. pump[r] = "idling" /\ Req(r) \in lockq[Pump(r)]
      BY <2>3 DEF Order
    <3>2. ~PublishPumpIdle(r)
      BY <1>n, <3>1 DEF PublishPumpIdle, Publishing
    <3>3. ~PublishStale(r)
      <4>1. rel[r].at = "erring" => Req(r) \in lockq[Rel(r)]
        BY <2>3 DEF Order
      <4> QED
        BY <1>n, <4>1, StaleSteps
    <3>4. pump'[r] = pump[r]
      BY <2>3, <3>1, <3>2, <3>3, PumpMoves DEF PumpSteps, StreamFails, PumpStarts, StreamEnds,
         PumpCancelled, PublishStreamError, PublishUserItem, GoalStarted
    <3>5. StillBefore(Req(r))
      BY <1>1, <2>3, PlacesKept DEF Publications
    <3>6. lockq'[Pump(r)] # {}
      BY <1>q, <3>1, <3>4 DEF Queued, Waits
    <3> QED
      BY <1>n, <3>1, <3>4, <3>5, <3>6 DEF StillBefore
  <2> QED
    BY <2>1, <2>2, <2>3
<1>2. ASSUME phase'[r] = "closing" PROVE Heir(k, Req(r))'
  <2>1. CASE phase[r] = "closing"
    <3>1. phase[active[k]] = "starting" => active[k] # r
      BY <2>1
    <3>2. active'[k] = None \/ active[k] \in Requests \/ active[k] = None
      BY <1>0
    <3>3. phase[active[k]] = "starting" /\ active[k] \in Requests => Req(r) # Req(active[k])
      BY <3>1, NamesDiffer
    <3>4. StillBefore(Req(r)) /\ Heir(k, Req(r)) /\ Req(r) \in lockq[Req(r)]
      BY <1>0, <1>2, <2>1, PlacesKept DEF Order, Publications
    <3>5. CASE active[k] \in Requests
      BY <1>0, <1>n, <3>3, <3>4, <3>5, HeirKept
    <3>6. CASE active[k] = None
      <4>1. phase[active[k]] = "starting" => Req(r) # Req(active[k])
        BY <1>0, <3>6 DEF Req
      <4> QED
        BY <1>0, <1>n, <3>4, <4>1, HeirKept
    <3> QED
      BY <1>0, <3>5, <3>6
  <2>2. CASE phase[r] # "closing"
    <3>1. GiveUp(r) \/ (GiveUp(r) /\ ~TM!Held(k))
      BY <1>0, <1>2, <1>w, <2>2, PhaseMoves DEF Reserve, RequestSteps, Refuse, PublishStarting,
         Authorize, RequestFails, TurnStarted, PublishUserItem, GoalStarted,
         PublishRunning, PublishClosing
    <3>2. active'[k] = None
      BY <1>0, <3>1 DEF GiveUp, TM!Finish, TM!Releases, TM!Held
    <3> QED
      BY <3>2 DEF Heir, TM!Held
  <2> QED
    BY <2>1, <2>2
<1>3. ASSUME pump'[r] = "idling" PROVE Heir(k, Pump(r))'
  <2>1. CASE pump[r] = "idling"
    <3>1. \A o : Pump(r) # Req(o)
      BY DEF Pump, Req
    <3>2. StillBefore(Pump(r)) /\ Heir(k, Pump(r)) /\ Pump(r) \in lockq[Pump(r)]
      BY <1>0, <1>3, <2>1, PlacesKept DEF Order
    <3> QED
      BY <1>0, <1>n, <3>1, <3>2, HeirKept
  <2>2. CASE pump[r] # "idling"
    <3>1. ~PublishStale(r) \/ pump'[r] = pump[r]
      BY <1>0, <1>3, <2>2, StaleEffects DEF AfterCancel
    <3>2. EndPump(r) /\ Operates(r)
      BY <1>0, <1>3, <2>2, <3>1, PumpMoves DEF PumpSteps, StreamFails, PumpStarts, StreamEnds,
         PumpCancelled, PublishStreamError, PublishPumpIdle, Operates
    <3>3. active[k] = r /\ op[r].turn \in {None, r}
      BY <1>0, <3>2 DEF Sound, Ownership, OwnTurnAndPump
    <3>4. active'[k] = None
      BY <1>0, <3>2, <3>3 DEF EndPump, TM!Finish, TM!Releases, TM!Held
    <3> QED
      BY <3>4 DEF Heir, TM!Held
  <2> QED
    BY <2>1, <2>2
<1> QED
  BY <1>1, <1>2, <1>3

LEMMA ReleaseOrderKept ==
    ASSUME Serving, Next, accepting', NEW r \in Requests, Order(r)
    PROVE  /\ rel'[r].at = "erring" => active'[ThreadOf[r]] = r \/ Heir(ThreadOf[r], Rel(r))'
           /\ rel'[r].at = "erring" => phase'[r] # "userItem"
           /\ rel'[r].at = "erring" /\ phase'[r] = "running" => Req(r) \in lockq'[Rel(r)]
           /\ rel'[r].at \in {"draining", "idling"} => phase'[r] = "accepted"
<1> DEFINE k == ThreadOf[r]
<1>0. /\ phase \in [Requests -> Phases] /\ rel \in [Requests -> ReleaseViews]
      /\ active \in [Keys -> Requests \cup {None}] /\ QueueOK(lockq)
      /\ None \notin Requests /\ Sound /\ Home
      /\ ThreadOf[r] \in Keys /\ Requests \cup Users = Requests
      /\ rel[r].at # "none" => rel[r].turn = r /\ op[r].turn = r
      /\ op[r].turn # None <=> phase[r] \in {"userItem", "running", "accepted"}
      /\ phase[r] \in Publications => Req(r) \in lockq[Req(r)]
      /\ rel[r].at = "erring" => Rel(r) \in lockq[Rel(r)]
  BY ServingFacts DEF Serving
<1>n. Req(r) \in Tasks /\ Rel(r) \in Tasks /\ Req(r) # Rel(r)
  BY <1>0, TaskNames, NamesDiffer
<1>s. rel[r].at = "sleeping" => phase[r] # "userItem"
  BY <1>0 DEF Sound, Ownership, Releasers, ReleaserOK
<1>w. ~PublicationFails(r)
  BY <1>0 DEF PublicationFails, WriteFails, Sound
\* A Turn that is being released has its registration, so its request is past it.
<1>p. rel[r].at # "none" /\ phase[r] # "userItem" =>
          phase'[r] = phase[r] \/ (PublishRunning(r) /\ phase'[r] = "accepted")
  <2>1. rel[r].at # "none" /\ phase[r] # "userItem" => phase[r] \in {"running", "accepted"}
    BY <1>0
  <2> QED
    BY <1>0, <1>w, <2>1, PhaseMoves DEF Reserve, RequestSteps, Refuse, PublishStarting, StartingFails,
       Authorize, RequestFails, TurnStarted, PublishUserItem, GoalStarted,
       PublishRunning, PublishClosing
\* How an error to publish comes about.
<1>e. ASSUME rel'[r].at = "erring", rel[r].at # "erring"
      PROVE  /\ active'[k] = r /\ rel[r].at = "sleeping" /\ UNCHANGED phase
             /\ lockq' = Last(Rel(r), lockq)
  <2>1. ~ReleaseSteps(r)
    <3>1. Drained(r) \/ PublishReleased(r) => At(r, "idling") \/ At(r, "none")
      BY DEF Drained, PublishReleased, Conclude
    <3> QED
      BY <1>e, <3>1, AtMoves DEF ReleaseSteps, PublishStale
  <2>2. Wake(r)
    BY <1>e, <2>1, ReleaseMoves
  <2>3. Releasable(k, r) /\ lockq' = Last(Rel(r), lockq) /\ rel[r].at = "sleeping"
        /\ UNCHANGED <<active, phase>>
    BY <1>0, <1>e, <2>2 DEF Wake, BeginRelease, Idle, Enqueue, registry
  <2>4. active[k] = r
    BY <1>0, <2>3, Owners DEF Releasable
  <2> QED
    BY <2>3, <2>4
\* And how it stays.
<1>r. ASSUME rel'[r].at = "erring", rel[r].at = "erring" PROVE rel'[r] = rel[r]
  <2>1. ~Wake(r) /\ ~Drained(r) /\ ~PublishReleased(r)
    BY <1>r DEF Wake, Drained, PublishReleased
  <2>2. ~PublishStale(r)
    <3>1. ASSUME NEW s, At(r, s) PROVE rel'[r].at = s
      BY <1>0, <3>1 DEF At, ReleaseViews
    <3> QED
      BY <1>r, <3>1, StaleEffects
  <2> QED
    BY <1>r, <2>1, <2>2, ReleaseMoves DEF ReleaseSteps
<1>1. ASSUME rel'[r].at = "erring" PROVE active'[k] = r \/ Heir(k, Rel(r))'
  <2>1. CASE rel[r].at = "erring" /\ active[k] = r
    <3>1. ~(\E q \in Requests : Reserve(q) /\ k = ThreadOf[q])
      BY <1>0, <2>1 DEF Reserve, TM!Reserve, TM!Reservable, TM!Held
    <3>2. active'[k] \in {r, None}
      BY <1>0, <2>1, <3>1, OnlyReserveTakes DEF Sound
    <3> QED
      BY <3>2 DEF Heir, TM!Held
  <2>2. CASE rel[r].at = "erring" /\ active[k] # r
    <3>1. Heir(k, Rel(r)) /\ rel'[r] = rel[r] /\ Rel(r) \in lockq[Rel(r)]
      BY <1>0, <1>1, <1>r, <2>2 DEF Order
    <3>2. StillBefore(Rel(r))
      BY <2>2, <3>1, PlacesKept
    <3>3. \A o : Rel(r) # Req(o)
      BY DEF Rel, Req
    <3> QED
      BY <1>0, <1>n, <3>1, <3>2, <3>3, HeirKept
  <2> QED
    BY <1>1, <1>e, <2>1, <2>2
<1>2. ASSUME rel'[r].at = "erring" PROVE phase'[r] # "userItem"
  <2>1. rel[r].at # "none" /\ phase[r] # "userItem"
    BY <1>2, <1>e, <1>s DEF Order
  <2> QED
    BY <1>p, <2>1
<1>3. ASSUME rel'[r].at = "erring", phase'[r] = "running" PROVE Req(r) \in lockq'[Rel(r)]
  <2>1. phase[r] = "running" /\ phase'[r] = phase[r]
    BY <1>3, <1>e, <1>s, <1>p DEF Order
  <2>2. CASE rel[r].at = "erring"
    <3>1. Req(r) \in lockq[Rel(r)]
      BY <2>1, <2>2 DEF Order
    <3>2. StillBefore(Req(r))
      BY <2>1, PlacesKept DEF Publications
    <3>3. lockq'[Rel(r)] # {}
      BY <1>0, <1>3, QueuedKept DEF Serving, Queued, Waits
    <3> QED
      BY <1>n, <3>1, <3>2, <3>3 DEF StillBefore
  <2>3. CASE rel[r].at # "erring"
    <3>1. lockq' = Last(Rel(r), lockq)
      BY <1>3, <1>e, <2>3
    <3>2. lockq[Req(r)] # {}
      BY <1>0, <2>1 DEF Publications
    <3> QED
      BY <1>0, <1>n, <3>1, <3>2, LockJoins
  <2> QED
    BY <2>2, <2>3
<1>4. ASSUME rel'[r].at \in {"draining", "idling"} PROVE phase'[r] = "accepted"
  <2>1. CASE rel[r].at \in {"draining", "idling"}
    <3>1. phase[r] = "accepted"
      BY <2>1 DEF Order
    <3> QED
      BY <1>p, <2>1, <3>1
  <2>2. CASE rel[r].at \notin {"draining", "idling"}
    <3>1. ~Wake(r) /\ ~Drained(r) /\ ~PublishReleased(r)
      <4>1. Wake(r) => rel'[r].at \in {"erring", "none"}
        BY <1>0 DEF Wake, BeginRelease, Idle
      <4> QED
        BY <1>4, <2>2, <4>1 DEF Drained, PublishReleased
    <3>2. PublishStale(r)
      BY <1>4, <2>2, <3>1, ReleaseMoves DEF ReleaseSteps
    <3>3. phase[r] \in {"running", "accepted"} /\ UNCHANGED phase
          /\ lockq[Rel(r)] = {Rel(r)} /\ rel[r].at = "erring"
      BY <3>2, StaleSteps
    <3> QED
      BY <1>n, <3>3 DEF Order
  <2> QED
    BY <2>1, <2>2
<1> QED
  BY <1>1, <1>2, <1>3, <1>4

LEMMA StatusOrderKept ==
    ASSUME Serving, Next, accepting', NEW r \in Requests, Order(r)
    PROVE  Order(r)'
BY RequestOrderKept, ReleaseOrderKept DEF Order, Heir, TM!Held

\* When nobody is about to publish a status of Thread k any more, this step published
\* the last one, or it has nothing to do with that.
LEMMA QuietMoves ==
    ASSUME Serving, Next, accepting', NEW k \in Keys, Quiet(k)'
    PROVE  \/ shown'[k] = shown[k] /\ Quiet(k) /\ active'[k] = active[k]
           \/ \E r \in Requests : ThreadOf[r] = k /\
                  \/ PublishStarting(r) \/ PublishRunning(r) \/ PublishClosing(r)
                  \/ PublishPumpIdle(r) \/ PublishStale(r) \/ PublishReleased(r)
<1> DEFINE LastWord(r) == \/ PublishStarting(r) \/ PublishRunning(r) \/ PublishClosing(r)
                       \/ PublishPumpIdle(r) \/ PublishStale(r) \/ PublishReleased(r)
<1> SUFFICES ASSUME \A r \in Requests : ThreadOf[r] = k => ~LastWord(r)
             PROVE  shown'[k] = shown[k] /\ Quiet(k) /\ active'[k] = active[k]
  OBVIOUS
<1>0. /\ phase \in [Requests -> Phases] /\ pump \in [Requests -> PumpStates]
      /\ rel \in [Requests -> ReleaseViews]
      /\ active \in [Keys -> Requests \cup {None}]
      /\ shown \in [Keys -> ShownStates] /\ None \notin Requests /\ Sound /\ Home
      /\ Requests \cup Users = Requests
      /\ \A r \in Requests : /\ ThreadOf[r] \in Keys
                             /\ rel[r].at # "none" => rel[r].turn = r /\ op[r].turn = r
  BY ServingFacts, TypeParts DEF Serving, Sound, Base, SharedOK
<1>w. \A r \in Requests : ~PublicationFails(r) /\ ~StartingFails(r)
  BY DEF PublicationFails, StartingFails, WriteFails, LookupFails, Serving, Sound
<1>q. \A r \in Requests : ThreadOf[r] = k =>
         /\ phase'[r] \notin Publications
         /\ pump'[r] \notin {"failing", "idling"}
         /\ rel'[r].at \notin {"erring", "idling"}
         /\ ~(rel'[r].at = "draining" /\ active'[k] = r)
  BY DEF Quiet
\* Nobody takes or loses the Thread in such a step.
<1>1. active'[k] = active[k]
  <2>1. ASSUME NEW r \in Requests, Reserve(r), k = ThreadOf[r] PROVE FALSE
    BY <1>0, <1>q, <2>1 DEF Reserve, Publications
  <2>2. ASSUME NEW r \in Requests, active[k] = r, ThreadOf[r] = k, active'[k] # r PROVE FALSE
    <3>1. ~RequestFails(r)
      BY <1>0, <1>q, <2>2 DEF RequestFails, GiveUp, Publications
    <3>2. ~(StreamEnds(r) \/ PumpCancelled(r) \/ PublishStreamError(r))
      BY <1>0, <1>q, <2>2 DEF StreamEnds, PumpCancelled, PublishStreamError, EndPump
    <3>3. ~PublishReleased(r)
      BY <2>2
    <3> QED
      BY <2>2, <3>1, <3>2, <3>3, HolderMoves
  <2> QED
    BY <1>0, <2>1, <2>2, OnlyReserveTakes DEF Sound, Home, TM!Held
<1>2. ASSUME NEW r \in Requests, ThreadOf[r] = k PROVE phase[r] \notin Publications
  <2>1. ~LastWord(r) /\ phase'[r] \notin Publications
    BY <1>q, <1>2
  <2>2. CASE phase'[r] = phase[r]
    BY <2>1, <2>2
  <2>3. CASE Reserve(r) \/ RequestSteps(r)
    BY <1>0, <1>w, <2>1, <2>3 DEF Reserve, RequestSteps, Refuse, Authorize, RequestFails, GiveUp,
       TurnStarted, PublishUserItem, GoalStarted, Publications
  <2> QED
    BY <2>2, <2>3, PhaseMoves
<1>3. ASSUME NEW r \in Requests, ThreadOf[r] = k PROVE pump[r] \notin {"failing", "idling"}
  <2>1. ~LastWord(r) /\ pump'[r] \notin {"failing", "idling"}
    BY <1>q, <1>3
  <2>2. CASE pump'[r] = pump[r]
    BY <2>1, <2>2
  <2>3. CASE PumpSteps(r) \/ StreamFails(r)
    BY <1>0, <2>1, <2>3 DEF PumpSteps, StreamFails, PumpStarts, StreamEnds, PumpCancelled,
       PublishStreamError, EndPump
  <2>4. CASE PublishUserItem(r) \/ GoalStarted(r)
    BY <1>0, <1>2, <1>3, <2>4 DEF PublishUserItem, GoalStarted, Publications, Sound, Ownership, Progress
  <2> QED
    BY <2>1, <2>2, <2>3, <2>4, PumpMoves
<1>4. ASSUME NEW r \in Requests, ThreadOf[r] = k
      PROVE  /\ rel[r].at \notin {"erring", "idling"}
             /\ ~(rel[r].at = "draining" /\ active[k] = r)
  <2>1. /\ ~LastWord(r) /\ rel'[r].at \notin {"erring", "idling"}
        /\ ~(rel'[r].at = "draining" /\ active[k] = r)
    BY <1>q, <1>1, <1>4
  <2>2. CASE rel'[r] = rel[r]
    BY <2>1, <2>2
  <2>3. CASE Wake(r) \/ rel[r].at = "none"
    BY <2>3 DEF Wake
  <2>4. CASE Drained(r)
    <3>1. rel[r].at = "draining" /\ rel[r].turn = r /\ op[r].turn = r
      BY <1>0, <2>4 DEF Drained
    <3>2. active[k] = r => At(r, "idling")
      BY <1>0, <1>4, <2>4, <3>1 DEF Drained, Conclude, TM!Runs, TM!Held
    <3> QED
      BY <2>1, <3>1, <3>2, AtMoves
  <2> QED
    BY <2>1, <2>2, <2>3, <2>4, ReleaseMoves DEF ReleaseSteps
<1>5. shown'[k] = shown[k]
  <2>1. ASSUME NEW r \in Requests, Reserve(r) \/ RequestSteps(r) PROVE shown'[k] = shown[k]
    <3>1. UNCHANGED shown \/ (LastWord(r) /\ \E s : Show(ThreadOf[r], s))
      BY <1>w, <2>1 DEF Reserve, RequestSteps, Refuse, PublishStarting, Authorize, RequestFails,
         TurnStarted, PublishUserItem, GoalStarted, PublishRunning, PublishClosing
    <3> QED
      BY <1>0, <3>1 DEF Show
  <2>2. ASSUME NEW r \in Requests, PumpSteps(r) \/ StreamFails(r) PROVE shown'[k] = shown[k]
    <3>1. UNCHANGED shown \/ ((LastWord(r) \/ PublishStreamError(r)) /\ \E s : Show(ThreadOf[r], s))
      BY <2>2 DEF PumpSteps, StreamFails, PumpStarts, StreamEnds, PumpCancelled,
         PublishStreamError, PublishPumpIdle
    <3>2. PublishStreamError(r) => ThreadOf[r] # k
      BY <1>0, <1>q DEF PublishStreamError, EndPump
    <3> QED
      BY <1>0, <3>1, <3>2 DEF Show
  <2>3. ASSUME NEW r \in Requests, ReleaseSteps(r) PROVE shown'[k] = shown[k]
    <3>1. UNCHANGED shown \/ (LastWord(r) /\ \E s : Show(ThreadOf[r], s))
      <4>1. CASE PublishStale(r)
        BY <4>1, StaleSteps DEF Show
      <4>2. CASE Drained(r)
        BY <4>2 DEF Drained
      <4>3. CASE PublishReleased(r)
        <5>1. rel[r].turn = r
          BY <1>0, <4>3 DEF PublishReleased
        <5> QED
          BY <4>3, <5>1 DEF PublishReleased
      <4> QED
        BY <2>3, <4>1, <4>2, <4>3 DEF ReleaseSteps
    <3> QED
      BY <1>0, <3>1 DEF Show
  <2>4. ASSUME NEW r \in Requests, Wake(r) \/ Aside PROVE shown'[k] = shown[k]
    BY <2>4 DEF Wake, Aside
  <2>5. Aside => shown'[k] = shown[k]
    BY DEF Aside
  <2> QED
    BY <2>1, <2>2, <2>3, <2>4, <2>5, ServingSteps
<1> QED
  BY <1>1, <1>2, <1>3, <1>4, <1>5 DEF Quiet

LEMMA AgreeKept ==
    ASSUME Serving, Next, accepting', NEW k \in Keys, Agree(k), \A r \in Requests : Order(r)
    PROVE  Agree(k)'
<1> SUFFICES ASSUME Quiet(k)' PROVE shown'[k] \in Busy <=> active'[k] # None
  BY DEF Agree, TM!Held
<1>0. /\ phase \in [Requests -> Phases] /\ pump \in [Requests -> PumpStates]
      /\ rel \in [Requests -> ReleaseViews]
      /\ active \in [Keys -> Requests \cup {None}]
      /\ shown \in [Keys -> ShownStates] /\ None \notin Requests /\ Sound /\ Home
      /\ Requests \cup Users = Requests /\ stop.at = "none"
      /\ \A r \in Requests : /\ ThreadOf[r] \in Keys
                             /\ rel[r].at # "none" => rel[r].turn = r /\ op[r].turn = r
                             /\ Operates(r) => active[ThreadOf[r]] = r
  BY ServingFacts, TypeParts DEF Serving, Sound, Base, SharedOK
<1>w. ~WriteFails
  BY <1>0 DEF WriteFails, Sound
<1>q. \A r \in Requests : ThreadOf[r] = k =>
         /\ phase'[r] \notin Publications
         /\ pump'[r] \notin {"failing", "idling"}
         /\ rel'[r].at \notin {"erring", "idling"}
         /\ ~(rel'[r].at = "draining" /\ active'[k] = r)
  BY DEF Quiet
\* Nobody has the Thread when the heirs of task t are not starting.
<1>h. ASSUME NEW t, Heir(k, t), UNCHANGED active,
             \A r \in Requests : phase[r] = "starting" => phase'[r] = "starting"
      PROVE  active'[k] = None
  <2> SUFFICES ASSUME active[k] # None PROVE FALSE
    BY <1>h
  <2>1. active[k] \in Requests /\ ThreadOf[active[k]] = k /\ phase[active[k]] = "starting"
    BY <1>0, <1>h DEF Heir, Home, TM!Held
  <2> QED
    BY <1>h, <1>q, <2>1 DEF Publications
<1>1. CASE shown'[k] = shown[k] /\ Quiet(k) /\ active'[k] = active[k]
  BY <1>1 DEF Agree, TM!Held
<1>2. ASSUME NEW r \in Requests, ThreadOf[r] = k, PublishStarting(r)
      PROVE  shown'[k] \in Busy /\ active'[k] # None
  BY <1>0, <1>2 DEF PublishStarting, Show, Operates, Busy, registry
<1>3. ASSUME NEW r \in Requests, ThreadOf[r] = k, PublishRunning(r)
      PROVE  shown'[k] \in Busy /\ active'[k] # None
  <2>1. pump[r] # "idling" /\ phase[r] = "running"
    BY <1>q, <1>3 DEF PublishRunning
  <2>2. active[k] = r
    BY <1>3, <2>1 DEF Order
  <2> QED
    BY <1>0, <1>3, <2>2 DEF PublishRunning, Show, Busy, registry
<1>4. ASSUME NEW r \in Requests, ThreadOf[r] = k, PublishClosing(r) \/ PublishPumpIdle(r)
      PROVE  shown'[k] \notin Busy /\ active'[k] = None
  <2>1. \E t : Heir(k, t)
    BY <1>4 DEF Order, PublishClosing, PublishPumpIdle
  <2>2. UNCHANGED active /\ \A q \in Requests : phase[q] = "starting" => phase'[q] = "starting"
    BY <1>0, <1>4 DEF PublishClosing, PublishPumpIdle, registry
  <2>3. shown'[k] \in {"error", "idle"}
    BY <1>0, <1>4, <1>w DEF PublishClosing, PublishPumpIdle, Show
  <2> QED
    BY <1>h, <2>1, <2>2, <2>3 DEF Busy
<1>5. ASSUME NEW r \in Requests, ThreadOf[r] = k, PublishStale(r)
      PROVE  shown'[k] \notin Busy /\ active'[k] = None
  <2>1. UNCHANGED <<active, phase>> /\ shown'[k] = "error" /\ rel[r].at = "erring"
    BY <1>0, <1>5, StaleSteps
  <2>2. active[k] # r
    <3>1. ASSUME NEW s, At(r, s) PROVE rel'[r].at = s
      BY <3>1, AtMoves
    <3> QED
      BY <1>q, <1>5, <2>1, <3>1, StaleEffects
  <2>3. Heir(k, Rel(r))
    BY <1>5, <2>1, <2>2 DEF Order
  <2> QED
    BY <1>h, <2>1, <2>3 DEF Busy
<1>6. ASSUME NEW r \in Requests, ThreadOf[r] = k, PublishReleased(r)
      PROVE  shown'[k] \notin Busy /\ active'[k] = None
  <2>1. rel[r].at = "idling" /\ rel[r].turn = r /\ op[r].turn = r
    BY <1>0, <1>6 DEF PublishReleased
  <2>2. active[k] = r
    BY <1>0, <1>6, <2>1, IdlersHold
  <2>3. shown'[k] = "idle" /\ TM!Finish(k, r)
    BY <1>0, <1>6, <1>w, <2>1 DEF PublishReleased, Show
  <2>4. active'[k] = None
    BY <1>0, <2>1, <2>2, <2>3 DEF TM!Finish, TM!Releases, TM!Held
  <2> QED
    BY <2>3, <2>4 DEF Busy
<1> QED
  BY <1>1, <1>2, <1>3, <1>4, <1>5, <1>6, QuietMoves

StatusOrder ==
    /\ Queued
    /\ accepting => (\A r \in Requests : Order(r)) /\ (\A k \in Keys : Agree(k))

LEMMA StatusInit == Init => StatusOrder
<1> SUFFICES ASSUME Init PROVE StatusOrder
  OBVIOUS
<1>1. /\ \A r \in Requests : phase[r] = "new" /\ pump[r] = "none" /\ rel[r].at = "none"
      /\ \A k \in Keys : shown[k] = "none" /\ active[k] = None
  BY DEF Init, Idle, TM!Init
<1>2. Queued
  BY <1>1 DEF Queued, Publications
<1>3. \A r \in Requests : Order(r)
  BY <1>1 DEF Order
<1>4. \A k \in Keys : Agree(k)
  BY <1>1 DEF Agree, Busy, TM!Held
<1> QED
  BY <1>2, <1>3, <1>4 DEF StatusOrder

\* The gate is closed once and never opened again.
LEMMA GateStaysShut ==
    ASSUME Sound, Next, accepting'
    PROVE  accepting
<1>1. ASSUME NEW r \in Requests, Reserve(r) \/ RequestSteps(r) \/ Wake(r) PROVE accepting' = accepting
  BY <1>1 DEF Reserve, TM!Reserve, RequestSteps, Wake, Refuse, PublishStarting, StartingFails, Authorize,
     RequestFails, GiveUp, TurnStarted, TM!MarkRunning, PublishUserItem, TM!AttachTask, GoalStarted,
     PublishRunning, PublicationFails, PublishClosing, TM!Finish, registry
<1>2. ASSUME NEW r \in Requests, PumpSteps(r) \/ StreamFails(r) \/ CodexAccepts(r) \/ CodexEnds(r)
      PROVE  accepting' = accepting
  BY <1>2 DEF PumpSteps, StreamFails, CodexAccepts, CodexEnds, PumpStarts, StreamEnds, EndPump,
     PumpCancelled, PublishStreamError, PublishPumpIdle, TM!Finish, registry
<1>3. ASSUME NEW x \in Requests \cup Users, ReleaseSteps(x) PROVE accepting' = accepting
  BY <1>3 DEF ReleaseSteps, PublishStale, Drained, PublishReleased, TM!Finish, registry
<1>4. ASSUME NEW u \in Users, UserSteps(u) \/ \E k \in Keys : CallInterrupt(u, k)
      PROVE  accepting' = accepting
  BY <1>4 DEF UserSteps, InterruptReturns, InterruptFindsStale, InterruptFails,
     PublishStopping, CallInterrupt, TM!Interrupt, registry
<1>5. ASSUME NEW k \in Keys, BeginMutation(k) \/ EndMutation(k) PROVE accepting' = accepting
  BY <1>5 DEF BeginMutation, EndMutation, TM!ReserveMutation, TM!FinishMutation
<1>6. ASSUME ReaderSteps \/ InterruptsDone \/ CancelPumps \/ ClearRegistry
      PROVE  accepting' = accepting
  BY <1>6 DEF ReaderSteps, ReadNotice, PublishNotice, NoticeFails, InterruptsDone, CancelPumps,
     ClearRegistry, TM!Clear, registry
<1>7. ~BeginShutdown
  BY DEF BeginShutdown, TM!CloseGate
<1> QED
  BY <1>1, <1>2, <1>3, <1>4, <1>5, <1>6, <1>7 DEF Next, StopSteps

LEMMA StatusKept ==
    ASSUME Sound, Home, StatusOrder, Users = {}, "lookup" \notin Faults, [Next]_vars
    PROVE  StatusOrder'
<1>1. CASE UNCHANGED vars
  BY <1>1 DEF vars, StatusOrder, Queued, Waits, Order, Heir, Agree, Quiet, TM!Held
<1>2. CASE Next
  <2>1. Queued'
    BY <1>2, QueuedKept DEF StatusOrder
  <2>2. ASSUME accepting' PROVE (\A r \in Requests : Order(r)') /\ (\A k \in Keys : Agree(k)')
    <3>1. Serving /\ (\A r \in Requests : Order(r)) /\ (\A k \in Keys : Agree(k))
      BY <1>2, <2>2, GateStaysShut DEF Serving, StatusOrder
    <3> QED
      BY <1>2, <2>2, <3>1, StatusOrderKept, AgreeKept
  <2> QED
    BY <2>1, <2>2 DEF StatusOrder
<1> QED
  BY <1>1, <1>2

\* When no publication is under way, the last status a browser was sent for a Thread
\* says truly if that Thread is taken, in whichever order the tasks that published
\* ran: a task that gives a Thread back and then publishes is, in the queue of the
\* fair lock, before whoever takes the Thread after it.  Without interruptions:
\* the error that an interrupt publishes during start_turn makes it false.
THEOREM StatusIsTrue ==
    ASSUME "write" \notin Faults, "lookup" \notin Faults, Users = {}
    PROVE  Spec => []StatusAgrees
<1>1. Sound /\ Home /\ StatusOrder /\ [Next]_vars => StatusOrder'
  BY StatusKept
<1>2. SoleReleaser
  BY DEF SoleReleaser
<1>3. Sound /\ StatusOrder => StatusAgrees
  <2> SUFFICES ASSUME Sound, StatusOrder, accepting, \A p \in Tasks : ~Waits(p), NEW k \in Keys,
                      \A x \in Requests \cup Users : rel[x].at = "draining" => ThreadOf[rel[x].turn] # k
               PROVE  shown[k] \in Busy <=> TM!Held(k)
    BY DEF StatusAgrees
  <2>1. Quiet(k)
    <3> SUFFICES ASSUME NEW r \in Requests, ThreadOf[r] = k
                 PROVE  /\ phase[r] \notin Publications
                        /\ pump[r] \notin {"failing", "idling"}
                        /\ rel[r].at \notin {"erring", "idling"}
                        /\ rel[r].at # "draining"
      BY DEF Quiet
    <3>1. Req(r) \in Tasks /\ Pump(r) \in Tasks /\ Rel(r) \in Tasks
      BY TaskNames
    <3>2. rel[r].at = "draining" => rel[r].turn = r
      BY SoundTypes DEF Sound, Ownership, Releasers, ReleaserOK
    <3> QED
      BY <3>1, <3>2 DEF StatusOrder, Queued
  <2> QED
    BY <2>1 DEF StatusOrder, Agree
<1> QED
  BY <1>1, <1>2, <1>3, StatusInit, SpecSound, SpecHome, PTL DEF Spec
=============================================================================
