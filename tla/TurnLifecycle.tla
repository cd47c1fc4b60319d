--------------------------- MODULE TurnLifecycle ---------------------------
(***************************************************************************)
(* The callers of the Turn registry (codex_service.py) and what they await *)
(* between its calls: start_turn, start_goal and resume_goal, the event    *)
(* pumps, interrupt_turn, the idle reconciler, the reader of global        *)
(* notifications and the shutdown.                                         *)
(*                                                                         *)
(* All of them run on one asyncio loop, so an action is what a task does   *)
(* from one await to the next.  The awaits that matter are the RPCs to     *)
(* Codex and the lock under which _publish persists an event; that lock is *)
(* fair: whoever asks first holds it first.  Threads outside the model     *)
(* share it, so a task may wait for it even when nobody here holds it.     *)
(*                                                                         *)
(* A request r of Requests stands for one POST and for everything it       *)
(* creates: the ActiveTurn it reserves, the Codex Turn (or logical Goal)   *)
(* it starts, that Turn's id and handle, and the task that pumps it.       *)
(***************************************************************************)
EXTENDS Sequences

CONSTANTS Requests,        \* POSTs that start a Turn or a Goal
          Keys,            \* Threads
          Users,           \* requests that interrupt
          ThreadOf, KindOf,\* the Thread and the kind of each request
          None,
          Faults           \* what may go wrong, a subset of FaultKinds

FaultKinds == {"lookup",   \* the Thread's Project cannot be looked up
               "write",    \* the Stream Journal cannot be written
               "silence",  \* a Turn ends and its stream never says so
               "lag",      \* idle notifications are read late
               "shutdown"}

ASSUME Parameters ==
    /\ ThreadOf \in [Requests -> Keys]
    /\ KindOf \in [Requests -> {"turn", "goal"}]
    /\ Faults \subseteq FaultKinds
    /\ None \notin Requests
    /\ Requests \cap Users = {}

VARIABLES active, mutating, accepting, op, \* the registry, see TurnManager
          phase,     \* where each start request is
          pump,      \* where each pump task is
          codex,     \* what Codex does for each request
          rel,       \* the tasks that release a Turn: reconcilers and Users
          lockq,     \* the publish lock: for each task that holds or awaits it,
                     \* that task and those that get it before
          shown,     \* the last status event published for each Thread
          notices,   \* Threads whose idle notification was not read yet
          reader,    \* the global notification pump
          stop       \* the shutdown and the tasks it waits for

registry == <<active, mutating, accepting, op>>
vars == <<active, mutating, accepting, op, phase, pump, codex, rel, lockq,
          shown, notices, reader, stop>>

TM == INSTANCE TurnManager WITH
        Ops <- Requests, Turns <- Requests, NoOp <- None, NoTurn <- None

Phases == {"new", "starting", "authorizing", "submitting", "userItem", "running",
           "closing", "accepted", "failed", "refused", "abandoned"}
PumpStates == {"none", "created", "streaming", "failing", "cancelled", "idling", "done"}
ReleaseStates == {"none", "sleeping", "calling", "erring", "draining", "idling", "stopping"}
ShownStates == {"none", "starting", "running", "stopping", "error", "idle"}

Req(r) == <<"request", r>>
Pump(r) == <<"pump", r>>
Rel(x) == <<"release", x>>
Reader == <<"reader", None>>
Tasks == {Req(r) : r \in Requests} \cup {Pump(r) : r \in Requests}
         \cup {Rel(x) : x \in Requests \cup Users} \cup {Reader}

\* Task p holds the publish lock or waits for it.
Waits(p) == lockq[p] # {}

TypeOK ==
    /\ TM!TypeOK
    /\ phase \in [Requests -> Phases]
    /\ pump \in [Requests -> PumpStates]
    /\ codex \in [Requests -> {"none", "late", "live", "over", "lost"}]
    /\ rel \in [Requests \cup Users ->
                  [at : ReleaseStates, turn : Requests \cup {None}, op : Requests \cup {None}]]
    /\ lockq \in [Tasks -> SUBSET Tasks]
    /\ \A p \in Tasks : Waits(p) => p \in lockq[p]
    /\ shown \in [Keys -> ShownStates]
    /\ notices \in Seq(Keys)
    /\ reader \in [at : {"reading", "publishing", "dead"}, key : Keys \cup {None},
                   turn : Requests \cup {None}]
    /\ stop \in [at : {"none", "interrupting", "waiting", "done"}, ops : SUBSET Requests]

Idle == [at |-> "none", turn |-> None, op |-> None]

Init ==
    /\ TM!Init
    /\ phase = [r \in Requests |-> "new"]
    /\ pump = [r \in Requests |-> "none"]
    /\ codex = [r \in Requests |-> "none"]
    /\ rel = [x \in Requests \cup Users |-> Idle]
    /\ lockq = [p \in Tasks |-> {}]
    /\ shown = [k \in Keys |-> "none"]
    /\ notices = <<>>
    /\ reader = [at |-> "reading", key |-> None, turn |-> None]
    /\ stop = [at |-> "none", ops |-> {}]

-----------------------------------------------------------------------------
(* THE PUBLISH LOCK *)

\* Task p is inside _publish.  What it does after is in the same action.
Publishing(p) == lockq[p] = {p}

\* The queue q after the tasks in S left it, or after p came last.
Withdraw(S, q) == [p \in Tasks |-> IF p \in S THEN {} ELSE q[p] \ S]
Last(p, q) == [q EXCEPT ![p] = {t \in Tasks : q[t] # {}} \cup {p}]

\* p leaves the lock, and perhaps waits for it again to publish another event.
Release(p) == lockq' = Withdraw({p}, lockq)
Requeue(p) == lockq' = Last(p, Withdraw({p}, lockq))

\* Faulty variant of Enqueue: a newcomer overtakes the waiters.
EnqueueFirst(p) ==
    lockq' = [t \in Tasks |-> IF t = p \/ Waits(t) THEN lockq[t] \cup {p} ELSE {}]

Enqueue(p) == lockq' = Last(p, lockq)

Show(k, s) == shown' = [shown EXCEPT ![k] = s]

\* The journal append, or the first lookup of a Thread's Project, raises.
WriteFails == "write" \in Faults
LookupFails(k) == "lookup" \in Faults /\ shown[k] = "none"

-----------------------------------------------------------------------------
(* THE EVENT LOOP *)

\* Input reaches the loop (a request, an RPC's answer, a timer).  The tasks
\* that could run before ran: a created pump has started, and whoever waited
\* for a pump that is done has resumed.
Input ==
    /\ \A r \in Requests : pump[r] # "created"
    /\ \A x \in Requests \cup Users :
         rel[x].at = "draining" => pump[op[rel[x].op].task] # "done"

-----------------------------------------------------------------------------
(* START REQUESTS: start_turn, start_goal, resume_goal *)

\* reserve(), then the "starting" publication.
Reserve(r) ==
    /\ Input
    /\ phase[r] = "new"
    /\ TM!Reserve(ThreadOf[r], r, KindOf[r])
    /\ phase' = [phase EXCEPT ![r] = "starting"]
    /\ Enqueue(Req(r))
    /\ UNCHANGED <<pump, codex, rel, shown, notices, reader, stop>>

\* Faulty variant of Refuse: reserve() inside the try block, so that a refused
\* request runs the except clause.
RefuseReleasing(r) ==
    /\ Input
    /\ phase[r] = "new"
    /\ ~accepting \/ ~TM!Reservable(ThreadOf[r])
    /\ TM!Finish(ThreadOf[r], None)
    /\ phase' = [phase EXCEPT ![r] = "refused"]
    /\ UNCHANGED <<pump, codex, rel, lockq, shown, notices, reader, stop>>

\* reserve() raises and the caller answers 409.
Refuse(r) ==
    /\ Input
    /\ phase[r] = "new"
    /\ ~accepting \/ ~TM!Reservable(ThreadOf[r])
    /\ phase' = [phase EXCEPT ![r] = "refused"]
    /\ UNCHANGED <<registry, pump, codex, rel, lockq, shown, notices, reader, stop>>

PublishStarting(r) ==
    /\ phase[r] = "starting"
    /\ Publishing(Req(r))
    /\ Release(Req(r))
    /\ Show(ThreadOf[r], "starting")
    /\ phase' = [phase EXCEPT ![r] = "authorizing"]
    /\ UNCHANGED <<registry, pump, codex, rel, notices, reader, stop>>

\* This publication is outside the try block: nothing gives the Thread back.
StartingFails(r) ==
    /\ phase[r] = "starting"
    /\ Publishing(Req(r))
    /\ WriteFails \/ LookupFails(ThreadOf[r])
    /\ Release(Req(r))
    /\ phase' = [phase EXCEPT ![r] = "abandoned"]
    /\ UNCHANGED <<registry, pump, codex, rel, shown, notices, reader, stop>>

\* _authorized_thread and the checks before the Turn or Goal is submitted.
Authorize(r) ==
    /\ Input
    /\ phase[r] = "authorizing"
    /\ phase' = [phase EXCEPT ![r] = "submitting"]
    /\ UNCHANGED <<registry, pump, codex, rel, lockq, shown, notices, reader, stop>>

\* The except clauses: finish() without a turn_id, then a final publication.
GiveUp(r) ==
    /\ TM!Finish(ThreadOf[r], None)
    /\ phase' = [phase EXCEPT ![r] = "closing"]

\* An RPC before the Turn exists for the console fails, times out or conflicts.
\* The one that starts the Turn may then still be on its way to Codex.
RequestFails(r) ==
    /\ Input
    /\ phase[r] \in {"authorizing", "submitting"}
    /\ GiveUp(r)
    /\ Enqueue(Req(r))
    /\ \/ UNCHANGED codex
       \/ phase[r] = "submitting" /\ codex[r] = "none" /\ codex' = [codex EXCEPT ![r] = "late"]
    /\ UNCHANGED <<pump, rel, shown, notices, reader, stop>>

\* The RPC that starts a Turn returned: the registration gets its handle and
\* the prompt is published.  mark_running raises if there is no registration.
TurnStarted(r) ==
    /\ Input
    /\ KindOf[r] = "turn"
    /\ phase[r] = "submitting"
    /\ codex[r] \notin {"none", "late"}
    /\ \/ /\ TM!MarkRunning(ThreadOf[r], r)
          /\ phase' = [phase EXCEPT ![r] = "userItem"]
       \/ /\ ~TM!Held(ThreadOf[r])
          /\ GiveUp(r)
    /\ Enqueue(Req(r))
    /\ UNCHANGED <<pump, codex, rel, shown, notices, reader, stop>>

PublishUserItem(r) ==
    /\ phase[r] = "userItem"
    /\ Publishing(Req(r))
    /\ Requeue(Req(r))
    /\ \/ /\ TM!AttachTask(ThreadOf[r], r)
          /\ pump' = [pump EXCEPT ![r] = "created"]
          /\ phase' = [phase EXCEPT ![r] = "running"]
       \/ /\ ~TM!Held(ThreadOf[r])
          /\ GiveUp(r)
          /\ UNCHANGED pump
    /\ UNCHANGED <<codex, rel, shown, notices, reader, stop>>

\* A Goal gets its handle and its pump at once.
GoalStarted(r) ==
    /\ Input
    /\ KindOf[r] = "goal"
    /\ phase[r] = "submitting"
    /\ codex[r] \notin {"none", "late"}
    /\ \/ /\ TM!Held(ThreadOf[r])
          /\ op' = [op EXCEPT ![active[ThreadOf[r]]].status = "running",
                              ![active[ThreadOf[r]]].turn = r,
                              ![active[ThreadOf[r]]].task = r]
          /\ UNCHANGED <<active, mutating, accepting>>
          /\ pump' = [pump EXCEPT ![r] = "created"]
          /\ phase' = [phase EXCEPT ![r] = "running"]
       \/ /\ ~TM!Held(ThreadOf[r])
          /\ GiveUp(r)
          /\ UNCHANGED pump
    /\ Enqueue(Req(r))
    /\ UNCHANGED <<codex, rel, shown, notices, reader, stop>>

PublishRunning(r) ==
    /\ phase[r] = "running"
    /\ Publishing(Req(r))
    /\ Release(Req(r))
    /\ Show(ThreadOf[r], "running")
    /\ phase' = [phase EXCEPT ![r] = "accepted"]
    /\ UNCHANGED <<registry, pump, codex, rel, notices, reader, stop>>

PublicationFails(r) ==
    /\ WriteFails
    /\ phase[r] \in {"userItem", "running"}
    /\ Publishing(Req(r))
    /\ GiveUp(r)
    /\ Requeue(Req(r))
    /\ UNCHANGED <<pump, codex, rel, shown, notices, reader, stop>>

\* Faulty variant of PublishClosing: a _publish that raises keeps the lock.
PublishClosingLocked(r) ==
    /\ phase[r] = "closing"
    /\ Publishing(Req(r))
    /\ \/ Show(ThreadOf[r], "error") /\ Release(Req(r))
       \/ WriteFails /\ UNCHANGED <<shown, lockq>>
    /\ phase' = [phase EXCEPT ![r] = "failed"]
    /\ UNCHANGED <<registry, pump, codex, rel, notices, reader, stop>>

PublishClosing(r) ==
    /\ phase[r] = "closing"
    /\ Publishing(Req(r))
    /\ Release(Req(r))
    /\ \/ Show(ThreadOf[r], "error")
       \/ WriteFails /\ UNCHANGED shown
    /\ phase' = [phase EXCEPT ![r] = "failed"]
    /\ UNCHANGED <<registry, pump, codex, rel, notices, reader, stop>>

-----------------------------------------------------------------------------
(* CODEX, as the service sees it: one Turn of a Thread at a time *)

\* The service has read the last idle notification of the Thread by then,
\* unless the reader of global notifications lags behind.
NoticesRead(k) == "lag" \in Faults \/ (reader.key # k /\ \A i \in DOMAIN notices : notices[i] # k)

\* Codex may accept a Turn whose RPC times out for the service, before or after.
CodexAccepts(r) ==
    /\ (phase[r] = "submitting" /\ codex[r] = "none") \/ codex[r] = "late"
    /\ \A q \in Requests : codex[q] = "live" => ThreadOf[q] # ThreadOf[r]
    /\ NoticesRead(ThreadOf[r])
    /\ codex' = [codex EXCEPT ![r] = "live"]
    /\ UNCHANGED <<registry, phase, pump, rel, lockq, shown, notices, reader, stop>>

\* The Turn's stream ends, or it is lost, and the Thread is reported idle.
CodexEnds(r) ==
    /\ codex[r] = "live"
    /\ \/ codex' = [codex EXCEPT ![r] = "over"]
       \/ "silence" \in Faults /\ codex' = [codex EXCEPT ![r] = "lost"]
    /\ notices' = Append(notices, ThreadOf[r])
    /\ UNCHANGED <<registry, phase, pump, rel, lockq, shown, reader, stop>>

-----------------------------------------------------------------------------
(* EVENT PUMPS: _pump_turn, _pump_goal *)

PumpStarts(r) ==
    /\ pump[r] = "created"
    /\ pump' = [pump EXCEPT ![r] = "streaming"]
    /\ UNCHANGED <<registry, phase, codex, rel, lockq, shown, notices, reader, stop>>

\* Faulty variant of EndPump: the finally clause forgets finish().
EndPumpHolding(r) ==
    /\ pump' = [pump EXCEPT ![r] = "idling"]
    /\ UNCHANGED registry

\* The finally clause: give the Thread back, then publish idle.
EndPump(r) ==
    /\ TM!Finish(ThreadOf[r], r)
    /\ pump' = [pump EXCEPT ![r] = "idling"]

\* Faulty variant of StreamEnds: a stream that ended is read again.
StreamEndsUnnoticed(r) ==
    /\ pump[r] = "streaming"
    /\ codex[r] = "over"
    /\ UNCHANGED vars

StreamEnds(r) ==
    /\ pump[r] = "streaming"
    /\ codex[r] = "over"
    /\ EndPump(r)
    /\ Enqueue(Pump(r))
    /\ UNCHANGED <<phase, codex, rel, shown, notices, reader, stop>>

\* Faulty variant of StreamFails: the Thread is given back before the error.
StreamFailsEarly(r) ==
    /\ pump[r] = "streaming"
    /\ TM!Finish(ThreadOf[r], r)
    /\ pump' = [pump EXCEPT ![r] = "failing"]
    /\ Enqueue(Pump(r))
    /\ UNCHANGED <<phase, codex, rel, shown, notices, reader, stop>>

\* The stream, or the publication of one of its events, raises.
StreamFails(r) ==
    /\ pump[r] = "streaming"
    /\ pump' = [pump EXCEPT ![r] = "failing"]
    /\ Enqueue(Pump(r))
    /\ UNCHANGED <<registry, phase, codex, rel, shown, notices, reader, stop>>

PublishStreamError(r) ==
    /\ pump[r] = "failing"
    /\ Publishing(Pump(r))
    /\ \/ Show(ThreadOf[r], "error")
       \/ WriteFails /\ UNCHANGED shown
    /\ EndPump(r)
    /\ Requeue(Pump(r))
    /\ UNCHANGED <<phase, codex, rel, notices, reader, stop>>

\* CancelledError reaches a pump that was in its try or except clause.
PumpCancelled(r) ==
    /\ pump[r] = "cancelled"
    /\ EndPump(r)
    /\ Enqueue(Pump(r))
    /\ UNCHANGED <<phase, codex, rel, shown, notices, reader, stop>>

PublishPumpIdle(r) ==
    /\ pump[r] = "idling"
    /\ Publishing(Pump(r))
    /\ Release(Pump(r))
    /\ \/ Show(ThreadOf[r], "idle")
       \/ WriteFails /\ UNCHANGED shown
    /\ pump' = [pump EXCEPT ![r] = "done"]
    /\ UNCHANGED <<registry, phase, codex, rel, notices, reader, stop>>

\* What task.cancel() makes of a pump.  One that has not run yet never enters
\* its try block, and one that was publishing idle gives that up.
AfterCancel(s) ==
    CASE s \in {"streaming", "failing"} -> "cancelled"
      [] s \in {"created", "idling"}    -> "done"
      [] OTHER                          -> s

-----------------------------------------------------------------------------
(* RELEASING A TURN: _release_stale_turn, for the reconciler and for Users *)

At(x, s) == rel' = [rel EXCEPT ![x].at = s]

\* Faulty variant of Releasable: whichever Turn is registered.
ReleasableAny(k, t) == TM!Held(k) /\ op[active[k]].kind = "turn"

\* The registration _release_stale_turn is willing to release.
Releasable(k, t) == TM!Runs(k, t) /\ op[active[k]].kind = "turn"

\* current(), and if it is still Turn t, the publication of its error.
BeginRelease(x, t) ==
    LET k == ThreadOf[t] IN
    IF Releasable(k, t)
    THEN /\ rel' = [rel EXCEPT ![x] = [at |-> "erring", turn |-> t, op |-> active[k]]]
         /\ Enqueue(Rel(x))
    ELSE /\ rel' = [rel EXCEPT ![x] = Idle]
         /\ UNCHANGED lockq

\* The end of the grace period.
Wake(t) ==
    /\ Input
    /\ rel[t].at = "sleeping"
    /\ BeginRelease(t, t)
    /\ UNCHANGED <<registry, phase, pump, codex, shown, notices, reader, stop>>

\* The finally clause, once the pump of the operation it captured is done:
\* the Thread is given back if that Turn still has it.
Conclude(x, q) ==
    IF TM!Runs(ThreadOf[rel[x].turn], rel[x].turn)
    THEN At(x, "idling") /\ lockq' = Last(Rel(x), q)
    ELSE At(x, "none") /\ lockq' = q

\* Faulty variant of PublishStale: it waits for the pump and does not cancel it.
PublishStaleWaiting(x) ==
    LET t == rel[x].turn
        task == op[rel[x].op].task
    IN
    /\ rel[x].at = "erring"
    /\ Publishing(Rel(x))
    /\ Show(ThreadOf[t], "error")
    /\ IF task # None /\ pump[task] # "done"
       THEN Release(Rel(x)) /\ At(x, "draining")
       ELSE Conclude(x, Withdraw({Rel(x)}, lockq))
    /\ UNCHANGED <<registry, phase, pump, codex, notices, reader, stop>>

PublishStale(x) ==
    LET t == rel[x].turn
        task == op[rel[x].op].task
    IN
    /\ rel[x].at = "erring"
    /\ Publishing(Rel(x))
    /\ \/ Show(ThreadOf[t], "error")
       \/ WriteFails /\ UNCHANGED shown
    /\ IF task # None /\ pump[task] # "done"
       THEN /\ pump' = [pump EXCEPT ![task] = AfterCancel(@)]
            /\ lockq' = Withdraw({Rel(x), Pump(task)}, lockq)
            /\ At(x, "draining")
       ELSE /\ Conclude(x, Withdraw({Rel(x)}, lockq))
            /\ UNCHANGED pump
    /\ UNCHANGED <<registry, phase, codex, notices, reader, stop>>

Drained(x) ==
    /\ rel[x].at = "draining"
    /\ pump[op[rel[x].op].task] = "done"
    /\ Conclude(x, lockq)
    /\ UNCHANGED <<registry, phase, pump, codex, shown, notices, reader, stop>>

\* idle is published before finish(): the Thread stays taken until then.
PublishReleased(x) ==
    LET t == rel[x].turn IN
    /\ rel[x].at = "idling"
    /\ Publishing(Rel(x))
    /\ Release(Rel(x))
    /\ At(x, "none")
    /\ \/ /\ Show(ThreadOf[t], "idle")
          /\ TM!Finish(ThreadOf[t], t)
       \/ /\ WriteFails
          /\ UNCHANGED <<registry, shown>>
    /\ UNCHANGED <<phase, pump, codex, notices, reader, stop>>

-----------------------------------------------------------------------------
(* INTERRUPTING: interrupt_turn *)

CallInterrupt(u, k) ==
    /\ Input
    /\ stop.at = "none"
    /\ rel[u].at = "none"
    /\ TM!Interrupt(k)
    /\ rel' = [rel EXCEPT ![u] = [at |-> "calling", turn |-> op[active[k]].turn, op |-> None]]
    /\ UNCHANGED <<phase, pump, codex, lockq, shown, notices, reader, stop>>

InterruptReturns(u) ==
    LET t == rel[u].turn IN
    /\ Input
    /\ rel[u].at = "calling"
    /\ IF TM!Runs(ThreadOf[t], t)
       THEN At(u, "stopping") /\ Enqueue(Rel(u))
       ELSE At(u, "none") /\ UNCHANGED lockq
    /\ UNCHANGED <<registry, phase, pump, codex, shown, notices, reader, stop>>

\* Codex answers that it runs no such Turn.
InterruptFindsStale(u) ==
    /\ Input
    /\ rel[u].at = "calling"
    /\ codex[rel[u].turn] # "live"
    /\ BeginRelease(u, rel[u].turn)
    /\ UNCHANGED <<registry, phase, pump, codex, shown, notices, reader, stop>>

InterruptFails(u) ==
    /\ Input
    /\ rel[u].at = "calling"
    /\ At(u, "none")
    /\ UNCHANGED <<registry, phase, pump, codex, lockq, shown, notices, reader, stop>>

PublishStopping(u) ==
    /\ rel[u].at = "stopping"
    /\ Publishing(Rel(u))
    /\ Release(Rel(u))
    /\ At(u, "none")
    /\ \/ Show(ThreadOf[rel[u].turn], "stopping")
       \/ WriteFails /\ UNCHANGED shown
    /\ UNCHANGED <<registry, phase, pump, codex, notices, reader, stop>>

-----------------------------------------------------------------------------
(* GLOBAL NOTIFICATIONS: _pump_global_notifications, publish_notification *)

\* "Thread idle" carries no Turn id: it is taken from the registry now, before
\* the wait for the lock.
ReadNotice ==
    LET k == Head(notices) IN
    /\ Input
    /\ reader.at = "reading"
    /\ notices # <<>>
    /\ notices' = Tail(notices)
    /\ reader' = [at |-> "publishing", key |-> k,
                  turn |-> IF TM!Held(k) THEN op[active[k]].turn ELSE None]
    /\ Enqueue(Reader)
    /\ UNCHANGED <<registry, phase, pump, codex, rel, shown, stop>>

\* Faulty variant of PublishNotice: the lock is never released.
PublishNoticeLocked ==
    /\ reader.at = "publishing"
    /\ Publishing(Reader)
    /\ reader' = [at |-> "reading", key |-> None, turn |-> None]
    /\ UNCHANGED <<registry, phase, pump, codex, rel, lockq, shown, notices, stop>>

\* A reconciliation is scheduled unless one for that Turn is pending.
PublishNotice ==
    LET t == reader.turn IN
    /\ reader.at = "publishing"
    /\ Publishing(Reader)
    /\ Release(Reader)
    /\ reader' = [at |-> "reading", key |-> None, turn |-> None]
    /\ rel' = IF t # None /\ rel[t].at = "none"
              THEN [rel EXCEPT ![t] = [at |-> "sleeping", turn |-> t, op |-> None]]
              ELSE rel
    /\ UNCHANGED <<registry, phase, pump, codex, shown, notices, stop>>

\* Any error but "not found" ends the pump of global notifications.
NoticeFails ==
    /\ WriteFails
    /\ reader.at = "publishing"
    /\ Publishing(Reader)
    /\ Release(Reader)
    /\ reader' = [at |-> "dead", key |-> None, turn |-> None]
    /\ UNCHANGED <<registry, phase, pump, codex, rel, shown, notices, stop>>

-----------------------------------------------------------------------------
(* MUTATIONS (archive, delete, fork, ...) AND SHUTDOWN *)

BeginMutation(k) ==
    /\ Input
    /\ stop.at = "none"
    /\ TM!ReserveMutation(k)
    /\ UNCHANGED <<phase, pump, codex, rel, lockq, shown, notices, reader, stop>>

EndMutation(k) ==
    /\ Input
    /\ k \in mutating
    /\ TM!FinishMutation(k)
    /\ UNCHANGED <<phase, pump, codex, rel, lockq, shown, notices, reader, stop>>

\* The server lets every HTTP request end before the lifespan shutdown.
RequestsDrained ==
    /\ \A r \in Requests : phase[r] \in {"new", "accepted", "failed", "refused", "abandoned"}
    /\ \A u \in Users : rel[u].at = "none"
    /\ mutating = {}

\* shutdown(): close the gate, remember who was running and interrupt them.
BeginShutdown ==
    /\ Input
    /\ "shutdown" \in Faults
    /\ stop.at = "none"
    /\ RequestsDrained
    /\ TM!CloseGate
    /\ stop' = [at |-> "interrupting", ops |-> {active[k] : k \in {j \in Keys : TM!Held(j)}}]
    /\ UNCHANGED <<phase, pump, codex, rel, lockq, shown, notices, reader>>

\* Faulty variant of StopTasks: the pumps are forgotten.
StopTasksForgotten == {}

StopTasks == {op[o].task : o \in stop.ops} \ {None}

\* The interrupts returned or timed out; wait for the pumps.
InterruptsDone ==
    /\ Input
    /\ stop.at = "interrupting"
    /\ stop' = [stop EXCEPT !.at = "waiting"]
    /\ UNCHANGED <<registry, phase, pump, codex, rel, lockq, shown, notices, reader>>

\* The wait times out: the pumps that are not done are cancelled.
CancelPumps ==
    /\ Input
    /\ stop.at = "waiting"
    /\ \E r \in StopTasks : pump[r] \in {"streaming", "failing", "idling"}
    /\ pump' = [r \in Requests |-> IF r \in StopTasks THEN AfterCancel(pump[r]) ELSE pump[r]]
    /\ lockq' = Withdraw({Pump(r) : r \in StopTasks}, lockq)
    /\ UNCHANGED <<registry, phase, codex, rel, shown, notices, reader, stop>>

ClearRegistry ==
    /\ stop.at = "waiting"
    /\ \A r \in StopTasks : pump[r] = "done"
    /\ TM!Clear
    /\ stop' = [stop EXCEPT !.at = "done"]
    /\ UNCHANGED <<phase, pump, codex, rel, lockq, shown, notices, reader>>

-----------------------------------------------------------------------------
RequestSteps(r) ==
    \/ Refuse(r)
    \/ PublishStarting(r) \/ StartingFails(r)
    \/ Authorize(r) \/ RequestFails(r)
    \/ TurnStarted(r) \/ PublishUserItem(r) \/ GoalStarted(r)
    \/ PublishRunning(r) \/ PublicationFails(r) \/ PublishClosing(r)

PumpSteps(r) ==
    \/ PumpStarts(r)
    \/ StreamEnds(r) \/ PumpCancelled(r)
    \/ PublishStreamError(r) \/ PublishPumpIdle(r)

ReleaseSteps(x) == PublishStale(x) \/ Drained(x) \/ PublishReleased(x)

UserSteps(u) ==
    \/ InterruptReturns(u) \/ InterruptFindsStale(u) \/ InterruptFails(u)
    \/ PublishStopping(u)

ReaderSteps == ReadNotice \/ PublishNotice \/ NoticeFails

StopSteps == InterruptsDone \/ CancelPumps \/ ClearRegistry

Next ==
    \/ \E r \in Requests : Reserve(r) \/ RequestSteps(r) \/ Wake(r)
    \/ \E r \in Requests : PumpSteps(r) \/ StreamFails(r)
    \/ \E r \in Requests : CodexAccepts(r) \/ CodexEnds(r)
    \/ \E x \in Requests \cup Users : ReleaseSteps(x)
    \/ \E u \in Users : UserSteps(u) \/ \E k \in Keys : CallInterrupt(u, k)
    \/ \E k \in Keys : BeginMutation(k) \/ EndMutation(k)
    \/ ReaderSteps
    \/ BeginShutdown
    \/ StopSteps

Spec == Init /\ [][Next]_vars

\* The event loop runs every task that can run, RPCs answer or time out, and a
\* Turn that Codex runs ends.  Nobody has to post, interrupt or mutate, and a
\* stream may stay silent without failing.
Fairness ==
    /\ \A r \in Requests : /\ WF_vars(RequestSteps(r)) /\ WF_vars(PumpSteps(r))
                           /\ WF_vars(Wake(r)) /\ WF_vars(CodexEnds(r))
    /\ \A x \in Requests \cup Users : WF_vars(ReleaseSteps(x))
    /\ \A u \in Users : WF_vars(UserSteps(u))
    /\ \A k \in Keys : WF_vars(EndMutation(k))
    /\ WF_vars(ReaderSteps)
    /\ WF_vars(StopSteps)

FairSpec == Spec /\ Fairness

-----------------------------------------------------------------------------
(* PROPERTIES *)

\* Request r is starting, or its pump still consumes its Turn.
Operates(r) ==
    \/ phase[r] \in {"starting", "authorizing", "submitting", "userItem"}
    \/ pump[r] \in {"created", "streaming", "failing", "cancelled"}

\* Whoever operates on a Thread is the operation registered for it, hence it
\* is alone: finish() without a turn_id, or for a Turn whose registration is
\* already another request's, never takes a Thread from someone else.
OperatorIsRegistered == \A r \in Requests : Operates(r) => active[ThreadOf[r]] = r

\* A Thread runs one operation at a time.
OneOperation ==
    \A q, r \in Requests : q # r /\ ThreadOf[q] = ThreadOf[r] => ~(Operates(q) /\ Operates(r))

\* A Thread is taken only while someone will give it back: its request, its
\* pump, or a task that is releasing it.  So a 409 always means that something
\* is in progress.
HeldIsOperated ==
    \A k \in Keys : TM!Held(k) =>
        \/ Operates(active[k])
        \/ \E x \in Requests \cup Users :
              rel[x].at \in {"draining", "idling"} /\ TM!Runs(k, rel[x].turn)

\* A registration only ever gets the Turn and the pump of its own request,
\* whatever happens to the registry while the request awaits an RPC or the lock.
OwnTurnAndPump == \A o \in Requests : op[o].turn \in {None, o} /\ op[o].task \in {None, o}

Busy == {"starting", "running", "stopping"}

\* Once the publications under way are out, the last status a browser was sent
\* agrees with the registry, in whichever order the tasks that published it ran.
StatusAgrees ==
    (accepting /\ \A p \in Tasks : ~Waits(p)) =>
        \A k \in Keys :
            (\A x \in Requests \cup Users : rel[x].at = "draining" => ThreadOf[rel[x].turn] # k)
                => (shown[k] \in Busy <=> TM!Held(k))

\* The reconciler only gives up Turns that Codex ended.
OnlyEndedTurnsReconciled ==
    \A t \in Requests : rel[t].at \in {"erring", "draining"} => codex[rel[t].op] # "live"

\* After a shutdown no pump consumes a Turn: each one that ran when the gate
\* closed was drained or cancelled, and none started since.
StoppedMeansDrained ==
    stop.at = "done" => \A r \in Requests : ~Operates(r)

\* The registry as its callers use it implements the abstract promise.
ImplementsExclusion == TM!ImplementsExclusion

\* Every POST is answered, also when publications of its own or of others raise
\* (none may keep the lock).
EveryRequestEnds ==
    \A r \in Requests :
        phase[r] = "starting" ~> phase[r] \in {"accepted", "failed", "abandoned"}

\* An operation does not keep its Thread for ever, unless its stream falls
\* silent.
ThreadsAreFreed ==
    \A k \in Keys :
        TM!Held(k) ~> (~TM!Held(k) \/ \E r \in Requests : active[k] = r /\ codex[r] = "lost")

\* Once a reconciliation of a Turn was scheduled that Turn loses its Thread,
\* even if its stream stays silent for ever.
ReconciledTurnsAreFreed ==
    \A t \in Requests :
        (rel[t].at = "sleeping" /\ KindOf[t] = "turn") ~> ~TM!Runs(ThreadOf[t], t)

\* The purpose of the reconciliation: a Turn that ended without its stream
\* saying so, and whose Thread was reported idle, loses its Thread.
SilentTurnsAreFreed ==
    \A t \in Requests :
        (codex[t] = "lost" /\ KindOf[t] = "turn") ~> ~TM!Runs(ThreadOf[t], t)
=============================================================================
