------------------------------- MODULE Runtime --------------------------------
(***************************************************************************)
(* The life of the process: main.py's entry point and lifespan, and        *)
(* CodexRuntime (codex_runtime.py), which owns the one Codex client, a     *)
(* service for each tenant, the pump of global notifications, the loop of  *)
(* health samples and the account's rate limits.  Requests find their      *)
(* tenant as in Tenancy and then use its service, or spend a reset credit. *)
(*                                                                         *)
(* A Turn is only a task that uses the client: what it does is in          *)
(* TurnLifecycle.  A Thread is in the workspace of one tenant, in one of   *)
(* its Projects.  The web server ends its requests before the lifespan's   *)
(* exit; background tasks are still running then.                          *)
(***************************************************************************)
EXTENDS Tenancy, Sequences, Functions

CONSTANTS Threads,
          DirOf,       \* the workspace directory each Thread is in
          InitialCredits,  \* what the account may have at first
          Faults,      \* what may go wrong, a subset of FaultKinds
          MaxFaults

FaultKinds == {"boot",       \* preparing the database or starting Codex raises
               "workspace",  \* a workspace directory cannot be made or read
               "news",       \* the notification stream or a publication raises
               "answer",     \* Codex answers nothing in time
               "sample",     \* an answered sample of the limits cannot be read
               "close"}      \* closing the client or stopping the scheduler raises

ASSUME Parameters ==
    /\ DirOf \in [Threads -> Directories \cup {Root}]
    /\ InitialCredits \subseteq Nat
    /\ Faults \subseteq FaultKinds
    /\ MaxFaults \in Nat

VARIABLES life,       \* how far the process is
          database, scheduler,
          codex,      \* the client: none, made, open, closed or failed to
          attached,   \* self.client is set
          ready,
          services,   \* _services: the directory of each tenant's service
          routed,     \* _thread_services: the tenant whose service knows it
          service,    \* the service a request holds, [tenant, dir]
          turns,      \* the Threads whose Turn has a task
          pump,       \* _global_notification_task
          news,       \* what it publishes: a Thread and a tenant, or None
          health,     \* _health_sample_task
          reached,    \* Codex: a limit is used up
          credits,    \* Codex: the reset credits of the account
          lock,       \* _rate_limit_reset_lock: holder and waiters in order
          late,       \* Codex: consumptions it has yet to do, their caller gone
          spent,      \* history: credits spent since the limit was reached
          lost,       \* history: answers to a consumption that were lost
          heard,      \* history: <<Thread, tenant>> of published notifications
          faults      \* history: how often each kind of fault happened

processVars == <<life, database, scheduler>>
clientVars == <<codex, attached, ready>>
serviceVars == <<services, routed, service, turns>>
taskVars == <<pump, news, health>>
limitVars == <<reached, credits, lock, late, spent, lost>>
vars == <<tenancyVars, processVars, clientVars, serviceVars, taskVars, limitVars, heard, faults>>

Lives == {"new", "scheduling", "starting", "entering", "checking", "pruning",
          "sampling", "aborting", "serving", "draining", "closing", "cleanup",
          "disposing", "ended"}

Working == {"seeking", "locking", "testing", "consuming"}
Answered == {"done", "unavailable", "missing", "not reached", "no credit"}
ServiceViews == [tenant : Tenants, dir : Directories \cup {Root}]
Publishing == [thread : Threads, tenant : Tenants]

\* TypeOK: the shape of the state.
TypeOK ==
    /\ TenancyTypeOK
    /\ pc \in [Requests -> {"idle", "identified"} \cup Resolving \cup Rejected
                           \cup Working \cup Answered]
    /\ life \in Lives
    /\ database \in {"off", "open"} /\ scheduler \in {"off", "running"}
    /\ codex \in {"none", "made", "open", "closed", "unclosed"}
    /\ attached \in BOOLEAN /\ ready \in BOOLEAN /\ reached \in BOOLEAN
    /\ services \in [Tenants -> Directories \cup {Root, None}]
    /\ routed \in [Threads -> Tenants \cup {None}]
    /\ service \in [Requests -> ServiceViews \cup {None}]
    /\ turns \subseteq Threads
    /\ pump \in {"off", "reading", "publishing", "ended"}
    /\ news \in Publishing \cup {None}
    /\ health \in {"off", "sleeping", "sampling", "pruning", "returned", "died"}
    /\ lock \in Seq(Requests)
    /\ credits \in Nat /\ late \in Nat /\ spent \in Nat /\ lost \in Nat
    /\ heard \subseteq Threads \X Tenants

Init ==
    /\ TenancyInit
    /\ life = "new" /\ database = "off" /\ scheduler = "off"
    /\ codex = "none" /\ attached = FALSE /\ ready = FALSE
    /\ services = [i \in Tenants |-> None]
    /\ routed = [t \in Threads |-> None]
    /\ service = [r \in Requests |-> None]
    /\ turns = {} /\ pump = "off" /\ news = None /\ health = "off"
    /\ reached \in BOOLEAN /\ credits \in InitialCredits
    /\ lock = <<>> /\ late = 0 /\ spent = 0 /\ lost = 0 /\ heard = {} /\ faults = [k \in FaultKinds |-> 0]

Possible(kind) == kind \in Faults /\ FoldFunction(+, 0, faults) < MaxFaults

Fault(kind) ==
    /\ Possible(kind)
    /\ faults' = [faults EXCEPT ![kind] = @ + 1]

Happened(kind) == faults[kind] > 0

-----------------------------------------------------------------------------
(* The entry point and the start of the runtime *)

InitializeDatabase ==
    /\ life = "new"
    /\ \/ database' = "open" /\ life' = "scheduling" /\ UNCHANGED faults
       \/ Fault("boot") /\ life' = "cleanup" /\ UNCHANGED database
    /\ UNCHANGED <<tenancyVars, scheduler, clientVars, serviceVars, taskVars, limitVars, heard>>

StartScheduler ==
    /\ life = "scheduling"
    /\ scheduler' = "running"
    /\ life' = "starting"
    /\ UNCHANGED <<tenancyVars, database, clientVars, serviceVars, taskVars, limitVars, heard, faults>>

\* client_factory is outside of start's try block; a disabled runtime has no
\* client and is never ready.
MakeClient ==
    /\ life = "starting"
    /\ \/ /\ codex' = "made" /\ attached' = TRUE
          /\ life' = "entering"
          /\ UNCHANGED faults
       \/ /\ life' = "serving"
          /\ UNCHANGED <<codex, attached, faults>>
       \/ /\ Fault("boot")
          /\ life' = "cleanup"
          /\ UNCHANGED <<codex, attached>>
    /\ UNCHANGED <<tenancyVars, database, scheduler, ready, serviceVars, taskVars, limitVars, heard>>

EnterClient ==
    /\ life = "entering"
    /\ codex' = "open"
    /\ life' = "checking"
    /\ UNCHANGED <<tenancyVars, database, scheduler, attached, ready, serviceVars, taskVars, limitVars, heard, faults>>

\* The account is known, or needs no login: in single-user mode the only service
\* is created, and the drafts of its Projects are pruned in a thread.
CheckAccount ==
    /\ life = "checking"
    /\ IF mode = "single_user"
       THEN services' = [services EXCEPT ![Local] = Root] /\ life' = "pruning"
       ELSE life' = "sampling" /\ UNCHANGED services
    /\ UNCHANGED <<tenancyVars, database, scheduler, clientVars, routed, service, turns, taskVars, limitVars, heard, faults>>

PruneAtStart ==
    /\ life = "pruning"
    /\ life' = "sampling"
    /\ UNCHANGED <<tenancyVars, database, scheduler, clientVars, serviceVars, taskVars, limitVars, heard, faults>>

\* A sample that is not answered is only logged; what samples say is for display.
SampleAtStart ==
    /\ life = "sampling"
    /\ ready' = TRUE
    /\ pump' = "reading" /\ health' = "sleeping"
    /\ life' = "serving"
    /\ UNCHANGED <<news, tenancyVars, database, scheduler, codex, attached, serviceVars,
                   limitVars, heard, faults>>

StartFails ==
    /\ \/ life \in {"entering", "checking"} /\ Fault("boot")
       \/ life = "pruning" /\ Fault("workspace")
       \/ life = "sampling" /\ Fault("sample")
    /\ life' = "aborting"
    /\ UNCHANGED <<tenancyVars, database, scheduler, clientVars, serviceVars, taskVars, limitVars, heard>>

Forget ==
    /\ attached' = FALSE
    /\ services' = [i \in Tenants |-> None]
    /\ routed' = [t \in Threads |-> None]

\* start's except clause: the client is closed, or that fails as well.
AbortStart ==
    /\ life = "aborting"
    /\ \/ codex' = "closed" /\ UNCHANGED faults
       \/ Fault("close") /\ codex' = "unclosed"
    /\ Forget
    /\ ready' = FALSE
    /\ life' = "cleanup"
    /\ UNCHANGED <<tenancyVars, database, scheduler, service, turns, taskVars, limitVars, heard>>

-----------------------------------------------------------------------------
(* Requests: require_web_user, _service and what uses the service *)

Serving == life = "serving"
Available == ready /\ attached

RequestArrives(r) ==
    /\ Serving
    /\ \E s \in Subjects \cup {None}, n \in Usernames \cup {None} : Arrive(r, s, n)
    /\ UNCHANGED <<processVars, clientVars, serviceVars, taskVars, limitVars, heard, faults>>

RequestResolves(r) ==
    /\ Resolve(r)
    /\ UNCHANGED <<processVars, clientVars, serviceVars, taskVars, limitVars, heard, faults>>

RequestHasNoWorkspace(r) ==
    /\ WorkspaceFails(r)
    /\ Fault("workspace")
    /\ UNCHANGED <<processVars, clientVars, serviceVars, taskVars, limitVars, heard>>

\* What an action of a request leaves alone before it has a service.
Elsewhere == UNCHANGED <<mode, tenants, contexts, asked, row, context, processVars, clientVars>>

Refused(r) ==
    /\ Goto(r, "unavailable")
    /\ UNCHANGED <<serviceVars, limitVars, faults>>

\* require_service: the tenant's service, or a new one.  The retention of its
\* Journals is pruned once it is registered, which may raise.
ServiceFor(r) ==
    LET i == context[r].tenant
    IN  [tenant |-> i,
         dir |-> IF services[i] = None THEN context[r].dir ELSE services[i]]

RequireService(r) ==
    /\ pc[r] = "identified"
    /\ \/ ~ Available /\ Refused(r)
       \/ LET s == ServiceFor(r)
          IN  /\ Available
              /\ services' = [services EXCEPT ![s.tenant] = s.dir]
              /\ \/ /\ service' = [service EXCEPT ![r] = s]
                    /\ Goto(r, "seeking")
                    /\ UNCHANGED faults
                 \/ /\ services[s.tenant] = None
                    /\ Fault("workspace")
                    /\ Goto(r, "failed")
                    /\ UNCHANGED service
              /\ UNCHANGED <<routed, turns, limitVars>>
    /\ Elsewhere /\ UNCHANGED <<taskVars, heard>>

\* _authorized_thread: a Thread in no Project of the service's registry is not
\* found; one that is found is routed to the service, and may get a Turn.
FindThread(r, t) ==
    /\ pc[r] = "seeking"
    /\ IF DirOf[t] = service[r].dir
       THEN /\ routed' = [routed EXCEPT ![t] = service[r].tenant]
            /\ turns' \in {turns, turns \cup {t}}
            /\ Goto(r, "done")
       ELSE Goto(r, "missing") /\ UNCHANGED <<routed, turns>>
    /\ Elsewhere /\ UNCHANGED <<services, service, taskVars, limitVars, heard, faults>>

ThreadLookupFails(r) ==
    /\ pc[r] = "seeking"
    /\ Fault("answer")
    /\ Goto(r, "unavailable")
    /\ Elsewhere /\ UNCHANGED <<serviceVars, taskVars, limitVars, heard>>

TurnEnds(t) ==
    /\ t \in turns
    /\ turns' = turns \ {t}
    /\ UNCHANGED <<tenancyVars, processVars, clientVars, services, routed, service, taskVars, limitVars, heard, faults>>

-----------------------------------------------------------------------------
(* Rate limits: consume_rate_limit_reset_credit *)

AskForCredit(r) ==
    /\ pc[r] = "identified"
    /\ lock' = Append(lock, r)
    /\ Goto(r, "locking")
    /\ Elsewhere /\ UNCHANGED <<serviceVars, taskVars, reached, credits, late, spent, lost, heard, faults>>

\* Mutant: nobody waits for the lock.
IsInLock(r) == \E i \in DOMAIN lock : lock[i] = r

HasLock(r) == lock # <<>> /\ Head(lock) = r

Leave(r, l) ==
    /\ lock' = Tail(lock)
    /\ Goto(r, l)

TakeLock(r) ==
    /\ pc[r] = "locking"
    /\ HasLock(r)
    /\ IF Available THEN Goto(r, "testing") /\ UNCHANGED lock ELSE Leave(r, "unavailable")
    /\ Elsewhere /\ UNCHANGED <<serviceVars, taskVars, reached, credits, late, spent, lost, heard, faults>>

\* A strict sample, then the thresholds, in the step in which it is answered.
TestLimits(r) ==
    /\ pc[r] = "testing"
    /\ \/ ~ reached /\ Leave(r, "not reached") /\ UNCHANGED faults
       \/ reached /\ credits = 0 /\ Leave(r, "no credit") /\ UNCHANGED faults
       \/ reached /\ credits > 0 /\ Goto(r, "consuming") /\ UNCHANGED <<lock, faults>>
       \/ Fault("answer") /\ Leave(r, "unavailable")
    /\ Elsewhere /\ UNCHANGED <<serviceVars, taskVars, reached, credits, late, spent, lost, heard>>

\* Codex takes a credit and resets the limits, or has nothing to take or reset.
CodexConsumes ==
    \/ /\ credits > 0
       /\ credits' = credits - 1
       /\ spent' = spent + 1
       /\ reached' = FALSE
    \/ /\ credits = 0 \/ ~ reached
       /\ UNCHANGED <<credits, spent, reached>>

ConsumeAnswered(r) ==
    /\ pc[r] = "consuming"
    /\ CodexConsumes
    /\ Leave(r, "done")
    /\ Elsewhere /\ UNCHANGED <<serviceVars, taskVars, late, lost, heard, faults>>

\* The caller gives up after the timeout; Codex has the request all the same.
ConsumeLost(r) ==
    /\ pc[r] = "consuming"
    /\ Fault("answer")
    /\ late' = late + 1
    /\ lost' = lost + 1
    /\ Leave(r, "unavailable")
    /\ Elsewhere /\ UNCHANGED <<serviceVars, taskVars, reached, credits, spent, heard>>

ConsumedLate ==
    /\ late > 0
    /\ late' = late - 1
    /\ CodexConsumes
    /\ UNCHANGED <<tenancyVars, processVars, clientVars, serviceVars, taskVars, lock, lost, heard, faults>>

\* The account is used, here or elsewhere, until a limit is reached, and the
\* window of a limit ends.
LimitMoves ==
    /\ Serving
    /\ reached' = ~ reached
    /\ spent' = IF reached THEN spent ELSE 0
    /\ UNCHANGED <<tenancyVars, processVars, clientVars, serviceVars, taskVars, credits, lock, late, lost, heard, faults>>

-----------------------------------------------------------------------------
(* The pump of global notifications *)

\* The service a notification goes to: the one that knows its Thread, or else the
\* only one there is.
Target(t) ==
    IF routed[t] # None THEN {routed[t]}
    ELSE LET made == {i \in Tenants : services[i] # None}
         IN  IF Cardinality(made) = 1 THEN made ELSE {}

NewsArrives(t) ==
    /\ pump = "reading"
    /\ \E i \in Target(t) : news' = [thread |-> t, tenant |-> i]
    /\ pump' = "publishing"
    /\ UNCHANGED <<tenancyVars, processVars, clientVars, serviceVars, health, limitVars, heard, faults>>

\* Mutant: what the only service is handed is published unseen.
Trusts(i, t) == routed[t] = i \/ services[i] # None

\* publish_notification finds the Project of the Thread before it writes.
Finds(i, t) == DirOf[t] = services[i]

\* Mutant: it ends the pump like any other error.
EndsAfterMiss == "ended"

\* ConsoleNotFound leaves the pump reading.
AfterMiss == "reading"

Publish ==
    /\ pump = "publishing"
    /\ LET t == news.thread
           i == news.tenant
       IN  IF Finds(i, t)
           THEN /\ heard' = heard \cup {<<t, i>>}
                /\ routed' = [routed EXCEPT ![t] = i]
                /\ pump' = "reading"
           ELSE pump' = AfterMiss /\ UNCHANGED <<heard, routed>>
    /\ news' = None
    /\ UNCHANGED <<tenancyVars, processVars, clientVars, services, service, turns, health, limitVars, faults>>

\* The stream or a publication raises: the pump ends, and nobody starts it again.
PumpFails ==
    /\ pump \notin {"off", "ended"}
    /\ Fault("news")
    /\ pump' = "ended" /\ news' = None
    /\ UNCHANGED <<tenancyVars, processVars, clientVars, serviceVars, health, limitVars, heard>>

-----------------------------------------------------------------------------
(* The loop of health samples *)

HealthWakes ==
    /\ health = "sleeping"
    /\ health' = IF Available THEN "sampling" ELSE "returned"
    /\ UNCHANGED <<tenancyVars, processVars, clientVars, serviceVars, pump, news, limitVars, heard, faults>>

\* A sample that is not answered is logged; one that cannot be read ends the loop.
\* The Projects of every service are listed then, and a workspace that cannot be
\* read ends it, too.
HealthSamples ==
    /\ health = "sampling"
    /\ \/ health' = "pruning" /\ UNCHANGED faults
       \/ /\ \E i \in Tenants : services[i] # None
          /\ Fault("workspace") /\ health' = "died"
       \/ Fault("sample") /\ health' = "died"
    /\ UNCHANGED <<tenancyVars, processVars, clientVars, serviceVars, pump, news, limitVars, heard>>

HealthPrunes ==
    /\ health = "pruning"
    /\ health' = "sleeping"
    /\ UNCHANGED <<tenancyVars, processVars, clientVars, serviceVars, pump, news, limitVars, heard, faults>>

-----------------------------------------------------------------------------
(* The lifespan's exit, close, and the end of the process *)

InFlight == {r \in Requests : pc[r] \in {"identified"} \cup Resolving \cup Working}

\* close, up to the end of the health loop: awaiting a loop that died raises its
\* error, and close goes no further.
BeginClose ==
    /\ Serving
    /\ InFlight = {}
    /\ ready' = FALSE
    /\ IF health = "died"
       THEN life' = "cleanup" /\ UNCHANGED health
       ELSE life' = "draining" /\ health' = "off"
    /\ UNCHANGED <<tenancyVars, database, scheduler, codex, attached, serviceVars, pump, news, limitVars, heard, faults>>

\* Mutant: it is left to notice that the client is gone.
LeftPump == pump

\* The pump is cancelled before the client is closed.
StoppedPump == "off"

\* TurnManager.shutdown, which ends or cancels every Turn's task, and then the
\* pump.
Drain ==
    /\ life = "draining"
    /\ turns' = {}
    /\ Forget
    /\ pump' = StoppedPump /\ news' = None
    /\ life' = IF attached THEN "closing" ELSE "cleanup"
    /\ UNCHANGED <<tenancyVars, database, scheduler, codex, ready, service, health,
                   limitVars, heard, faults>>

CloseClient ==
    /\ life = "closing"
    /\ \/ codex' = "closed" /\ UNCHANGED faults
       \/ Fault("close") /\ codex' = "unclosed"
    /\ life' = "cleanup"
    /\ UNCHANGED <<tenancyVars, database, scheduler, attached, ready, serviceVars, taskVars, limitVars, heard>>

\* Mutant: the database is not disposed of then.
GivesUp == IF scheduler' = "running" THEN "ended" ELSE "disposing"

\* What follows a scheduler that does not stop.
AfterScheduler == "disposing"

StopScheduler ==
    /\ life = "cleanup"
    /\ \/ scheduler' = "off" /\ UNCHANGED faults
       \/ scheduler = "running" /\ Fault("close") /\ UNCHANGED scheduler
    /\ life' = AfterScheduler
    /\ UNCHANGED <<tenancyVars, database, clientVars, serviceVars, taskVars, limitVars, heard>>

DisposeDatabase ==
    /\ life = "disposing"
    /\ \/ database' = "off" /\ UNCHANGED faults
       \/ database = "open" /\ Fault("close") /\ UNCHANGED database
    /\ life' = "ended"
    /\ UNCHANGED <<tenancyVars, scheduler, clientVars, serviceVars, taskVars, limitVars, heard>>

Ended == life = "ended" /\ UNCHANGED vars

Start ==
    \/ InitializeDatabase \/ StartScheduler \/ MakeClient \/ EnterClient
    \/ CheckAccount \/ PruneAtStart \/ SampleAtStart \/ StartFails \/ AbortStart

Request(r) ==
    \/ RequestArrives(r) \/ RequestResolves(r) \/ RequestHasNoWorkspace(r)
    \/ RequireService(r) \/ ThreadLookupFails(r)
    \/ \E t \in Threads : FindThread(r, t)

SpendCredit(r) ==
    \/ AskForCredit(r) \/ TakeLock(r) \/ TestLimits(r)
    \/ ConsumeAnswered(r) \/ ConsumeLost(r)

Account == ConsumedLate \/ LimitMoves

Background ==
    \/ \E t \in Threads : TurnEnds(t) \/ NewsArrives(t)
    \/ Publish \/ PumpFails \/ HealthWakes \/ HealthSamples \/ HealthPrunes

Stop == BeginClose \/ Drain \/ CloseClient \/ StopScheduler \/ DisposeDatabase

Next ==
    \/ Start \/ Stop \/ Ended
    \/ \E r \in Requests : Request(r) \/ SpendCredit(r)
    \/ Account \/ Background

Spec == Init /\ [][Next]_vars

-----------------------------------------------------------------------------
(* Properties *)

Owns(i, d) == (i = Local /\ d = Root) \/ \E t \in tenants : t.id = i /\ t.dir = d

\* Every tenant has one service, for its own workspace; a Thread is known to, and
\* its notifications are published under, the tenant in whose workspace it is.
NewsStaysWithItsTenant ==
    /\ \A i \in Tenants : services[i] # None => Owns(i, services[i])
    /\ \A r \in Requests : service[r] # None =>
          service[r].tenant = context[r].tenant /\ service[r].dir = context[r].dir
    /\ \A t \in Threads : routed[t] # None => Owns(routed[t], DirOf[t])
    /\ \A h \in heard : Owns(h[2], DirOf[h[1]])

\* The client is closed after everything that uses it: requests, Turns, the pump
\* and the health loop; and nobody can get hold of it any more.
ClientOutlivesItsUsers ==
    codex \in {"closed", "unclosed"} =>
        /\ InFlight = {} /\ turns = {}
        /\ pump \in {"off", "ended"} /\ health \in {"off", "died"}
        /\ ~ ready /\ ~ attached
        /\ \A i \in Tenants : services[i] = None

Unreleased ==
    {x \in {"codex", "scheduler", "database"} :
        \/ x = "codex" /\ codex \in {"made", "open", "unclosed"}
        \/ x = "scheduler" /\ scheduler = "running"
        \/ x = "database" /\ database = "open"}

\* One failing step of the shutdown skips no other: what is not released when the
\* process ends is what itself failed to close.  A health loop that died before is
\* an exception; ShutdownReleases leaves it out.
EachFailureLeavesOne ==
    life = "ended" /\ health # "died" => Cardinality(Unreleased) = faults["close"]

ShutdownReleases ==
    life = "ended" => Cardinality(Unreleased) = faults["close"] /\ turns = {}

\* While the service is ready its background tasks run, unless the notification
\* stream, a publication, a workspace or a sample failed.
OnlyFaultsStopTasks ==
    ready => /\ pump \in {"off", "ended"} => Happened("news")
             /\ health \notin {"sleeping", "sampling", "pruning"} =>
                    Happened("workspace") \/ Happened("sample")

\* However many users ask for it at once, a limit that is reached costs one credit,
\* and one more for each answer of Codex that was lost.
OneCreditPerLimit == spent <= 1 + lost
=============================================================================
