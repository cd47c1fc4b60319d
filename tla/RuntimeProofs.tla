---------------------------- MODULE RuntimeProofs -----------------------------
(***************************************************************************)
(* Theorems about Tenancy and Runtime.                                     *)
(*                                                                         *)
(* Workspaces: the rows of the table are unique by id, subject and         *)
(* directory and only their usernames change, so that whatever a request   *)
(* has read, cached or opened a service for still names the same tenant    *)
(* and directory (TenantsInv, ServicesInv).  Reset credits: whoever asks   *)
(* Codex for one holds the lock and has seen the limit reached after the   *)
(* last credit was spent (CreditsInv).  The end: a client that is closed   *)
(* has no users left (PhasesInv), and what did not close is what is still  *)
(* open when the process has passed it (ReleasesInv).  Background tasks:   *)
(* one that ended while the service is ready met one of the faults         *)
(* (TasksInv).                                                             *)
(***************************************************************************)
EXTENDS Runtime, FiniteSetTheorems, TLAPS

USE DEF tenancyVars, processVars, clientVars, serviceVars, taskVars, limitVars,
        Goto, Elsewhere, Resolving, Working

-----------------------------------------------------------------------------
(* What each part of Next leaves alone *)

\* Only requests change what they know of tenants.
LEMMA OthersKeepTenancy ==
    Start \/ Stop \/ Ended \/ Account \/ Background => UNCHANGED tenancyVars
<1>1. Start => UNCHANGED tenancyVars
  BY DEF Start, InitializeDatabase, StartScheduler, MakeClient, EnterClient, CheckAccount,
         PruneAtStart, SampleAtStart, StartFails, AbortStart
<1>2. Stop => UNCHANGED tenancyVars
  BY DEF Stop, BeginClose, Drain, CloseClient, StopScheduler, DisposeDatabase
<1>3. Background => UNCHANGED tenancyVars
  BY DEF Background, TurnEnds, NewsArrives, Publish, PumpFails, HealthWakes, HealthSamples,
         HealthPrunes
<1> QED
  BY <1>1, <1>2, <1>3 DEF Account, ConsumedLate, LimitMoves, Ended, vars

\* The limits concern those who spend a credit, and Codex.
LEMMA OthersKeepLimits ==
    Start \/ Stop \/ Ended \/ Background \/ (\E r \in Requests : Request(r))
        => UNCHANGED limitVars
<1>1. Start => UNCHANGED limitVars
  BY DEF Start, InitializeDatabase, StartScheduler, MakeClient, EnterClient, CheckAccount,
         PruneAtStart, SampleAtStart, StartFails, AbortStart
<1>2. Stop => UNCHANGED limitVars
  BY DEF Stop, BeginClose, Drain, CloseClient, StopScheduler, DisposeDatabase
<1>3. Background => UNCHANGED limitVars
  BY DEF Background, TurnEnds, NewsArrives, Publish, PumpFails, HealthWakes, HealthSamples,
         HealthPrunes
<1>4. ASSUME NEW r \in Requests, Request(r) PROVE UNCHANGED limitVars
  BY <1>4 DEF Request, RequestArrives, RequestResolves, RequestHasNoWorkspace, RequireService,
              Refused, ThreadLookupFails, FindThread
<1> QED
  BY <1>1, <1>2, <1>3, <1>4 DEF Ended, vars

\* Requests, and what Codex does with the account, leave the process, its client
\* and its tasks alone.
LEMMA RequestsKeepProcess ==
    Account \/ (\E r \in Requests : Request(r) \/ SpendCredit(r))
        => UNCHANGED <<processVars, clientVars, taskVars, heard>>
<1>1. ASSUME NEW r \in Requests, Request(r)
      PROVE UNCHANGED <<processVars, clientVars, taskVars, heard>>
  BY <1>1 DEF Request, RequestArrives, RequestResolves, RequestHasNoWorkspace, RequireService,
              ThreadLookupFails, FindThread
<1>2. ASSUME NEW r \in Requests, SpendCredit(r)
      PROVE UNCHANGED <<processVars, clientVars, taskVars, heard>>
  BY <1>2 DEF SpendCredit, AskForCredit, TakeLock, TestLimits, ConsumeAnswered, ConsumeLost
<1> QED
  BY <1>1, <1>2 DEF Account, ConsumedLate, LimitMoves

\* Who spends a credit needs no service.
LEMMA CreditsKeepServices ==
    Account \/ (\E r \in Requests : SpendCredit(r)) => UNCHANGED serviceVars
BY DEF Account, ConsumedLate, LimitMoves, SpendCredit, AskForCredit, TakeLock, TestLimits,
       ConsumeAnswered, ConsumeLost

\* And no tenant: of what Tenancy keeps, only its own pc moves.
LEMMA CreditsKeepTenancy ==
    \A r \in Requests : SpendCredit(r) =>
        /\ UNCHANGED <<mode, tenants, contexts, asked, row, context>>
        /\ pc[r] \in {"identified", "locking", "testing", "consuming"}
        /\ \E l \in {"locking", "testing", "consuming"} \cup Answered : Goto(r, l)
BY DEF SpendCredit, AskForCredit, TakeLock, TestLimits, ConsumeAnswered, ConsumeLost, Leave,
       Answered

-----------------------------------------------------------------------------
(* Types: TypeOK as it stands is not inductive, since a step copies what an *)
(* earlier one has tested.                                                  *)

\* What a request is known to have where it stands, and what the pump publishes.
Shape(r) ==
    /\ pc[r] \in Resolving =>
         /\ asked[r].subject \in Subjects /\ asked[r].user \in Usernames
         /\ Canonical[asked[r].user] \in Directories
    /\ pc[r] \in {"renaming", "resolving"} => row[r] \in TenantRows
    /\ pc[r] \in {"identified"} \cup Working => context[r] \in Contexts
    /\ pc[r] = "seeking" => service[r] \in ServiceViews
    /\ pc[r] \in {"testing", "consuming"} => HasLock(r)

Shapes ==
    /\ \A r \in Requests : Shape(r)
    /\ pump = "publishing" => news \in Publishing

Points ==
    {"idle", "identified"} \cup Resolving \cup Rejected \cup Working \cup Answered

ProcessTypes ==
    /\ life \in Lives
    /\ database \in {"off", "open"} /\ scheduler \in {"off", "running"}
    /\ codex \in {"none", "made", "open", "closed", "unclosed"}
    /\ attached \in BOOLEAN /\ ready \in BOOLEAN

ServiceTypes ==
    /\ services \in [Tenants -> Directories \cup {Root, None}]
    /\ routed \in [Threads -> Tenants \cup {None}]
    /\ service \in [Requests -> ServiceViews \cup {None}]
    /\ turns \subseteq Threads

TaskTypes ==
    /\ pump \in {"off", "reading", "publishing", "ended"}
    /\ news \in Publishing \cup {None}
    /\ health \in {"off", "sleeping", "sampling", "pruning", "returned", "died"}
    /\ heard \subseteq Threads \X Tenants

LimitTypes ==
    /\ reached \in BOOLEAN /\ lock \in Seq(Requests)
    /\ credits \in Nat /\ late \in Nat /\ spent \in Nat /\ lost \in Nat

LEMMA TypeParts ==
    TypeOK <=> /\ TenancyTypeOK /\ pc \in [Requests -> Points]
               /\ ProcessTypes /\ ServiceTypes /\ TaskTypes /\ LimitTypes
BY DEF TypeOK, Points, ProcessTypes, ServiceTypes, TaskTypes, LimitTypes

LEMMA TypeInit == Init => TypeOK /\ Shapes
<1> SUFFICES ASSUME Init PROVE TypeOK /\ Shapes
  OBVIOUS
<1> USE DEF Init, TenancyInit
<1>1. TenancyTypeOK
  BY DEF TenancyTypeOK
<1>2. LimitTypes
  <2>1. credits \in Nat
    BY Parameters DEF Parameters
  <2> QED
    BY <2>1 DEF LimitTypes
<1>3. ProcessTypes /\ ServiceTypes /\ TaskTypes
  BY DEF ProcessTypes, Lives, ServiceTypes, TaskTypes
<1>4. pc \in [Requests -> Points]
  BY DEF Points
<1> QED
  BY <1>1, <1>2, <1>3, <1>4, TypeParts DEF Shapes, Shape

LEMMA ProcessTypesKept == ProcessTypes /\ [Next]_vars => ProcessTypes'
<1> SUFFICES ASSUME ProcessTypes, [Next]_vars PROVE ProcessTypes'
  OBVIOUS
<1> USE DEF ProcessTypes, Lives
<1>1. CASE Start
  BY <1>1 DEF Start, InitializeDatabase, StartScheduler, MakeClient, EnterClient, CheckAccount,
              PruneAtStart, SampleAtStart, StartFails, AbortStart, Forget
<1>2. CASE Stop
  BY <1>2 DEF Stop, BeginClose, Drain, CloseClient, StopScheduler, DisposeDatabase, Forget,
              AfterScheduler
<1>3. CASE Background
  BY <1>3 DEF Background, TurnEnds, NewsArrives, Publish, PumpFails, HealthWakes,
              HealthSamples, HealthPrunes
<1> QED
  BY <1>1, <1>2, <1>3, RequestsKeepProcess DEF Next, Ended, vars

LEMMA LimitTypesKept == TypeOK /\ Shapes /\ [Next]_vars => LimitTypes'
<1> SUFFICES ASSUME TypeOK, Shapes, [Next]_vars PROVE LimitTypes'
  OBVIOUS
<1> LimitTypes
  BY TypeParts
<1>1. ASSUME NEW r \in Requests, SpendCredit(r) PROVE LimitTypes'
  <2>1. lock' \in {lock, Append(lock, r)} \/ (lock' = Tail(lock) /\ HasLock(r))
    BY <1>1 DEF SpendCredit, AskForCredit, TakeLock, TestLimits, ConsumeAnswered, ConsumeLost,
                Leave, Shapes, Shape
  <2>2. lock' \in Seq(Requests)
    BY <2>1 DEF HasLock, LimitTypes
  <2>3. reached' \in BOOLEAN
    BY <1>1 DEF SpendCredit, AskForCredit, TakeLock, TestLimits, ConsumeAnswered, ConsumeLost,
                CodexConsumes, LimitTypes
  <2>4. credits' \in Nat /\ late' \in Nat /\ spent' \in Nat /\ lost' \in Nat
    <3>1. CASE AskForCredit(r) \/ TakeLock(r) \/ TestLimits(r)
      BY <3>1 DEF AskForCredit, TakeLock, TestLimits, LimitTypes
    <3>2. CASE ConsumeAnswered(r)
      BY <3>2 DEF ConsumeAnswered, CodexConsumes, LimitTypes
    <3>3. CASE ConsumeLost(r)
      BY <3>3 DEF ConsumeLost, LimitTypes
    <3> QED
      BY <1>1, <3>1, <3>2, <3>3 DEF SpendCredit
  <2> QED
    BY <2>2, <2>3, <2>4 DEF LimitTypes
<1>2. CASE Account
  <2>1. lock' = lock /\ reached' \in BOOLEAN
    BY <1>2 DEF Account, ConsumedLate, LimitMoves, CodexConsumes, LimitTypes
  <2>2. credits' \in Nat /\ late' \in Nat /\ spent' \in Nat /\ lost' \in Nat
    BY <1>2 DEF Account, ConsumedLate, LimitMoves, CodexConsumes, LimitTypes
  <2> QED
    BY <2>1, <2>2 DEF LimitTypes
<1> QED
  BY <1>1, <1>2, OthersKeepLimits DEF Next, Ended, vars, LimitTypes

LEMMA TaskTypesKept == TypeOK /\ Shapes /\ [Next]_vars => TaskTypes'
<1> SUFFICES ASSUME TypeOK, Shapes, [Next]_vars PROVE TaskTypes'
  OBVIOUS
<1> TaskTypes /\ ServiceTypes
  BY TypeParts
<1> USE DEF TaskTypes
<1>1. CASE Start
  BY <1>1 DEF Start, InitializeDatabase, StartScheduler, MakeClient, EnterClient, CheckAccount,
              PruneAtStart, SampleAtStart, StartFails, AbortStart
<1>2. CASE Stop
  BY <1>2 DEF Stop, BeginClose, Drain, CloseClient, StopScheduler, DisposeDatabase, StoppedPump
<1>3. ASSUME NEW t \in Threads, TurnEnds(t) \/ NewsArrives(t) PROVE TaskTypes'
  <2>1. Target(t) \subseteq Tenants
    BY DEF Target, ServiceTypes
  <2> QED
    BY <1>3, <2>1 DEF TurnEnds, NewsArrives, Publishing
<1>4. CASE Publish
  BY <1>4 DEF Publish, AfterMiss, Shapes, Shape, Publishing
<1>5. CASE PumpFails \/ HealthWakes \/ HealthSamples \/ HealthPrunes
  BY <1>5 DEF PumpFails, HealthWakes, HealthSamples, HealthPrunes
<1> QED
  BY <1>1, <1>2, <1>3, <1>4, <1>5, RequestsKeepProcess DEF Next, Background, Ended, vars

LEMMA ServiceTypesKept == TypeOK /\ Shapes /\ [Next]_vars => ServiceTypes'
<1> SUFFICES ASSUME TypeOK, Shapes, [Next]_vars PROVE ServiceTypes'
  OBVIOUS
<1> ServiceTypes
  BY TypeParts
<1> USE DEF ServiceTypes
<1>1. CASE Start
  BY <1>1 DEF Start, InitializeDatabase, StartScheduler, MakeClient, EnterClient, CheckAccount,
              PruneAtStart, SampleAtStart, StartFails, AbortStart, Forget, Tenants
<1>2. CASE Stop
  BY <1>2 DEF Stop, BeginClose, Drain, CloseClient, StopScheduler, DisposeDatabase, Forget
<1>3. CASE Publish
  BY <1>3 DEF Publish, Shapes, Shape, Publishing
<1>4. ASSUME NEW t \in Threads, TurnEnds(t) \/ NewsArrives(t) PROVE ServiceTypes'
  BY <1>4 DEF TurnEnds, NewsArrives
<1>5. CASE PumpFails \/ HealthWakes \/ HealthSamples \/ HealthPrunes
  BY <1>5 DEF PumpFails, HealthWakes, HealthSamples, HealthPrunes
<1>6. ASSUME NEW r \in Requests, RequireService(r) PROVE ServiceTypes'
  <2>1. CASE Refused(r)
    BY <1>6, <2>1 DEF RequireService, Refused
  <2>2. ServiceFor(r) \in ServiceViews
    BY <1>6 DEF RequireService, ServiceFor, Shapes, Shape, Contexts, ServiceViews
  <2> QED
    BY <1>6, <2>1, <2>2 DEF RequireService, ServiceViews
<1>7. ASSUME NEW r \in Requests, NEW t \in Threads, FindThread(r, t) PROVE ServiceTypes'
  BY <1>7 DEF FindThread, Shapes, Shape, ServiceViews
<1>8. ASSUME NEW r \in Requests,
             RequestArrives(r) \/ RequestResolves(r) \/ RequestHasNoWorkspace(r)
             \/ ThreadLookupFails(r)
      PROVE ServiceTypes'
  BY <1>8 DEF RequestArrives, RequestResolves, RequestHasNoWorkspace, ThreadLookupFails
<1> QED
  BY <1>1, <1>2, <1>3, <1>4, <1>5, <1>6, <1>7, <1>8, CreditsKeepServices
     DEF Next, Request, Background, Ended, vars

LEMMA RequestMoves ==
    ASSUME NEW r \in Requests, Request(r) PROVE \E l \in Points : Goto(r, l)
<1> USE DEF Points, Rejected, Answered
<1>1. CASE RequestArrives(r)
  BY <1>1 DEF RequestArrives, Arrive
<1>2. CASE RequestResolves(r)
  BY <1>2 DEF RequestResolves, Resolve, FindTenant, RenameTenant, FindAssigned, InsertTenant,
              Reselect, ResolveContext
<1>3. CASE RequestHasNoWorkspace(r) \/ ThreadLookupFails(r)
  BY <1>3 DEF RequestHasNoWorkspace, WorkspaceFails, ThreadLookupFails
<1>4. CASE RequireService(r)
  BY <1>4 DEF RequireService, Refused
<1>5. ASSUME NEW t \in Threads, FindThread(r, t) PROVE \E l \in Points : Goto(r, l)
  BY <1>5 DEF FindThread
<1> QED
  BY <1>1, <1>2, <1>3, <1>4, <1>5 DEF Request

LEMMA PointsKept == pc \in [Requests -> Points] /\ [Next]_vars => pc' \in [Requests -> Points]
BY RequestMoves, CreditsKeepTenancy, OthersKeepTenancy DEF Next, vars, Points

\* What a request does in Tenancy.
Looking(r) ==
    \/ RequestArrives(r)
    \/ RequestResolves(r)
    \/ WorkspaceFails(r)

\* The rest of it, and everything else, moves no more than a pc.
LEMMA OthersKeepTenants ==
    [Next]_vars /\ (\A r \in Requests : ~ Looking(r))
        => UNCHANGED <<mode, tenants, contexts, asked, row, context>>
<1> SUFFICES ASSUME [Next]_vars, \A r \in Requests : ~ Looking(r)
             PROVE UNCHANGED <<mode, tenants, contexts, asked, row, context>>
  OBVIOUS
<1>1. ASSUME NEW r \in Requests, Request(r)
      PROVE UNCHANGED <<mode, tenants, contexts, asked, row, context>>
  BY <1>1 DEF Request, Looking, RequestHasNoWorkspace, RequireService, ThreadLookupFails, FindThread
<1> QED
  BY <1>1, OthersKeepTenancy, CreditsKeepTenancy DEF Next, vars

LEMMA TenancyTypesKept == TypeOK /\ Shapes /\ [Next]_vars => TenancyTypeOK'
<1> SUFFICES ASSUME TypeOK, Shapes, [Next]_vars PROVE TenancyTypeOK'
  OBVIOUS
<1> TenancyTypeOK
  BY TypeParts
<1> USE DEF TenancyTypeOK
<1>1. ASSUME NEW r \in Requests, RequestArrives(r) PROVE TenancyTypeOK'
  <2>1. PICK s \in Subjects \cup {None} : \E n \in Usernames \cup {None} : Arrive(r, s, n)
    BY <1>1 DEF RequestArrives
  <2>2. PICK n \in Usernames \cup {None} : Arrive(r, s, n)
    BY <2>1
  <2>3. SingleContext \in Contexts
    BY DEF SingleContext, Contexts, Tenants
  <2>4. asked' \in [Requests -> Identity \cup {None}]
    BY <2>2 DEF Arrive, Identity
  <2>5. context' \in [Requests -> Contexts \cup {None}]
    BY <2>2, <2>3 DEF Arrive
  <2> QED
    BY <2>2, <2>4, <2>5 DEF Arrive
<1>2. ASSUME NEW r \in Requests, Resolve(r) PROVE TenancyTypeOK'
  <2>1. CASE FindTenant(r) \/ FindAssigned(r) \/ Reselect(r)
    BY <2>1 DEF FindTenant, FindAssigned, Reselect, Existing, RowsOf
  <2>2. CASE RenameTenant(r)
    <3> USE <2>2 DEF RenameTenant, Shapes, Shape
    <3>1. \A t \in TenantRows : Renamed(t, asked[r].user) \in TenantRows
      BY DEF Renamed, TenantRows
    <3>2. tenants' \subseteq TenantRows
      BY <3>1
    <3>3. row' \in [Requests -> TenantRows \cup {None}]
      BY DEF TenantRows
    <3> QED
      BY <3>2, <3>3
  <2>3. CASE InsertTenant(r)
    <3> DEFINE t == [id |-> r, subject |-> asked[r].subject, user |-> asked[r].user,
                     dir |-> Canonical[asked[r].user]]
    <3>1. t \in TenantRows
      BY <2>3 DEF InsertTenant, Shapes, Shape, TenantRows
    <3> QED
      BY <2>3, <3>1 DEF InsertTenant
  <2>4. CASE ResolveContext(r)
    <3> DEFINE made == [tenant |-> row[r].id, user |-> row[r].user, dir |-> row[r].dir]
               c == IF Reusable(r) THEN contexts[row[r].id] ELSE made
    <3>1. row[r] \in TenantRows
      BY <2>4 DEF ResolveContext, Shapes, Shape
    <3>2. made \in Contexts /\ row[r].id \in Tenants
      BY <3>1 DEF TenantRows, Contexts, Tenants
    <3>3. c \in Contexts
      BY <3>2 DEF Reusable
    <3>4. \E d \in Contexts : /\ context' = [context EXCEPT ![r] = d]
                             /\ contexts' = [contexts EXCEPT ![d.tenant] = d]
      BY <2>4, <3>3 DEF ResolveContext
    <3>5. /\ context' \in [Requests -> Contexts \cup {None}]
          /\ contexts' \in [Tenants -> Contexts \cup {None}]
      BY <3>4
    <3> QED
      BY <2>4, <3>5 DEF ResolveContext
  <2> QED
    BY <1>2, <2>1, <2>2, <2>3, <2>4 DEF Resolve
<1>3. ASSUME NEW r \in Requests, WorkspaceFails(r) PROVE TenancyTypeOK'
  BY <1>3 DEF WorkspaceFails
<1> QED
  BY <1>1, <1>2, <1>3, OthersKeepTenants DEF Looking, RequestResolves

\* A step of one request is none of another.
LEMMA OthersStand ==
    ASSUME TypeOK, NEW r \in Requests, NEW q \in Requests, q # r,
           Request(r) \/ SpendCredit(r)
    PROVE  /\ pc'[q] = pc[q] /\ asked'[q] = asked[q] /\ row'[q] = row[q]
           /\ context'[q] = context[q] /\ service'[q] = service[q]
<1>0. /\ pc \in [Requests -> Points] /\ TenancyTypeOK /\ ServiceTypes
  BY TypeParts
<1> USE <1>0 DEF TenancyTypeOK, ServiceTypes
<1>1. CASE SpendCredit(r)
  BY <1>1, CreditsKeepTenancy, CreditsKeepServices
<1>2. CASE RequestArrives(r)
  BY <1>2 DEF RequestArrives, Arrive
<1>3. CASE RequestResolves(r)
  BY <1>3 DEF RequestResolves, Resolve, FindTenant, RenameTenant, FindAssigned, InsertTenant,
              Reselect, ResolveContext
<1>4. CASE RequestHasNoWorkspace(r) \/ ThreadLookupFails(r)
  BY <1>4 DEF RequestHasNoWorkspace, WorkspaceFails, ThreadLookupFails
<1>5. CASE RequireService(r)
  BY <1>5 DEF RequireService, Refused
<1>6. ASSUME NEW t \in Threads, FindThread(r, t)
      PROVE  /\ pc'[q] = pc[q] /\ asked'[q] = asked[q] /\ row'[q] = row[q]
             /\ context'[q] = context[q] /\ service'[q] = service[q]
  BY <1>6 DEF FindThread
<1> QED
  BY <1>1, <1>2, <1>3, <1>4, <1>5, <1>6 DEF Request

LEMMA ShapeKept ==
    ASSUME TypeOK, Shapes, NEW r \in Requests, Request(r) PROVE Shape(r)'
<1>0. /\ pc \in [Requests -> Points] /\ TenancyTypeOK /\ ServiceTypes /\ Shape(r)
  BY TypeParts DEF Shapes
<1>1. CASE RequestArrives(r)
  <2>1. PICK s \in Subjects \cup {None} : \E n \in Usernames \cup {None} : Arrive(r, s, n)
    BY <1>1 DEF RequestArrives
  <2>2. PICK n \in Usernames \cup {None} : Arrive(r, s, n)
    BY <2>1
  <2>3. CASE mode = "single_user"
    <3>1. SingleContext \in Contexts
      BY DEF SingleContext, Contexts, Tenants
    <3>2. pc'[r] = "identified" /\ context'[r] \in Contexts
      BY <1>0, <2>2, <2>3, <3>1 DEF Arrive, TenancyTypeOK
    <3> QED
      BY <3>2 DEF Shape
  <2>4. CASE mode = "multi_tenant"
    <3>1. pc'[r] \in {"required", "invalid", "finding"}
      BY <1>0, <2>2, <2>4 DEF Arrive
    <3>2. asked'[r] = [subject |-> s, user |-> n]
      BY <1>0, <2>2 DEF Arrive, TenancyTypeOK
    <3>3. pc'[r] = "finding" => s # None /\ n # None /\ Canonical[n] # None
      BY <1>0, <2>2, <2>4 DEF Arrive, WellSpelled
    <3>4. pc'[r] = "finding" =>
            s \in Subjects /\ n \in Usernames /\ Canonical[n] \in Directories
      BY <3>3, Identities DEF Identities
    <3> QED
      BY <3>1, <3>2, <3>4 DEF Shape
  <2> QED
    BY <1>0, <2>3, <2>4 DEF TenancyTypeOK
<1>2. CASE RequestResolves(r)
  <2>1. Shape(r)'
    <3> USE <1>0 DEF Shape, TenancyTypeOK
    <3>1. CASE FindTenant(r) \/ Reselect(r) \/ FindAssigned(r)
      BY <3>1 DEF FindTenant, Reselect, FindAssigned, Existing, RowsOf
    <3>2. CASE RenameTenant(r)
      BY <3>2 DEF RenameTenant, TenantRows
    <3>3. CASE InsertTenant(r)
      BY <3>3 DEF InsertTenant, TenantRows
    <3>4. CASE ResolveContext(r)
      <4>1. row[r].id \in Tenants
        BY <3>4 DEF ResolveContext, TenantRows, Tenants
      <4>2. context'[r] \in Contexts
        BY <3>4, <4>1 DEF ResolveContext, Reusable, TenantRows, Contexts
      <4>3. pc'[r] = "identified"
        BY <3>4 DEF ResolveContext
      <4> QED
        BY <4>2, <4>3
    <3> QED
      BY <1>2, <3>1, <3>2, <3>3, <3>4 DEF RequestResolves, Resolve
  <2> QED
    BY <2>1
<1>3. CASE RequestHasNoWorkspace(r) \/ ThreadLookupFails(r)
  BY <1>0, <1>3 DEF RequestHasNoWorkspace, WorkspaceFails, ThreadLookupFails, Shape
<1>4. CASE RequireService(r)
  <2>1. CASE Refused(r)
    BY <1>0, <1>4, <2>1 DEF RequireService, Refused, Shape
  <2>2. ServiceFor(r) \in ServiceViews
    BY <1>0, <1>4 DEF RequireService, ServiceFor, Shape, Contexts, ServiceViews, ServiceTypes
  <2> QED
    BY <1>0, <1>4, <2>1, <2>2 DEF RequireService, Shape, ServiceTypes
<1>5. ASSUME NEW t \in Threads, FindThread(r, t) PROVE Shape(r)'
  BY <1>0, <1>5 DEF FindThread, Shape
<1> QED
  BY <1>1, <1>2, <1>3, <1>4, <1>5 DEF Request

\* The lock stays with its holder until that one leaves, and grows at its end.
LEMMA LockStays ==
    ASSUME TypeOK, Shapes, NEW r \in Requests, NEW q \in Requests, q # r, SpendCredit(r),
           HasLock(q)
    PROVE  HasLock(q)'
<1>0. lock \in Seq(Requests) /\ lock # <<>> /\ Head(lock) = q /\ ~ HasLock(r)
  BY TypeParts DEF LimitTypes, HasLock
<1>1. CASE AskForCredit(r)
  BY <1>0, <1>1 DEF AskForCredit, HasLock
<1>2. CASE TakeLock(r)
  BY <1>0, <1>2 DEF TakeLock
<1>3. CASE TestLimits(r) \/ ConsumeAnswered(r) \/ ConsumeLost(r)
  BY <1>0, <1>3 DEF TestLimits, ConsumeAnswered, ConsumeLost, Shapes, Shape
<1> QED
  BY <1>1, <1>2, <1>3 DEF SpendCredit

LEMMA ShapesKept == TypeOK /\ Shapes /\ [Next]_vars => Shapes'
<1> SUFFICES ASSUME TypeOK, Shapes, [Next]_vars PROVE Shapes'
  OBVIOUS
<1>0. /\ pc \in [Requests -> Points]
      /\ ServiceTypes /\ TaskTypes
  BY TypeParts
<1>1. ASSUME NEW r \in Requests, Request(r) PROVE Shapes'
  <2>1. ASSUME NEW q \in Requests, q # r PROVE Shape(q)'
    <3>1. Shape(q) /\ lock' = lock
      BY <1>1, OthersKeepLimits DEF Shapes
    <3> QED
      BY <1>1, <2>1, <3>1, OthersStand DEF Shape, HasLock
  <2> QED
    BY <1>1, <2>1, ShapeKept, RequestsKeepProcess DEF Shapes
<1>2. ASSUME NEW r \in Requests, SpendCredit(r) PROVE Shapes'
  <2>1. ASSUME NEW q \in Requests, q # r PROVE Shape(q)'
    <3>1. Shape(q)
      BY DEF Shapes
    <3> QED
      BY <1>2, <2>1, <3>1, OthersStand, LockStays DEF Shape
  <2>2. Shape(r)'
    <3>1. pc'[r] \in {"locking", "testing", "consuming"} \cup Answered
      BY <1>0, <1>2, CreditsKeepTenancy
    <3>2. context'[r] \in Contexts
      BY <1>2, CreditsKeepTenancy DEF Shapes, Shape
    <3>3. pc'[r] \in {"testing", "consuming"} => HasLock(r) /\ lock' = lock
      BY <1>0, <1>2 DEF SpendCredit, AskForCredit, TakeLock, TestLimits, ConsumeAnswered,
                        ConsumeLost, Leave, Shapes, Shape
    <3> QED
      BY <3>1, <3>2, <3>3 DEF Shape, Answered, HasLock
  <2> QED
    BY <1>2, <2>1, <2>2, RequestsKeepProcess DEF Shapes
<1>3. ASSUME UNCHANGED <<tenancyVars, service, lock>>,
             pump' = "publishing" => news' \in Publishing
      PROVE  Shapes'
  BY <1>3 DEF Shapes, Shape, HasLock
<1>4. CASE Start \/ Stop
  BY <1>4, <1>3, OthersKeepTenancy, OthersKeepLimits
     DEF Shapes, Start, InitializeDatabase, StartScheduler, MakeClient, EnterClient, CheckAccount,
         PruneAtStart, SampleAtStart, StartFails, AbortStart,
         Stop, BeginClose, Drain, CloseClient, StopScheduler, DisposeDatabase, StoppedPump
<1>5. CASE Background
  <2>1. ASSUME NEW t \in Threads, TurnEnds(t) \/ NewsArrives(t) PROVE Shapes'
    <3>1. Target(t) \subseteq Tenants
      BY <1>0 DEF Target, ServiceTypes
    <3> QED
      BY <2>1, <3>1, <1>3, <1>5, OthersKeepTenancy, OthersKeepLimits
         DEF Shapes, TurnEnds, NewsArrives, Publishing
  <2>2. CASE Publish \/ PumpFails \/ HealthWakes \/ HealthSamples \/ HealthPrunes
    BY <2>2, <1>3, <1>5, OthersKeepTenancy, OthersKeepLimits
       DEF Shapes, Publish, AfterMiss, PumpFails, HealthWakes, HealthSamples, HealthPrunes
  <2> QED
    BY <1>5, <2>1, <2>2 DEF Background
<1>6. CASE Account
  BY <1>3, <1>6, OthersKeepTenancy, CreditsKeepServices, RequestsKeepProcess
     DEF Shapes, Account, ConsumedLate, LimitMoves
<1> QED
  BY <1>1, <1>2, <1>3, <1>4, <1>5, <1>6 DEF Next, Ended, vars, Shapes

LEMMA Typed == Spec => [](TypeOK /\ Shapes)
<1>1. Init => TypeOK /\ Shapes
  BY TypeInit
<1>2. TypeOK /\ Shapes /\ [Next]_vars => (TypeOK /\ Shapes)'
  <2> SUFFICES ASSUME TypeOK, Shapes, [Next]_vars PROVE TypeOK' /\ Shapes'
    OBVIOUS
  <2>1. ProcessTypes' /\ (pc \in [Requests -> Points])'
    BY ProcessTypesKept, PointsKept, TypeParts
  <2>2. TenancyTypeOK' /\ ServiceTypes' /\ TaskTypes' /\ LimitTypes'
    BY TenancyTypesKept, ServiceTypesKept, TaskTypesKept, LimitTypesKept
  <2>3. TypeOK'
    BY <2>1, <2>2 DEF TypeOK, Points, ProcessTypes, ServiceTypes, TaskTypes, LimitTypes
  <2> QED
    BY <2>3, ShapesKept
<1> QED
  BY <1>1, <1>2, PTL DEF Spec

\* Every value has its type, in every state of every run.
THEOREM TypeCorrect == Spec => []TypeOK
BY Typed, PTL

-----------------------------------------------------------------------------
(* Credits *)

CreditsInv ==
    /\ reached => spent = 0
    /\ late <= lost
    /\ spent + late <= 1 + lost
    /\ \A r \in Requests : pc[r] = "consuming" => spent + late <= lost

\* While a request awaits the answer of Codex, no other one does.
LEMMA OneConsumes ==
    ASSUME Shapes, NEW r \in Requests, NEW q \in Requests,
           pc[r] \in {"testing", "consuming"}, pc[q] \in {"testing", "consuming"}
    PROVE  r = q
BY DEF Shapes, Shape, HasLock

LEMMA CreditsKept == TypeOK /\ Shapes /\ CreditsInv /\ [Next]_vars => CreditsInv'
<1> SUFFICES ASSUME TypeOK, Shapes, CreditsInv, [Next]_vars PROVE CreditsInv'
  OBVIOUS
<1>0. /\ late \in Nat /\ spent \in Nat /\ lost \in Nat /\ credits \in Nat
      /\ reached \in BOOLEAN /\ pc \in [Requests -> Points]
  BY TypeParts DEF LimitTypes
<1>1. ASSUME UNCHANGED <<reached, late, spent, lost>>,
             \A q \in Requests : pc'[q] = "consuming" => pc[q] = "consuming"
      PROVE  CreditsInv'
  BY <1>1 DEF CreditsInv
<1>2. CASE Start \/ Stop \/ Ended \/ Background \/ UNCHANGED vars
  BY <1>1, <1>2, OthersKeepTenancy, OthersKeepLimits DEF vars
<1>3. ASSUME NEW r \in Requests, Request(r) PROVE CreditsInv'
  <2>1. pc'[r] # "consuming"
    BY <1>0, <1>3 DEF Request, RequestArrives, Arrive, RequestResolves, Resolve, FindTenant,
         RenameTenant, FindAssigned, InsertTenant, Reselect, ResolveContext,
         RequestHasNoWorkspace, WorkspaceFails, RequireService, Refused, ThreadLookupFails,
         FindThread
  <2> QED
    BY <1>1, <1>3, <2>1, OthersStand, OthersKeepLimits
<1>4. ASSUME NEW r \in Requests, SpendCredit(r) PROVE CreditsInv'
  <2>1. CASE AskForCredit(r) \/ TakeLock(r)
    <3>1. UNCHANGED <<reached, late, spent, lost>>
      BY <2>1 DEF AskForCredit, TakeLock
    <3>2. pc'[r] # "consuming"
      BY <1>0, <2>1 DEF AskForCredit, TakeLock, Leave
    <3> QED
      BY <1>1, <1>4, <3>1, <3>2, OthersStand
  <2>2. CASE TestLimits(r)
    <3>1. UNCHANGED <<reached, late, spent, lost>>
      BY <2>2 DEF TestLimits
    <3>2. pc'[r] = "consuming" => spent + late <= lost
      <4>1. pc'[r] = "consuming" => reached
        BY <1>0, <2>2 DEF TestLimits, Leave
      <4>2. reached => spent + late <= lost
        BY <1>0 DEF CreditsInv
      <4> QED
        BY <4>1, <4>2
    <3>3. \A q \in Requests : pc'[q] = "consuming" => spent + late <= lost
      BY <1>4, <3>2, OthersStand DEF CreditsInv
    <3> QED
      BY <3>1, <3>3 DEF CreditsInv
  <2>3. CASE ConsumeAnswered(r) \/ ConsumeLost(r)
    <3>1. pc[r] = "consuming" /\ spent + late <= lost
      BY <2>3 DEF ConsumeAnswered, ConsumeLost, CreditsInv
    <3>2. \A q \in Requests : pc'[q] # "consuming"
      <4>1. pc'[r] # "consuming"
        BY <1>0, <2>3 DEF ConsumeAnswered, ConsumeLost, Leave
      <4> QED
        BY <1>4, <3>1, <4>1, OthersStand, OneConsumes
    <3>3. (reached' => spent' = 0) /\ late' <= lost' /\ spent' + late' <= 1 + lost'
      <4>1. CASE ConsumeAnswered(r)
        BY <1>0, <3>1, <4>1 DEF ConsumeAnswered, CodexConsumes, CreditsInv
      <4>2. CASE ConsumeLost(r)
        BY <1>0, <3>1, <4>2 DEF ConsumeLost, CreditsInv
      <4> QED
        BY <2>3, <4>1, <4>2
    <3> QED
      BY <3>2, <3>3 DEF CreditsInv
  <2> QED
    BY <1>4, <2>1, <2>2, <2>3 DEF SpendCredit
<1>5. CASE Account
  <2>1. pc' = pc
    BY <1>5 DEF Account, ConsumedLate, LimitMoves
  <2>2. reached' => spent' = 0
    BY <1>0, <1>5 DEF Account, ConsumedLate, LimitMoves, CodexConsumes, CreditsInv
  <2>3. late' <= lost' /\ spent' + late' <= 1 + lost'
        /\ (spent + late <= lost => spent' + late' <= lost')
    <3>1. late \in Nat /\ spent \in Nat /\ lost \in Nat
      BY <1>0
    <3>2. late <= lost /\ spent + late <= 1 + lost
      BY DEF CreditsInv
    <3>3. CASE ConsumedLate
      BY <3>1, <3>2, <3>3 DEF ConsumedLate, CodexConsumes
    <3>4. CASE LimitMoves
      BY <3>1, <3>2, <3>4 DEF LimitMoves
    <3> QED
      BY <1>5, <3>3, <3>4 DEF Account
  <2> QED
    BY <2>1, <2>2, <2>3 DEF CreditsInv
<1> QED
  BY <1>2, <1>3, <1>4, <1>5 DEF Next

\* However many users ask for a reset at once, a limit that was reached costs one
\* credit, and at most one more for each lost answer of Codex.
THEOREM CreditsAreSpentOnce == Spec => []OneCreditPerLimit
<1>1. Init => CreditsInv
  BY DEF Init, TenancyInit, CreditsInv
<1>2. TypeOK /\ CreditsInv => OneCreditPerLimit
  BY TypeParts DEF LimitTypes, CreditsInv, OneCreditPerLimit
<1> QED
  BY <1>1, <1>2, Typed, CreditsKept, PTL DEF Spec

-----------------------------------------------------------------------------
(* Workspaces *)

Unassigned == {"idle", "finding", "checking", "inserting"}

RowsInv ==
    /\ \A t, u \in tenants :
          t.id = u.id \/ t.subject = u.subject \/ t.dir = u.dir => t = u
    /\ \A t \in tenants : pc[t.id] \notin Unassigned

\* The row of r's subject has this id and directory.
Known(r, i, d) ==
    \E t \in tenants : t.id = i /\ t.dir = d /\ t.subject = asked[r].subject

Knows(r) ==
    /\ pc[r] = "idle" => context[r] = None
    /\ pc[r] \in Resolving => mode = "multi_tenant"
    /\ pc[r] \in {"renaming", "resolving"} => Known(r, row[r].id, row[r].dir)
    /\ context[r] # None \/ pc[r] \in {"identified"} \cup Working =>
         IF mode = "multi_tenant" THEN Known(r, context[r].tenant, context[r].dir)
         ELSE context[r] = SingleContext

CacheInv ==
    \A i \in Tenants : contexts[i] # None =>
        \E t \in tenants : t.id = i /\ contexts[i].tenant = i /\ t.dir = contexts[i].dir

TenantsInv == RowsInv /\ (\A r \in Requests : Knows(r)) /\ CacheInv

\* A row is neither deleted nor assigned to another subject or directory.
LEMMA RowsStay ==
    ASSUME TypeOK, [Next]_vars, NEW t \in tenants
    PROVE  \E u \in tenants' : u.id = t.id /\ u.dir = t.dir /\ u.subject = t.subject
<1>1. ASSUME NEW r \in Requests, RequestResolves(r)
      PROVE  \E u \in tenants' : u.id = t.id /\ u.dir = t.dir /\ u.subject = t.subject
  <2>1. CASE RenameTenant(r)
    <3>0. t \in TenantRows
      BY TypeParts DEF TenancyTypeOK
    <3> DEFINE u == IF t.id = row[r].id THEN Renamed(t, asked[r].user) ELSE t
    <3>1. u.id = t.id /\ u.dir = t.dir /\ u.subject = t.subject
      BY <3>0 DEF Renamed, TenantRows
    <3>2. u \in tenants'
      BY <2>1 DEF RenameTenant
    <3> QED
      BY <3>1, <3>2
  <2>2. CASE tenants \subseteq tenants'
    BY <2>2
  <2> QED
    BY <1>1, <2>1, <2>2 DEF RequestResolves, Resolve, FindTenant, FindAssigned, InsertTenant,
                            Reselect, ResolveContext
<1>2. ASSUME NEW r \in Requests, RequestArrives(r) \/ WorkspaceFails(r)
      PROVE  tenants' = tenants
  BY <1>2 DEF RequestArrives, Arrive, WorkspaceFails
<1>3. (\A r \in Requests : ~ RequestResolves(r)) => tenants' = tenants
  BY <1>2, OthersKeepTenants DEF Looking
<1> QED
  BY <1>1, <1>3

LEMMA RowsKept == TypeOK /\ Shapes /\ RowsInv /\ [Next]_vars => RowsInv'
<1> SUFFICES ASSUME TypeOK, Shapes, RowsInv, [Next]_vars PROVE RowsInv'
  OBVIOUS
<1>0. pc \in [Requests -> Points] /\ TenancyTypeOK
  BY TypeParts
<1>1. \A q \in Requests : pc[q] \notin Unassigned => pc'[q] \notin Unassigned
  <2>1. ASSUME NEW r \in Requests, Request(r), pc[r] \notin Unassigned
        PROVE  pc'[r] \notin Unassigned
    BY <1>0, <2>1 DEF Unassigned, Request, RequestArrives, Arrive, RequestResolves, Resolve,
         FindTenant, RenameTenant, FindAssigned, InsertTenant, Reselect, ResolveContext,
         RequestHasNoWorkspace, WorkspaceFails, RequireService, Refused, ThreadLookupFails,
         FindThread
  <2>2. ASSUME NEW r \in Requests, SpendCredit(r) PROVE pc'[r] \notin Unassigned
    BY <1>0, <2>2, CreditsKeepTenancy DEF Unassigned, Answered
  <2> QED
    BY <2>1, <2>2, OthersStand, OthersKeepTenancy DEF Next, vars
<1>2. CASE tenants' = tenants
  <2>1. \A t \in tenants : t.id \in Requests
    BY <1>0 DEF TenancyTypeOK, TenantRows
  <2> QED
    BY <1>1, <1>2, <2>1 DEF RowsInv
<1>3. ASSUME NEW r \in Requests, RenameTenant(r) PROVE RowsInv'
  <2> DEFINE v(t) == IF t.id = row[r].id THEN Renamed(t, asked[r].user) ELSE t
  <2>1. tenants' = {v(t) : t \in tenants}
    BY <1>3 DEF RenameTenant
  <2>2. \A t \in tenants : /\ v(t).id = t.id /\ v(t).id \in Requests
                          /\ v(t).dir = t.dir /\ v(t).subject = t.subject
    BY <1>0 DEF Renamed, TenantRows, TenancyTypeOK
  <2> HIDE DEF v
  <2>3. ASSUME NEW t \in tenants', NEW u \in tenants',
               t.id = u.id \/ t.subject = u.subject \/ t.dir = u.dir
        PROVE  t = u
    <3>1. PICK x \in tenants : t = v(x)
      BY <2>1
    <3>2. PICK y \in tenants : u = v(y)
      BY <2>1
    <3> QED
      BY <2>2, <2>3, <3>1, <3>2 DEF RowsInv
  <2>4. ASSUME NEW t \in tenants' PROVE pc'[t.id] \notin Unassigned
    BY <1>1, <2>1, <2>2 DEF RowsInv
  <2> QED
    BY <2>3, <2>4 DEF RowsInv
<1>4. ASSUME NEW r \in Requests, InsertTenant(r) PROVE RowsInv'
  <2> DEFINE n == [id |-> r, subject |-> asked[r].subject, user |-> asked[r].user,
                   dir |-> Canonical[asked[r].user]]
  <2>1. pc[r] \in Unassigned
    BY <1>4 DEF InsertTenant, Unassigned
  <2>2. CASE tenants' = tenants \cup {n} /\ Insertable(n) /\ pc'[r] = "resolving"
    <3>1. \A t \in tenants : t.id # n.id /\ t.subject # n.subject /\ t.dir # n.dir
      BY <2>1, <2>2 DEF Insertable, RowsInv
    <3>2. pc'[n.id] \notin Unassigned
      BY <2>2 DEF Unassigned
    <3>3. \A t \in tenants : t.id \in Requests
      BY <1>0 DEF TenancyTypeOK, TenantRows
    <3> HIDE DEF n
    <3> QED
      BY <1>1, <2>2, <3>1, <3>2, <3>3 DEF RowsInv
  <2> QED
    BY <1>0, <1>2, <1>4, <2>2 DEF InsertTenant
<1>5. ASSUME NEW r \in Requests, Looking(r) PROVE RowsInv'
  BY <1>2, <1>3, <1>4, <1>5
     DEF Looking, RequestArrives, Arrive, WorkspaceFails, RequestResolves, Resolve, FindTenant,
         FindAssigned, Reselect, ResolveContext
<1> QED
  BY <1>2, <1>5, OthersKeepTenants

\* What was known of a request's tenant is known after a step that leaves its
\* subject alone.
LEMMA KnownStays ==
    ASSUME TypeOK, [Next]_vars, NEW r \in Requests, asked'[r] = asked[r], NEW i, NEW d,
           Known(r, i, d)
    PROVE  Known(r, i, d)'
BY RowsStay DEF Known

LEMMA CacheKept == TypeOK /\ Shapes /\ TenantsInv /\ [Next]_vars => CacheInv'
<1> SUFFICES ASSUME TypeOK, Shapes, TenantsInv, [Next]_vars PROVE CacheInv'
  OBVIOUS
<1>0. TenancyTypeOK
  BY TypeParts
<1>1. ASSUME NEW i \in Tenants, contexts'[i] = contexts[i], contexts'[i] # None
      PROVE  \E t \in tenants' : /\ t.id = i /\ contexts'[i].tenant = i
                                /\ t.dir = contexts'[i].dir
  BY <1>1, RowsStay DEF TenantsInv, CacheInv
<1>2. CASE contexts' = contexts
  BY <1>1, <1>2 DEF CacheInv
<1>3. ASSUME NEW r \in Requests, ResolveContext(r) PROVE CacheInv'
  <2> DEFINE made == [tenant |-> row[r].id, user |-> row[r].user, dir |-> row[r].dir]
  <2>1. row[r].id \in Requests /\ Known(r, row[r].id, row[r].dir)
    BY <1>3 DEF ResolveContext, TenantsInv, Knows, Shapes, Shape, TenantRows
  <2>2. PICK t \in tenants : t.id = row[r].id /\ t.dir = row[r].dir
    BY <2>1 DEF Known
  <2>3. CASE Reusable(r)
    <3>1. contexts[row[r].id] # None /\ row[r].id \in Tenants
      BY <2>1, <2>3 DEF Reusable, Tenants
    <3>2. contexts[row[r].id].tenant = row[r].id
      BY <3>1 DEF TenantsInv, CacheInv
    <3>3. contexts' = contexts
      BY <1>0, <1>3, <2>3, <3>1, <3>2 DEF ResolveContext, TenancyTypeOK
    <3> QED
      BY <1>2, <3>3
  <2>4. CASE ~ Reusable(r)
    <3>1. contexts' = [contexts EXCEPT ![row[r].id] = made] /\ tenants' = tenants
      BY <1>3, <2>4 DEF ResolveContext
    <3>2. ASSUME NEW i \in Tenants, i # row[r].id PROVE contexts'[i] = contexts[i]
      BY <1>0, <3>1, <3>2 DEF TenancyTypeOK
    <3>3. contexts'[row[r].id] = made
      BY <1>0, <2>1, <3>1 DEF TenancyTypeOK, Tenants
    <3> QED
      BY <1>1, <2>2, <3>1, <3>2, <3>3 DEF CacheInv
  <2> QED
    BY <2>3, <2>4
<1>4. ASSUME NEW r \in Requests, Looking(r) PROVE CacheInv'
  BY <1>2, <1>3, <1>4
     DEF Looking, RequestArrives, Arrive, WorkspaceFails, RequestResolves, Resolve, FindTenant,
         RenameTenant, FindAssigned, InsertTenant, Reselect
<1> QED
  BY <1>2, <1>4, OthersKeepTenants

LEMMA KnowsKept == TypeOK /\ Shapes /\ TenantsInv /\ [Next]_vars => \A q \in Requests : Knows(q)'
<1> SUFFICES ASSUME TypeOK, Shapes, TenantsInv, [Next]_vars, NEW q \in Requests
             PROVE  Knows(q)'
  OBVIOUS
<1>0. TenancyTypeOK /\ pc \in [Requests -> Points] /\ Knows(q) /\ Shape(q)
  BY TypeParts DEF TenantsInv, Shapes
<1>1. mode' = mode
  BY OthersKeepTenants DEF Looking, RequestArrives, Arrive, WorkspaceFails, RequestResolves,
     Resolve, FindTenant, RenameTenant, FindAssigned, InsertTenant, Reselect, ResolveContext
<1>2. ASSUME pc'[q] = pc[q], asked'[q] = asked[q], row'[q] = row[q], context'[q] = context[q]
      PROVE  Knows(q)'
  BY <1>0, <1>1, <1>2, KnownStays DEF Knows
<1>3. ASSUME SpendCredit(q) PROVE Knows(q)'
  <2>1. /\ asked'[q] = asked[q] /\ context'[q] = context[q]
        /\ pc[q] \in {"identified"} \cup Working
        /\ pc'[q] \notin {"idle"} \cup Resolving
    BY <1>0, <1>3, CreditsKeepTenancy DEF Answered
  <2> QED
    BY <1>0, <1>1, <2>1, KnownStays DEF Knows
<1>4. ASSUME RequestArrives(q) PROVE Knows(q)'
  <2>1. PICK s \in Subjects \cup {None} : \E n \in Usernames \cup {None} : Arrive(q, s, n)
    BY <1>4 DEF RequestArrives
  <2>2. PICK n \in Usernames \cup {None} : Arrive(q, s, n)
    BY <2>1
  <2> USE <1>0, <2>2 DEF TenancyTypeOK, Arrive
  <2>3. CASE mode = "single_user"
    <3>1. pc'[q] = "identified" /\ context'[q] = SingleContext
      BY <2>3
    <3> QED
      BY <1>1, <2>3, <3>1 DEF Knows
  <2>4. CASE mode = "multi_tenant"
    <3>1. pc'[q] \in {"required", "invalid", "finding"} /\ context'[q] = None
      BY <2>4 DEF Knows
    <3> QED
      BY <1>1, <2>4, <3>1 DEF Knows
  <2> QED
    BY <2>3, <2>4
<1>5. ASSUME RequestResolves(q) PROVE Knows(q)'
  <2>0. /\ pc[q] \in Resolving /\ mode = "multi_tenant" /\ asked'[q] = asked[q]
        /\ Known(q, context[q].tenant, context[q].dir) \/ context[q] = None
    BY <1>0, <1>5 DEF RequestResolves, Resolve, FindTenant, RenameTenant, FindAssigned,
                      InsertTenant, Reselect, ResolveContext, Knows
  <2>1. ASSUME context'[q] = context[q], pc'[q] \notin {"idle", "identified"} \cup Working,
               pc'[q] \in {"renaming", "resolving"} => Known(q, row[q].id, row[q].dir)'
        PROVE  Knows(q)'
    BY <1>1, <2>0, <2>1, KnownStays DEF Knows
  <2>2. CASE FindTenant(q) \/ Reselect(q)
    BY <1>0, <2>1, <2>2 DEF FindTenant, Reselect, Existing, RowsOf, Known, TenancyTypeOK
  <2>3. CASE RenameTenant(q)
    <3>1. row'[q].id = row[q].id /\ row'[q].dir = row[q].dir
      BY <1>0, <2>3 DEF RenameTenant, TenancyTypeOK, Shape, TenantRows
    <3>2. Known(q, row[q].id, row[q].dir)
      BY <1>0, <2>3 DEF RenameTenant, Knows
    <3>3. \E t \in tenants' : /\ t.id = row[q].id /\ t.dir = row[q].dir
                             /\ t.subject = asked[q].subject
      BY <3>2, RowsStay DEF Known
    <3>4. Known(q, row[q].id, row[q].dir)'
      BY <2>0, <3>1, <3>3 DEF Known
    <3> QED
      BY <1>0, <2>1, <2>3, <3>4 DEF RenameTenant
  <2>4. CASE FindAssigned(q)
    BY <1>0, <2>1, <2>4 DEF FindAssigned
  <2>5. CASE InsertTenant(q)
    BY <1>0, <2>1, <2>5 DEF InsertTenant, Known, TenancyTypeOK
  <2>6. CASE ResolveContext(q)
    <3> DEFINE made == [tenant |-> row[q].id, user |-> row[q].user, dir |-> row[q].dir]
               c == IF Reusable(q) THEN contexts[row[q].id] ELSE made
    <3>1. Known(q, row[q].id, row[q].dir) /\ row[q].id \in Tenants
      BY <1>0, <2>6 DEF ResolveContext, Knows, Shape, TenantRows, Tenants
    <3>2. c.tenant = row[q].id /\ c.dir = row[q].dir
      <4>1. CASE Reusable(q)
        <5>1. PICK t \in tenants : /\ t.id = row[q].id /\ contexts[row[q].id].tenant = row[q].id
                                  /\ t.dir = contexts[row[q].id].dir
          BY <3>1, <4>1 DEF Reusable, TenantsInv, CacheInv
        <5> QED
          BY <3>1, <4>1, <5>1 DEF Known, TenantsInv, RowsInv
      <4>2. CASE ~ Reusable(q)
        BY <4>2
      <4> QED
        BY <4>1, <4>2
    <3>3. context'[q] = c /\ pc'[q] = "identified" /\ tenants' = tenants /\ asked' = asked
      BY <1>0, <2>6 DEF ResolveContext, TenancyTypeOK
    <3> HIDE DEF c
    <3>4. Known(q, context[q].tenant, context[q].dir)'
      BY <3>1, <3>2, <3>3 DEF Known
    <3> QED
      BY <1>1, <2>0, <3>3, <3>4 DEF Knows
  <2> QED
    BY <1>5, <2>2, <2>3, <2>4, <2>5, <2>6 DEF RequestResolves, Resolve
<1>6. ASSUME RequestHasNoWorkspace(q) \/ RequireService(q) \/ ThreadLookupFails(q)
             \/ (\E t \in Threads : FindThread(q, t))
      PROVE  Knows(q)'
  <2>1. /\ asked'[q] = asked[q] /\ context'[q] = context[q]
        /\ pc'[q] \notin {"idle"} \cup Resolving
    BY <1>0, <1>6 DEF RequestHasNoWorkspace, WorkspaceFails, RequireService, Refused,
                      ThreadLookupFails, FindThread
  <2>2. pc'[q] \in {"identified"} \cup Working => pc[q] \in {"identified"} \cup Working
    BY <1>0, <1>6 DEF RequestHasNoWorkspace, WorkspaceFails, RequireService, Refused,
                      ThreadLookupFails, FindThread
  <2> QED
    BY <1>0, <1>1, <2>1, <2>2, KnownStays DEF Knows
<1>7. ASSUME NEW r \in Requests, Request(r) \/ SpendCredit(r) PROVE Knows(q)'
  BY <1>2, <1>3, <1>4, <1>5, <1>6, <1>7, OthersStand DEF Request
<1> QED
  BY <1>2, <1>7, OthersKeepTenancy DEF Next, vars

LEMMA TenantsHold == Spec => [](TypeOK /\ Shapes /\ TenantsInv)
<1>1. Init => TenantsInv
  BY DEF Init, TenancyInit, TenantsInv, RowsInv, CacheInv, Knows
<1>2. TypeOK /\ Shapes /\ TenantsInv /\ [Next]_vars => TenantsInv'
  BY RowsKept, CacheKept, KnowsKept DEF TenantsInv
<1> QED
  BY <1>1, <1>2, Typed, PTL DEF Spec

\* Every request works in the directory of its own subject, the one that subject
\* was first assigned, and no two subjects share one.
THEOREM WorkspacesAreOwn == Spec => []OwnWorkspace
<1>1. ASSUME TenantsInv, mode = "multi_tenant",
             NEW r \in Requests, NEW q \in Requests, context[r] # None, context[q] # None
      PROVE  /\ context[r].dir = context[q].dir <=> asked[r].subject = asked[q].subject
             /\ context[r].tenant = context[q].tenant <=> asked[r].subject = asked[q].subject
  <2>1. PICK t \in tenants : t.id = context[r].tenant /\ t.dir = context[r].dir
                            /\ t.subject = asked[r].subject
    BY <1>1 DEF TenantsInv, Knows, Known
  <2>2. PICK u \in tenants : u.id = context[q].tenant /\ u.dir = context[q].dir
                            /\ u.subject = asked[q].subject
    BY <1>1 DEF TenantsInv, Knows, Known
  <2> QED
    BY <1>1, <2>1, <2>2 DEF TenantsInv, RowsInv
<1>2. TenantsInv => OwnWorkspace
  BY <1>1 DEF OwnWorkspace
<1> QED
  BY <1>2, TenantsHold, PTL

-----------------------------------------------------------------------------
(* Services and notifications *)

Serves(r) ==
    /\ pc[r] \in {"idle", "identified"} \cup Resolving => service[r] = None
    /\ service[r] # None \/ pc[r] = "seeking" =>
         service[r].tenant = context[r].tenant /\ service[r].dir = context[r].dir

ServicesInv == NewsStaysWithItsTenant /\ \A r \in Requests : Serves(r)

OpensOwn == \A i \in Tenants : services[i] # None => Owns(i, services[i])
RoutesOwn == \A t \in Threads : routed[t] # None => Owns(routed[t], DirOf[t])
HearsOwn == \A h \in heard : Owns(h[2], DirOf[h[1]])

LEMMA NewsParts ==
    ServicesInv <=> OpensOwn /\ RoutesOwn /\ HearsOwn /\ \A r \in Requests : Serves(r)
BY DEF ServicesInv, NewsStaysWithItsTenant, OpensOwn, RoutesOwn, HearsOwn, Serves

\* What a tenant owns it keeps.
LEMMA OwnersStay ==
    ASSUME TypeOK, [Next]_vars, NEW i, NEW d, Owns(i, d) PROVE Owns(i, d)'
BY RowsStay DEF Owns

LEMMA OneDirectory ==
    ASSUME TypeOK, TenantsInv, NEW i, NEW d, NEW e, Owns(i, d), Owns(i, e) PROVE d = e
<1>1. \A t \in tenants : t.id # Local
  BY TypeParts, Identities DEF TenancyTypeOK, TenantRows, Identities
<1> QED
  BY <1>1 DEF Owns, TenantsInv, RowsInv

LEMMA ContextIsOwn ==
    ASSUME TypeOK, TenantsInv, NEW r \in Requests, pc[r] \in {"identified"} \cup Working
    PROVE  Owns(context[r].tenant, context[r].dir)
<1>1. CASE mode = "multi_tenant"
  BY <1>1 DEF TenantsInv, Knows, Known, Owns
<1>2. CASE mode # "multi_tenant"
  BY <1>2 DEF TenantsInv, Knows, SingleContext, Owns
<1> QED
  BY <1>1, <1>2

LEMMA OpensKept ==
    ASSUME TypeOK, OpensOwn, [Next]_vars,
           \A i \in Tenants : services'[i] \in {services[i], None}
    PROVE  OpensOwn'
<1> SUFFICES ASSUME NEW i \in Tenants, services'[i] # None PROVE Owns(i, services[i])'
  BY DEF OpensOwn
<1>1. services'[i] = services[i] /\ Owns(i, services[i])
  BY DEF OpensOwn
<1>2. (i = Local /\ services[i] = Root)
      \/ \E t \in tenants' : t.id = i /\ t.dir = services[i]
  BY <1>1, RowsStay DEF Owns
<1> QED
  BY <1>1, <1>2 DEF Owns

LEMMA RoutesKept ==
    ASSUME TypeOK, RoutesOwn, [Next]_vars,
           \A t \in Threads : routed'[t] \in {routed[t], None}
    PROVE  RoutesOwn'
<1> SUFFICES ASSUME NEW t \in Threads, routed'[t] # None PROVE Owns(routed[t], DirOf[t])'
  BY DEF RoutesOwn
<1>1. routed'[t] = routed[t] /\ Owns(routed[t], DirOf[t])
  BY DEF RoutesOwn
<1>2. (routed[t] = Local /\ DirOf[t] = Root)
      \/ \E u \in tenants' : u.id = routed[t] /\ u.dir = DirOf[t]
  BY <1>1, RowsStay DEF Owns
<1> QED
  BY <1>1, <1>2 DEF Owns

LEMMA HearsKept ==
    ASSUME TypeOK, HearsOwn, [Next]_vars, heard' = heard PROVE HearsOwn'
<1> SUFFICES ASSUME NEW h \in heard PROVE Owns(h[2], DirOf[h[1]])'
  BY DEF HearsOwn
<1>1. Owns(h[2], DirOf[h[1]])
  BY DEF HearsOwn
<1> QED
  BY <1>1, OwnersStay

\* A step that opens no service and routes and publishes nothing.
LEMMA NewsStays ==
    ASSUME TypeOK, ServicesInv, [Next]_vars,
           \A i \in Tenants : services'[i] \in {services[i], None},
           \A t \in Threads : routed'[t] \in {routed[t], None},
           heard' = heard, \A r \in Requests : Serves(r)'
    PROVE  ServicesInv'
<1>1. OpensOwn /\ RoutesOwn /\ HearsOwn
  BY NewsParts
<1>2. OpensOwn' /\ RoutesOwn' /\ HearsOwn'
  BY <1>1, OpensKept, RoutesKept, HearsKept
<1> QED
  BY <1>2 DEF ServicesInv, NewsStaysWithItsTenant, OpensOwn, RoutesOwn, HearsOwn, Serves

LEMMA ServesKept ==
    TypeOK /\ Shapes /\ TenantsInv /\ ServicesInv /\ [Next]_vars
        => \A q \in Requests : Serves(q)'
<1> SUFFICES ASSUME TypeOK, Shapes, TenantsInv, ServicesInv, [Next]_vars, NEW q \in Requests
             PROVE  Serves(q)'
  OBVIOUS
<1>0. /\ pc \in [Requests -> Points] /\ TenancyTypeOK /\ ServiceTypes
      /\ Serves(q) /\ OpensOwn
  BY TypeParts, NewsParts
<1>1. ASSUME pc'[q] = pc[q], service'[q] = service[q], context'[q] = context[q]
      PROVE  Serves(q)'
  BY <1>0, <1>1 DEF Serves
<1>2. ASSUME RequestArrives(q) \/ RequestResolves(q) \/ RequestHasNoWorkspace(q)
      PROVE  Serves(q)'
  <2>1. /\ pc[q] \in {"idle"} \cup Resolving /\ service' = service
        /\ pc'[q] # "seeking"
    BY <1>0, <1>2 DEF RequestArrives, Arrive, RequestHasNoWorkspace, WorkspaceFails,
         RequestResolves, Resolve, FindTenant, RenameTenant, FindAssigned, InsertTenant, Reselect,
         ResolveContext
  <2> QED
    BY <1>0, <2>1 DEF Serves
<1>3. ASSUME SpendCredit(q) PROVE Serves(q)'
  BY <1>0, <1>3, CreditsKeepTenancy, CreditsKeepServices DEF Serves, Answered
<1>4. ASSUME ThreadLookupFails(q) \/ \E t \in Threads : FindThread(q, t) PROVE Serves(q)'
  BY <1>0, <1>4 DEF ThreadLookupFails, FindThread, Serves
<1>5. ASSUME RequireService(q) PROVE Serves(q)'
  <2>1. context' = context
    BY <1>5 DEF RequireService
  <2>2. CASE service' = service /\ pc'[q] # "seeking"
    BY <1>0, <1>5, <2>1, <2>2 DEF RequireService, Refused, Serves
  <2>3. CASE service' = [service EXCEPT ![q] = ServiceFor(q)] /\ pc'[q] = "seeking"
    <3>1. context[q] \in Contexts /\ Owns(context[q].tenant, context[q].dir)
      BY <1>5, ContextIsOwn DEF RequireService, Shapes, Shape
    <3>2. ServiceFor(q).tenant = context[q].tenant
      BY DEF ServiceFor
    <3>3. ServiceFor(q).dir = context[q].dir
      BY <1>0, <3>1, OneDirectory DEF ServiceFor, OpensOwn, Contexts
    <3>4. service'[q] = ServiceFor(q)
      BY <1>0, <2>3 DEF ServiceTypes
    <3> QED
      BY <2>1, <2>3, <3>2, <3>3, <3>4 DEF Serves
  <2> QED
    BY <1>0, <1>5, <2>2, <2>3 DEF RequireService, Refused
<1>6. ASSUME NEW r \in Requests, Request(r) \/ SpendCredit(r) PROVE Serves(q)'
  BY <1>1, <1>2, <1>3, <1>4, <1>5, <1>6, OthersStand DEF Request
<1>7. CASE Start \/ Stop \/ Account \/ Background
  <2>1. service' = service
    <3>1. CASE Start
      BY <3>1 DEF Start, InitializeDatabase, StartScheduler, MakeClient, EnterClient,
           CheckAccount, PruneAtStart, SampleAtStart, StartFails, AbortStart
    <3>2. CASE Stop
      BY <3>2 DEF Stop, BeginClose, Drain, CloseClient, StopScheduler, DisposeDatabase
    <3>3. CASE Background
      BY <3>3 DEF Background, TurnEnds, NewsArrives, Publish, PumpFails, HealthWakes,
           HealthSamples, HealthPrunes
    <3> QED
      BY <1>7, <3>1, <3>2, <3>3, CreditsKeepServices
  <2> QED
    BY <1>1, <1>7, <2>1, OthersKeepTenancy
<1> QED
  BY <1>1, <1>6, <1>7 DEF Next, Ended, vars

\* Whoever runs a step that opens a service, routes a Thread or publishes.
LEMMA ServicesKept ==
    TypeOK /\ Shapes /\ TenantsInv /\ ServicesInv /\ [Next]_vars => ServicesInv'
<1> SUFFICES ASSUME TypeOK, Shapes, TenantsInv, ServicesInv, [Next]_vars PROVE ServicesInv'
  OBVIOUS
<1>0. /\ pc \in [Requests -> Points] /\ ServiceTypes /\ TaskTypes
      /\ OpensOwn /\ RoutesOwn /\ HearsOwn
  BY TypeParts, NewsParts
<1>1. \A r \in Requests : Serves(r)'
  BY ServesKept
<1>2. OpensOwn' /\ RoutesOwn' /\ HearsOwn' => ServicesInv'
  BY <1>1 DEF ServicesInv, NewsStaysWithItsTenant, OpensOwn, RoutesOwn, HearsOwn, Serves
<1>3. ASSUME UNCHANGED <<services, routed, heard>> PROVE ServicesInv'
  BY <1>1, <1>3, NewsStays
<1>4. CASE CheckAccount
  <2>1. UNCHANGED <<routed, heard>>
    BY <1>4 DEF CheckAccount
  <2>2. ASSUME NEW i \in Tenants, services'[i] # None PROVE Owns(i, services[i])'
    <3>1. CASE services'[i] = services[i]
      <4>1. Owns(i, services[i])
        BY <2>2, <3>1, <1>0 DEF OpensOwn
      <4>2. tenants' = tenants
        BY <1>4 DEF CheckAccount
      <4> QED
        BY <3>1, <4>1, <4>2 DEF Owns
    <3>2. CASE i = Local /\ services'[i] = Root
      BY <3>2 DEF Owns
    <3> QED
      BY <1>0, <1>4, <3>1, <3>2 DEF CheckAccount, ServiceTypes
  <2> QED
    BY <1>0, <1>2, <2>1, <2>2, RoutesKept, HearsKept DEF OpensOwn
<1>5. CASE AbortStart \/ Drain
  <2>1. /\ \A i \in Tenants : services'[i] = None
        /\ \A t \in Threads : routed'[t] = None
        /\ heard' = heard
    BY <1>5 DEF AbortStart, Drain, Forget
  <2> QED
    BY <1>1, <2>1, NewsStays
<1>6. CASE Start \/ Stop
  BY <1>3, <1>4, <1>5, <1>6
     DEF Start, InitializeDatabase, StartScheduler, MakeClient, EnterClient, PruneAtStart,
         SampleAtStart, StartFails, Stop, BeginClose, CloseClient, StopScheduler, DisposeDatabase
<1>7. CASE Publish
  <2> DEFINE t == news.thread
             i == news.tenant
  <2>1. t \in Threads /\ i \in Tenants /\ tenants' = tenants /\ services' = services
    BY <1>7 DEF Publish, Shapes, Publishing
  <2>2. CASE Finds(i, t) /\ heard' = heard \cup {<<t, i>>} /\ routed' = [routed EXCEPT ![t] = i]
    <3>1. DirOf[t] # None /\ services[i] = DirOf[t]
      BY <2>1, <2>2, Parameters, Identities DEF Finds, Parameters, Identities
    <3>2. Owns(i, DirOf[t])
      BY <1>0, <2>1, <3>1 DEF OpensOwn
    <3> HIDE DEF t, i
    <3>3. OpensOwn'
      BY <1>0, <2>1 DEF OpensOwn, Owns
    <3>4. RoutesOwn'
      <4> SUFFICES ASSUME NEW u \in Threads, routed'[u] # None PROVE Owns(routed[u], DirOf[u])'
        BY DEF RoutesOwn
      <4>1. CASE u = t
        BY <1>0, <2>1, <2>2, <3>2, <4>1 DEF ServiceTypes, Owns
      <4>2. CASE u # t
        BY <1>0, <2>1, <2>2, <4>2 DEF ServiceTypes, RoutesOwn, Owns
      <4> QED
        BY <4>1, <4>2
    <3>5. HearsOwn'
      <4> SUFFICES ASSUME NEW h \in heard' PROVE Owns(h[2], DirOf[h[1]])'
        BY DEF HearsOwn
      <4>1. Owns(h[2], DirOf[h[1]])
        BY <1>0, <2>2, <3>2 DEF HearsOwn
      <4> QED
        BY <4>1, OwnersStay
    <3> QED
      BY <1>2, <3>3, <3>4, <3>5
  <2> QED
    BY <1>3, <1>7, <2>2 DEF Publish
<1>8. CASE Background
  BY <1>3, <1>7, <1>8 DEF Background, TurnEnds, NewsArrives, PumpFails, HealthWakes,
                          HealthSamples, HealthPrunes
<1>9. ASSUME NEW r \in Requests, RequireService(r) PROVE ServicesInv'
  <2>1. CASE Refused(r)
    BY <1>3, <1>9, <2>1 DEF RequireService, Refused
  <2>2. CASE /\ services' = [services EXCEPT ![ServiceFor(r).tenant] = ServiceFor(r).dir]
             /\ UNCHANGED <<routed, heard, tenants>>
    <3>1. context[r] \in Contexts /\ Owns(context[r].tenant, context[r].dir)
      BY <1>9, ContextIsOwn DEF RequireService, Shapes, Shape
    <3>2. ServiceFor(r).tenant \in Tenants /\ Owns(ServiceFor(r).tenant, ServiceFor(r).dir)
      BY <1>0, <3>1 DEF ServiceFor, OpensOwn, Contexts
    <3>3. ASSUME NEW i \in Tenants, services'[i] # None PROVE Owns(i, services[i])'
      <4>1. CASE i = ServiceFor(r).tenant
        BY <1>0, <2>2, <3>2, <4>1 DEF ServiceTypes, Owns
      <4>2. CASE i # ServiceFor(r).tenant
        BY <1>0, <2>2, <3>3, <4>2 DEF ServiceTypes, OpensOwn, Owns
      <4> QED
        BY <4>1, <4>2
    <3>4. OpensOwn'
      BY <3>3 DEF OpensOwn
    <3> QED
      BY <1>0, <1>2, <2>2, <3>4, RoutesKept, HearsKept
  <2> QED
    BY <1>9, <2>1, <2>2 DEF RequireService
<1>10. ASSUME NEW r \in Requests, NEW t \in Threads, FindThread(r, t) PROVE ServicesInv'
  <2>1. CASE DirOf[t] = service[r].dir /\ routed' = [routed EXCEPT ![t] = service[r].tenant]
    <3>1. /\ Owns(context[r].tenant, context[r].dir)
          /\ service[r].tenant = context[r].tenant /\ service[r].dir = context[r].dir
      BY <1>10, ContextIsOwn DEF FindThread, ServicesInv, Serves
    <3>2. Owns(service[r].tenant, DirOf[t])
      BY <2>1, <3>1
    <3>3. RoutesOwn'
      <4> SUFFICES ASSUME NEW u \in Threads, routed'[u] # None PROVE Owns(routed[u], DirOf[u])'
        BY DEF RoutesOwn
      <4>1. tenants' = tenants
        BY <1>10 DEF FindThread
      <4>2. CASE u = t
        BY <1>0, <2>1, <3>2, <4>1, <4>2 DEF ServiceTypes, Owns
      <4>3. CASE u # t
        BY <1>0, <2>1, <4>1, <4>3 DEF ServiceTypes, RoutesOwn, Owns
      <4> QED
        BY <4>2, <4>3
    <3>4. services' = services /\ heard' = heard
      BY <1>10 DEF FindThread
    <3> QED
      BY <1>0, <1>2, <3>3, <3>4, OpensKept, HearsKept
  <2> QED
    BY <1>3, <1>10, <2>1 DEF FindThread
<1>11. ASSUME NEW r \in Requests, Request(r) \/ SpendCredit(r) PROVE ServicesInv'
  BY <1>3, <1>9, <1>10, <1>11, CreditsKeepServices, RequestsKeepProcess
     DEF Request, RequestArrives, RequestResolves, RequestHasNoWorkspace, ThreadLookupFails
<1>12. CASE Account
  BY <1>3, <1>12, CreditsKeepServices, RequestsKeepProcess
<1> QED
  BY <1>3, <1>6, <1>8, <1>11, <1>12 DEF Next, Ended, vars

\* A Thread is known to, and its notifications are published under, nobody but the
\* tenant in whose workspace it is, and each service works in its tenant's own.
THEOREM NewsIsPrivate == Spec => []NewsStaysWithItsTenant
<1>1. Init => ServicesInv
  BY DEF Init, TenancyInit, ServicesInv, NewsStaysWithItsTenant, Serves
<1>2. ServicesInv => NewsStaysWithItsTenant
  BY DEF ServicesInv
<1> QED
  BY <1>1, <1>2, TenantsHold, ServicesKept, PTL DEF Spec

-----------------------------------------------------------------------------
(* The end of the client *)

Quiet ==
    /\ turns = {} /\ pump \in {"off", "ended"} /\ health \in {"off", "died"}
    /\ \A i \in Tenants : services[i] = None

Unstarted == {"new", "scheduling", "starting", "entering", "checking", "pruning",
              "sampling", "aborting"}

PhasesInv ==
    /\ \A r \in Requests : r \in InFlight => life = "serving"
    /\ ready => life = "serving"
    /\ life \in Unstarted => turns = {} /\ pump = "off" /\ health = "off"
    /\ life \in Unstarted \cup {"serving", "draining", "closing"} =>
         codex \notin {"closed", "unclosed"}
    /\ life = "draining" => health = "off"
    /\ life = "closing" => Quiet /\ ~ attached
    /\ codex \in {"closed", "unclosed"} => Quiet /\ ~ attached

LEMMA PhasesKept == TypeOK /\ Shapes /\ PhasesInv /\ [Next]_vars => PhasesInv'
<1> SUFFICES ASSUME TypeOK, Shapes, PhasesInv, [Next]_vars PROVE PhasesInv'
  OBVIOUS
<1>0. /\ pc \in [Requests -> Points] /\ ServiceTypes /\ ProcessTypes
  BY TypeParts
<1>1. ASSUME pc' = pc PROVE InFlight' = InFlight
  BY <1>1 DEF InFlight
<1> USE DEF PhasesInv, Quiet, Unstarted
<1>2. CASE Start
  <2>1. pc' = pc
    BY <1>2, OthersKeepTenancy
  <2> QED
    BY <1>0, <1>1, <1>2, <2>1
       DEF Start, InitializeDatabase, StartScheduler, MakeClient, EnterClient, CheckAccount,
           PruneAtStart, SampleAtStart, StartFails, AbortStart, Forget, ProcessTypes
<1>3. CASE Stop
  <2>1. pc' = pc
    BY <1>3, OthersKeepTenancy
  <2> QED
    BY <1>0, <1>1, <1>3, <2>1
       DEF Stop, BeginClose, Drain, CloseClient, StopScheduler, DisposeDatabase, Forget,
           StoppedPump, AfterScheduler, Serving, ProcessTypes
<1>4. CASE Background
  <2>1. pc' = pc
    BY <1>4, OthersKeepTenancy
  <2> QED
    BY <1>0, <1>1, <1>4, <2>1
       DEF Background, TurnEnds, NewsArrives, Publish, AfterMiss, PumpFails, HealthWakes,
           HealthSamples, HealthPrunes
<1>5. ASSUME NEW r \in Requests, Request(r) \/ SpendCredit(r) PROVE PhasesInv'
  <2>1. life = "serving"
    BY <1>5, CreditsKeepTenancy
       DEF InFlight, Request, RequestArrives, Serving, RequestResolves, Resolve, FindTenant,
           RenameTenant, FindAssigned, InsertTenant, Reselect, ResolveContext,
           RequestHasNoWorkspace, WorkspaceFails, RequireService, ThreadLookupFails, FindThread
  <2> QED
    BY <1>5, <2>1, RequestsKeepProcess
<1>6. CASE Account
  <2>1. pc' = pc
    BY <1>6, OthersKeepTenancy
  <2> QED
    BY <1>1, <1>6, <2>1, RequestsKeepProcess, CreditsKeepServices
<1> QED
  BY <1>1, <1>2, <1>3, <1>4, <1>5, <1>6 DEF Next, Ended, vars

\* The client is closed after the last request, Turn and background task, and
\* nobody can get hold of it any more.
THEOREM ClientIsClosedLast == Spec => []ClientOutlivesItsUsers
<1>1. Init => PhasesInv
  BY DEF Init, TenancyInit, PhasesInv, InFlight, Unstarted
<1>2. PhasesInv => ClientOutlivesItsUsers
  <2> SUFFICES ASSUME PhasesInv, codex \in {"closed", "unclosed"} PROVE ClientOutlivesItsUsers
    BY DEF ClientOutlivesItsUsers
  <2>1. life # "serving" /\ Quiet /\ ~ attached
    BY DEF PhasesInv
  <2>2. InFlight \subseteq Requests
    BY DEF InFlight
  <2> QED
    BY <2>1, <2>2 DEF PhasesInv, Quiet, ClientOutlivesItsUsers
<1> QED
  BY <1>1, <1>2, Typed, PhasesKept, PTL DEF Spec

-----------------------------------------------------------------------------
(* The background tasks *)

Started == {"entering", "checking", "pruning", "sampling", "aborting"}

FaultTypes == faults \in [FaultKinds -> Nat]

TasksInv ==
    /\ FaultTypes
    /\ life \in Started => attached
    /\ ready => attached /\ pump # "off" /\ health \notin {"off", "returned"}
    /\ pump = "ended" => Happened("news")
    /\ health = "died" => Happened("workspace") \/ Happened("sample")

LEMMA FaultsCount ==
    ASSUME FaultTypes, NEW k \in FaultKinds, Fault(k)
    PROVE  FaultTypes' /\ Happened(k)' /\ \A j \in FaultKinds : Happened(j) => Happened(j)'
BY DEF FaultTypes, Fault, Happened

LEMMA FaultsStay ==
    ASSUME FaultTypes, [Next]_vars
    PROVE  FaultTypes' /\ \A j \in FaultKinds : Happened(j) => Happened(j)'
<1>1. (\E k \in FaultKinds : Fault(k)) \/ faults' = faults
  <2>1. Start => (\E k \in FaultKinds : Fault(k)) \/ faults' = faults
    BY DEF Start, InitializeDatabase, StartScheduler, MakeClient, EnterClient, CheckAccount,
           PruneAtStart, SampleAtStart, StartFails, AbortStart, FaultKinds
  <2>2. Stop => (\E k \in FaultKinds : Fault(k)) \/ faults' = faults
    BY DEF Stop, BeginClose, Drain, CloseClient, StopScheduler, DisposeDatabase, FaultKinds
  <2>3. Account \/ Background => (\E k \in FaultKinds : Fault(k)) \/ faults' = faults
    BY DEF Account, ConsumedLate, LimitMoves, Background, TurnEnds, NewsArrives, Publish,
           PumpFails, HealthWakes, HealthSamples, HealthPrunes, FaultKinds
  <2>4. ASSUME NEW r \in Requests, Request(r)
        PROVE  (\E k \in FaultKinds : Fault(k)) \/ faults' = faults
    BY <2>4 DEF Request, RequestArrives, RequestResolves, RequestHasNoWorkspace, RequireService,
                Refused, ThreadLookupFails, FindThread, FaultKinds
  <2>5. ASSUME NEW r \in Requests, SpendCredit(r)
        PROVE  (\E k \in FaultKinds : Fault(k)) \/ faults' = faults
    BY <2>5 DEF SpendCredit, AskForCredit, TakeLock, TestLimits, ConsumeAnswered, ConsumeLost,
                FaultKinds
  <2> QED
    BY <2>1, <2>2, <2>3, <2>4, <2>5 DEF Next, Ended, vars
<1> QED
  <2>1. ASSUME faults' = faults
        PROVE  FaultTypes' /\ \A j \in FaultKinds : Happened(j) => Happened(j)'
    BY <2>1 DEF FaultTypes, Happened
  <2> QED
    BY <1>1, <2>1, FaultsCount

LEMMA TasksKept == TypeOK /\ PhasesInv /\ TasksInv /\ [Next]_vars => TasksInv'
<1> SUFFICES ASSUME TypeOK, PhasesInv, TasksInv, [Next]_vars PROVE TasksInv'
  OBVIOUS
<1>0. /\ FaultTypes /\ {"news", "workspace", "sample"} \subseteq FaultKinds
      /\ ProcessTypes /\ TaskTypes
  BY TypeParts DEF TasksInv, FaultKinds
<1>1. FaultTypes' /\ \A j \in {"news", "workspace", "sample"} : Happened(j) => Happened(j)'
  BY <1>0, FaultsStay
<1>2. \A j \in {"news", "workspace", "sample"} : Fault(j) => Happened(j)'
  BY <1>0, FaultsCount
<1> USE DEF TasksInv, Started
<1>3. CASE UNCHANGED <<life, attached, ready, pump, health>>
  BY <1>1, <1>3
<1>4. CASE Start
  BY <1>1, <1>4 DEF Start, InitializeDatabase, StartScheduler, MakeClient, EnterClient,
     CheckAccount, PruneAtStart, SampleAtStart, StartFails, AbortStart, Forget, PhasesInv
<1>5. CASE Stop
  BY <1>1, <1>5 DEF Stop, BeginClose, Drain, CloseClient, StopScheduler, DisposeDatabase, Forget,
     StoppedPump, AfterScheduler, PhasesInv
<1>6. CASE Background
  <2>1. CASE HealthWakes \/ HealthSamples \/ HealthPrunes
    BY <1>0, <1>1, <1>2, <2>1 DEF HealthWakes, HealthSamples, HealthPrunes, Available, PhasesInv
  <2>2. CASE Publish \/ PumpFails
    BY <1>0, <1>1, <1>2, <2>2 DEF Publish, AfterMiss, PumpFails
  <2>3. ASSUME NEW t \in Threads, TurnEnds(t) \/ NewsArrives(t) PROVE TasksInv'
    BY <1>1, <2>3 DEF TurnEnds, NewsArrives
  <2> QED
    BY <1>6, <2>1, <2>2, <2>3 DEF Background
<1> QED
  BY <1>3, <1>4, <1>5, <1>6, RequestsKeepProcess DEF Next, Ended, vars

\* While the service is ready its background tasks run, unless the fault that ends
\* one has happened.
THEOREM TasksEndByFaults == Spec => []OnlyFaultsStopTasks
<1>1. Init => PhasesInv /\ TasksInv
  BY DEF Init, TenancyInit, PhasesInv, InFlight, Unstarted, TasksInv, Started, FaultTypes
<1>2. TypeOK /\ TasksInv => OnlyFaultsStopTasks
  BY TypeParts DEF TaskTypes, TasksInv, OnlyFaultsStopTasks
<1> QED
  BY <1>1, <1>2, Typed, PhasesKept, TasksKept, PTL DEF Spec

-----------------------------------------------------------------------------
(* What the process leaves behind *)

One(b) == IF b THEN 1 ELSE 0

Passed == {"disposing", "ended"}

Closing == AbortStart \/ CloseClient \/ StopScheduler \/ DisposeDatabase

\* Each failure to close counts once, for what it left open; and unless a health
\* loop that died cut close short, the client was closed or is still in use.
ReleasesInv ==
    /\ FaultTypes
    /\ life \in {"new", "scheduling", "starting"} => codex = "none"
    /\ codex \in {"made", "open"} =>
         life \in Started \cup {"serving", "draining", "closing"} \/ health = "died"
    /\ life \in Started => attached
    /\ codex \in {"made", "open"} /\ life \in {"serving", "draining"} => attached
    /\ faults["close"] = One(codex = "unclosed")
                         + One(life \in Passed /\ scheduler = "running")
                         + One(life = "ended" /\ database = "open")

\* No other step fails to close anything.
LEMMA OthersCloseNothing ==
    ASSUME FaultTypes, [Next]_vars, ~ Closing
    PROVE  faults'["close"] = faults["close"]
<1>1. (\E k \in FaultKinds \ {"close"} : Fault(k)) \/ faults' = faults
  <2>1. Start => Closing \/ (\E k \in FaultKinds \ {"close"} : Fault(k)) \/ faults' = faults
    BY DEF Start, InitializeDatabase, StartScheduler, MakeClient, EnterClient, CheckAccount,
           PruneAtStart, SampleAtStart, StartFails, Closing, FaultKinds
  <2>2. Stop => Closing \/ faults' = faults
    BY DEF Stop, BeginClose, Drain, Closing
  <2>3. Account \/ Background =>
            (\E k \in FaultKinds \ {"close"} : Fault(k)) \/ faults' = faults
    BY DEF Account, ConsumedLate, LimitMoves, Background, TurnEnds, NewsArrives, Publish,
           PumpFails, HealthWakes, HealthSamples, HealthPrunes, FaultKinds
  <2>4. ASSUME NEW r \in Requests, Request(r)
        PROVE  (\E k \in FaultKinds \ {"close"} : Fault(k)) \/ faults' = faults
    BY <2>4 DEF Request, RequestArrives, RequestResolves, RequestHasNoWorkspace, RequireService,
                Refused, ThreadLookupFails, FindThread, FaultKinds
  <2>5. ASSUME NEW r \in Requests, SpendCredit(r)
        PROVE  (\E k \in FaultKinds \ {"close"} : Fault(k)) \/ faults' = faults
    BY <2>5 DEF SpendCredit, AskForCredit, TakeLock, TestLimits, ConsumeAnswered, ConsumeLost,
                FaultKinds
  <2> QED
    BY <2>1, <2>2, <2>3, <2>4, <2>5 DEF Next, Ended, vars
<1>2. ASSUME NEW k \in FaultKinds \ {"close"}, Fault(k)
      PROVE  faults'["close"] = faults["close"]
  <2>1. "close" \in FaultKinds /\ k # "close" /\ faults \in [FaultKinds -> Nat]
    BY <1>2 DEF FaultKinds, FaultTypes
  <2>2. faults' = [faults EXCEPT ![k] = @ + 1]
    BY <1>2 DEF Fault
  <2> QED
    BY <2>1, <2>2
<1> QED
  BY <1>1, <1>2

LEMMA FailureCounts ==
    ASSUME FaultTypes, Fault("close")
    PROVE  faults'["close"] = faults["close"] + 1
BY DEF FaultTypes, Fault, FaultKinds

LEMMA ReleasesKept ==
    TypeOK /\ PhasesInv /\ ReleasesInv /\ [Next]_vars => ReleasesInv'
<1> SUFFICES ASSUME TypeOK, PhasesInv, ReleasesInv, [Next]_vars PROVE ReleasesInv'
  OBVIOUS
<1>0. FaultTypes /\ FaultTypes' /\ ProcessTypes /\ TaskTypes /\ faults["close"] \in Nat
  BY TypeParts, FaultsStay DEF ReleasesInv, FaultTypes, FaultKinds
<1>1. /\ ~ Closing => faults'["close"] = faults["close"]
      /\ Fault("close") => faults'["close"] = faults["close"] + 1
  BY <1>0, OthersCloseNothing, FailureCounts
<1> USE DEF ReleasesInv, Started, Passed, One
<1>2. CASE UNCHANGED <<life, codex, attached, health, scheduler, database, faults>>
  BY <1>0, <1>2
<1>3. CASE AbortStart
  BY <1>0, <1>1, <1>3 DEF AbortStart, Forget, PhasesInv, Unstarted
<1>4. CASE CloseClient
  BY <1>0, <1>1, <1>4 DEF CloseClient, PhasesInv
<1>5. CASE StopScheduler
  BY <1>0, <1>1, <1>5 DEF StopScheduler, AfterScheduler
<1>6. CASE DisposeDatabase
  BY <1>0, <1>1, <1>6 DEF DisposeDatabase
<1>7. CASE Start /\ ~ Closing
  <2>1. faults'["close"] = faults["close"]
    BY <1>1, <1>7
  <2>2. /\ life \in Unstarted /\ life' \notin {"ended", "disposing", "draining", "closing"}
        /\ codex' # "unclosed" /\ health = "off"
    BY <1>7 DEF Start, Closing, InitializeDatabase, StartScheduler, MakeClient, EnterClient,
       CheckAccount, PruneAtStart, SampleAtStart, StartFails, PhasesInv, Unstarted
  <2>3. faults["close"] = 0
    BY <2>2 DEF PhasesInv, Unstarted
  <2>4. faults'["close"] = One(codex' = "unclosed") + One(life' \in Passed /\ scheduler' = "running")
                           + One(life' = "ended" /\ database' = "open")
    BY <2>1, <2>2, <2>3
  <2>5. /\ life' \in {"new", "scheduling", "starting"} => codex' = "none"
        /\ codex' \in {"made", "open"} => life' \in Started \cup {"serving"} /\ attached'
        /\ life' \in Started => attached'
    <3>1. ProcessTypes /\ health = "off"
      BY <1>0, <2>2
    <3>2. CASE InitializeDatabase \/ StartScheduler \/ MakeClient
      BY <3>1, <3>2 DEF InitializeDatabase, StartScheduler, MakeClient
    <3>3. ASSUME life \in Started \ {"aborting"}, attached' = attached,
                 life' \in Started \cup {"serving"}
          PROVE  /\ life' \in {"new", "scheduling", "starting"} => codex' = "none"
                 /\ codex' \in {"made", "open"} => life' \in Started \cup {"serving"} /\ attached'
                 /\ life' \in Started => attached'
      BY <3>3
    <3>4. EnterClient => /\ life \in Started \ {"aborting"} /\ attached' = attached
                         /\ life' \in Started \cup {"serving"}
      BY DEF EnterClient
    <3>5. CheckAccount => /\ life \in Started \ {"aborting"} /\ UNCHANGED <<codex, attached>>
                         /\ life' \in Started \cup {"serving"}
      BY DEF CheckAccount
    <3>6. PruneAtStart \/ SampleAtStart \/ StartFails =>
                         /\ life \in Started \ {"aborting"} /\ UNCHANGED <<codex, attached>>
                         /\ life' \in Started \cup {"serving"}
      BY DEF PruneAtStart, SampleAtStart, StartFails
    <3> QED
      BY <1>7, <3>2, <3>3, <3>4, <3>5, <3>6 DEF Start, Closing
  <2> QED
    BY <1>0, <2>4, <2>5
<1>8. CASE Stop /\ ~ Closing
  BY <1>0, <1>1, <1>8 DEF Stop, Closing, BeginClose, Drain, Forget, Serving, PhasesInv
<1>9. CASE ~ Closing /\ UNCHANGED <<life, codex, attached, scheduler, database>>
                     /\ (health = "died" => health' = "died")
  BY <1>0, <1>1, <1>9
<1>10. CASE Background
  <2>1. ~ Closing
    <3>1. life' = life
      BY <1>10 DEF Background, TurnEnds, NewsArrives, Publish, PumpFails, HealthWakes, HealthSamples,
         HealthPrunes
    <3> QED
      BY <3>1 DEF Closing, AbortStart, CloseClient, StopScheduler, DisposeDatabase, AfterScheduler
  <2>2. /\ UNCHANGED <<life, codex, attached, scheduler, database>>
        /\ health = "died" => health' = "died"
    BY <1>10 DEF Background, TurnEnds, NewsArrives, Publish, PumpFails, HealthWakes, HealthSamples,
       HealthPrunes
  <2> QED
    BY <1>9, <2>1, <2>2
<1>11. CASE Account \/ \E r \in Requests : Request(r) \/ SpendCredit(r)
  <2>1. UNCHANGED <<processVars, clientVars, taskVars, heard>>
    BY <1>11, RequestsKeepProcess
  <2>2. ~ Closing
    BY <2>1 DEF Closing, AbortStart, CloseClient, StopScheduler, DisposeDatabase, AfterScheduler
  <2> QED
    BY <1>9, <2>1, <2>2
<1> QED
  BY <1>2, <1>3, <1>4, <1>5, <1>6, <1>7, <1>8, <1>10, <1>11 DEF Next, Ended, vars, Closing

\* As many of the three as are open.
LEMMA CountsUnreleased ==
    Cardinality(Unreleased) = One(codex \in {"made", "open", "unclosed"})
                              + One(scheduler = "running") + One(database = "open")
<1> DEFINE A == IF codex \in {"made", "open", "unclosed"} THEN {"codex"} ELSE {}
           B == IF scheduler = "running" THEN A \cup {"scheduler"} ELSE A
           C == IF database = "open" THEN B \cup {"database"} ELSE B
<1>1. IsFiniteSet(A) /\ Cardinality(A) = One(codex \in {"made", "open", "unclosed"})
  <2>1. IsFiniteSet({}) /\ Cardinality({}) = 0
    BY FS_EmptySet
  <2>2. IsFiniteSet({"codex"}) /\ Cardinality({"codex"}) = 1
    BY FS_Singleton
  <2> QED
    BY <2>1, <2>2 DEF One
<1>2. /\ IsFiniteSet(B)
      /\ Cardinality(B) = One(codex \in {"made", "open", "unclosed"}) + One(scheduler = "running")
  <2>1. "scheduler" \notin A
    OBVIOUS
  <2>2. /\ IsFiniteSet(A \cup {"scheduler"})
        /\ Cardinality(A \cup {"scheduler"}) = Cardinality(A) + 1
    <3> HIDE DEF A
    <3> QED
      BY <1>1, <2>1, FS_AddElement
  <2>3. Cardinality(A) \in Nat
    BY <1>1 DEF One
  <2> HIDE DEF A
  <2> QED
    BY <1>1, <2>2, <2>3 DEF One
<1>3. /\ Cardinality(C) = One(codex \in {"made", "open", "unclosed"})
                           + One(scheduler = "running") + One(database = "open")
  <2>1. "database" \notin B
    OBVIOUS
  <2>2. Cardinality(B \cup {"database"}) = Cardinality(B) + 1
    <3> HIDE DEF B
    <3> QED
      BY <1>2, <2>1, FS_AddElement
  <2>3. Cardinality(B) \in Nat
    BY <1>2 DEF One
  <2> HIDE DEF B
  <2> QED
    BY <1>2, <2>2, <2>3 DEF One
<1>4. Unreleased = C
  BY DEF Unreleased
<1> HIDE DEF C
<1> QED
  BY <1>3, <1>4

\* When the process has ended, what is not released is just what itself failed to
\* close: neither a failing start nor a failing step of the exit skips another,
\* unless the health loop had died.
THEOREM FailuresLeaveThemselves == Spec => []EachFailureLeavesOne
<1>1. Init => PhasesInv /\ ReleasesInv
  <2> SUFFICES ASSUME Init PROVE PhasesInv /\ ReleasesInv
    OBVIOUS
  <2>1. PhasesInv
    BY DEF Init, TenancyInit, PhasesInv, InFlight, Unstarted
  <2>2. FaultTypes /\ faults["close"] = 0
    BY DEF Init, FaultTypes, FaultKinds
  <2> QED
    BY <2>1, <2>2 DEF Init, ReleasesInv, Started, Passed, One
<1>2. ReleasesInv => EachFailureLeavesOne
  <2> SUFFICES ASSUME ReleasesInv, life = "ended", health # "died"
               PROVE  Cardinality(Unreleased) = faults["close"]
    BY DEF EachFailureLeavesOne
  <2>1. codex \notin {"made", "open"}
    BY DEF ReleasesInv, Started
  <2> QED
    BY <2>1, CountsUnreleased DEF ReleasesInv, Passed, One
<1> QED
  BY <1>1, <1>2, Typed, PhasesKept, ReleasesKept, PTL DEF Spec
=============================================================================
