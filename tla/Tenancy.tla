------------------------------- MODULE Tenancy --------------------------------
(***************************************************************************)
(* Which workspace a request gets: TenantWorkspaceManager (tenancy.py) and *)
(* the table of tenants it keeps in SQLite (models.py).                    *)
(*                                                                         *)
(* In single-user mode there is one context, which every request shares.   *)
(* In multi-tenant mode the proxy names a subject, which is stable, and a  *)
(* username, which may change; the first request of a subject assigns it   *)
(* the directory its username canonically spells, for good.  Each SELECT   *)
(* and each commit is a step of its own, since the requests of a page that *)
(* loads run in parallel, each with its own database session, and SQLite   *)
(* ends the implicit transaction of a SELECT with the statement.           *)
(***************************************************************************)
EXTENDS Naturals, FiniteSets

CONSTANTS Requests,
          Subjects,
          Usernames,    \* as the proxy spells them
          Directories,
          Canonical,    \* the directory a username stands for, None if none
          Local,        \* LOCAL_TENANT_ID, the tenant of single-user mode
          Root,         \* its directory
          None

ASSUME Identities ==
    /\ Canonical \in [Usernames -> Directories \cup {None}]
    /\ None \notin Subjects \cup Usernames \cup Directories \cup Requests
    /\ Local \notin Requests \cup {None}
    /\ Root \notin Directories \cup {None}

VARIABLES mode,      \* deployment_mode
          tenants,   \* the rows of the table
          contexts,  \* _contexts: by tenant, None if it has none yet
          asked,     \* the subject and username of each request
          row,       \* the row it read or wrote
          context,   \* its WebUserContext
          pc         \* and where it is

tenancyVars == <<mode, tenants, contexts, asked, row, context, pc>>

\* A tenant_id is a random uuid, drawn by the request that inserts the row.
Tenants == Requests \cup {Local}

TenantRows ==
    [id : Requests, subject : Subjects, user : Usernames, dir : Directories]

Contexts ==
    [tenant : Tenants, user : Usernames \cup {Local}, dir : Directories \cup {Root}]

Identity == [subject : Subjects \cup {None}, user : Usernames \cup {None}]

SingleContext == [tenant |-> Local, user |-> Local, dir |-> Root]

Resolving == {"finding", "renaming", "checking", "inserting", "reselecting", "resolving"}
Rejected == {"required", "invalid", "conflict", "failed"}

TenancyTypeOK ==
    /\ mode \in {"single_user", "multi_tenant"}
    /\ tenants \subseteq TenantRows
    /\ contexts \in [Tenants -> Contexts \cup {None}]
    /\ asked \in [Requests -> Identity \cup {None}]
    /\ row \in [Requests -> TenantRows \cup {None}]
    /\ context \in [Requests -> Contexts \cup {None}]

TenancyInit ==
    /\ mode \in {"single_user", "multi_tenant"}
    /\ tenants = {}
    /\ contexts = [i \in Tenants |-> None]
    /\ asked = [r \in Requests |-> None]
    /\ row = [r \in Requests |-> None]
    /\ context = [r \in Requests |-> None]
    /\ pc = [r \in Requests |-> "idle"]

-----------------------------------------------------------------------------
(* resolve, up to the first SELECT; s and n are None if the header is missing. *)

Goto(r, l) == pc' = [pc EXCEPT ![r] = l]

WellSpelled(n) == Canonical[n] # None

Arrive(r, s, n) ==
    /\ pc[r] = "idle"
    /\ asked' = [asked EXCEPT ![r] = [subject |-> s, user |-> n]]
    /\ \/ /\ mode = "single_user"
          /\ context' = [context EXCEPT ![r] = SingleContext]
          /\ Goto(r, "identified")
       \/ /\ mode = "multi_tenant"
          /\ Goto(r, IF None \in {s, n} THEN "required"
                     ELSE IF WellSpelled(n) THEN "finding" ELSE "invalid")
          /\ UNCHANGED context
    /\ UNCHANGED <<mode, tenants, contexts, row>>

-----------------------------------------------------------------------------
(* _tenant *)

RowsOf(r) == {t \in tenants : t.subject = asked[r].subject}
Assigned(r) == {t \in tenants : t.dir = Canonical[asked[r].user]}

\* The SELECT by subject, whose row may carry an older username.
FindTenant(r) ==
    /\ pc[r] = "finding"
    /\ \/ /\ RowsOf(r) = {}
          /\ Goto(r, "checking")
          /\ UNCHANGED row
       \/ \E t \in RowsOf(r) :
            /\ row' = [row EXCEPT ![r] = t]
            /\ Goto(r, IF t.user # asked[r].user THEN "renaming" ELSE "resolving")
    /\ UNCHANGED <<mode, tenants, contexts, asked, context>>

\* The UPDATE writes the username only: the directory stays.
Renamed(t, n) == [t EXCEPT !.user = n]

RenameTenant(r) ==
    /\ pc[r] = "renaming"
    /\ tenants' = {IF t.id = row[r].id THEN Renamed(t, asked[r].user) ELSE t : t \in tenants}
    /\ row' = [row EXCEPT ![r].user = asked[r].user]
    /\ Goto(r, "resolving")
    /\ UNCHANGED <<mode, contexts, asked, context>>

\* The SELECT by directory.
FindAssigned(r) ==
    /\ pc[r] = "checking"
    /\ Goto(r, IF Assigned(r) = {} THEN "inserting" ELSE "conflict")
    /\ UNCHANGED <<mode, tenants, contexts, asked, row, context>>

\* The UNIQUE constraints of the table.
Insertable(t) == \A u \in tenants : u.subject # t.subject /\ u.dir # t.dir

InsertTenant(r) ==
    LET t == [id |-> r, subject |-> asked[r].subject, user |-> asked[r].user,
              dir |-> Canonical[asked[r].user]]
    IN  /\ pc[r] = "inserting"
        /\ \/ /\ Insertable(t)
              /\ tenants' = tenants \cup {t}
              /\ row' = [row EXCEPT ![r] = t]
              /\ Goto(r, "resolving")
           \/ /\ ~ Insertable(t)             \* IntegrityError, rolled back
              /\ Goto(r, "reselecting")
              /\ UNCHANGED <<tenants, row>>
        /\ UNCHANGED <<mode, contexts, asked, context>>

\* Mutant: whoever has the directory is taken for the winner.
ExistingByDirectory(r) == RowsOf(r) \cup Assigned(r)

\* After a lost race: the row of the same subject, and no other one.
Existing(r) == RowsOf(r)

Reselect(r) ==
    /\ pc[r] = "reselecting"
    /\ \/ /\ Existing(r) = {}
          /\ Goto(r, "conflict")
          /\ UNCHANGED row
       \/ \E t \in Existing(r) :
            /\ row' = [row EXCEPT ![r] = t]
            /\ Goto(r, "resolving")
    /\ UNCHANGED <<mode, tenants, contexts, asked, context>>

-----------------------------------------------------------------------------
(* resolve, from the row on, without an await.  mkdir and the checks of the *)
(* directory may raise, and nothing is cached then.                         *)

Reusable(r) ==
    /\ contexts[row[r].id] # None
    /\ contexts[row[r].id].user = row[r].user

ResolveContext(r) ==
    /\ pc[r] = "resolving"
    /\ LET made == [tenant |-> row[r].id, user |-> row[r].user, dir |-> row[r].dir]
           c == IF Reusable(r) THEN contexts[row[r].id] ELSE made
       IN  /\ context' = [context EXCEPT ![r] = c]
           /\ contexts' = [contexts EXCEPT ![c.tenant] = c]
    /\ Goto(r, "identified")
    /\ UNCHANGED <<mode, tenants, asked, row>>

WorkspaceFails(r) ==
    /\ pc[r] = "resolving"
    /\ ~ Reusable(r)
    /\ Goto(r, "failed")
    /\ UNCHANGED <<mode, tenants, contexts, asked, row, context>>

Resolve(r) ==
    \/ FindTenant(r) \/ RenameTenant(r) \/ FindAssigned(r)
    \/ InsertTenant(r) \/ Reselect(r) \/ ResolveContext(r)

-----------------------------------------------------------------------------
(* Properties *)

\* A request works in the directory of its own subject, the directory which the
\* subject got first, whoever else asks for the same name at the same time and
\* whatever the subject is called by now.
OwnWorkspace ==
    mode = "multi_tenant" =>
        \A r, q \in Requests : context[r] # None /\ context[q] # None =>
            /\ context[r].dir = context[q].dir <=> asked[r].subject = asked[q].subject
            /\ context[r].tenant = context[q].tenant <=> asked[r].subject = asked[q].subject

\* What a refused user is told, that the name is "already assigned to a
\* different workspace owner": it does not hold when the first requests of one
\* subject run in parallel.
ConflictMeansOtherOwner ==
    \A r \in Requests : pc[r] = "conflict" =>
        \E t \in Assigned(r) : t.subject # asked[r].subject
=============================================================================
