------------------------------- MODULE Sessions -------------------------------
(***************************************************************************)
(* Projects and the Sessions in them: the Project registry (projects.py)   *)
(* and the methods of CodexService (codex_service.py) that create, find,  *)
(* change and remove a Session, or rename and delete the Project it is in. *)
(*                                                                         *)
(* A Project is a directory and its name; a Session belongs to the Project *)
(* whose directory is its cwd in Codex.  Codex lists a Session once it has *)
(* had its first message; until then the service remembers it as pending.  *)
(* Each client makes one request, in as many steps as it has awaits, so    *)
(* that what it looked up may have changed when it goes on.                *)
(*                                                                         *)
(* A Project's key stands for its name.  The registry's cached lists are   *)
(* read anew by every look-up of a key, under the registry's lock, and are *)
(* not modelled.  Paging, titles and the contents of Sessions are not      *)
(* either.                                                                 *)
(***************************************************************************)
EXTENDS Naturals, FiniteSets, Sequences, SequencesExt

CONSTANTS Names,    \* of Projects
          Threads,  \* Session ids
          Clients,
          Jobs,     \* the requests each client may make
          Placed,   \* the Project each Session is in at first, or None
          None,
          Faults,   \* what may go wrong in a relocation, a subset of FaultKinds
          MaxFaults

FaultKinds == {"move",       \* resuming in the new directory raises
               "rearchive",  \* archiving again after the move raises
               "rmtree"}     \* the directory cannot be deleted

Reserving == {"archive", "unarchive", "delete", "fork", "turn"}
Unreserved == {"read", "title", "list"}
Creating == {"new", "prompt"}
Mutating == {"rename project", "delete project"}
Ops == Reserving \cup Unreserved \cup Creating \cup Mutating \cup {"create project"}

\* "to" is the new name of a Project and "copy" the Session a fork makes.
Requests == [op : Ops, thread : Threads, name : Names, to : Names, copy : Threads]

ASSUME Parameters ==
    /\ Jobs \in [Clients -> SUBSET Requests]
    /\ Placed \in [Threads -> Names \cup {None}]
    /\ None \notin Names \cup Clients
    /\ Names \cap Clients = {}
    /\ Faults \subseteq FaultKinds
    /\ MaxFaults \in Nat

\* The Session that a request makes, if any; Codex gives it an id of its own.
Makes(r) == CASE r.op \in Creating -> {r.thread}
              [] r.op = "fork" -> {r.copy}
              [] OTHER -> {}

ASSUME FiniteThreads == IsFiniteSet(Threads)

ASSUME FreshIds ==
    \A c \in Clients : \A r \in Jobs[c] :
        /\ \A t \in Makes(r) : Placed[t] = None
        /\ r.op = "fork" => r.copy # r.thread
        /\ \A d \in Clients \ {c} : \A s \in Jobs[d] : Makes(r) \cap Makes(s) = {}

VARIABLES dirs,      \* the directory of each name: who made it, or None
          cwd,       \* Codex: the cwd of each Session, None if it has none
          archived,  \* Codex: the Sessions in its archive
          listed,    \* Codex: the Sessions it lists, once they had a message
          pending,   \* _pending_threads: the Project of each pending Session
          mutating,  \* _mutating_projects
          held,      \* the Turn registry: whose operation or mutation it is
          job,       \* the request of each client
          op,        \* what the client is doing, for a request of several parts
          pc,        \* and where it is
          work,      \* and what it has looked up
          faults,
          promised,  \* history: the Sessions that clients were told exist
          home,      \* history: the directory each Session was made in
          raced      \* history: Sessions whose request crossed a mutation

codexVars == <<cwd, archived, listed>>
serviceVars == <<pending, mutating, held>>
promiseVars == <<promised, home>>
vars == <<dirs, codexVars, serviceVars, job, op, pc, work, faults,
          promiseVars, raced>>

Started == {"titling", "created", "reserving", "finding", "reading", "arriving",
            "renamed title", "confirming", "acting", "forked", "running",
            "asking", "answered", "made"}
\* Of renaming or deleting a Project, from the gate on.
InMutation == {"gated", "listing", "reserved", "checked", "renamed", "moving",
               "undo", "undo checked", "returning"}
Ended == {"done", "refused", "failed", "broken"}

\* What a client keeps across its awaits: the Project it found its Session in,
\* the cwd it read, the Sessions of a mutation, those of them that were
\* archived, and those it has tried to move, in order.
Work == [project : Names \cup {None}, seen : Names \cup {None},
         threads : SUBSET Threads, stored : SUBSET Threads, tried : Seq(Threads)]

TypeOK ==
    /\ dirs \in [Names -> Names \cup Clients \cup {None}]
    /\ cwd \in [Threads -> Names \cup {None}]
    /\ archived \subseteq Threads
    /\ listed \subseteq Threads
    /\ pending \in [Threads -> Names \cup {None}]
    /\ mutating \subseteq Names
    /\ held \in [Threads -> Clients \cup {None}]
    /\ job \in [Clients -> Requests]
    /\ op \in [Clients -> Ops]
    /\ pc \in [Clients -> {"start"} \cup Started \cup InMutation \cup Ended]
    /\ work \in [Clients -> Work]
    /\ faults \in 0..MaxFaults
    /\ promised \subseteq Threads
    /\ home \in [Threads -> Names \cup Clients \cup {None}]
    /\ raced \subseteq Threads

Existing == {t \in Threads : Placed[t] # None}

\* Some Sessions exist, some of them archived, and each is either listed by
\* Codex or still pending.
Init ==
    /\ dirs = [n \in Names |-> IF n \in {Placed[t] : t \in Existing} THEN n ELSE None]
    /\ cwd = Placed
    /\ archived \in SUBSET Existing
    /\ listed \in SUBSET Existing
    /\ pending = [t \in Threads |-> IF t \in listed THEN None ELSE Placed[t]]
    /\ mutating = {}
    /\ held = [t \in Threads |-> None]
    /\ job \in {j \in [Clients -> UNION {Jobs[c] : c \in Clients}] :
                   \A c \in Clients : j[c] \in Jobs[c]}
    /\ op = [c \in Clients |-> IF job[c].op = "prompt" THEN "new" ELSE job[c].op]
    /\ pc = [c \in Clients |-> "start"]
    /\ work = [c \in Clients |-> [project |-> None, seen |-> None, threads |-> {},
                                  stored |-> {}, tried |-> <<>>]]
    /\ faults = 0
    /\ promised = Existing
    /\ home = Placed
    /\ raced = {}

-----------------------------------------------------------------------------
\* Common to all requests.

Thread(c) == job[c].thread

Go(c, where) == pc' = [pc EXCEPT ![c] = where]

Keep(c, fields) == work' = [work EXCEPT ![c] = fields]

\* The finally clauses: the registry forgets what the request held.
Released(c) == [t \in Threads |-> IF held[t] = c THEN None ELSE held[t]]

Found(n) == n # None /\ dirs[n] # None

\* rename holds the registry's lock from its check to the end, and every
\* look-up waits for it.
Locked == \E c \in Clients : pc[c] \in {"checked", "undo checked"}

\* _project, which every request for a Project by its key passes first.
Open(n) == Found(n) /\ n \notin mutating

\* _remember_pending_thread: a Session that was made is pending until it is
\* listed, and the client is told of it.
Remember(t, n) ==
    /\ pending' = [pending EXCEPT ![t] = n]
    /\ promised' = promised \cup {t}

Forget(t) == pending' = [pending EXCEPT ![t] = None]

\* A request fails.  create_thread_from_prompt and _from_goal then delete the
\* Session that they created.
Raise(c) ==
    /\ held' = Released(c)
    /\ IF job[c].op = "prompt" /\ op[c] = "turn"
       THEN op' = [op EXCEPT ![c] = "delete"] /\ Go(c, "reserving")
       ELSE Go(c, "refused") /\ UNCHANGED op

-----------------------------------------------------------------------------
\* Creating a Session.

\* A prompt first has a thread of its own make a title.
Title(c) ==
    /\ pc[c] = "start" /\ job[c].op = "prompt" /\ ~Locked
    /\ IF Open(job[c].name) THEN Go(c, "titling") ELSE Go(c, "refused")
    /\ UNCHANGED <<dirs, codexVars, serviceVars, job, op, work, faults, promiseVars>>

\* create_thread: the gate, then thread/start.
StartThread(c) ==
    /\ op[c] = "new" /\ ~Locked
    /\ pc[c] = IF job[c].op = "prompt" THEN "titling" ELSE "start"
    /\ cwd[Thread(c)] = None
    /\ IF Open(job[c].name)
       THEN /\ cwd' = [cwd EXCEPT ![Thread(c)] = job[c].name]
            /\ home' = [home EXCEPT ![Thread(c)] = dirs[job[c].name]]
            /\ Go(c, "created")
       ELSE Go(c, "refused") /\ UNCHANGED <<cwd, home>>
    /\ UNCHANGED <<dirs, archived, listed, serviceVars, job, op, work, faults, promised>>

\* The answer to its thread/read: the Session is remembered as pending.  A
\* prompt goes on with the Session's first Turn.
Created(c) ==
    /\ pc[c] = "created"
    /\ IF Found(cwd[Thread(c)])
       THEN /\ Remember(Thread(c), job[c].name)
            /\ IF job[c].op = "prompt"
               THEN op' = [op EXCEPT ![c] = "turn"] /\ Go(c, "reserving")
               ELSE Go(c, "done") /\ UNCHANGED op
       ELSE Go(c, "refused") /\ UNCHANGED <<pending, promised, op>>
    /\ UNCHANGED <<dirs, codexVars, mutating, held, job, work, faults, home>>

-----------------------------------------------------------------------------
\* Finding a Session and checking whose it is.

\* reserve and reserve_mutation refuse a Session with an operation or another
\* mutation.
Reserve(c) ==
    /\ op[c] \in Reserving
    /\ pc[c] = "reserving" \/ (pc[c] = "start" /\ op[c] = job[c].op)
    /\ IF held[Thread(c)] = None
       THEN /\ held' = [held EXCEPT ![Thread(c)] = c]
            /\ Go(c, "finding") /\ UNCHANGED op
       ELSE Raise(c)
    /\ UNCHANGED <<dirs, codexVars, pending, mutating, job, work, faults, promiseVars>>

\* _authorized_thread and _find_thread: a pending Session is taken as it is,
\* another is looked for among those that Codex lists in each Project; both
\* refuse it while its Project is being renamed or deleted.  delete_thread asks
\* for a pending Session itself, without that guard.
Find(c) ==
    LET t == Thread(c)
        n == IF pending[t] # None THEN pending[t] ELSE cwd[t]
        known == pending[t] # None \/ (t \in listed /\ Found(cwd[t]))
        direct == op[c] = "delete" /\ pending[t] # None
    IN
    /\ \/ pc[c] = "finding"
       \/ pc[c] = "start" /\ op[c] \in {"read", "title"}
    /\ pending[t] = None => ~Locked
    /\ IF known /\ (direct \/ n \notin mutating)
       THEN /\ Keep(c, [work[c] EXCEPT !.project = n])
            /\ Go(c, IF direct \/ op[c] = "unarchive" THEN "acting" ELSE "reading")
            /\ UNCHANGED <<held, op>>
       ELSE Raise(c) /\ UNCHANGED work
    /\ UNCHANGED <<dirs, codexVars, pending, mutating, job, faults, promiseVars>>

\* Codex answers a thread/read with the cwd of that moment.
Read(c) ==
    /\ pc[c] \in {"reading", "renamed title"}
    /\ cwd[Thread(c)] # None
    /\ Keep(c, [work[c] EXCEPT !.seen = cwd[Thread(c)]])
    /\ Go(c, IF pc[c] = "reading" THEN "arriving" ELSE "confirming")
    /\ UNCHANGED <<dirs, codexVars, serviceVars, job, op, faults, promiseVars>>

\* The answer is compared with the Project that was found: a Session that is
\* elsewhere is forgotten and refused.
Matches(c) == work[c].seen = work[c].project /\ Found(work[c].seen)

Arrive(c) ==
    /\ pc[c] = "arriving"
    /\ IF Matches(c)
       THEN /\ Go(c, CASE op[c] = "title" -> "renamed title"
                       [] op[c] \in {"read", "unarchive"} -> "done"
                       [] OTHER -> "acting")
            /\ held' = IF op[c] = "unarchive" THEN Released(c) ELSE held
            /\ UNCHANGED <<pending, op>>
       ELSE Forget(Thread(c)) /\ Raise(c)
    /\ UNCHANGED <<dirs, codexVars, mutating, job, work, faults, promiseVars>>

\* rename_thread, which reserves nothing, sets the title, then reads and
\* compares again.
ConfirmTitle(c) ==
    /\ pc[c] = "confirming"
    /\ IF Matches(c)
       THEN Go(c, "done") /\ UNCHANGED pending
       ELSE Forget(Thread(c)) /\ Go(c, "refused")
    /\ UNCHANGED <<dirs, codexVars, mutating, held, job, op, work, faults, promiseVars>>

-----------------------------------------------------------------------------
\* What the requests do to the Session.

Archive(c) ==
    /\ pc[c] = "acting" /\ op[c] = "archive"
    /\ archived' = archived \cup ({Thread(c)} \cap {t \in Threads : cwd[t] # None})
    /\ held' = Released(c)
    /\ Go(c, "done")
    /\ UNCHANGED <<dirs, cwd, listed, pending, mutating, job, op, work, faults, promiseVars>>

\* unarchive_thread reads the Session after the call.
Unarchive(c) ==
    /\ pc[c] = "acting" /\ op[c] = "unarchive"
    /\ archived' = archived \ {Thread(c)}
    /\ Go(c, "reading")
    /\ UNCHANGED <<dirs, cwd, listed, serviceVars, job, op, work, faults, promiseVars>>

\* A delete that raises is looked into: a pending Session is read, a listed one
\* is searched for.  Only one that is verifiably gone counts as deleted.
CountsAsDeleted(t, raises, verified) == ~raises \/ (verified /\ cwd'[t] = None)

Delete(c, effect, raises, verified) ==
    LET t == Thread(c) IN
    /\ pc[c] = "acting" /\ op[c] = "delete"
    /\ ~raises => effect
    /\ cwd' = [cwd EXCEPT ![t] = IF effect THEN None ELSE @]
    /\ archived' = IF effect THEN archived \ {t} ELSE archived
    /\ listed' = IF effect THEN listed \ {t} ELSE listed
    /\ promised' = IF effect THEN promised \ {t} ELSE promised
    /\ IF CountsAsDeleted(t, raises, verified) THEN Forget(t) ELSE UNCHANGED pending
    /\ held' = Released(c)
    /\ Go(c, IF job[c].op # "prompt" /\ CountsAsDeleted(t, raises, verified) THEN "done" ELSE "refused")
    /\ UNCHANGED <<dirs, mutating, job, op, work, faults, home>>

\* thread/fork, then thread/read of the copy.
Fork(c) ==
    LET f == job[c].copy IN
    /\ pc[c] = "acting" /\ op[c] = "fork"
    /\ cwd[f] = None /\ cwd[Thread(c)] # None
    /\ cwd' = [cwd EXCEPT ![f] = cwd[Thread(c)]]
    /\ home' = [home EXCEPT ![f] = dirs[cwd[Thread(c)]]]
    /\ listed' \in {listed, listed \cup {f}}
    /\ Go(c, "forked")
    /\ UNCHANGED <<dirs, archived, serviceVars, job, op, work, faults, promised>>

Forked(c) ==
    LET f == job[c].copy IN
    /\ pc[c] = "forked"
    /\ IF cwd[f] = work[c].project /\ Found(cwd[f])
       THEN /\ Remember(f, work[c].project)
            /\ Go(c, "done")
       ELSE Go(c, "refused") /\ UNCHANGED <<pending, promised>>
    /\ held' = Released(c)
    /\ UNCHANGED <<dirs, codexVars, mutating, job, op, work, faults, home>>

\* A Turn: Codex keeps the Session's first message, and lists it from then on.
StartTurn(c) ==
    /\ pc[c] = "acting" /\ op[c] = "turn"
    /\ cwd[Thread(c)] # None
    /\ listed' = listed \cup {Thread(c)}
    /\ Go(c, "running")
    /\ UNCHANGED <<dirs, cwd, archived, serviceVars, job, op, work, faults, promiseVars>>

EndTurn(c) ==
    /\ pc[c] = "running"
    /\ held' = Released(c)
    /\ Go(c, "done")
    /\ UNCHANGED <<dirs, codexVars, pending, mutating, job, op, work, faults, promiseVars>>

\* Any call of Codex may raise, or its answer be late: here without an effect.
CodexRaises(c) ==
    /\ pc[c] \in {"titling", "created", "finding", "reading", "renamed title",
                  "acting", "forked", "asking"}
    /\ Raise(c)
    /\ UNCHANGED <<dirs, codexVars, pending, mutating, job, work, faults, promiseVars>>

\* list_threads: the gate, Codex's answer, and what the service does with it: the
\* Sessions of the answer are no longer pending.
ListThreads(c) ==
    /\ op[c] = "list" /\ pc[c] = "start" /\ ~Locked
    /\ Go(c, IF Open(job[c].name) THEN "asking" ELSE "refused")
    /\ UNCHANGED <<dirs, codexVars, serviceVars, job, op, work, faults, promiseVars>>

CodexLists(c) ==
    /\ pc[c] = "asking"
    /\ Keep(c, [work[c] EXCEPT !.threads = {t \in listed \ archived : cwd[t] = job[c].name}])
    /\ Go(c, "answered")
    /\ UNCHANGED <<dirs, codexVars, serviceVars, job, op, faults, promiseVars>>

Listed(c) ==
    /\ op[c] = "list" /\ pc[c] = "answered"
    /\ pending' = [t \in Threads |-> IF t \in work[c].threads /\ Found(job[c].name)
                                     THEN None ELSE pending[t]]
    /\ Go(c, "done")
    /\ UNCHANGED <<dirs, codexVars, mutating, held, job, op, work, faults, promiseVars>>

-----------------------------------------------------------------------------
\* Creating a Project: the directory is made before the registry's lock is
\* taken.

MakeDirectory(c) ==
    LET n == job[c].name IN
    /\ op[c] = "create project" /\ pc[c] = "start"
    /\ IF dirs[n] = None
       THEN dirs' = [dirs EXCEPT ![n] = c] /\ Go(c, "made")
       ELSE Go(c, "refused") /\ UNCHANGED dirs
    /\ UNCHANGED <<codexVars, serviceVars, job, op, work, faults, promiseVars>>

ProjectCreated(c) ==
    /\ op[c] = "create project" /\ pc[c] = "made" /\ ~Locked
    /\ Go(c, IF Found(job[c].name) THEN "done" ELSE "refused")
    /\ UNCHANGED <<dirs, codexVars, serviceVars, job, op, work, faults, promiseVars>>

-----------------------------------------------------------------------------
\* Renaming or deleting a Project (_project_mutation).

Old(c) == job[c].name
New(c) == job[c].to

\* Mutant: the gate of the new name stays closed.
LeaveMutationHalf(c, where) ==
    mutating' = mutating \ {Old(c)} /\ held' = Released(c) /\ Go(c, where)

\* The gate of a Project is a set: it opens for all who closed it.
LeaveMutation(c, where) ==
    /\ mutating' = mutating \ {Old(c), IF op[c] = "rename project" /\ where # "refused"
                                       THEN New(c) ELSE Old(c)}
    /\ held' = Released(c)
    /\ Go(c, where)

CloseGate(c) ==
    /\ op[c] \in Mutating /\ pc[c] = "start" /\ ~Locked
    /\ IF Open(Old(c))
       THEN mutating' = mutating \cup {Old(c)} /\ Go(c, "gated")
       ELSE Go(c, "refused") /\ UNCHANGED mutating
    /\ UNCHANGED <<dirs, codexVars, pending, held, job, op, work, faults, promiseVars>>

\* Its Sessions are listed in two calls, then the pending ones are added.
ListActive(c) ==
    /\ pc[c] = "gated"
    /\ Keep(c, [work[c] EXCEPT !.threads = {t \in listed \ archived : cwd[t] = Old(c)}])
    /\ Go(c, "listing")
    /\ UNCHANGED <<dirs, codexVars, serviceVars, job, op, faults, promiseVars>>

\* Mutant: the pending Sessions are left out.
ReserveListed(c) ==
    LET stored == {t \in listed \cap archived : cwd[t] = Old(c)}
        fresh == {}
        all == work[c].threads \cup stored \cup fresh
    IN
    /\ pc[c] = "listing"
    /\ IF \A t \in all : held[t] = None
       THEN /\ held' = [t \in Threads |-> IF t \in all THEN c ELSE held[t]]
            /\ Keep(c, [work[c] EXCEPT !.threads = all,
                          !.stored = stored \cup {t \in fresh \ work[c].threads : t \in archived}])
            /\ Go(c, "reserved") /\ UNCHANGED mutating
       ELSE LeaveMutation(c, "refused") /\ UNCHANGED work
    /\ UNCHANGED <<dirs, codexVars, pending, job, op, faults, promiseVars>>

\* Mutant: a Session that is reserved is taken over.
ReserveAnyway(c) ==
    LET stored == {t \in listed \cap archived : cwd[t] = Old(c)}
        fresh == {t \in Threads : pending[t] = Old(c)}
        all == work[c].threads \cup stored \cup fresh
    IN
    /\ pc[c] = "listing"
    /\ IF TRUE
       THEN /\ held' = [t \in Threads |-> IF t \in all THEN c ELSE held[t]]
            /\ Keep(c, [work[c] EXCEPT !.threads = all,
                          !.stored = stored \cup {t \in fresh \ work[c].threads : t \in archived}])
            /\ Go(c, "reserved") /\ UNCHANGED mutating
       ELSE LeaveMutation(c, "refused") /\ UNCHANGED work
    /\ UNCHANGED <<dirs, codexVars, pending, job, op, faults, promiseVars>>

\* The second answer, the pending Sessions and the reservation of all of them
\* are one step; a Session that is reserved refuses the mutation.  (Of a pending
\* Session the service knows itself whether it is archived; Codex agrees, as the
\* archive calls of the model have no effect after they raised.)
ReserveAll(c) ==
    LET stored == {t \in listed \cap archived : cwd[t] = Old(c)}
        fresh == {t \in Threads : pending[t] = Old(c)}
        all == work[c].threads \cup stored \cup fresh
    IN
    /\ pc[c] = "listing"
    /\ IF \A t \in all : held[t] = None
       THEN /\ held' = [t \in Threads |-> IF t \in all THEN c ELSE held[t]]
            /\ Keep(c, [work[c] EXCEPT !.threads = all,
                          !.stored = stored \cup {t \in fresh \ work[c].threads : t \in archived}])
            /\ Go(c, "reserved") /\ UNCHANGED mutating
       ELSE LeaveMutation(c, "refused") /\ UNCHANGED work
    /\ UNCHANGED <<dirs, codexVars, pending, job, op, faults, promiseVars>>

\* A list call raises, or reports a Session that is running elsewhere.
MutationRefused(c) ==
    /\ pc[c] \in {"gated", "listing"}
    /\ LeaveMutation(c, "refused")
    /\ UNCHANGED <<dirs, codexVars, pending, job, op, work, faults, promiseVars>>

DeleteProject(c) ==
    /\ pc[c] = "reserved" /\ op[c] = "delete project" /\ ~Locked
    /\ \/ /\ Found(Old(c))
          /\ dirs' = [dirs EXCEPT ![Old(c)] = None]
          /\ pending' = [t \in Threads |-> IF t \in work[c].threads THEN None ELSE pending[t]]
          /\ promised' = promised \ {t \in Threads : home[t] = dirs[Old(c)]}
          /\ LeaveMutation(c, "done") /\ UNCHANGED faults
       \/ /\ Found(Old(c)) => faults < MaxFaults /\ "rmtree" \in Faults
          /\ faults' = IF Found(Old(c)) THEN faults + 1 ELSE faults
          /\ LeaveMutation(c, "refused") /\ UNCHANGED <<dirs, pending, promised>>
    /\ UNCHANGED <<codexVars, job, op, work, home>>

\* ProjectRegistry.rename, and the way back after a failure.  Between the check
\* of the new name and the rename only a mkdir can come, whose empty directory
\* the rename then replaces.
CheckNewName(c) ==
    /\ pc[c] = "reserved" /\ op[c] = "rename project" /\ ~Locked
    /\ IF Found(Old(c)) /\ ~Found(New(c))
       THEN Go(c, "checked") /\ UNCHANGED <<mutating, held>>
       ELSE LeaveMutation(c, "refused")
    /\ UNCHANGED <<dirs, codexVars, pending, job, op, work, faults, promiseVars>>

RenameDirectory(c) ==
    /\ pc[c] = "checked"
    /\ dirs' = [dirs EXCEPT ![Old(c)] = None, ![New(c)] = dirs[Old(c)]]
    /\ Go(c, "renamed")
    /\ UNCHANGED <<codexVars, serviceVars, job, op, work, faults, promiseVars>>

CloseNewGate(c) ==
    /\ pc[c] = "renamed"
    /\ mutating' = mutating \cup {New(c)}
    /\ Go(c, "moving")
    /\ UNCHANGED <<dirs, codexVars, pending, held, job, op, work, faults, promiseVars>>

\* _move_thread_cwd: an archived Session is unarchived, resumed in the new
\* directory, verified and archived again, whatever came of it.  Unarchiving
\* one that is not archived, or moving one that is gone, raises.  Yields where
\* the Session then is, if it is archived, and if the call returned.
Outcomes(c, t, n) ==
    LET can == cwd[t] # None /\ (t \in work[c].stored => t \in archived)
        was == t \in archived
        may == {cwd[t]} \cup (IF can THEN {n} ELSE {})
    IN
    (IF can /\ Found(n) THEN {[cwd |-> n, archived |-> was, ok |-> TRUE, fault |-> 0]} ELSE {})
    \cup (IF can /\ Found(n) THEN {} ELSE [cwd : may, archived : {was}, ok : {FALSE}, fault : {0}])
    \cup (IF "move" \in Faults /\ can
          THEN [cwd : may, archived : {was}, ok : {FALSE}, fault : {1}] ELSE {})
    \cup (IF "rearchive" \in Faults /\ can /\ t \in work[c].stored
          THEN [cwd : may, archived : {FALSE}, ok : {FALSE}, fault : {1}] ELSE {})

Relocate(c, t, n, o) ==
    /\ o \in Outcomes(c, t, n)
    /\ faults' = faults + o.fault /\ faults' <= MaxFaults
    /\ cwd' = [cwd EXCEPT ![t] = o.cwd]
    /\ archived' = IF o.archived THEN archived ELSE archived \ {t}
    /\ pending' = IF o.ok /\ pending[t] # None THEN [pending EXCEPT ![t] = n] ELSE pending

\* Mutant: a Session counts as tried only after it was moved.
MoveThreadThenNote(c) ==
    /\ pc[c] = "moving"
    /\ \E t \in work[c].threads \ ToSet(work[c].tried) :
           \E o \in Outcomes(c, t, New(c)) :
               /\ Relocate(c, t, New(c), o)
               /\ Keep(c, [work[c] EXCEPT !.tried = IF o.ok THEN Append(@, t) ELSE @])
               /\ Go(c, IF o.ok THEN "moving" ELSE "undo")
    /\ UNCHANGED <<dirs, listed, mutating, held, job, op, promiseVars>>

\* Each Session of the list is moved in turn; the first that fails starts the
\* way back, for those tried so far.
MoveThread(c) ==
    /\ pc[c] = "moving"
    /\ \E t \in work[c].threads \ ToSet(work[c].tried) :
           \E o \in Outcomes(c, t, New(c)) :
               /\ Relocate(c, t, New(c), o)
               /\ Keep(c, [work[c] EXCEPT !.tried = Append(@, t)])
               /\ Go(c, IF o.ok THEN "moving" ELSE "undo")
    /\ UNCHANGED <<dirs, listed, mutating, held, job, op, promiseVars>>

RenameDone(c) ==
    /\ pc[c] = "moving" /\ ToSet(work[c].tried) = work[c].threads
    /\ LeaveMutation(c, "done")
    /\ UNCHANGED <<dirs, codexVars, pending, job, op, work, faults, promiseVars>>

CheckOldName(c) ==
    /\ pc[c] = "undo" /\ ~Locked
    /\ IF Found(New(c)) /\ ~Found(Old(c))
       THEN Go(c, "undo checked") /\ UNCHANGED <<mutating, held>>
       ELSE LeaveMutation(c, "broken")
    /\ UNCHANGED <<dirs, codexVars, pending, job, op, work, faults, promiseVars>>

RestoreDirectory(c) ==
    /\ pc[c] = "undo checked"
    /\ dirs' = [dirs EXCEPT ![New(c)] = None, ![Old(c)] = dirs[New(c)]]
    /\ Go(c, "returning")
    /\ UNCHANGED <<codexVars, serviceVars, job, op, work, faults, promiseVars>>

\* Mutant: the Sessions are moved back in reverse order.
MoveBackReversed(c) ==
    /\ pc[c] = "returning" /\ work[c].tried # <<>>
    /\ LET t == Last(work[c].tried) IN
           \E o \in Outcomes(c, t, Old(c)) :
               /\ Relocate(c, t, Old(c), o)
               /\ Keep(c, [work[c] EXCEPT !.tried = Front(@)])
               /\ IF o.ok THEN Go(c, "returning") /\ UNCHANGED <<mutating, held>>
                          ELSE LeaveMutation(c, "broken")
    /\ UNCHANGED <<dirs, listed, job, op, promiseVars>>

\* Moving back may fail as well: the rest then stay where they are.
MoveBack(c) ==
    /\ pc[c] = "returning" /\ work[c].tried # <<>>
    /\ LET t == Head(work[c].tried) IN
           \E o \in Outcomes(c, t, Old(c)) :
               /\ Relocate(c, t, Old(c), o)
               /\ Keep(c, [work[c] EXCEPT !.tried = Tail(@)])
               /\ IF o.ok THEN Go(c, "returning") /\ UNCHANGED <<mutating, held>>
                          ELSE LeaveMutation(c, "broken")
    /\ UNCHANGED <<dirs, listed, job, op, promiseVars>>

RenameUndone(c) ==
    /\ pc[c] = "returning" /\ work[c].tried = <<>>
    /\ LeaveMutation(c, "failed")
    /\ UNCHANGED <<dirs, codexVars, pending, job, op, work, faults, promiseVars>>

-----------------------------------------------------------------------------
Deletes(c) == \E effect, raises, verified \in BOOLEAN : Delete(c, effect, raises, verified)

Request(c) ==
    \/ Title(c) \/ StartThread(c) \/ Created(c)
    \/ Reserve(c) \/ Find(c) \/ Read(c) \/ Arrive(c) \/ ConfirmTitle(c)
    \/ Archive(c) \/ Unarchive(c) \/ Deletes(c) \/ Fork(c) \/ Forked(c)
    \/ StartTurn(c) \/ EndTurn(c) \/ CodexRaises(c)
    \/ ListThreads(c) \/ CodexLists(c) \/ Listed(c)
    \/ MakeDirectory(c) \/ ProjectCreated(c)

Mutation(c) ==
    \/ CloseGate(c) \/ ListActive(c) \/ ReserveAll(c) \/ MutationRefused(c)
    \/ DeleteProject(c)
    \/ CheckNewName(c) \/ RenameDirectory(c) \/ CloseNewGate(c)
    \/ MoveThread(c) \/ RenameDone(c)
    \/ CheckOldName(c) \/ RestoreDirectory(c) \/ MoveBack(c) \/ RenameUndone(c)

\* Requests that a mutation of their Project does not see.
Overlooked(c, t) ==
    /\ pc[c] \in Started
    /\ \/ op[c] \in {"new", "unarchive"} /\ t = Thread(c)
       \/ op[c] \in {"read", "title"} /\ t = Thread(c) /\ t \notin listed
       \/ pc[c] = "answered" /\ t \in work[c].threads /\ pending[t] # None

\* The names that a mutation concerns.
Concerns(c) == {Old(c)} \cup IF op[c] = "rename project" THEN {New(c)} ELSE {}

\* Session t is used by such a request while its Project is renamed or deleted, or
\* the new name of its Project is itself being renamed or deleted by another
\* client.
Crossed(t) ==
    \E c, d \in Clients :
        /\ c # d /\ pc[c] \in InMutation
        /\ \/ Overlooked(d, t) /\ cwd[t] \in Concerns(c)
           \/ /\ op[c] = "rename project" /\ pc[d] \in InMutation
              /\ New(c) = Old(d)
              /\ t \in work[c].threads \cup work[d].threads \/ cwd[t] = New(c)

\* The Sessions of a rename whose way back failed.
Stranded == UNION {work[c].threads : c \in {d \in Clients : pc[d] = "broken"}}

\* A fork is where the Session that it copies is, and as safe as that one: a copy of
\* a Session that is excepted here, or that no client was told of (Codex shows
\* the Sessions of a deleted Project again once another has its directory), is
\* excepted too.
UnsafeCopy(t) ==
    \E c \in Clients :
        /\ pc[c] = "forked" /\ t = job[c].copy
        /\ \/ Crossed(Thread(c))
           \/ Thread(c) \in Stranded
           \/ Thread(c) \notin promised

CopyOfRaced(t) == \E c \in Clients : pc'[c] = "forked" /\ t = job[c].copy /\ Thread(c) \in raced

AllEnded == \A c \in Clients : pc[c] \in Ended

Next ==
    \/ /\ \E c \in Clients : Request(c) \/ Mutation(c)
       /\ raced' = raced \cup {t \in Threads : Crossed(t)' \/ UnsafeCopy(t)' \/ CopyOfRaced(t)}
    \/ AllEnded /\ UNCHANGED vars

Spec == Init /\ [][Next]_vars

-----------------------------------------------------------------------------
\* Properties.

\* A Session can be found in the directory it was made in, by its cwd.
Reachable(t) ==
    /\ Found(cwd[t]) /\ dirs[cwd[t]] = home[t]
    /\ t \in listed \/ pending[t] = cwd[t]

\* The Sessions that a client was told of and that must stay where they are: all
\* but those that were deleted; those that a request used which no mutation sees
\* (create_thread, a reader of a Session that has no message yet,
\* unarchive_thread between the two list calls, and a list that finds the Session
\* in Codex between the first of them and the look at the pending ones), and
\* forks of such Sessions; and those of a rename whose way back failed.
Kept == promised \ (raced \cup Stranded)

\* "Renaming keeps the existing Sessions" (docs/api.md:24): once no Project is
\* being renamed or deleted, every Session that must stay can be found in its own
\* directory, however the requests interleave.
SessionsAreKept ==
    mutating = {} /\ (\A c \in Clients : pc[c] \notin InMutation) =>
        \A t \in Kept : Reachable(t)

\* The same of the Sessions there were from the start, and without exceptions
\* for requests in flight: what the documents promise.
RenameKeepsSessions ==
    (\A c \in Clients : pc[c] \notin InMutation \cup {"broken"}) =>
        \A t \in promised \cap Existing : Reachable(t)

\* rename_project's except clause: one failure alone strands no Session.  When the
\* way back fails, too, the Sessions that must stay can be found, unless something
\* else went wrong as well: a second fault, a Project created under the old name,
\* or a rename or delete of the new name before its gate was closed.  A Session
\* that was deleted while the rename listed them is a failure, too.
OneFailureStrandsNone ==
    [][\A c \in Clients : pc[c] # "broken" /\ pc'[c] = "broken" =>
           \/ \A t \in work[c].threads \cap Kept : Reachable(t)'
           \/ faults' + Cardinality({t \in work[c].threads : cwd[t] = None}) > 1
           \/ \E d \in Clients \ {c} :
                  /\ pc[d] # "start"
                  /\ \/ op[d] = "create project" /\ Old(d) = Old(c)
                     \/ op[d] \in Mutating /\ Old(d) = New(c)]_vars

\* A rename that was taken back has left every Session of the Project that
\* still exists as it was: in the old directory, archived if it was, and pending there
\* if it was; but for a Session that an earlier rename has stranded.
UndoneMeansRestored ==
    [][\A c \in Clients : pc[c] = "returning" /\ pc'[c] = "failed" =>
           /\ Found(Old(c))'
           /\ \A t \in (work[c].threads \cap promised) \ Stranded :
                  /\ cwd[t] = Old(c)
                  /\ t \in work[c].stored => t \in archived
                  /\ pending[t] \in {None, Old(c)}]_vars

\* While an operation of a Session that must stay has passed its checks and is
\* under way, a Turn above all, nobody renames or deletes the directory it works in.
BusySessionsStay ==
    [][\A c \in Clients :
           LET t == Thread(c) IN
           /\ op[c] \in Reserving /\ pc[c] \in {"acting", "forked", "running"}
           /\ Found(cwd[t]) /\ t \in Kept
           => dirs'[cwd[t]] = dirs[cwd[t]]]_vars

\* No Project is being given the name of another that is itself being renamed or
\* deleted: what Projects keep their Sessions under, among any number of clients.
NamesApart ==
    \A c, d \in Clients :
        /\ c # d /\ op[c] = "rename project"
        /\ pc[c] \in InMutation /\ pc[d] \in InMutation
        => New(c) # Old(d)

\* Whatever way a request ends, it leaves nothing behind: each reservation and
\* each closed gate belongs to a request under way.  A mutation that moves
\* Sessions holds all of them.
HeldByRequests ==
    /\ \A t \in Threads : held[t] # None => pc[held[t]] \in Started \cup InMutation
    /\ \A n \in mutating :
           \E c \in Clients : pc[c] \in InMutation /\ n \in {Old(c), New(c)}
    /\ \A c \in Clients : pc[c] \in InMutation \ {"gated", "listing"} =>
           \A t \in work[c].threads : held[t] = c
=============================================================================
