# A TLA+ model of the Codex console

The repository is a FastAPI service that puts a web console in front of one `AsyncCodex` client. This
directory models the parts of it in which several tasks, requests, browsers and crashes meet: who may
run a Turn or a Goal on a Session, what becomes of an event on its way from Codex to a browser's
display, what survives in the Stream Journal, where an attachment is while its Turn is being
submitted, what becomes of Sessions whose Project is renamed or deleted, which workspace a request
gets, and how the process starts, fails and ends.

TLC checks the models on small instances. TLAPS proves their central properties for every instance:
thirty of the thirty-one safety properties that the runs check, and both refinements. Liveness stays with
TLC.

## The system

One process and one asyncio event loop serve every user. State that outlives the process is in each
Project's directory (`.stream_journal/`, files, skills) and in a small SQLite database.

| Part | State it keeps | Operations | Talks to |
| --- | --- | --- | --- |
| Turn registry (`turn_manager.py`) | per (owner, Thread): the registered `ActiveTurn`, a mutation flag; the shutdown gate | reserve, mark_running, attach_task, finish, interrupt, reserve_mutation, finish_mutation, shutdown | called by the service and the runtime |
| Turn and Goal lifecycle (`codex_service.py`, `codex_goal_adapter.py`) | requests in flight, pump tasks, reconciliation tasks, the publish lock | start_turn, start_goal, resume_goal, steer, interrupt, pause, clear, pumps, idle reconciliation | registry, Journal, hub, Codex RPCs |
| Stream Journal (`stream_journal.py`) | one JSONL file per Thread, a writer cache per path and Thread | append, ensure_opened, append_history, attach_aliases, read, trash, prune | file system |
| Event hub (`event_hub.py`) | per Thread: a sequence, a bounded history, bounded subscriber queues | publish, subscribe, advance_sequence, close | service (publish), SSE endpoint (subscribe) |
| Event stream and console (`main.py`, `static/js/codex-console.js`) | a connection's boundary and queue; the browser's cursor and timeline | connect, replay, live, resync; snapshot, reconnect | Journal, hub |
| Attachments (`conversation_attachments.py`) | drafts, bound files, their `metadata.json` | upload, delete, bind, restore, prune | file system, start_turn |
| Runtime (`codex_runtime.py`, `main.py`) | the client, readiness, services per tenant, the global notification pump, the health loop, the account's limits | start, close, require_service, sample limits, spend a reset credit | registry, service, database, scheduler |
| Projects and Sessions (`projects.py`, `codex_service.py`) | directories, the gate of Projects being changed, pending Sessions; in Codex each Session's cwd | create, rename, delete a Project; create, find, archive, fork, delete a Session | file system, registry, Codex RPCs |
| Tenancy (`tenancy.py`) | the table of tenants, cached contexts | resolve a request | database |
| Project files and skills (`project_files.py`, `project_skills.py`) | files, a lock per Project, import tokens | upload, edit, import | file system |
| Settings, metadata, scheduler, logs | preferences, Thread metadata | save, sample | database |

What is hard in each part, and what makes it correct:

- **Registry and lifecycle.** A reservation is made before the first RPC, filled in after the second,
  and given back by whichever of four kinds of tasks (the request, its pump, an interrupt that finds
  the Turn stale, the idle reconciler) gets there, each after awaiting a lock that others wait for
  too. Correct means: a Session runs one operation at a time, only its own tasks give it back, someone
  always does, and the last status the browsers saw agrees with the registry.
- **Journal.** A crash may cut a line anywhere; `fsync`, `close` and `chmod` fail after the line is
  written; an import of history may stop half-way; a rename or deletion of the Project moves or removes
  the file under the caches. Correct means: sequences have neither gap nor repeat, a key is recorded
  once, what was acknowledged is read back, and an import that is marked as finished is.
- **Event delivery.** A browser's display is a snapshot, followed by a replay, followed by live
  events, from three reads at different times; queues overflow, connections break, the service
  restarts with its hub at 0. Correct means: no gap and no repeat, and every gap is repaired or
  reported.
- **Attachments.** Files are moved and marked one after the other; the RPC that submits them may fail
  without telling whether Codex has them; their metadata name the Project's path, which may change.
  Correct means: nothing is submitted twice, nothing is taken from a Turn that may be running, and no
  draft is lost between the two.
- **Goals.** A Goal is Codex's and outlives the console, its handle is the console's and does not: an
  active Goal may have no handle, a call that failed may have activated one, and what `current()`
  found may be over when Codex is called. Correct means: no Turn runs next to a Goal, every active
  Goal can be stopped, and a stop hits the Goal that the user saw.
- **Projects and Sessions.** Renaming a Project lists its Sessions in several calls, reserves them,
  renames a directory and moves each Session, any of which may fail, while other requests hold what
  they looked up before. Correct means: every Session that a user was told of can be found in its own
  directory, and a rename that failed is undone.
- **Tenancy and runtime.** The first requests of a tenant run in parallel against one table; clients
  click Reset at once; each step of starting and stopping may raise. Correct means: nobody gets
  another's workspace or notifications, one reached limit costs one credit, and nothing uses a client
  that is closed.

## Modules

| Module | Models |
| --- | --- |
| `ThreadExclusion` | what the registry promises: per Thread nobody, one operation or one mutation, and a change of owner only through nobody |
| `TurnManager` | `turn_manager.py`, one action per method, for any callers |
| `TurnLifecycle` | the callers of the registry, composed with it by INSTANCE |
| `JournalLog` | what the Journal promises: a log that grows at its end until it is removed |
| `StreamJournal` | `stream_journal.py` for one Thread: file, writer's caches, reader, import, and the renames and deletions of its Project |
| `EventHub` | `event_hub.py` for one Thread |
| `EventDelivery` | `_fan_out_record`, `subscribe_events`, the SSE generator and the console, composed with `EventHub`; the Journal is the log `JournalLog` promises |
| `Attachments` | `conversation_attachments.py` for one Project, which may be renamed, and what `start_turn` and `create_thread_from_prompt` do with it |
| `GoalControl` | `start_goal`, `resume_goal`, `pause_goal`, `clear_goal`, the Goal adapter and what `start_turn` asks about Goals, for one Thread, composed with `TurnManager` |
| `Sessions` | `projects.py` and the methods of `CodexService` on Projects and on Sessions as wholes |
| `Tenancy` | `tenancy.py` and the table of tenants |
| `Runtime` | the entry point and lifespan, `codex_runtime.py`; extends `Tenancy`: a request gets its workspace and then its service |
| `TurnManagerProofs`, `TurnLifecycleProofs`, `StreamJournalProofs`, `EventDeliveryProofs`, `AttachmentsProofs`, `GoalControlProofs`, `SessionsProofs`, `RuntimeProofs` | theorems |
| `MC*` | the instances for TLC |

### How actions correspond to code

asyncio decides the grain. A method that awaits nothing but an uncontended lock does not yield, so each
method of the registry and of the hub is one action, and so is an append to the Journal: the task that
drains the append queue answers a request in the step in which it takes it. In `TurnLifecycle` an
action is what a task does from one await that may take time (an RPC, the publish lock) to the next.
The publish lock of a service is fair. `lockq` gives each task that holds it or waits for it the tasks
that were there before it, and itself: the holder has only itself, a task that releases the lock or is
cancelled leaves every set, and of two tasks it can be said which comes first without counting
positions, which is what the proofs need. Tasks of Threads outside the model may be ahead at any time.
`Input` states the one scheduling
fact the model uses: whatever could run has run before new input (a request, an answer, a timer)
reaches the loop.

A request of `TurnLifecycle` stands for one POST and everything it creates: the `ActiveTurn`, the
Turn, its handle and its pump, all under one name, so that `OwnTurnAndPump` can say that they never
mix. `codex[r]` is what Codex does for it: an RPC may time out for the service while the Turn runs, or
while it is still on its way (`"late"`), to be accepted when the service has long given up. Codex is
assumed to run one Turn of a Thread at a time.

A Journal record is its sequence and its deduplication key. `tail` holds the bytes after the last
newline: nothing, a torn line, or a line that is whole but for its newline and parses. `MayAppend`
makes an import exclusive, as `append_history` is with respect to the appends of the same Thread.
The file is where its Project is: `project` is the Project's path, `there` whether its directory exists,
and `states` the writer's caches, one for each path. `Rename`, `DeleteProject`, `DeleteFails` and
`Recreate` change the first two and leave the caches, as the code does; `Remove` (a Thread's trashing,
the retention) and the end of the process drop them. A rename works in a thread of its own, so that it
may also hit an append (`RenameInAppend`, fault `moved`). Whether the Project may come to a path that
the process keeps a cache for is the fault `stale`: with it the Journal is not correct
(`MCJournalReused`), and the other runs and the proofs are about Projects that do not come back. A
Project that comes back with nothing appended in between, as when a rename is undone, does no harm, but
is not told apart.

In `EventDelivery` an event is its sequence. `fan` is the record whose attachments are being decorated
in a thread pool, between its append and its publication. A snapshot is requested, read on the server
and shown in separate steps; the console loads one at a time. A connection delivers, breaks and is made
again, or is refused (`Refused`): `read_thread` raised before the stream began, the answer is not 200,
and an `EventSource` then stops for good.

In `Attachments` every store method holds a lock on the directory and so is one action, with variants
for a crash or an error at each of its renames and writes (`CrashInBind`, `CrashInGiveBack`,
`BindFails`, `GiveBackFails`). `Lay(r, positions, unmarked)` describes every outcome: the attachments
at these positions are in the Thread, the others are drafts. Time is `age`: an attachment expires for
a request (`created_at`) before its directory looks old to the cleanup (`mtime`). `origin` is the path
in an attachment's metadata, which `_load` compares with the Project's (`Reachable`) and no rename
changes: after one, drafts can only be pruned, uploads under way fail and leave their staging directory,
and what was submitted cannot be opened.

In `GoalControl` a call to Codex takes effect in one step and is answered in a later one, so that a
caller may give up in between; `late` holds the calls that nobody waits for and that Codex may still
take up, and `lost` the requests whose answer, stream or process a fault took away. `goal` is the
Goal in the Thread store of Codex, which survives a restart, with the request that activated it.
`cancel_goal_operation` is the SDK's: it is assumed to pause the Goal only if its own operation
activated it. The physical Turns of one Goal are one activity.

In `Sessions` each client makes one request of several awaits; `work` is what it has looked up, and may
be stale when it goes on. A Session of Codex has a cwd, and belongs to the Project whose directory that
is. `Locked` is the registry's lock, which a rename holds across its check and its rename, though a new
Project's `mkdir` does not take it. `Outcomes` lists how a relocation may end: done, rejected with or
without an effect, or done but not archived again. `promised`, `home` and `raced` are history. The
archived state of a pending Session is the service's own in the code and Codex's in the model; they
agree because an archive call that raised has no late effect in it. `FreshIds` says that Codex gives
each Session a new id: no two requests make the same one, nor one that exists. `FiniteThreads` lets the
proofs count the Sessions of a rename that are gone.

In `Tenancy` each SELECT and each commit is a step, since requests have database sessions of their own
and SQLite ends the implicit read transaction with the statement. In `Runtime` every step of start and
close is an action that succeeds or raises; `life` is how far the process is. A sample of the limits
that cannot be rendered raises outside the try block of `_sample_rate_limits` (fault `sample`): it
stops the start, and ends the health loop. `reached`, `credits` and
`late` are the account's state at Codex: a consumption whose answer was lost may still be done.

`PROJECT.json` maps every definition to its lines.

## Runs

Passing runs:

| Run | Instance | Properties | Shows |
| --- | --- | --- | --- |
| `turn_manager` | 2 Threads, 2 reservations, 2 Turns, callers in any order | `ImplementsExclusion` | one operation or one mutation per Thread, changes of owner only through nobody, no object registered again |
| `turn_lifecycle` | 2 Turns and a Goal on one Thread; silent streams, reconciliation, mutations, shutdown | `OperatorIsRegistered`, `HeldIsOperated`, `OwnTurnAndPump`, `StatusAgrees`, `OnlyEndedTurnsReconciled`, `StoppedMeansDrained` | whoever operates is registered and alone, a taken Thread is being worked on, Turns and pumps do not mix, the status shown agrees, only ended Turns are reconciled, a shutdown drains every pump |
| `turn_interrupt` | a Turn, a Goal and a user who interrupts, with fairness | `EveryRequestEnds`, `ThreadsAreFreed`, `ReconciledTurnsAreFreed` | every POST is answered, Threads are freed |
| `turn_faults` | 2 Turns; failing journal writes and lookups, late idle notifications, with fairness | `EveryRequestEnds` | every POST is answered although any publication may fail: none that fails keeps the publish lock |
| `goals` | a Turn, a start, a resume, a pause and a clear on one Thread, one fault of any kind, with fairness | `TurnsRunAlone`, `GoalsAreManaged`, `PausesHitTheirOwn`, `StoppedGoalsEnd` | Turns and Goals do not compete, an active Goal has a handle, a pause hits what it found, a stopped Goal gives its Thread back |
| `journal` | 2 live keys, an import of 2 items and its marker, 2 paths; crashes at any byte, restarts, removal, a Project renamed (also in an append), deleted and created again | `CacheAgrees`, `AckedIsRead`, `BaselineMeansImported`, `ImplementsLog` | a current cache, durability, whole imports, a log that grows at its end |
| `journal_faults` | 1 live key, an import of 1 item, 2 paths; 2 late errors or short writes, crashes, renames | `LossIsBounded` | a failing write costs one acknowledged event at most, whatever follows it |
| `event_delivery` | 3 records in batches of up to 2, queue and history of 2, 1 broken or refused connection, restarts | `OnlyRejectedAreSkipped`, `StreamContinues`, `CatchesUp` | a stream has neither gap nor repeat, a gap on display is known, the display catches up |
| `attachments` | 2 attachments; a request with both, its repetition, and a first Turn with one of them; 2 paths of the Project, crashes and failing writes | `SentOnce`, `SentIsKept`, `DraftsAreUsable`, `UploadsSurvive`, `FailedGivesBack`, `DraftsAreCleaned` | as their names say |
| `sessions` | 2 names, a Project with 2 Sessions, 3 clients with one request each, 2 failing steps | `SessionsAreKept`, `OneFailureStrandsNone`, `UndoneMeansRestored`, `BusySessionsStay`, `HeldByRequests` | Sessions can be found in their own directory whatever crosses a rename or delete, a failed rename is undone, a running Turn keeps its directory, nothing stays reserved |
| `runtime` | 2 requests, 2 subjects, 3 usernames (one that spells no directory), 2 directories, 2 Threads, both modes, 2 faults of any kind | `OwnWorkspace`, `NewsStaysWithItsTenant`, `OneCreditPerLimit`, `OnlyFaultsStopTasks`, `ClientOutlivesItsUsers`, `EachFailureLeavesOne` | workspaces and notifications are private, two clicks spend one credit, background tasks end only by errors, the client is closed last, a failing step skips no other |

One run is refuted by TLC, a disagreement between the code and its documentation (quoted under
"findings"):

| Run | The code |
| --- | --- |
| `rename_loses_session` | a rename lists the Sessions that are not archived, then the archived ones; one that is unarchived between the two calls is in neither list, and stays behind in a directory that is gone |

Some of the passing properties except what the code does not keep. `SessionsAreKept` and
`BusySessionsStay` are about the Sessions in `Kept`: those that a client was told of, but for two sets.

- `raced`: Sessions used by a request that a mutation of their Project, or of the name it is being
  renamed to, does not see. They are a Session being created or unarchived, a pending Session that is
  being read, and one that a list finds at Codex and strikes from the pending ones; also the Sessions of
  a rename whose new name is the Project of another mutation. The list is the least obvious of
  them: `list_threads` passes the gate (`codex_service.py:662`), a deletion of the Project closes it and
  gets the first of its two lists (`:568`), then a Turn that was already being submitted gives a pending
  Session its first message, Codex answers the list with that Session, and the service forgets that it
  was pending (`:683`). It is in neither list of the deletion and not among the pending Sessions that it
  adds (`:584`), so nobody sees that a Turn runs in it, and the directory is removed under that Turn.
  Without the exception TLC shows this for `BusySessionsStay`.
- `Stranded`: Sessions of a rename whose way back failed, which is what `OneFailureStrandsNone` is about.

A fork of a Session in either set is excepted too, as it works in the same place, and so is a fork of a
Session that no client was told of. The latter exist: Codex keeps the Sessions of a deleted Project,
and lists them again when another Project has the name. A rename to that name lets clients find one
between its `registry.rename` and the closing of the new name's gate (`codex_service.py:628-631`); its
fork is in no list of the rename, and is left without a directory if the rename goes back.

`OneFailureStrandsNone` is about the moment in which the way back fails, and about Sessions that were
not stranded before, as is `UndoneMeansRestored`. For two failures in a row the code promises nothing: a
Session that one broken way back has left at the old name is taken along by a later rename of a Project
that was created there, and found elsewhere when that one breaks. It takes six clients, so the attempt
to prove the property found it and TLC did not.
`EachFailureLeavesOne` leaves out a health loop that had died, and `CatchesUp` a refused connection.
`SentIsKept` says where a submitted attachment is, not that it can be opened. `DraftsAreCleaned` assumes
that the health loop runs; `Runtime` shows that it may end, by an unreadable workspace or a sample that
cannot be rendered, and nobody restarts it.

Further disagreements, with the cfg that shows each (run `tlc -config X.cfg M`):

| cfg | Property | The code |
| --- | --- | --- |
| `MCTurnLateNotice` | `OnlyEndedTurnsReconciled` | an idle notification, which names no Turn, is attributed to whatever Turn is registered when it is read (`codex_service.py:287`); the reconciliation then cancels the pump of that live Turn. `docs/flows.md:211`: 「本身不提供可靠的 Turn ID；它只更新顯示狀態，不能用來替換 backend 正在控制的 handle」 |
| `MCTurnTwoInterrupts` | `OneOperation` | two interrupts that find a Turn stale both release it; the second pops the next request's registration, since `finish(turn_id)` accepts an entry whose Turn is not known yet (`turn_manager.py:131`). `README.md:132`: 「同一個 Session 同時間只允許一個活動 Turn 或 Goal operation」 |
| `MCTurnWriteFails` | `OneOperation` | the publication of `console.turn.running` fails after Codex accepted the Turn and its pump exists: the error path frees the Thread, and a second Turn starts beside the first |
| `MCTurnLookupFails` | `HeldIsOperated` | the starting publication of `start_turn` is outside its try block: if it raises, the Thread stays taken |
| `MCTurnStaleInterrupt` | `StatusAgrees` | an interrupt during `start_turn` finds that the Turn is over: it publishes an error and cancels the new pump before that has published "idle", and `start_turn` then publishes "running" for a Thread that is free |
| `MCTurnSilent` | `SilentTurnsAreFreed` | the reconciliation needs an idle notification, and none need come |
| `MCGoalCleared` | `ClearsHitTheirOwn` | `clear_goal` holds nothing after it has interrupted (`codex_service.py:1888`): the pump frees the Thread, another client resumes, and the clear deletes the Goal that is active under the new registration. `docs/flows.md:200`: 「Goal active 期間與一般 Turn、fork、archive 等 mutation 互斥」 |
| `MCJournalReused` | `AckedIsRead` | a rename of the Project from p to q leaves the writer's cache of p (`codex_service.py:628`; the key is the path and the Thread, `stream_journal.py:813`): after an append under q and a rename back, the next append takes the sequence of that one, and readers drop it (`:681`). No error is needed. `CacheAgrees`, `BaselineMeansImported`, `ImplementsLog` and `SeenIsStable` fail as well when they are put into this cfg: a Project that is deleted and created again within an import gets the baseline without the import. `docs/flows.md:262`: 「但已落盤事件仍可完整補回」; `docs/api.md:24`: 「更名保留既有 Sessions（包括封存狀態）」 |
| `MCJournalLate` | `AckedIsRead` | an error after the write (fsync, close, chmod) leaves the sequence to be used again, and readers drop the next acknowledged record (`stream_journal.py:861`, `:681`). A write that is short is acknowledged and lost, as this cfg shows with `Faults = {"short"}`. `docs/flows.md:262`: 「已落盤事件仍可完整補回」 |
| `MCJournalTail` | `SeenIsStable` | a line that lacks only its newline is read and shown, then removed by the next append |
| `MCEventSkipped` | `NothingSkipped` | while attachments are decorated, another reader aligns the hub with the Journal; the publication is rejected and browsers pass over the event (`codex_service.py:198`). `docs/flows.md:260`: 「因此 snapshot 與 live 之間沒有空窗」 |
| `MCEventRefused` | `AlwaysCatchesUp` | a refused connection is not made again; the console shows "reconnecting" until the user selects a Session (`codex-console.js:1541`). `docs/flows.md:262` says that a browser connects again with its new cursor |
| `MCEventTwice` | `ShownOnce` | after a resync, live events may be shown below the snapshot that contains them |
| `MCAttachmentsRenamed` | `SentIsReadable` | every attachment that a Session had is unavailable after a rename of the Project, as its metadata name the old path (`conversation_attachments.py:267`). `docs/api.md:128`: 「已提交附件跟隨 Stream Journal 保留與 Thread 刪除流程（預設 30 天）」 |
| `MCAttachmentsStuck` | `HeldIsWorking` | `restore_pending` raises in the except clause of `start_turn`: `finish()` is not reached and the Session answers 409 until the service restarts |
| `MCSessionsRearchive` | `OneFailureStrandsNone` | a Session that was moved and could not be archived again is not archived any more: the way back begins by unarchiving it, which fails, and its cwd stays the directory of the new name, which is gone |
| `MCRuntimeConflict` | `ConflictMeansOtherOwner` | of two parallel first requests of one tenant, one may read the other's row between its own two SELECTs (`tenancy.py:198`, `:207`) and is told that its name is "already assigned to a different workspace owner" (`tenancy.py:41`) |
| `MCRuntimeHealth` | `ShutdownReleases` | a health loop that died on an unreadable workspace (`codex_runtime.py:639`) makes `close()` raise at its third step (`:469`, `:624`): Turns are not drained and Codex is not closed. `docs/flows.md:268`: 「Event-pump tasks 會在 timeout 內 drain」 |

### Bounds

Conflicts are pairwise: a late task of one Turn meets the registration of the next. Two Turns and a
Goal give a Thread's whole history between two owners and a third who arrives during either, on one
Thread because Threads share nothing but the lock (whose other users are modelled). Every request is
made once; there is no counter to bound. `MaxFailures` (2) bounds the
late and short failures, so that a second one can meet what the first one left; the lines of a file end
with the keys. Two paths suffice for a Journal, as a rename concerns one old and one new path, and they
are alike (`SYMMETRY`). Three records, a queue of two and batches of two let a queue overflow,
a history lose its oldest record and a replay end before, at and after the hub's sequence. Two
attachments make each multi-file operation stop at its first, between its two, and at its last file;
three requests make each of them compete with a repetition and with another Session.

In `sessions` one client changes the Project and the other two make any pair of the requests that
could meet it, on a Session that is listed, pending, archived or being created; a change of a title
is paired with a fork only, as it holds nothing that a third request could want, and a listing with a
fork and with a first Turn, which changes what it finds. Two
names are the old and the new one. Two faults let a rename fail and its way back fail as well. In
`goals` one request of each kind suffices for a stale look-up (a pause, the end of what it saw, a
resume), and one fault for each way in which a Goal loses its handle. In `runtime` two faults let a
step of the start and the closing after it both fail; the account has two credits, so that a second
click could spend one and a third finds none.

### Fairness

- Every task that can run runs: the event loop is fair, and so is `asyncio.Lock`.
- RPCs are answered or time out (`_call` wraps each one in `wait_for`), and a Turn that Codex runs
  ends. A stream is not assumed to say so: `StreamFails` and the end of a silent stream have no
  fairness, and neither have users, requests and mutations that begin.
- The thread pool answers, `EventSource` reconnects by itself unless it is refused, and requests are
  answered; connections need not stay up, and publications need not happen.
- `goals`: requests go on and pumps run (each RPC is answered or times out). Neither is a Goal ever
  completed nor a lost call ever taken up.
- Uploads end, time passes, and the health sample loop of the runtime prunes drafts (as long as it
  runs, see above).

The end of a request precedes a shutdown: the server finishes requests before the lifespan's exit, so
`BeginShutdown` of `TurnLifecycle` requires `RequestsDrained` and `BeginClose` of `Runtime` that no
request is in flight.

### Deadlock

`TurnManager`, `StreamJournal` and `EventDelivery` never stop. The other instances have finitely many
requests. Those of `TurnLifecycle` and `Attachments` stop with the last of them. `GoalControl`,
`Sessions` and `Runtime` say when they have ended (`Ended`, `AllEnded`), so that TLC would report any
other end as a deadlock.

## Proofs

`tlapm` checks all of it; constants are any values that satisfy the modules' named assumptions
(`Parameters`, `Identities`, ...). No step relies on a bound: the number of requests, users, Threads,
records, attachments, tenants and faults is arbitrary, and so are the sizes of queues and histories.

- **Registry.** `TypeOK /\ MutationExcludesOperation /\ RegisteredOnce` is inductive. From it follow
  these three, `ClosedGateOnlyDrains`, and that `TurnManager` implements `ThreadExclusion`: each
  action is a step of the abstract owner table or a stutter.
- **Turn and Goal lifecycle.** `TypeOK` holds whatever fails. So does `ImplementsExclusion`
  (`CallersKeepExclusion`), but by construction, as each caller's step is one of the registry: it says
  nothing of the callers. The other six rest on the inductive
  invariant `Ownership`: whoever operates on a Thread is registered for it, with its own Turn and pump.
  To be inductive it has to say how far each request is (`Progress`), what a task that releases a Turn
  still knows (`Releasers`), which pumps a shutdown waits for, and one fact about the order in the
  publish lock: the prompt of a Turn is there before the error or idle notice of whoever releases it
  (`PromptFirst`), without which a task could give back a Turn that its own request is only now
  filling in. They have these hypotheses, and the code does not keep the property without them:

  | Hypothesis | Of | Shown needed by |
  | --- | --- | --- |
  | `SoleReleaser`: no user is about to give back a Turn together with another task | all six but `StatusAgrees` | `MCTurnTwoInterrupts` |
  | `"write" \notin Faults`: the Journal can be written | all six | `MCTurnWriteFails` |
  | `"lookup" \notin Faults` | `HeldIsOperated`, `StatusAgrees` | `MCTurnLookupFails` |
  | `"lag" \notin Faults`: notices are read before the next Turn | `OnlyEndedTurnsReconciled` | `MCTurnLateNotice` |
  | `Users = {}`: nobody interrupts | `StatusAgrees` | `MCTurnStaleInterrupt` |

  `SoleReleaser` is a hypothesis on behaviours, stated as `[]SoleReleaser`; instances with users and
  without it abound, and without users it holds by itself. A taken Thread has someone who will give it
  back (`HeldIsOperated`, with `Home`: an operation is registered for its own Thread); a Thread that was reported idle runs no Turn until the report
  was dealt with (`Ended`), so only ended Turns are reconciled; and what is shown agrees with the
  registry (`StatusOrder`): each publication under way is behind, in the lock, everything it must
  follow, so that the last one tells the truth.
- **Event delivery**, with no hypothesis. Three accounts of the same records are joined: the hub's
  sequence, its history and a snapshot's cursor never pass the Journal, and what was rejected lies
  behind the record that is being decorated (`HubOK`); a stream's queue is increasing and holds what
  was fanned out since the stream's position (`StreamOK`), which is its boundary during a replay and
  its last live event after it; and the cursor of the next connection does not pass the console's,
  whose past is on display, unsent, or about to be shown by a snapshot that was answered (`CursorOK`).
  Proved are `TypeOK`, `OnlyRejectedAreSkipped` and `StreamContinues`.
- **Journal.** `TypeOK` holds with every fault. The rest is for `Benign`, `Faults \subseteq {"crash",
  "moved"}`: the Project may be renamed, deleted and created again at any time, but comes to no path
  that the process has a cache for. The other faults do break the log, as `MCJournalReused`,
  `MCJournalLate` (with `late` and with `short`) show. The reader's tests for order and repetition make
  the properties awkward to use in an
  induction, so the invariant speaks of the lines themselves: they form a log (`IsLog`), a tail that
  parses is the record that comes next, the cache is what the lines say, and a running import has
  recorded everything before its next key. Lemma `ReadsAll` carries this to readers: a file without
  gap and repeat passes their tests whole. Proved are `Dense`, `OneLinePerKey`,
  `CacheAgrees`, `AckedIsRead`, `BaselineMeansImported` and the implementation of `JournalLog`.
- **Attachments**, with crashes, failing writes and renames of the Project. The argument is ownership: a request that Codex
  has, or that is between its bind and its answer, owns its attachments; they are in its Thread and
  marked so (`OwnersKeep`), and no attachment has two owners (`OwnedOnce`). A bind takes only drafts,
  which nobody owns, and a restore touches only what its request owns (`Alone`), so that `LayStep`
  covers every bind and restore, whole or cut short. `Unsent` is needed to see that a request whose
  files are given back is none that Codex has. Proved are `TypeOK`, `SentOnce`, `SentIsKept`,
  `DraftsAreUsable`, `UploadsSurvive` and `FailedGivesBack`.

- **Goals**, with every fault. A request that is starting something, and a pump that runs, hold the
  registration (`Ownership`), so there is one of them at most. A pause or clear that found the Thread
  idle holds its mutation, alone, and nobody is registered then (`Mutations`): hence `PausesAlone`.
  `Origins` says that whoever activated the Goal got as far as submitting, so that a request which is
  denied has activated nothing; one that fails later has cancelled (`Management`), and one that knows
  neither is in `lost`. `Solitude` ties the Turn that `start_turn` is about to submit to its
  registration: nobody but a request that was given up can activate a Goal before Codex has it.
  `GoalSteps` and `TurnSteps` reduce the actions to the few that touch the Goal or a Turn. Proved
  are `TypeOK`, `TurnsRunAlone`, `GoalsAreManaged` and `PausesHitTheirOwn`.
- **Sessions: what is held**, with every fault. Many ends of a request release nothing, so the
  invariant says where it may hold something: a Session is held only by an operation between its
  reservation and its end or by a mutation past the reservation of its list (`Holders`), which then
  holds the whole list (`Holdings`); a closed gate is the old name's of a mutation under way, or the new
  name's of a rename whose kind is known and which is moving Sessions (`Renames`, `Gates`), since only
  such a rename opens both at its end. `HoldingSteps` and `MutationGates` reduce the 34 actions to four
  that touch reservations and three that touch gates. Proved are `TypeOK` and `HeldByRequests`.
- **Sessions: where they are.** Proved are `SessionsAreKept`, `BusySessionsStay`, `UndoneMeansRestored`
  and `OneFailureStrandsNone`, for any number of names, Sessions, clients and faults, with two
  hypotheses:

  | Hypothesis | Of | Shown needed by |
  | --- | --- | --- |
  | `[]NamesApart`: nobody renames a Project to a name that another is renaming or deleting | all four | see below |
  | `"rearchive" \notin Faults`: what was moved can be archived again | `OneFailureStrandsNone` | `MCSessionsRearchive` |

  Without `NamesApart`, three names and three mutations that meet at one of them refute `SessionsAreKept`
  in TLC: a client renames p to s, a second deletes s before the first has closed its gate, a third
  renames q to s, the move of the first then fails, and its way back takes s, which is now the directory
  of q, to p; a Session of q is left in a directory that does not exist. The hypothesis says nothing of
  the requests that are no mutations, nor of changes of one Project after another or of two Projects with
  names of their own at once.

  The inductive invariant `Course` was first checked by TLC as an invariant, on the instance of
  `sessions` and on 29 of four clients with random requests, and has these parts beside the above.
  Each client is where its request can be (`Fits`) and has its reservation (`Reserved`). `Turf`: a
  mutation finds its directory where it left it, at the old name or the new, and no two mutations
  are of one Project or rename to one name. `Lists`: what has been tried or is stored is on the
  list. `Located`: a Session on the list of a mutation is at the old name until it was tried and at
  either one after that, and is remembered there if it is pending. `Unseen`: nobody comes across a
  Session before the request that makes it has made it. `Users`: what a request has looked up still
  holds when it uses it, by its reservation, or because its Session has no message yet and is not in
  `raced`. `Homes`: a Session that stays is listed or pending, and its directory is the one it was
  made in; a mutation past its list that is at that directory has it. For the last, `Missed` says
  what the two list calls may both pass over (a pending Session, or one nobody knows), and `Newborn`
  and `Forks` say the same of Sessions that clients have not been told of yet.

  `Failing` adds what `OneFailureStrandsNone` counts: a rename goes back only for a fault or for a
  Session that is gone, which is then the last it tried (`Caused`); each is tried once (`Once`), those
  that were archived still are (`StoredStay`), and nothing but a new Project is in the way of the old
  name (`Vacated`). Hence, when the way back fails for one and the same cause, only the Session
  that is gone was left to move back.

  `DirectorySteps`, `ListSteps`, `SessionSteps`, `FindingSteps` and `PlaceSteps` reduce the actions to
  what they do to directories, to the lists, to one Session, to a client's knowledge and to its place.
- **Tenancy and runtime**, with every fault. Rows of the table are unique by id, subject and directory,
  and only their usernames change, so that whatever a request read, cached or opened a service for
  still names one tenant and directory (`TenantsInv`, `ServicesInv`). Whoever asks Codex for a credit
  holds the lock and saw the limit reached after the last credit was spent (`CreditsInv`). A closed
  client has no users (`PhasesInv`), and a background task that ended while the service is ready met a
  fault (`TasksInv`). Each failure to close counts once for what it left open, and a client that is
  made or open is in use or about to be closed unless the health loop had died (`ReleasesInv`). Proved are `TypeOK`, `OwnWorkspace`, `NewsStaysWithItsTenant`,
  `OneCreditPerLimit`, `ClientOutlivesItsUsers`, `OnlyFaultsStopTasks` and `EachFailureLeavesOne`.

`TypeOK` of these modules, `ImplementsExclusion` of `TurnLifecycle`, `Dense`, `OneLinePerKey`,
`MutationExcludesOperation`, `RegisteredOnce`, `ClosedGateOnlyDrains` and `OneOperation` are proved and
in no passing run: the runs check what implies or needs them.

Only model-checked:

- every liveness property (`EveryRequestEnds`, `ThreadsAreFreed`, `ReconciledTurnsAreFreed`,
  `StoppedGoalsEnd`, `CatchesUp`, `DraftsAreCleaned`): temporal proofs under fairness need ENABLED,
  which is beyond the prover;
- `LossIsBounded`.

## What is not modelled

- What an event says: `normalize_event`, the materialized timeline, aliases, coverage of Turns, and
  the deduplication of one event that arrives over two channels within five seconds.
- `steer_turn`, compact and rollback (a reservation like that of archive); the cancellation of a
  request by the server; publications that fail while a Goal is controlled; what Codex does with a
  second Turn of a Thread. Users who interrupt are in `turn_interrupt` only.
- Late effects of calls that raised in `Sessions`: an archive that is done after its error, a resume
  that was given up.
- The deletion of a Project, in `Attachments` (its drafts and attachments go with it).
- A Codex client without global notifications (`codex_runtime.py:513`).
- What limits display, paging, titles, models, accounts, what a Session contains.
- Project files and skills: sequential operations under a lock, and the parsing of archives.
- The pruning of Journals while they are being delivered; `thread/status/changed` as a display.
- Migrations, preferences and metadata: single-row reads and writes.
- Parsing, formatting, validation, pages, styles, deployment scripts: stateless or sequential.

## Plan

Done: the registry, the lifecycle, the Journal, the hub and the event stream, attachments, Sessions
and Projects, tenancy, the runtime, Goals, and the proofs above. Left, in this order:

1. `Timeline`: normalization keys, the two notification channels and their fingerprints, coverage of
   Turns, as operators checked against a reference timeline.
2. `Skills`: import tokens and staged installation.
