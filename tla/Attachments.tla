----------------------------- MODULE Attachments -----------------------------
(***************************************************************************)
(* The attachments of a Project (conversation_attachments.py) and what     *)
(* start_turn and create_thread_from_prompt (codex_service.py) do with     *)
(* them: an upload is a draft until a request binds it to its Thread, and  *)
(* a request that fails gives its drafts back unless Codex may have        *)
(* accepted it.                                                            *)
(*                                                                         *)
(* Every method of the store holds a lock on the Project's directory, so   *)
(* it is one action; but it moves one attachment after the other, each     *)
(* with a rename and a write of metadata.json, and may fail or crash       *)
(* between any two of these.  What each file contains is not modelled.     *)
(***************************************************************************)
EXTENDS Naturals, Sequences

CONSTANTS Items,     \* attachment ids
          Threads,
          Paths,     \* where the Project's directory may be
          Requests,  \* POSTs of a Turn with attachments
          New,       \* those that create the Session, too
          ThreadOf,
          Ids,       \* the attachments each request names
          None,
          Faults     \* what may go wrong, a subset of FaultKinds

FaultKinds == {"crash",  \* the process stops, also within a bind or restore
               "write"}  \* a rename or a write raises, also while rolling back

\* Not in a Thread: "discarded" with the Session whose first Turn failed,
\* "removed" with a Thread that a user deleted or retention pruned.
Places == {"none", "staging", "pending", "gone", "discarded", "removed"}

ASSUME Parameters ==
    /\ ThreadOf \in [Requests -> Threads]
    /\ Ids \in [Requests -> Seq(Items)]
    /\ New \subseteq Requests
    /\ \A r \in New, q \in Requests : ThreadOf[q] = ThreadOf[r] => q = r
    /\ None \notin Requests \cup Paths
    /\ Threads \cap Places = {}
    /\ Faults \subseteq FaultKinds

\* _validate refuses repeated ids.
ASSUME Distinct ==
    \A r \in Requests : \A i, j \in DOMAIN Ids[r] : Ids[r][i] = Ids[r][j] => i = j

VARIABLES project,    \* the path of the Project
          place,      \* where each attachment is: one of Places or a Thread
          meta,       \* its metadata.json: "none", "pending" or a Thread
          origin,     \* the path in its metadata.json: of the store that took it
          age,        \* of its created_at ("expired"), and its directory ("old")
          uploading,  \* attachments whose staging directory is locked
          phase,      \* where each request is
          held,       \* the operation of each Thread in the Turn registry
          uncertain,  \* _uncertain_attachment_threads
          codex       \* the requests that Codex accepted

pathVars == <<project, origin>>
storeVars == <<place, meta, age>>
requestVars == <<phase, held, uncertain, codex>>
vars == <<pathVars, storeVars, uploading, requestVars>>

Phases == {"new", "refused", "reserved", "bound", "submitted", "accepted",
           "failed", "stranded", "uncertain", "stuck", "lost", "closed"}

TypeOK ==
    /\ project \in Paths
    /\ origin \in [Items -> Paths \cup {None}]
    /\ place \in [Items -> Places \cup Threads]
    /\ meta \in [Items -> {"none", "pending"} \cup Threads]
    /\ age \in [Items -> {"fresh", "expired", "old"}]
    /\ uploading \subseteq Items
    /\ phase \in [Requests -> Phases]
    /\ held \in [Threads -> Requests \cup {None}]
    /\ uncertain \subseteq Threads
    /\ codex \subseteq Requests

Init ==
    /\ project \in Paths
    /\ origin = [i \in Items |-> None]
    /\ place = [i \in Items |-> "none"]
    /\ meta = [i \in Items |-> "none"]
    /\ age = [i \in Items |-> "fresh"]
    /\ uploading = {}
    /\ phase = [r \in Requests |-> "new"]
    /\ held = [k \in Threads |-> None]
    /\ uncertain = {}
    /\ codex = {}

-----------------------------------------------------------------------------
(* DRAFTS: upload, delete_pending, prune_pending *)

BeginUpload(i) ==
    /\ place[i] = "none"
    /\ place' = [place EXCEPT ![i] = "staging"]
    /\ origin' = [origin EXCEPT ![i] = project]
    /\ uploading' = uploading \cup {i}
    /\ UNCHANGED <<meta, age, requestVars, project>>

\* The store still has the path it was made with.
Reachable(i) == origin[i] = project

FinishUpload(i) ==
    /\ i \in uploading
    /\ Reachable(i)
    /\ place' = [place EXCEPT ![i] = "pending"]
    /\ meta' = [meta EXCEPT ![i] = "pending"]
    /\ age' = [age EXCEPT ![i] = "fresh"]
    /\ uploading' = uploading \ {i}
    /\ UNCHANGED <<requestVars, pathVars>>

\* The payload is not acceptable, the browser is gone, or so is the path;
\* then the cleanup does not find the staging directory either.
FailUpload(i) ==
    /\ i \in uploading
    /\ place' = [place EXCEPT ![i] = IF Reachable(i) THEN "gone" ELSE @]
    /\ uploading' = uploading \ {i}
    /\ UNCHANGED <<meta, age, requestVars, pathVars>>

\* _load of a draft succeeds.
Usable(i) ==
    /\ place[i] = "pending"
    /\ meta[i] = "pending"
    /\ Reachable(i)
    /\ age[i] = "fresh"

\* _load of an attachment in Thread k succeeds.
Readable(i, k) == place[i] = k /\ meta[i] = k /\ Reachable(i)

\* The browser drops a draft, perhaps one that it has just submitted.
DeletePending(i) ==
    /\ Usable(i)
    /\ place' = [place EXCEPT ![i] = "gone"]
    /\ UNCHANGED <<meta, age, uploading, requestVars, pathVars>>

Grow(i) ==
    /\ place[i] \in {"staging", "pending"}
    /\ age[i] # "old"
    /\ age' = [age EXCEPT ![i] = IF @ = "fresh" THEN "expired" ELSE "old"]
    /\ UNCHANGED <<place, meta, uploading, requestVars, pathVars>>

\* Mutant: the lock of an upload is not tried.
PrunableAny == {i \in Items : place[i] \in {"staging", "pending"} /\ age[i] = "old"}

\* Mutant: only finished uploads are looked for.
PrunableDrafts == {i \in Items : place[i] = "pending" /\ age[i] = "old"}

Prunable ==
    {i \in Items : place[i] \in {"staging", "pending"} /\ age[i] = "old" /\ i \notin uploading}

\* At the start, with every health sample, and before an upload.
Prune ==
    /\ Prunable # {}
    /\ place' = [i \in Items |-> IF i \in Prunable THEN "gone" ELSE place[i]]
    /\ UNCHANGED <<meta, age, uploading, requestVars, pathVars>>

-----------------------------------------------------------------------------
(* BINDING *)

ItemsOf(r) == {Ids[r][j] : j \in DOMAIN Ids[r]}

At(r, positions) == {Ids[r][j] : j \in positions}

\* The attachments of r that are at these positions are in its Thread, the
\* others are drafts; metadata.json of the unmarked ones says "pending", too.
\* Those whose metadata.json was just written do not look old any more.
Lay(r, positions, unmarked) ==
    /\ place' = [i \in Items |->
                    IF i \in At(r, positions) THEN ThreadOf[r]
                    ELSE IF i \in ItemsOf(r) THEN "pending" ELSE place[i]]
    /\ meta' = [i \in Items |->
                   IF i \in At(r, positions \ unmarked) THEN ThreadOf[r]
                   ELSE IF i \in ItemsOf(r) THEN "pending" ELSE meta[i]]
    /\ age' = [i \in Items |->
                  IF i \in ItemsOf(r) \ At(r, positions) /\ age[i] = "old" THEN "expired" ELSE age[i]]

Bindable(r) == \A i \in ItemsOf(r) : Usable(i)

\* finish() for the operation of r.
Released(r) == [held EXCEPT ![ThreadOf[r]] = None]

Goes(r, p) == phase' = [phase EXCEPT ![r] = p]

Reserve(r) ==
    /\ phase[r] = "new"
    /\ held[ThreadOf[r]] = None
    /\ held' = [held EXCEPT ![ThreadOf[r]] = r]
    /\ Goes(r, "reserved")
    /\ UNCHANGED <<storeVars, uploading, uncertain, codex, pathVars>>

Refuse(r) ==
    /\ phase[r] = "new"
    /\ held[ThreadOf[r]] # None
    /\ Goes(r, "refused")
    /\ UNCHANGED <<storeVars, uploading, held, uncertain, codex, pathVars>>

\* Mutant: attachments that were submitted before are bound again.
BindAgain(r) ==
    /\ phase[r] = "reserved"
    /\ \A i \in ItemsOf(r) : Usable(i) \/ place[i] \in Threads
    /\ Lay(r, DOMAIN Ids[r], {})
    /\ Goes(r, "bound")
    /\ UNCHANGED <<uploading, held, uncertain, codex, pathVars>>

Bind(r) ==
    /\ phase[r] = "reserved"
    /\ Bindable(r)
    /\ Lay(r, DOMAIN Ids[r], {})
    /\ Goes(r, "bound")
    /\ UNCHANGED <<uploading, held, uncertain, codex, pathVars>>

\* The Thread is not idle or cannot be resumed, or a draft is not usable.
FailUnbound(r) ==
    /\ phase[r] = "reserved"
    /\ held' = Released(r)
    /\ Goes(r, "failed")
    /\ UNCHANGED <<storeVars, uploading, uncertain, codex, pathVars>>

\* The attachment at position last cannot be moved or marked; those before
\* are moved back, but for the ones from position first on if that fails too.
BindFails(r) ==
    /\ "write" \in Faults
    /\ phase[r] = "reserved"
    /\ Bindable(r)
    /\ \E last \in DOMAIN Ids[r] : \E first \in 1..(last + 1) :
           \E unmarked \in SUBSET ({first, last} \cap (first..last)) :
               /\ Lay(r, first..last, unmarked)
               /\ Goes(r, IF first > last THEN "failed" ELSE "stranded")
    /\ held' = Released(r)
    /\ UNCHANGED <<uploading, uncertain, codex, pathVars>>

-----------------------------------------------------------------------------
(* SUBMITTING *)

Submit(r) ==
    /\ phase[r] = "bound"
    /\ uncertain' = uncertain \cup {ThreadOf[r]}
    /\ Goes(r, "submitted")
    /\ UNCHANGED <<storeVars, uploading, held, codex, pathVars>>

\* Codex accepts the input, perhaps after the RPC timed out for the service.
CodexAccepts(r) ==
    /\ phase[r] \in {"submitted", "uncertain"}
    /\ codex' = codex \cup {r}
    /\ UNCHANGED <<storeVars, uploading, phase, held, uncertain, pathVars>>

Accepted(r) ==
    /\ phase[r] = "submitted"
    /\ r \in codex
    /\ uncertain' = uncertain \ {ThreadOf[r]}
    /\ Goes(r, "accepted")
    /\ UNCHANGED <<storeVars, uploading, held, codex, pathVars>>

\* Mutant: any error that follows the submission gives the drafts back.
CertainAlways(r) == phase[r] \in {"bound", "submitted"}

\* The errors after which Codex has certainly not accepted the input: any
\* before it was submitted, and the answer that it is invalid.
Certain(r) == phase[r] = "bound" \/ (phase[r] = "submitted" /\ r \notin codex)

\* restore_pending, then finish().  (Its _load finds what bind left: while r
\* holds its Thread the Project is not renamed.)
GiveBack(r) ==
    /\ Certain(r)
    /\ Lay(r, {}, {})
    /\ uncertain' = uncertain \ {ThreadOf[r]}
    /\ held' = Released(r)
    /\ Goes(r, "failed")
    /\ UNCHANGED <<uploading, codex, pathVars>>

\* restore_pending raises at position first, out of the except clause: what
\* follows in that clause, finish() included, is not reached.
GiveBackFails(r) ==
    /\ "write" \in Faults
    /\ Certain(r)
    /\ \E first \in DOMAIN Ids[r], unmarked \in SUBSET DOMAIN Ids[r] :
           Lay(r, first..Len(Ids[r]), unmarked \cap {first})
    /\ Goes(r, "stuck")
    /\ UNCHANGED <<uploading, held, uncertain, codex, pathVars>>

\* Mutant: uncertain requests are treated like failed ones.
FailUnsure(r) ==
    /\ phase[r] = "submitted"
    /\ held' = Released(r)
    /\ Goes(r, "failed")
    /\ UNCHANGED <<storeVars, uploading, uncertain, codex, pathVars>>

\* Any other error, and cancellation, after the submission.
FailUncertain(r) ==
    /\ phase[r] = "submitted"
    /\ held' = Released(r)
    /\ Goes(r, "uncertain")
    /\ UNCHANGED <<storeVars, uploading, uncertain, codex, pathVars>>

TurnEnds(r) ==
    /\ phase[r] = "accepted"
    /\ held' = Released(r)
    /\ Goes(r, "closed")
    /\ UNCHANGED <<storeVars, uploading, uncertain, codex, pathVars>>

-----------------------------------------------------------------------------
(* REMOVAL AND RESTARTS *)

\* create_thread_from_prompt deletes the Session it made if its first Turn
\* certainly failed.
CleanUp(r) ==
    /\ r \in New
    /\ phase[r] \in {"failed", "stranded"}
    /\ held[ThreadOf[r]] = None
    /\ ThreadOf[r] \notin uncertain
    /\ place' = [i \in Items |-> IF place[i] = ThreadOf[r] THEN "discarded" ELSE place[i]]
    /\ Goes(r, "closed")
    /\ UNCHANGED <<meta, age, uploading, held, uncertain, codex, pathVars>>

\* delete_thread for a user, or the retention of Journals.
RemoveThread(k) ==
    /\ held[k] = None
    /\ place' = [i \in Items |-> IF place[i] = k THEN "removed" ELSE place[i]]
    /\ UNCHANGED <<meta, age, uploading, requestVars, pathVars>>

\* rename_project: the directory moves with all that is in it, and no
\* metadata.json is rewritten.  It is refused while a Thread is taken.  (An
\* undone rename is two.)
RenameProject(p) ==
    /\ p # project
    /\ \A k \in Threads : held[k] = None
    /\ project' = p
    /\ UNCHANGED <<origin, storeVars, uploading, requestVars>>

Forget ==
    /\ uploading' = {}
    /\ held' = [k \in Threads |-> None]
    /\ uncertain' = {}
    /\ phase' = [r \in Requests |->
                    IF phase[r] = "accepted" THEN "closed"
                    ELSE IF phase[r] \in {"reserved", "bound", "submitted", "stuck"} THEN "lost"
                    ELSE phase[r]]
    /\ UNCHANGED <<codex, pathVars>>

Restart == "crash" \in Faults /\ Forget /\ UNCHANGED storeVars

\* Stopped within bind: the attachment at position last may not be marked.
CrashInBind(r) ==
    /\ "crash" \in Faults
    /\ phase[r] = "reserved"
    /\ Bindable(r)
    /\ \E last \in DOMAIN Ids[r] : \E unmarked \in SUBSET {last} :
           Lay(r, 1..last, unmarked)
    /\ Forget

\* Mutant: an attachment is moved back before its metadata is.
CrashInGiveBackMoved(r) ==
    /\ "crash" \in Faults
    /\ Certain(r)
    /\ \E first \in DOMAIN Ids[r] :
           place' = [i \in Items |-> IF i \in At(r, 1..first) THEN "pending" ELSE place[i]]
    /\ UNCHANGED <<meta, age>>
    /\ Forget

\* Stopped within restore_pending: metadata.json is written before the rename.
CrashInGiveBack(r) ==
    /\ "crash" \in Faults
    /\ Certain(r)
    /\ \E first \in DOMAIN Ids[r] : \E unmarked \in SUBSET {first} :
           Lay(r, first..Len(Ids[r]), unmarked)
    /\ Forget

-----------------------------------------------------------------------------
DraftSteps(i) ==
    BeginUpload(i) \/ FinishUpload(i) \/ FailUpload(i) \/ DeletePending(i) \/ Grow(i)

RequestSteps(r) ==
    \/ Reserve(r) \/ Refuse(r)
    \/ Bind(r) \/ FailUnbound(r) \/ BindFails(r)
    \/ Submit(r) \/ CodexAccepts(r) \/ Accepted(r)
    \/ GiveBack(r) \/ GiveBackFails(r) \/ FailUncertain(r)
    \/ TurnEnds(r)
    \/ CleanUp(r)
    \/ CrashInBind(r) \/ CrashInGiveBack(r)

Next ==
    \/ \E i \in Items : DraftSteps(i)
    \/ \E r \in Requests : RequestSteps(r)
    \/ \E k \in Threads : RemoveThread(k)
    \/ \E p \in Paths : RenameProject(p)
    \/ Prune
    \/ Restart

Spec == Init /\ [][Next]_vars

\* Time passes, uploads end, requests are answered, and the health sample
\* loop comes round.
Fairness ==
    /\ \A i \in Items : WF_vars(Grow(i)) /\ WF_vars(FinishUpload(i) \/ FailUpload(i))
    /\ \A r \in Requests :
          /\ WF_vars(FailUnbound(r))
          /\ WF_vars(Submit(r) \/ GiveBack(r))
          /\ WF_vars(Accepted(r) \/ FailUncertain(r))
    /\ WF_vars(Prune)

FairSpec == Spec /\ Fairness

-----------------------------------------------------------------------------
(* PROPERTIES *)

\* An attachment reaches Codex with one Turn at most, however often a browser
\* repeats its request and whichever answer it was given.
SentOnce ==
    \A q, r \in codex : q # r => ItemsOf(q) \cap ItemsOf(r) = {}

\* What Codex was given stays in its Thread, marked as submitted to it, until
\* the Thread is removed: no failure, cleanup, rename or restart takes it away
\* from a running Turn.  (Whether users can read it, too: SentIsReadable.)
SentIsKept ==
    \A r \in codex : \A i \in ItemsOf(r) :
        \/ place[i] = ThreadOf[r] /\ meta[i] = ThreadOf[r]
        \/ place[i] = "removed"

\* Users can open it, too, until the Thread is removed.  Not so: after a rename
\* of the Project, _load refuses every attachment that was there before.
SentIsReadable ==
    \A r \in codex : \A i \in ItemsOf(r) :
        Readable(i, ThreadOf[r]) \/ place[i] = "removed"

\* A draft is never marked as submitted: whatever was interrupted, it can be
\* used again, deleted, or pruned (only pruned after a rename of the Project).
DraftsAreUsable == \A i \in Items : place[i] = "pending" => meta[i] = "pending"

\* Pruning leaves uploads in progress alone.
UploadsSurvive == \A i \in uploading : place[i] = "staging"

\* A request in one of these phases has nothing in its Thread.
Detached == {"new", "refused", "reserved", "failed"}

\* An attachment is in a Thread only for a request that may have reached Codex
\* or may still: one that failed has given it back, unless a file could not
\* be moved back either.
FailedGivesBack ==
    \A i \in Items : place[i] \in Threads =>
        \E r \in Requests :
            /\ ThreadOf[r] = place[i]
            /\ i \in ItemsOf(r)
            /\ phase[r] \notin Detached

\* A Thread is taken only while its request or its Turn goes on (not so after
\* GiveBackFails: it is taken until the process is restarted).
HeldIsWorking ==
    \A k \in Threads : held[k] # None =>
        phase[held[k]] \in {"reserved", "bound", "submitted", "accepted"}

\* No draft stays for ever, not even one whose upload was cut short.
DraftsAreCleaned ==
    \A i \in Items : place[i] \in {"staging", "pending"} ~>
                     place[i] \notin {"staging", "pending"}
=============================================================================
