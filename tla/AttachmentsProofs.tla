-------------------------- MODULE AttachmentsProofs --------------------------
(***************************************************************************)
(* Proofs about Attachments, for any attachments, Threads and requests and *)
(* with crashes and failing writes.  The argument is about ownership: a    *)
(* request that Codex accepted, or may accept still, owns the attachments  *)
(* it names; they are in its Thread, marked so, and nobody else owns them. *)
(***************************************************************************)
EXTENDS Attachments, TLAPS

Owners == codex \cup {r \in Requests :
                         phase[r] \in {"bound", "submitted", "accepted", "uncertain"}}

Kept(r) == \A i \in ItemsOf(r) :
    \/ place[i] = ThreadOf[r] /\ meta[i] = ThreadOf[r]
    \/ place[i] = "removed"

OwnersKeep == \A r \in Owners : Kept(r)

OwnedOnce == \A q, r \in Owners : q # r => ItemsOf(q) \cap ItemsOf(r) = {}

\* The phases in which Codex has certainly not accepted the request.
Unsent == \A r \in codex :
    phase[r] \notin {"new", "refused", "reserved", "bound", "failed", "stranded", "stuck"}

IInv ==
    /\ TypeOK
    /\ OwnersKeep
    /\ OwnedOnce
    /\ Unsent
    /\ DraftsAreUsable
    /\ UploadsSurvive
    /\ FailedGivesBack

-----------------------------------------------------------------------------
\* A request names attachments, and its Thread is one.
LEMMA Names ==
    ASSUME NEW r \in Requests
    PROVE  /\ ItemsOf(r) \in SUBSET Items
           /\ ThreadOf[r] \in Threads
           /\ ThreadOf[r] \notin Places
    BY Parameters DEF ItemsOf

\* What a bind or a restore does to the store, whole or cut short, if nobody
\* else owns the attachments of r and none of them is being uploaded.
LEMMA LayStep ==
    ASSUME IInv, NEW r \in Requests, NEW P \in SUBSET DOMAIN Ids[r], NEW U,
           Lay(r, P, U),
           \A q \in Owners : q # r => ItemsOf(q) \cap ItemsOf(r) = {},
           \A i \in ItemsOf(r) : i \notin uploading,
           uploading' \in SUBSET uploading
    PROVE  /\ place' \in [Items -> Places \cup Threads]
           /\ meta' \in [Items -> {"none", "pending"} \cup Threads]
           /\ age' \in [Items -> {"fresh", "expired", "old"}]
           /\ \A q \in Owners : q # r => Kept(q)'
           /\ DraftsAreUsable'
           /\ UploadsSurvive'
<1>1. ItemsOf(r) \in SUBSET Items /\ ThreadOf[r] \in Threads /\ ThreadOf[r] \notin Places
    BY Names
<1>2. At(r, P) \subseteq ItemsOf(r) /\ At(r, P \ U) \subseteq At(r, P)
    BY DEF At, ItemsOf
<1>3. place' \in [Items -> Places \cup Threads]
    BY <1>1 DEF IInv, TypeOK, Lay, Places
<1>4. meta' \in [Items -> {"none", "pending"} \cup Threads]
    BY <1>1 DEF IInv, TypeOK, Lay
<1>5. age' \in [Items -> {"fresh", "expired", "old"}]
    BY DEF IInv, TypeOK, Lay
<1>6. \A q \in Owners : q # r => Kept(q)'
  <2> SUFFICES ASSUME NEW q \in Owners, q # r, NEW i \in ItemsOf(q)
               PROVE  \/ place'[i] = ThreadOf[q] /\ meta'[i] = ThreadOf[q]
                      \/ place'[i] = "removed"
      BY DEF Kept, ItemsOf
  <2>1. q \in Requests
      BY DEF Owners, IInv, TypeOK
  <2>2. i \in Items /\ i \notin ItemsOf(r)
      BY <2>1, Names
  <2>3. place'[i] = place[i] /\ meta'[i] = meta[i]
      BY <2>2, <1>2 DEF Lay
  <2> QED BY <2>3 DEF IInv, OwnersKeep, Kept
<1>7. DraftsAreUsable'
  <2> SUFFICES ASSUME NEW i \in Items, place'[i] = "pending"
               PROVE  meta'[i] = "pending"
      BY DEF DraftsAreUsable
  <2>1. CASE i \in ItemsOf(r)
      BY <2>1, <1>1, <1>2 DEF Lay, Places
  <2>2. CASE i \notin ItemsOf(r)
      BY <2>2, <1>2 DEF Lay, IInv, DraftsAreUsable
  <2> QED BY <2>1, <2>2
<1>8. UploadsSurvive'
    BY <1>2 DEF Lay, IInv, TypeOK, UploadsSurvive
<1> QED BY <1>3, <1>4, <1>5, <1>6, <1>7, <1>8
\* LayStep applies to a request that names drafts only, and to an owner.
LEMMA Alone ==
    ASSUME IInv, NEW r \in Requests, Bindable(r) \/ r \in Owners
    PROVE  /\ \A q \in Owners : q # r => ItemsOf(q) \cap ItemsOf(r) = {}
           /\ \A i \in ItemsOf(r) : i \notin uploading
<1>1. CASE Bindable(r)
  <2>1. \A i \in ItemsOf(r) : place[i] = "pending"
      BY <1>1 DEF Bindable, Usable
  <2>2. \A q \in Owners : \A i \in ItemsOf(q) : place[i] # "pending"
      BY Names DEF IInv, TypeOK, Owners, OwnersKeep, Kept, Places
  <2> QED BY <2>1, <2>2 DEF IInv, UploadsSurvive
<1>2. CASE r \in Owners
  <2>1. \A i \in ItemsOf(r) : place[i] # "staging"
      BY <1>2, Names DEF IInv, OwnersKeep, Kept, Places
  <2> QED BY <1>2, <2>1 DEF IInv, OwnedOnce, UploadsSurvive
<1> QED BY <1>1, <1>2

\* A request that certainly failed was an owner, and Codex does not have it.
LEMMA CertainOwner ==
    ASSUME IInv, NEW r \in Requests, Certain(r)
    PROVE  r \in Owners /\ r \notin codex
    BY DEF Certain, Owners, IInv, Unsent

\* A new store has no attachments.
LEMMA InitIInv == Init => IInv
    BY Parameters DEF Init, IInv, TypeOK, OwnersKeep, Kept, OwnedOnce, Owners, Unsent,
       DraftsAreUsable, UploadsSurvive, FailedGivesBack, Places, Phases

-----------------------------------------------------------------------------
\* An upload, deletion or cleanup touches no attachment in a Thread.
LEMMA DraftStep ==
    ASSUME IInv, UNCHANGED requestVars,
           place' \in [Items -> Places \cup Threads],
           meta' \in [Items -> {"none", "pending"} \cup Threads],
           age' \in [Items -> {"fresh", "expired", "old"}],
           uploading' \in SUBSET Items,
           project' \in Paths,
           origin' \in [Items -> Paths \cup {None}],
           \A i \in Items :
              \/ place'[i] = place[i] /\ meta'[i] = meta[i]
              \/ place[i] \in {"none", "staging", "pending"} /\ place'[i] \in Places,
           DraftsAreUsable', UploadsSurvive'
    PROVE  IInv'
<1>1. TypeOK'
    BY DEF IInv, TypeOK, requestVars
<1>2. Owners' = Owners
    BY DEF Owners, requestVars
<1>3. OwnersKeep'
  <2> SUFFICES ASSUME NEW r \in Owners, NEW i \in ItemsOf(r)
               PROVE  \/ place'[i] = ThreadOf[r] /\ meta'[i] = ThreadOf[r]
                      \/ place'[i] = "removed"
      BY <1>2 DEF OwnersKeep, Kept, ItemsOf
  <2>1. r \in Requests /\ i \in Items /\ ThreadOf[r] \notin Places
      BY Names DEF Owners, IInv, TypeOK
  <2>2. place[i] \notin {"none", "staging", "pending"}
      BY <2>1 DEF IInv, OwnersKeep, Kept, Places
  <2> QED BY <2>1, <2>2 DEF IInv, OwnersKeep, Kept
<1>4. OwnedOnce'
    BY <1>2 DEF IInv, OwnedOnce, ItemsOf
<1>5. Unsent'
    BY DEF IInv, Unsent, requestVars
<1>6. FailedGivesBack'
    BY Parameters DEF IInv, FailedGivesBack, requestVars, ItemsOf
<1> QED BY <1>1, <1>3, <1>4, <1>5, <1>6 DEF IInv

\* A request goes on; no file changes.
LEMMA RequestStep ==
    ASSUME IInv, UNCHANGED <<pathVars, storeVars>>, uploading' \in SUBSET uploading,
           phase' \in [Requests -> Phases],
           held' \in [Threads -> Requests \cup {None}],
           uncertain' \in SUBSET Threads,
           codex' \in SUBSET Requests,
           Owners' \in SUBSET Owners, Unsent',
           \A r \in Requests : phase[r] \notin Detached
                             => phase'[r] \notin Detached
    PROVE  IInv'
<1>1. TypeOK' /\ DraftsAreUsable' /\ UploadsSurvive'
    BY DEF IInv, TypeOK, pathVars, storeVars, DraftsAreUsable, UploadsSurvive
<1>2. OwnersKeep'
    BY DEF IInv, OwnersKeep, Kept, ItemsOf, storeVars
<1>3. OwnedOnce'
    BY DEF IInv, OwnedOnce, ItemsOf
<1>4. FailedGivesBack'
    BY DEF IInv, FailedGivesBack, storeVars, ItemsOf
<1> QED BY <1>1, <1>2, <1>3, <1>4 DEF IInv

\* The attachments of r are bound or given back, as far as that went.
LEMMA StoreStep ==
    ASSUME IInv, NEW r \in Requests, NEW P \in SUBSET DOMAIN Ids[r], NEW U,
           Lay(r, P, U), Bindable(r) \/ r \in Owners,
           UNCHANGED pathVars,
           uploading' \in SUBSET uploading,
           phase' \in [Requests -> Phases],
           held' \in [Threads -> Requests \cup {None}],
           uncertain' \in SUBSET Threads,
           codex' = codex,
           Owners' \in SUBSET (Owners \cup {r}), Unsent',
           \A q \in Requests : phase[q] \notin Detached /\ q # r
                             => phase'[q] \notin Detached,
           r \in Owners' => P = DOMAIN Ids[r] /\ U = {},
           P # {} => phase'[r] \notin Detached
    PROVE  IInv'
<1>1. /\ \A q \in Owners : q # r => ItemsOf(q) \cap ItemsOf(r) = {}
      /\ \A i \in ItemsOf(r) : i \notin uploading
    BY Alone
<1>2. /\ place' \in [Items -> Places \cup Threads]
      /\ meta' \in [Items -> {"none", "pending"} \cup Threads]
      /\ age' \in [Items -> {"fresh", "expired", "old"}]
      /\ \A q \in Owners : q # r => Kept(q)'
      /\ DraftsAreUsable'
      /\ UploadsSurvive'
    BY <1>1, LayStep
<1>3. TypeOK'
    BY <1>2 DEF IInv, TypeOK, pathVars
<1>4. ASSUME r \in Owners'
      PROVE  Kept(r)'
  <2>1. At(r, P) = ItemsOf(r) /\ At(r, P \ U) = ItemsOf(r)
      BY <1>4 DEF At, ItemsOf
  <2>2. ItemsOf(r) \in SUBSET Items
      BY Names
  <2> QED BY <2>1, <2>2 DEF Lay, Kept, ItemsOf
<1>5. OwnersKeep'
    BY <1>2, <1>4 DEF OwnersKeep
<1>6. OwnedOnce'
  <2> SUFFICES ASSUME NEW p \in Owners', NEW q \in Owners', p # q
               PROVE  ItemsOf(p) \cap ItemsOf(q) = {}
      BY DEF OwnedOnce, ItemsOf
  <2>1. CASE p = r
      BY <1>1, <2>1
  <2>2. CASE q = r
      BY <1>1, <2>2
  <2>3. CASE p # r /\ q # r
      BY <2>3 DEF IInv, OwnedOnce
  <2> QED BY <2>1, <2>2, <2>3
<1>7. FailedGivesBack'
  <2> SUFFICES ASSUME NEW i \in Items, place'[i] \in Threads
               PROVE  \E q \in Requests :
                         /\ ThreadOf[q] = place'[i]
                         /\ i \in ItemsOf(q)
                         /\ phase'[q] \notin Detached
      BY DEF FailedGivesBack, ItemsOf
  <2>1. CASE i \in ItemsOf(r)
    <3>1. "pending" \notin Threads
        BY Parameters DEF Places
    <3>2. i \in At(r, P) /\ place'[i] = ThreadOf[r]
        BY <2>1, <3>1 DEF Lay
    <3>3. P # {}
        BY <3>2 DEF At
    <3> QED BY <2>1, <3>2, <3>3
  <2>2. CASE i \notin ItemsOf(r)
    <3>1. i \notin At(r, P)
        BY <2>2 DEF At, ItemsOf
    <3>2. place'[i] = place[i]
        BY <2>2, <3>1 DEF Lay
    <3>3. PICK q \in Requests : /\ ThreadOf[q] = place[i]
                                /\ i \in ItemsOf(q)
                                /\ phase[q] \notin Detached
        BY <3>2 DEF IInv, FailedGivesBack
    <3> QED BY <2>2, <3>2, <3>3
  <2> QED BY <2>1, <2>2
<1> QED BY <1>2, <1>3, <1>5, <1>6, <1>7 DEF IInv

-----------------------------------------------------------------------------
\* What the restart of the service makes of the requests.
LEMMA ForgetFacts ==
    ASSUME IInv, Forget
    PROVE  /\ uploading' \in SUBSET uploading
           /\ uploading' \in SUBSET Items
           /\ phase' \in [Requests -> Phases]
           /\ held' \in [Threads -> Requests \cup {None}]
           /\ uncertain' \in SUBSET Threads
           /\ codex' = codex
           /\ UNCHANGED pathVars
           /\ Owners' \in SUBSET Owners
           /\ Unsent'
           /\ \A r \in Requests : phase[r] \notin Detached => phase'[r] \notin Detached
           /\ \A r \in Requests : phase[r] \in {"reserved", "bound", "submitted"} => phase'[r] = "lost"
    BY DEF IInv, TypeOK, Forget, Phases, Owners, Unsent, Detached

\* Every operation, error and crash leaves each attachment with its owner.
LEMMA StepIInv == IInv /\ [Next]_vars => IInv'
<1> SUFFICES ASSUME IInv, [Next]_vars PROVE IInv'
    OBVIOUS
<1>1. ASSUME NEW i \in Items, DraftSteps(i) PROVE IInv'
  <2> USE DEF IInv, TypeOK, DraftsAreUsable, UploadsSurvive, Places, pathVars
  <2>1. CASE BeginUpload(i)
      BY <2>1, DraftStep DEF BeginUpload
  <2>2. CASE FinishUpload(i)
      BY <2>2, DraftStep DEF FinishUpload
  <2>3. CASE FailUpload(i)
      BY <2>3, DraftStep DEF FailUpload
  <2>4. CASE DeletePending(i)
      BY <2>4, DraftStep DEF DeletePending, Usable
  <2>5. CASE Grow(i)
      BY <2>5, DraftStep DEF Grow
  <2> QED BY <1>1, <2>1, <2>2, <2>3, <2>4, <2>5 DEF DraftSteps
<1>2. CASE Prune
    BY <1>2, DraftStep DEF Prune, Prunable, pathVars, IInv, TypeOK, DraftsAreUsable, UploadsSurvive, Places
<1>3. ASSUME NEW r \in Requests, RequestSteps(r) PROVE IInv'
  <2>1. CASE Reserve(r) \/ Refuse(r) \/ FailUnbound(r)
      BY <2>1, Names, RequestStep DEF Reserve, Refuse, FailUnbound, Released, Goes, storeVars,
         IInv, TypeOK, Phases, Owners, Unsent, Detached
  <2>2. CASE Submit(r) \/ FailUncertain(r)
      BY <2>2, Names, RequestStep DEF Submit, FailUncertain, Released, Goes, storeVars,
         IInv, TypeOK, Phases, Owners, Unsent, Detached
  <2>3. CASE CodexAccepts(r) \/ Accepted(r) \/ TurnEnds(r)
      BY <2>3, Names, RequestStep DEF CodexAccepts, Accepted, TurnEnds, Released, Goes, storeVars,
         IInv, TypeOK, Phases, Owners, Unsent, Detached
  <2>4. CASE Bind(r)
      BY <2>4, Names, StoreStep DEF Bind, Goes,
         IInv, TypeOK, Phases, Owners, Unsent, Detached
  <2>5. CASE BindFails(r)
    <3>1. PICK last \in DOMAIN Ids[r] : \E first \in 1..(last + 1) :
             \E U \in SUBSET ({first, last} \cap (first..last)) :
                 /\ Lay(r, first..last, U)
                 /\ Goes(r, IF first > last THEN "failed" ELSE "stranded")
        BY <2>5 DEF BindFails
    <3>2. PICK first \in 1..(last + 1) :
             \E U \in SUBSET ({first, last} \cap (first..last)) :
                 /\ Lay(r, first..last, U)
                 /\ Goes(r, IF first > last THEN "failed" ELSE "stranded")
        BY <3>1
    <3>3. PICK U : Lay(r, first..last, U)
        BY <3>2
    <3>4. Goes(r, IF first > last THEN "failed" ELSE "stranded")
        BY <3>2
    <3>5. first..last \in SUBSET DOMAIN Ids[r]
        BY Parameters
    <3>6. first..last # {} => ~ (first > last)
        BY Parameters
    <3>7. /\ Bindable(r)
          /\ phase[r] = "reserved"
          /\ held' = Released(r)
          /\ UNCHANGED <<uploading, uncertain, codex, pathVars>>
        BY <2>5 DEF BindFails
    <3>8. /\ phase' \in [Requests -> Phases]
          /\ held' \in [Threads -> Requests \cup {None}]
          /\ uncertain' \in SUBSET Threads
        BY <3>4, <3>7, Names DEF Goes, Released, IInv, TypeOK, Phases
    <3>9. r \notin codex
        BY <3>7 DEF IInv, Unsent
    <3>10. Owners' \in SUBSET Owners /\ r \notin Owners'
        BY <3>4, <3>7, <3>9 DEF Goes, IInv, TypeOK, Owners
    <3>11. Unsent'
        BY <3>4, <3>7, <3>9 DEF Goes, IInv, TypeOK, Unsent
    <3>12. \A q \in Requests : phase[q] \notin Detached /\ q # r => phase'[q] \notin Detached
        BY <3>4 DEF Goes, IInv, TypeOK
    <3>13. first..last # {} => phase'[r] \notin Detached
        BY <3>4, <3>6 DEF Goes, IInv, TypeOK, Detached
    <3> QED BY <3>3, <3>5, <3>7, <3>8, <3>10, <3>11, <3>12, <3>13, StoreStep
  <2>6. CASE GiveBack(r)
    <3>1. r \in Owners /\ r \notin codex
        BY <2>6, CertainOwner DEF GiveBack
    <3> QED BY <2>6, <3>1, Names, StoreStep
            DEF GiveBack, Goes, Released, IInv, TypeOK, Phases, Owners, Unsent, Detached
  <2>7. CASE GiveBackFails(r)
    <3>1. r \in Owners /\ r \notin codex
        BY <2>7, CertainOwner DEF GiveBackFails
    <3>2. PICK first \in DOMAIN Ids[r] : \E U : Lay(r, first..Len(Ids[r]), U)
        BY <2>7 DEF GiveBackFails
    <3>3. PICK U : Lay(r, first..Len(Ids[r]), U)
        BY <3>2
    <3>4. first..Len(Ids[r]) \in SUBSET DOMAIN Ids[r]
        BY Parameters
    <3> QED BY <2>7, <3>1, <3>3, <3>4, StoreStep
            DEF GiveBackFails, Goes, IInv, TypeOK, Phases, Owners, Unsent, Detached
  <2>8. CASE CleanUp(r)
    <3>1. \A q \in Owners : ThreadOf[q] # ThreadOf[r]
        BY <2>8, Parameters DEF CleanUp, IInv, TypeOK, Owners, Unsent
    <3>2. Owners' = Owners /\ TypeOK' /\ Unsent'
        BY <2>8 DEF CleanUp, Goes, pathVars, Owners, IInv, TypeOK, Unsent, Places, Phases
    <3>3. OwnersKeep'
      <4> SUFFICES ASSUME NEW q \in Owners, NEW i \in ItemsOf(q)
                   PROVE  \/ place'[i] = ThreadOf[q] /\ meta'[i] = ThreadOf[q]
                          \/ place'[i] = "removed"
          BY <3>2 DEF OwnersKeep, Kept, ItemsOf
      <4>1. i \in Items /\ ThreadOf[r] \notin Places
          BY Names DEF Owners, IInv, TypeOK
      <4> QED BY <2>8, <3>1, <4>1 DEF CleanUp, IInv, OwnersKeep, Kept, Places
    <3>4. OwnedOnce'
        BY <3>2 DEF IInv, OwnedOnce, ItemsOf
    <3>5. DraftsAreUsable' /\ UploadsSurvive'
        BY <2>8, Names DEF CleanUp, IInv, TypeOK, DraftsAreUsable, UploadsSurvive, Places
    <3>6. FailedGivesBack'
      <4> SUFFICES ASSUME NEW i \in Items, place'[i] \in Threads
                   PROVE  \E q \in Requests :
                             /\ ThreadOf[q] = place'[i]
                             /\ i \in ItemsOf(q)
                             /\ phase'[q] \notin Detached
          BY DEF FailedGivesBack, ItemsOf
      <4>1. "discarded" \notin Threads
          BY Parameters DEF Places
      <4>2. place'[i] = place[i]
          BY <2>8, <4>1 DEF CleanUp
      <4>3. PICK q \in Requests : /\ ThreadOf[q] = place[i]
                                  /\ i \in ItemsOf(q)
                                  /\ phase[q] \notin Detached
          BY <4>2 DEF IInv, FailedGivesBack
      <4>4. phase'[q] \notin Detached
          BY <2>8, <4>3 DEF CleanUp, Goes, IInv, TypeOK, Detached
      <4> QED BY <4>2, <4>3, <4>4
    <3> QED BY <3>2, <3>3, <3>4, <3>5, <3>6 DEF IInv
  <2>9. CASE CrashInBind(r)
    <3>1. PICK last \in DOMAIN Ids[r] : \E U : Lay(r, 1..last, U)
        BY <2>9 DEF CrashInBind
    <3>2. PICK U : Lay(r, 1..last, U)
        BY <3>1
    <3>3. 1..last \in SUBSET DOMAIN Ids[r]
        BY Parameters
    <3>4. r \notin codex /\ phase'[r] = "lost"
        BY <2>9, ForgetFacts DEF CrashInBind, IInv, Unsent
    <3>5. r \notin Owners'
        BY <2>9, <3>4, ForgetFacts DEF CrashInBind, Owners
    <3> QED BY <2>9, <3>2, <3>3, <3>4, <3>5, ForgetFacts, StoreStep DEF CrashInBind, Detached
  <2>10. CASE CrashInGiveBack(r)
    <3>1. r \in Owners /\ r \notin codex
        BY <2>10, CertainOwner DEF CrashInGiveBack
    <3>2. PICK first \in DOMAIN Ids[r] : \E U : Lay(r, first..Len(Ids[r]), U)
        BY <2>10 DEF CrashInGiveBack
    <3>3. PICK U : Lay(r, first..Len(Ids[r]), U)
        BY <3>2
    <3>4. first..Len(Ids[r]) \in SUBSET DOMAIN Ids[r]
        BY Parameters
    <3>5. phase'[r] = "lost"
        BY <2>10, ForgetFacts DEF CrashInGiveBack, Certain
    <3>6. r \notin Owners'
        BY <2>10, <3>1, <3>5, ForgetFacts DEF CrashInGiveBack, Owners
    <3> QED BY <2>10, <3>1, <3>3, <3>4, <3>5, <3>6, ForgetFacts, StoreStep
            DEF CrashInGiveBack, Detached
  <2> QED BY <1>3, <2>1, <2>2, <2>3, <2>4, <2>5, <2>6, <2>7, <2>8, <2>9, <2>10
          DEF RequestSteps
<1>4. ASSUME NEW k \in Threads, RemoveThread(k) PROVE IInv'
  <2>1. Owners' = Owners /\ TypeOK' /\ Unsent'
      BY <1>4 DEF RemoveThread, pathVars, requestVars, Owners, IInv, TypeOK, Unsent, Places
  <2>2. OwnersKeep' /\ OwnedOnce'
      BY <1>4, <2>1, Names
         DEF RemoveThread, IInv, TypeOK, OwnersKeep, Kept, OwnedOnce, ItemsOf, Owners
  <2>3. DraftsAreUsable' /\ UploadsSurvive'
      BY <1>4, Parameters DEF RemoveThread, IInv, TypeOK, DraftsAreUsable, UploadsSurvive, Places
  <2>4. FailedGivesBack'
      BY <1>4, Parameters DEF RemoveThread, requestVars, IInv, TypeOK, FailedGivesBack, ItemsOf, Places
  <2> QED BY <2>1, <2>2, <2>3, <2>4 DEF IInv
<1>5. CASE Restart
    BY <1>5, ForgetFacts, RequestStep DEF Restart, IInv, TypeOK
<1>6. ASSUME NEW p \in Paths, RenameProject(p) PROVE IInv'
  <2>1. TypeOK' /\ Owners' = Owners
      BY <1>6 DEF RenameProject, storeVars, requestVars, IInv, TypeOK, Owners
  <2>2. OwnersKeep' /\ OwnedOnce' /\ Unsent'
      BY <1>6, <2>1 DEF RenameProject, storeVars, requestVars, IInv, OwnersKeep, Kept, OwnedOnce,
         Unsent, ItemsOf
  <2>3. DraftsAreUsable' /\ UploadsSurvive' /\ FailedGivesBack'
      BY <1>6 DEF RenameProject, storeVars, requestVars, IInv, DraftsAreUsable, UploadsSurvive,
         FailedGivesBack, ItemsOf
  <2> QED BY <2>1, <2>2, <2>3 DEF IInv
<1>7. CASE UNCHANGED vars
    BY <1>7, RequestStep DEF vars, storeVars, requestVars, IInv, TypeOK, Owners, Unsent
<1> QED BY <1>1, <1>2, <1>3, <1>4, <1>5, <1>6, <1>7 DEF Next

\* The ownership of attachments is an invariant of the store and of start_turn.
THEOREM Invariance == Spec => []IInv
<1>1. Init => IInv
    BY InitIInv
<1>2. IInv /\ [Next]_vars => IInv'
    BY StepIInv
<1> QED BY <1>1, <1>2, PTL DEF Spec

-----------------------------------------------------------------------------
\* The store, the requests and the registry entry always have the shape the
\* code gives them.
THEOREM TypeCorrect == Spec => []TypeOK
<1>1. IInv => TypeOK
    BY DEF IInv
<1> QED BY <1>1, Invariance, PTL

\* However start_turn fails, is repeated or interrupted, no attachment reaches
\* Codex with two Turns.
THEOREM AttachmentsAreSentOnce == Spec => []SentOnce
<1>1. IInv => SentOnce
    BY DEF IInv, OwnedOnce, SentOnce, Owners
<1> QED BY <1>1, Invariance, PTL

\* Neither the error paths of start_turn and create_thread_from_prompt nor a
\* restart takes from a Thread what Codex was given.
THEOREM SubmittedIsKept == Spec => []SentIsKept
<1>1. IInv => SentIsKept
    BY DEF IInv, OwnersKeep, Kept, SentIsKept, Owners
<1> QED BY <1>1, Invariance, PTL

\* A bind or restore that stops or fails at any attachment never leaves a
\* draft that is marked as submitted.
THEOREM DraftsStayUsable == Spec => []DraftsAreUsable
<1>1. IInv => DraftsAreUsable
    BY DEF IInv
<1> QED BY <1>1, Invariance, PTL

\* prune_pending, bind and restore_pending leave uploads in progress alone.
THEOREM UploadsAreSafe == Spec => []UploadsSurvive
<1>1. IInv => UploadsSurvive
    BY DEF IInv
<1> QED BY <1>1, Invariance, PTL

\* A request that failed has nothing left in its Thread.
THEOREM FailuresGiveBack == Spec => []FailedGivesBack
<1>1. IInv => FailedGivesBack
    BY DEF IInv
<1> QED BY <1>1, Invariance, PTL
=============================================================================
