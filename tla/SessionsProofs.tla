--------------------------- MODULE SessionsProofs ----------------------------
(***************************************************************************)
(* Theorems about Sessions.                                                *)
(*                                                                         *)
(* Types, and that no request leaves a reservation or a closed gate behind *)
(* (HeldByRequests): which steps of a request hold something (Holders),    *)
(* since many ends of a request release nothing, and that the new name's   *)
(* gate is closed by its rename only while Sessions are moved (Gates).     *)
(*                                                                         *)
(* That Sessions are kept, through renames, deletes, forks and lists       *)
(* (SessionsAreKept, BusySessionsStay, UndoneMeansRestored).  The          *)
(* inductive invariant is Course: where each directory is (Turf), what the *)
(* lists of a mutation hold (Lists), where each Session is (Located,       *)
(* Unseen), what requests still know of theirs (Users), and for every      *)
(* Session that stays that its directory is the one it was made in         *)
(* (Homes), with what a mutation may have missed of it (Missed) and the    *)
(* copies that are being made of it (Forks).                               *)
(*                                                                         *)
(* That one failure strands no Session (OneFailureStrandsNone): Failing    *)
(* adds to Course why a rename goes back (Caused), and that nobody but a   *)
(* new Project can be in its way (Vacated).                                *)
(*                                                                         *)
(* The middle layer says what any step of a client does to one kind of     *)
(* state: DirectorySteps, ListSteps, SessionSteps, FindingSteps,           *)
(* PlaceSteps.  The invariants are kept by these few alternatives, so that *)
(* no proof but theirs goes through the actions.                           *)
(***************************************************************************)
EXTENDS Sessions, TLAPS, FiniteSetTheorems

USE DEF codexVars, serviceVars, promiseVars, Go, Keep, Thread, Old, New

-----------------------------------------------------------------------------
(* Types *)

\* TypeOK by the part of the system it is about.
CodexOK ==
    /\ dirs \in [Names -> Names \cup Clients \cup {None}]
    /\ cwd \in [Threads -> Names \cup {None}]
    /\ archived \subseteq Threads
    /\ listed \subseteq Threads

ServiceOK ==
    /\ pending \in [Threads -> Names \cup {None}]
    /\ mutating \subseteq Names
    /\ held \in [Threads -> Clients \cup {None}]

Places == {"start"} \cup Started \cup InMutation \cup Ended

ClientsOK ==
    /\ job \in [Clients -> Requests]
    /\ op \in [Clients -> Ops]
    /\ pc \in [Clients -> Places]

WorkOK == work \in [Clients -> Work]

HistoryOK ==
    /\ promised \subseteq Threads
    /\ home \in [Threads -> Names \cup Clients \cup {None}]
    /\ raced \subseteq Threads

\* TypeOK is the conjunction of these parts.
LEMMA TypeParts ==
    TypeOK <=> CodexOK /\ ServiceOK /\ ClientsOK /\ WorkOK /\ HistoryOK /\ faults \in 0..MaxFaults
BY DEF TypeOK, CodexOK, ServiceOK, ClientsOK, WorkOK, HistoryOK, Places

\* What a request names.
LEMMA JobTyped ==
    ASSUME ClientsOK, NEW c \in Clients
    PROVE  /\ job[c].thread \in Threads /\ job[c].copy \in Threads
           /\ job[c].name \in Names /\ job[c].to \in Names /\ job[c].op \in Ops
BY DEF ClientsOK, Requests

LEMMA SomeOps == {"new", "turn", "delete"} \subseteq Ops
BY DEF Ops, Reserving, Creating

\* What a request leaves behind when it ends.
LEMMA ReleasedTyped ==
    ASSUME ServiceOK, NEW c \in Clients
    PROVE  Released(c) \in [Threads -> Clients \cup {None}]
BY DEF ServiceOK, Released

LEMMA RaiseTyped ==
    ASSUME ServiceOK, ClientsOK, NEW c \in Clients, Raise(c)
    PROVE  /\ held' \in [Threads -> Clients \cup {None}]
           /\ op' \in [Clients -> Ops] /\ pc' \in [Clients -> Places]
BY ReleasedTyped, SomeOps DEF Raise, ClientsOK, Places, Started, Ended

LEMMA LeaveTyped ==
    ASSUME ServiceOK, ClientsOK, NEW c \in Clients, NEW where \in Ended, LeaveMutation(c, where)
    PROVE  /\ held' \in [Threads -> Clients \cup {None}]
           /\ mutating' \subseteq Names /\ pc' \in [Clients -> Places]
BY ReleasedTyped DEF LeaveMutation, ServiceOK, ClientsOK, Places

\* What moving a Session leads to.
LEMMA OutcomesTyped ==
    ASSUME CodexOK, NEW c \in Clients, NEW t \in Threads, NEW n \in Names,
           NEW o \in Outcomes(c, t, n)
    PROVE  o.cwd \in Names \cup {None} /\ o.fault \in {0, 1} /\ o.ok \in BOOLEAN
<1> DEFINE can == cwd[t] # None /\ (t \in work[c].stored => t \in archived)
           was == t \in archived
           may == {cwd[t]} \cup (IF can THEN {n} ELSE {})
           Moved == [cwd |-> n, archived |-> was, ok |-> TRUE, fault |-> 0]
           NotMoved(a, f) == [cwd : may, archived : a, ok : {FALSE}, fault : {f}]
<1>1. o = Moved \/ \E a \in {{was}, {FALSE}}, f \in {0, 1} : o \in NotMoved(a, f)
  <2>1. CASE o \in IF can /\ Found(n) THEN {Moved} ELSE {}
    BY <2>1
  <2>2. CASE o \in IF can /\ Found(n) THEN {} ELSE NotMoved({was}, 0)
    BY <2>2
  <2>3. CASE o \in IF "move" \in Faults /\ can THEN NotMoved({was}, 1) ELSE {}
    BY <2>3
  <2>4. CASE o \in IF "rearchive" \in Faults /\ can /\ t \in work[c].stored
                    THEN NotMoved({FALSE}, 1) ELSE {}
    BY <2>4
  <2> HIDE DEF can, was, may, Moved, NotMoved
  <2> QED
    BY <2>1, <2>2, <2>3, <2>4 DEF Outcomes, can, was, may, Moved, NotMoved
<1>2. may \subseteq Names \cup {None}
  BY DEF CodexOK
<1> HIDE DEF may, was
<1>3. CASE o = Moved
  BY <1>3
<1>4. ASSUME NEW a \in {{was}, {FALSE}}, NEW f \in {0, 1}, o \in NotMoved(a, f)
      PROVE  o.cwd \in Names \cup {None} /\ o.fault \in {0, 1} /\ o.ok \in BOOLEAN
  BY <1>2, <1>4
<1> QED
  BY <1>1, <1>3, <1>4

LEMMA RelocateTyped ==
    ASSUME CodexOK, ServiceOK, faults \in 0..MaxFaults,
           NEW c \in Clients, NEW t \in Threads, NEW n \in Names, NEW o \in Outcomes(c, t, n),
           Relocate(c, t, n, o)
    PROVE  /\ cwd' \in [Threads -> Names \cup {None}] /\ archived' \subseteq Threads
           /\ pending' \in [Threads -> Names \cup {None}] /\ faults' \in 0..MaxFaults
<1>1. o.cwd \in Names \cup {None} /\ o.fault \in {0, 1}
  BY OutcomesTyped
<1>2. cwd' \in [Threads -> Names \cup {None}] /\ archived' \subseteq Threads
  BY <1>1 DEF Relocate, CodexOK
<1>3. pending' \in [Threads -> Names \cup {None}]
  BY DEF Relocate, ServiceOK
<1>4. faults' \in 0..MaxFaults
  BY <1>1, Parameters DEF Relocate, Parameters
<1> QED
  BY <1>2, <1>3, <1>4

\* What a client writes down.
LEMMA KeepTyped ==
    ASSUME WorkOK, NEW c \in Clients, NEW n \in Names \cup {None}, NEW S \in SUBSET Threads,
           \/ Keep(c, [work[c] EXCEPT !.project = n])
           \/ Keep(c, [work[c] EXCEPT !.seen = n])
           \/ Keep(c, [work[c] EXCEPT !.threads = S])
    PROVE  WorkOK'
<1>1. work[c] \in Work
  BY DEF WorkOK
<1>2. /\ [work[c] EXCEPT !.project = n] \in Work
      /\ [work[c] EXCEPT !.seen = n] \in Work
      /\ [work[c] EXCEPT !.threads = S] \in Work
  BY <1>1 DEF Work
<1> QED
  BY <1>2 DEF WorkOK

\* The types hold at first and are kept by requests and by mutations.
LEMMA TypeInit == Init => TypeOK
<1> SUFFICES ASSUME Init PROVE TypeOK
  OBVIOUS
<1>1. CodexOK /\ ServiceOK
  BY Parameters DEF Init, CodexOK, ServiceOK, Existing, Parameters
<1>2. ClientsOK
  <2>1. job \in [Clients -> Requests]
    BY Parameters DEF Init, Parameters
  <2>2. op \in [Clients -> Ops]
    BY <2>1, SomeOps DEF Init, Requests
  <2> QED
    BY <2>1, <2>2 DEF Init, ClientsOK, Places
<1>3. WorkOK
  BY DEF Init, WorkOK, Work
<1>4. HistoryOK /\ faults \in 0..MaxFaults
  BY Parameters DEF Init, HistoryOK, Existing, Parameters
<1> QED
  BY <1>1, <1>2, <1>3, <1>4, TypeParts

LEMMA RequestTyped ==
    ASSUME TypeOK, NEW c \in Clients, Request(c)
    PROVE  CodexOK' /\ ServiceOK' /\ ClientsOK' /\ WorkOK' /\ faults' = faults
           /\ promised' \subseteq Threads
           /\ home' \in [Threads -> Names \cup Clients \cup {None}]
<1>0. CodexOK /\ ServiceOK /\ ClientsOK /\ WorkOK /\ HistoryOK
  BY TypeParts
<1>j. /\ job[c].thread \in Threads /\ job[c].copy \in Threads
      /\ job[c].name \in Names /\ job[c].to \in Names /\ job[c].op \in Ops
  BY <1>0, JobTyped
<1>r. Released(c) \in [Threads -> Clients \cup {None}]
  BY <1>0, ReleasedTyped
<1>w. work[c] \in Work
  BY <1>0 DEF WorkOK
<1>1. CodexOK'
  <2>1. CASE UNCHANGED <<dirs, codexVars>>
    BY <1>0, <2>1 DEF CodexOK
  <2>2. CASE StartThread(c) \/ Fork(c)
    BY <1>0, <1>j, <2>2 DEF CodexOK, StartThread, Fork
  <2>3. CASE Archive(c) \/ Unarchive(c) \/ StartTurn(c)
    BY <1>0, <1>j, <2>3 DEF CodexOK, Archive, Unarchive, StartTurn
  <2>4. CASE Deletes(c)
    BY <1>0, <1>j, <2>4 DEF CodexOK, Deletes, Delete
  <2>5. CASE MakeDirectory(c)
    BY <1>0, <1>j, <2>5 DEF CodexOK, MakeDirectory
  <2>6. CASE Title(c) \/ Created(c) \/ Reserve(c) \/ Find(c) \/ Read(c) \/ Arrive(c)
    BY <2>1, <2>6 DEF Title, Created, Reserve, Find, Read, Arrive
  <2>7. CASE ConfirmTitle(c) \/ Forked(c) \/ EndTurn(c) \/ CodexRaises(c) \/ ListThreads(c)
             \/ CodexLists(c) \/ Listed(c) \/ ProjectCreated(c)
    BY <2>1, <2>7 DEF ConfirmTitle, Forked, EndTurn, CodexRaises, ListThreads, CodexLists, Listed,
       ProjectCreated
  <2> QED
    BY <2>2, <2>3, <2>4, <2>5, <2>6, <2>7 DEF Request
<1>2. ServiceOK'
  <2> USE DEF ServiceOK
  <2>1. CASE UNCHANGED serviceVars
    BY <1>0, <2>1
  <2>2. CASE Created(c) \/ Forked(c)
    BY <1>0, <1>j, <1>r, <1>w, <2>2 DEF Created, Forked, Remember, CodexOK, Work, Found
  <2>3. CASE Reserve(c) \/ Find(c) \/ CodexRaises(c)
    BY <1>0, <1>j, <2>3, RaiseTyped DEF Reserve, Find, CodexRaises
  <2>4. CASE Arrive(c) \/ ConfirmTitle(c)
    BY <1>0, <1>j, <1>r, <2>4, RaiseTyped DEF Arrive, ConfirmTitle, Forget
  <2>5. CASE Archive(c) \/ Deletes(c) \/ EndTurn(c)
    BY <1>0, <1>r, <2>5 DEF Archive, Deletes, Delete, Forget, EndTurn
  <2>6. CASE Listed(c)
    BY <1>0, <2>6 DEF Listed
  <2>7. CASE Title(c) \/ StartThread(c) \/ Read(c) \/ Unarchive(c) \/ Fork(c) \/ StartTurn(c)
    BY <2>1, <2>7 DEF Title, StartThread, Read, Unarchive, Fork, StartTurn
  <2>8. CASE ListThreads(c) \/ CodexLists(c) \/ MakeDirectory(c) \/ ProjectCreated(c)
    BY <2>1, <2>8 DEF ListThreads, CodexLists, MakeDirectory, ProjectCreated
  <2> QED
    BY <1>0, <2>2, <2>3, <2>4, <2>5, <2>6, <2>7, <2>8 DEF Request
<1>3. ClientsOK'
  <2> USE SomeOps DEF ClientsOK, Places, Started, Ended
  <2>1. CASE Title(c) \/ StartThread(c) \/ Created(c)
    BY <1>0, <2>1 DEF Title, StartThread, Created
  <2>2. CASE Reserve(c) \/ Find(c) \/ CodexRaises(c)
    BY <1>0, <2>2, RaiseTyped DEF Reserve, Find, CodexRaises
  <2>3. CASE Arrive(c)
    BY <1>0, <2>3, RaiseTyped DEF Arrive
  <2>4. CASE Read(c) \/ ConfirmTitle(c) \/ Archive(c) \/ Unarchive(c) \/ Deletes(c)
    BY <1>0, <2>4 DEF Read, ConfirmTitle, Archive, Unarchive, Deletes, Delete
  <2>5. CASE Fork(c) \/ Forked(c) \/ StartTurn(c) \/ EndTurn(c)
    BY <1>0, <2>5 DEF Fork, Forked, StartTurn, EndTurn
  <2>6. CASE ListThreads(c) \/ CodexLists(c) \/ Listed(c) \/ MakeDirectory(c) \/ ProjectCreated(c)
    BY <1>0, <2>6 DEF ListThreads, CodexLists, Listed, MakeDirectory, ProjectCreated
  <2> QED
    BY <2>1, <2>2, <2>3, <2>4, <2>5, <2>6 DEF Request
<1>4. WorkOK'
  <2>1. CASE UNCHANGED work
    BY <1>0, <2>1 DEF WorkOK
  <2>2. CASE Find(c)
    <3> DEFINE n == IF pending[Thread(c)] # None THEN pending[Thread(c)] ELSE cwd[Thread(c)]
    <3>1. n \in Names \cup {None}
      BY <1>0, <1>j DEF CodexOK, ServiceOK
    <3>2. work' = work \/ Keep(c, [work[c] EXCEPT !.project = n])
      BY <2>2 DEF Find
    <3> QED
      BY <1>0, <2>1, <3>1, <3>2, KeepTyped
  <2>3. CASE Read(c)
    <3>1. cwd[Thread(c)] \in Names \cup {None}
      BY <1>0, <1>j DEF CodexOK
    <3> QED
      BY <1>0, <2>3, <3>1, KeepTyped DEF Read
  <2>6. CASE CodexLists(c)
    <3> DEFINE S == {t \in listed \ archived : cwd[t] = job[c].name}
    <3>1. S \in SUBSET Threads
      BY <1>0 DEF CodexOK
    <3>2. work' = work \/ Keep(c, [work[c] EXCEPT !.threads = S])
      BY <2>6 DEF CodexLists
    <3> HIDE DEF S
    <3> QED
      BY <1>0, <2>1, <3>1, <3>2, KeepTyped
  <2>4. CASE Title(c) \/ StartThread(c) \/ Created(c) \/ Reserve(c) \/ Arrive(c)
             \/ ConfirmTitle(c) \/ Archive(c) \/ Unarchive(c) \/ Deletes(c)
    BY <2>1, <2>4 DEF Title, StartThread, Created, Reserve, Arrive, ConfirmTitle, Archive,
       Unarchive, Deletes, Delete
  <2>5. CASE Fork(c) \/ Forked(c) \/ StartTurn(c) \/ EndTurn(c) \/ CodexRaises(c)
             \/ ListThreads(c) \/ Listed(c) \/ MakeDirectory(c) \/ ProjectCreated(c)
    BY <2>1, <2>5 DEF Fork, Forked, StartTurn, EndTurn, CodexRaises, ListThreads, Listed, MakeDirectory,
       ProjectCreated
  <2> QED
    BY <2>2, <2>3, <2>4, <2>5, <2>6 DEF Request
<1>5. /\ promised' \subseteq Threads
      /\ home' \in [Threads -> Names \cup Clients \cup {None}] /\ faults' = faults
  <2> USE DEF HistoryOK
  <2>1. CASE UNCHANGED <<promiseVars, faults>>
    BY <1>0, <2>1
  <2>2. CASE StartThread(c) \/ Created(c) \/ Fork(c)
    BY <1>0, <1>j, <2>2 DEF StartThread, Created, Remember, Fork, CodexOK
  <2>3. CASE Forked(c) \/ Deletes(c)
    BY <1>0, <1>j, <2>3 DEF Forked, Remember, Deletes, Delete
  <2>4. CASE Title(c) \/ Reserve(c) \/ Find(c) \/ Read(c) \/ Arrive(c) \/ ConfirmTitle(c)
             \/ Archive(c) \/ Unarchive(c)
    BY <2>1, <2>4 DEF Title, Reserve, Find, Read, Arrive, ConfirmTitle, Archive, Unarchive
  <2>5. CASE StartTurn(c) \/ EndTurn(c) \/ CodexRaises(c) \/ ListThreads(c)
             \/ CodexLists(c) \/ Listed(c) \/ MakeDirectory(c) \/ ProjectCreated(c)
    BY <2>1, <2>5 DEF StartTurn, EndTurn, CodexRaises, ListThreads, CodexLists, Listed, MakeDirectory,
       ProjectCreated
  <2> QED
    BY <2>2, <2>3, <2>4, <2>5 DEF Request
<1> QED
  BY <1>1, <1>2, <1>3, <1>4, <1>5

LEMMA ReserveAllTyped ==
    ASSUME CodexOK, ServiceOK, ClientsOK, WorkOK, NEW c \in Clients, ReserveAll(c)
    PROVE  ServiceOK' /\ ClientsOK' /\ WorkOK'
<1> DEFINE stored == {t \in listed \cap archived : cwd[t] = Old(c)}
           fresh  == {t \in Threads : pending[t] = Old(c)}
           all    == work[c].threads \cup stored \cup fresh
           kept   == stored \cup {t \in fresh \ work[c].threads : t \in archived}
<1>1. work[c] \in Work
  BY DEF WorkOK
<1>2. all \subseteq Threads /\ kept \subseteq Threads
  BY <1>1 DEF Work, CodexOK
<1>3. \/ /\ held' = [t \in Threads |-> IF t \in all THEN c ELSE held[t]]
         /\ Keep(c, [work[c] EXCEPT !.threads = all, !.stored = kept])
         /\ Go(c, "reserved") /\ UNCHANGED mutating
      \/ LeaveMutation(c, "refused") /\ UNCHANGED work
  BY DEF ReserveAll
<1>4. UNCHANGED <<pending, job, op>>
  BY DEF ReserveAll
<1> HIDE DEF all, kept
<1>5. CASE LeaveMutation(c, "refused") /\ UNCHANGED work
  BY <1>4, <1>5, LeaveTyped DEF ServiceOK, ClientsOK, WorkOK, Ended
<1>6. CASE /\ held' = [t \in Threads |-> IF t \in all THEN c ELSE held[t]]
           /\ Keep(c, [work[c] EXCEPT !.threads = all, !.stored = kept])
           /\ Go(c, "reserved") /\ UNCHANGED mutating
  <2>1. [work[c] EXCEPT !.threads = all, !.stored = kept] \in Work
    BY <1>1, <1>2 DEF Work
  <2>2. WorkOK'
    BY <1>6, <2>1 DEF WorkOK
  <2>3. ServiceOK'
    BY <1>4, <1>6 DEF ServiceOK
  <2>4. ClientsOK'
    BY <1>4, <1>6 DEF ClientsOK, Places, InMutation
  <2> QED
    BY <2>2, <2>3, <2>4
<1> QED
  BY <1>3, <1>5, <1>6

LEMMA TriedTyped ==
    ASSUME WorkOK, NEW c \in Clients, NEW t \in Threads,
           \/ Keep(c, [work[c] EXCEPT !.tried = Append(@, t)])
           \/ work[c].tried # <<>> /\ Keep(c, [work[c] EXCEPT !.tried = Tail(@)])
    PROVE  WorkOK'
<1>1. work[c] \in Work /\ work[c].tried \in Seq(Threads)
  BY DEF WorkOK, Work
<1>2. Append(work[c].tried, t) \in Seq(Threads)
  BY <1>1
<1>3. work[c].tried # <<>> => Tail(work[c].tried) \in Seq(Threads)
  BY <1>1
<1>4. [work[c] EXCEPT !.tried = Append(@, t)] \in Work
  BY <1>1, <1>2 DEF Work
<1>5. work[c].tried # <<>> => [work[c] EXCEPT !.tried = Tail(@)] \in Work
  BY <1>1, <1>3 DEF Work
<1> QED
  BY <1>4, <1>5 DEF WorkOK

\* What MoveThread and MoveBack have in common.
LEMMA MovesTyped ==
    ASSUME TypeOK, NEW c \in Clients, MoveThread(c) \/ MoveBack(c)
    PROVE  /\ CodexOK' /\ ServiceOK' /\ ClientsOK' /\ WorkOK' /\ faults' \in 0..MaxFaults
           /\ UNCHANGED promiseVars
<1>0. CodexOK /\ ServiceOK /\ ClientsOK /\ WorkOK /\ faults \in 0..MaxFaults
  BY TypeParts
<1>j. job[c].name \in Names /\ job[c].to \in Names /\ work[c] \in Work
  BY <1>0, JobTyped DEF WorkOK
<1>1. CASE MoveThread(c)
  <2>1. PICK t \in work[c].threads \ ToSet(work[c].tried) :
          \E o \in Outcomes(c, t, New(c)) :
             /\ Relocate(c, t, New(c), o)
             /\ Keep(c, [work[c] EXCEPT !.tried = Append(@, t)])
             /\ Go(c, IF o.ok THEN "moving" ELSE "undo")
    BY <1>1 DEF MoveThread
  <2>2. t \in Threads
    BY <1>j DEF Work
  <2>3. /\ cwd' \in [Threads -> Names \cup {None}] /\ archived' \subseteq Threads
        /\ pending' \in [Threads -> Names \cup {None}] /\ faults' \in 0..MaxFaults
    BY <1>0, <1>j, <2>1, <2>2, RelocateTyped
  <2>4. UNCHANGED <<dirs, listed, mutating, held, job, op, promiseVars>>
    BY <1>1 DEF MoveThread
  <2>5. WorkOK'
    BY <1>0, <2>1, <2>2, TriedTyped
  <2>6. ClientsOK'
    BY <1>0, <2>1, <2>4 DEF ClientsOK, Places, InMutation
  <2> QED
    BY <1>0, <2>3, <2>4, <2>5, <2>6 DEF CodexOK, ServiceOK
<1>2. CASE MoveBack(c)
  <2> DEFINE t == Head(work[c].tried)
  <2>1. PICK o \in Outcomes(c, t, Old(c)) :
             /\ Relocate(c, t, Old(c), o)
             /\ Keep(c, [work[c] EXCEPT !.tried = Tail(@)])
             /\ IF o.ok THEN Go(c, "returning") /\ UNCHANGED <<mutating, held>>
                        ELSE LeaveMutation(c, "broken")
    BY <1>2 DEF MoveBack
  <2>0. work[c].tried # <<>> /\ UNCHANGED <<dirs, listed, job, op, promiseVars>>
    BY <1>2 DEF MoveBack
  <2>2. t \in Threads
    BY <1>j, <2>0 DEF Work
  <2> HIDE DEF t
  <2>3. /\ cwd' \in [Threads -> Names \cup {None}] /\ archived' \subseteq Threads
        /\ pending' \in [Threads -> Names \cup {None}] /\ faults' \in 0..MaxFaults
    BY <1>0, <1>j, <2>1, <2>2, RelocateTyped
  <2>5. WorkOK'
    BY <1>0, <2>0, <2>1, <2>2, TriedTyped
  <2>6. CASE Go(c, "returning") /\ UNCHANGED <<mutating, held>>
    BY <1>0, <2>0, <2>3, <2>5, <2>6 DEF CodexOK, ServiceOK, ClientsOK, Places, InMutation
  <2>7. CASE LeaveMutation(c, "broken")
    BY <1>0, <2>0, <2>3, <2>5, <2>7, LeaveTyped DEF CodexOK, ServiceOK, ClientsOK, Ended
  <2> QED
    BY <2>1, <2>6, <2>7
<1> QED
  BY <1>1, <1>2

LEMMA MutationTyped ==
    ASSUME TypeOK, NEW c \in Clients, Mutation(c)
    PROVE  /\ CodexOK' /\ ServiceOK' /\ ClientsOK' /\ WorkOK' /\ faults' \in 0..MaxFaults
           /\ promised' \subseteq Threads
           /\ home' \in [Threads -> Names \cup Clients \cup {None}]
<1>0. CodexOK /\ ServiceOK /\ ClientsOK /\ WorkOK /\ HistoryOK /\ faults \in 0..MaxFaults
  BY TypeParts
<1>j. job[c].name \in Names /\ job[c].to \in Names
  BY <1>0, JobTyped
<1>1. CASE MoveThread(c) \/ MoveBack(c)
  BY <1>0, <1>1, MovesTyped DEF HistoryOK
<1>2. CASE ReserveAll(c)
  BY <1>0, <1>2, ReserveAllTyped DEF ReserveAll, CodexOK, HistoryOK
<1>3. CASE CloseGate(c) \/ CloseNewGate(c)
  BY <1>0, <1>j, <1>3 DEF CloseGate, CloseNewGate, CodexOK, ServiceOK, ClientsOK, WorkOK,
     HistoryOK, Places, InMutation, Ended
<1>4. CASE ListActive(c)
  <2> DEFINE S == {t \in listed \ archived : cwd[t] = job[c].name}
  <2>1. S \in SUBSET Threads
    BY <1>0 DEF CodexOK
  <2>2. Keep(c, [work[c] EXCEPT !.threads = S])
    BY <1>4 DEF ListActive
  <2> HIDE DEF S
  <2>3. WorkOK'
    BY <1>0, <2>1, <2>2, KeepTyped
  <2>4. CodexOK' /\ ServiceOK' /\ ClientsOK' /\ HistoryOK /\ faults' = faults
    BY <1>0, <1>4 DEF ListActive, CodexOK, ServiceOK, ClientsOK, Places, InMutation
  <2> QED
    BY <1>0, <1>4, <2>3, <2>4 DEF ListActive, HistoryOK
<1>5. CASE RenameDirectory(c) \/ RestoreDirectory(c)
  BY <1>0, <1>j, <1>5 DEF RenameDirectory, RestoreDirectory, CodexOK, ServiceOK, ClientsOK,
     WorkOK, HistoryOK, Places, InMutation
<1>6. CASE MutationRefused(c) \/ RenameDone(c) \/ RenameUndone(c)
  <2>1. \E where \in Ended : LeaveMutation(c, where)
    BY <1>6 DEF MutationRefused, RenameDone, RenameUndone, Ended
  <2> QED
    BY <1>0, <1>6, <2>1, LeaveTyped DEF MutationRefused, RenameDone, RenameUndone, CodexOK,
       ServiceOK, ClientsOK, WorkOK, HistoryOK
<1>7. CASE CheckNewName(c) \/ CheckOldName(c)
  <2>1. UNCHANGED <<dirs, codexVars, pending, job, op, work, faults, promiseVars>>
    BY <1>7 DEF CheckNewName, CheckOldName
  <2>2. \/ \E where \in Ended : LeaveMutation(c, where)
        \/ \E where \in Places : Go(c, where) /\ UNCHANGED <<mutating, held>>
    BY <1>7 DEF CheckNewName, CheckOldName, Ended, Places, InMutation
  <2> QED
    BY <1>0, <2>1, <2>2, LeaveTyped DEF CodexOK, ServiceOK, ClientsOK, WorkOK, HistoryOK
<1>8. CASE DeleteProject(c)
  <2>1. UNCHANGED <<codexVars, job, op, work, home>>
    BY <1>8 DEF DeleteProject
  <2>2. \E where \in Ended : LeaveMutation(c, where)
    BY <1>8 DEF DeleteProject, Ended
  <2>3. dirs' \in [Names -> Names \cup Clients \cup {None}]
    BY <1>0, <1>j, <1>8 DEF DeleteProject, CodexOK
  <2>4. pending' \in [Threads -> Names \cup {None}] /\ promised' \subseteq Threads
    BY <1>0, <1>8 DEF DeleteProject, ServiceOK, HistoryOK
  <2>5. faults' \in 0..MaxFaults
    <3>1. faults' = faults \/ (faults < MaxFaults /\ faults' = faults + 1)
      BY <1>8 DEF DeleteProject
    <3> QED
      BY <1>0, <3>1, Parameters DEF Parameters
  <2> QED
    BY <1>0, <2>1, <2>2, <2>3, <2>4, <2>5, LeaveTyped DEF CodexOK, ServiceOK, ClientsOK,
       WorkOK, HistoryOK
<1> QED
  BY <1>1, <1>2, <1>3, <1>4, <1>5, <1>6, <1>7, <1>8 DEF Mutation, MutationRefused

LEMMA TypeKept == TypeOK /\ [Next]_vars => TypeOK'
<1> SUFFICES ASSUME TypeOK, [Next]_vars PROVE TypeOK'
  OBVIOUS
<1>1. CASE UNCHANGED vars
  BY <1>1 DEF vars, TypeOK, Work
<1>2. ASSUME NEW c \in Clients, Request(c) \/ Mutation(c),
             raced' = raced \cup {t \in Threads : Crossed(t)' \/ UnsafeCopy(t)' \/ CopyOfRaced(t)}
      PROVE  TypeOK'
  <2>1. raced' \subseteq Threads
    BY <1>2, TypeParts DEF HistoryOK
  <2>2. faults \in 0..MaxFaults
    BY TypeParts
  <2> QED
    BY <1>2, <2>1, <2>2, RequestTyped, MutationTyped DEF TypeOK, CodexOK, ServiceOK,
       ClientsOK, WorkOK, Places
<1> QED
  BY <1>1, <1>2 DEF Next

\* Whatever crosses what, the service, Codex and the clients keep the shape that
\* the code gives them.
THEOREM TypeCorrect == Spec => []TypeOK
BY TypeInit, TypeKept, PTL DEF Spec

-----------------------------------------------------------------------------
(* Reservations *)

\* Where a client may hold a Session, and where it holds all of its list.
Using == {"finding", "reading", "arriving", "acting", "forked", "running"}
Owning == InMutation \ {"gated", "listing"}

\* Who may hold a Session, and what a mutation holds.
Holders ==
    \A c \in Clients, t \in Threads : held[t] = c =>
        (pc[c] \in Using /\ op[c] \in Reserving) \/ pc[c] \in Owning

Holdings == \A c \in Clients : pc[c] \in Owning => \A t \in work[c].threads : held[t] = c

\* What a step of client c does to the reservations: nothing, if it held none
\* or stays where it may hold one; it gives back what it held; it takes a free
\* Session; or it takes all of its list.
Keeps(c) ==
    /\ held' = held
    /\ pc[c] \in Using /\ op[c] \in Reserving => pc'[c] \in Using /\ op'[c] = op[c]
    /\ pc[c] \in Owning => pc'[c] \in Owning /\ work'[c].threads = work[c].threads
    /\ pc'[c] \in Owning => pc[c] \in Owning
    /\ pc'[c] \in Using /\ op'[c] \in Reserving => pc[c] \in Using /\ op[c] \in Reserving

Returns(c) == held' = Released(c) /\ pc'[c] \notin Owning \cup Using

Takes(c) ==
    /\ held[Thread(c)] = None /\ held' = [held EXCEPT ![Thread(c)] = c]
    /\ pc[c] \notin Owning \cup Using
    /\ pc'[c] = "finding" /\ op'[c] \in Reserving

TakesAll(c) ==
    /\ \A t \in work'[c].threads : held[t] = None
    /\ held' = [t \in Threads |-> IF t \in work'[c].threads THEN c ELSE held[t]]
    /\ pc[c] \notin Owning \cup Using
    /\ pc'[c] \in Owning

Others(c) ==
    \A d \in Clients \ {c} : pc'[d] = pc[d] /\ op'[d] = op[d] /\ work'[d] = work[d]

\* Every step is one of the four, and leaves the other clients where they are.
LEMMA HoldingSteps ==
    ASSUME TypeOK, NEW c \in Clients, Request(c) \/ Mutation(c)
    PROVE  (Keeps(c) \/ Returns(c) \/ Takes(c) \/ TakesAll(c)) /\ Others(c)
<1>0. ClientsOK /\ WorkOK
  BY TypeParts
<1> USE DEF Using, Owning, InMutation, Others, ClientsOK, WorkOK
<1>1. CASE Title(c) \/ StartThread(c) \/ Created(c) \/ Read(c)
  BY <1>0, <1>1 DEF Title, StartThread, Created, Read, Keeps
<1>2. ASSUME Raise(c), UNCHANGED work PROVE Returns(c) /\ Others(c)
  BY <1>0, <1>2 DEF Raise, Returns
<1>3. CASE Reserve(c)
  BY <1>0, <1>2, <1>3 DEF Reserve, Takes
<1>4. CASE Find(c)
  BY <1>0, <1>2, <1>4 DEF Find, Keeps, Reserving
<1>5. CASE Arrive(c)
  BY <1>0, <1>2, <1>5 DEF Arrive, Keeps, Returns, Reserving
<1>6. CASE CodexRaises(c)
  BY <1>2, <1>6 DEF CodexRaises
<1>7. CASE ConfirmTitle(c) \/ Unarchive(c) \/ Fork(c) \/ StartTurn(c)
  BY <1>0, <1>7 DEF ConfirmTitle, Unarchive, Fork, StartTurn, Keeps
<1>8. CASE Archive(c) \/ Deletes(c) \/ Forked(c) \/ EndTurn(c)
  BY <1>0, <1>8 DEF Archive, Deletes, Delete, Forked, EndTurn, Returns
<1>9. CASE ListThreads(c) \/ CodexLists(c) \/ Listed(c) \/ MakeDirectory(c) \/ ProjectCreated(c)
  BY <1>0, <1>9 DEF ListThreads, CodexLists, Listed, MakeDirectory, ProjectCreated, Keeps
<1>10. ASSUME NEW where \in Ended, LeaveMutation(c, where), UNCHANGED <<op, work>>
       PROVE  Returns(c) /\ Others(c)
  BY <1>0, <1>10 DEF LeaveMutation, Returns, Ended
<1>11. CASE CloseGate(c) \/ ListActive(c)
  BY <1>0, <1>11 DEF CloseGate, ListActive, Keeps
<1>12. CASE ReserveAll(c)
  <2> DEFINE stored == {t \in listed \cap archived : cwd[t] = Old(c)}
             fresh  == {t \in Threads : pending[t] = Old(c)}
             all    == work[c].threads \cup stored \cup fresh
             kept   == stored \cup {t \in fresh \ work[c].threads : t \in archived}
  <2>1. /\ \/ /\ \A t \in all : held[t] = None
              /\ held' = [t \in Threads |-> IF t \in all THEN c ELSE held[t]]
              /\ Keep(c, [work[c] EXCEPT !.threads = all, !.stored = kept])
              /\ Go(c, "reserved")
           \/ LeaveMutation(c, "refused") /\ UNCHANGED work
        /\ pc[c] = "listing" /\ UNCHANGED op
    BY <1>12 DEF ReserveAll
  <2> HIDE DEF all, kept
  <2>2. CASE LeaveMutation(c, "refused") /\ UNCHANGED work
    BY <1>10, <2>1, <2>2 DEF Ended
  <2>3. CASE /\ \A t \in all : held[t] = None
             /\ held' = [t \in Threads |-> IF t \in all THEN c ELSE held[t]]
             /\ Keep(c, [work[c] EXCEPT !.threads = all, !.stored = kept])
             /\ Go(c, "reserved")
    <3>1. work'[c].threads = all
      BY <1>0, <2>3 DEF Work
    <3> QED
      BY <1>0, <2>1, <2>3, <3>1 DEF TakesAll
  <2> QED
    BY <2>1, <2>2, <2>3
<1>13. CASE MutationRefused(c) \/ DeleteProject(c) \/ RenameDone(c) \/ RenameUndone(c)
  <2>1. (\E where \in Ended : LeaveMutation(c, where)) /\ UNCHANGED <<op, work>>
    BY <1>13 DEF MutationRefused, DeleteProject, RenameDone, RenameUndone, Ended
  <2> QED
    BY <1>10, <2>1
<1>14. CASE RenameDirectory(c) \/ CloseNewGate(c) \/ RestoreDirectory(c)
  BY <1>0, <1>14 DEF RenameDirectory, CloseNewGate, RestoreDirectory, Keeps
<1>15. CASE CheckNewName(c) \/ CheckOldName(c)
  <2>1. UNCHANGED <<op, work>>
    BY <1>15 DEF CheckNewName, CheckOldName
  <2>2. \/ \E where \in Ended : LeaveMutation(c, where)
        \/ \E where \in Owning : pc[c] \in Owning /\ Go(c, where) /\ UNCHANGED held
    BY <1>15 DEF CheckNewName, CheckOldName, Ended
  <2> QED
    BY <1>0, <1>10, <2>1, <2>2 DEF Keeps
<1>16. CASE MoveThread(c)
  <2>1. /\ pc[c] = "moving" /\ pc' \in {[pc EXCEPT ![c] = w] : w \in {"moving", "undo"}}
        /\ UNCHANGED <<held, op>>
        /\ \E t \in Threads \cup work[c].threads : Keep(c, [work[c] EXCEPT !.tried = Append(@, t)])
    BY <1>16 DEF MoveThread
  <2> QED
    BY <1>0, <2>1 DEF Keeps, Work
<1>17. CASE MoveBack(c)
  <2>1. /\ pc[c] = "returning" /\ UNCHANGED op
        /\ Keep(c, [work[c] EXCEPT !.tried = Tail(@)])
        /\ \/ Go(c, "returning") /\ UNCHANGED held
           \/ held' = Released(c) /\ Go(c, "broken")
    BY <1>17 DEF MoveBack, LeaveMutation
  <2> QED
    BY <1>0, <2>1 DEF Keeps, Returns, Work
<1> QED
  BY <1>1, <1>3, <1>4, <1>5, <1>6, <1>7, <1>8, <1>9, <1>11, <1>12, <1>13, <1>14, <1>15,
     <1>16, <1>17 DEF Request, Mutation

\* Reservations belong to requests that are under way.
LEMMA HoldersKept ==
    ASSUME TypeOK, Holders, Holdings, NEW c \in Clients, Request(c) \/ Mutation(c)
    PROVE  Holders' /\ Holdings'
<1>0. ServiceOK /\ ServiceOK' /\ WorkOK /\ WorkOK' /\ ClientsOK /\ ClientsOK' /\ None \notin Clients
  BY TypeParts, RequestTyped, MutationTyped, Parameters DEF Parameters
<1>j. job[c].thread \in Threads
  BY <1>0, JobTyped
<1>1. Others(c) /\ Others(c)
  BY HoldingSteps
<1> DEFINE May(d, p, o) == (p \in Using /\ o \in Reserving) \/ p \in Owning
<1>t. held \in [Threads -> Clients \cup {None}] /\ \A d \in Clients : work[d].threads \subseteq Threads
  BY <1>0 DEF ServiceOK, WorkOK, Work
<1>w. \A d \in Clients : work'[d].threads \subseteq Threads
  BY <1>0 DEF WorkOK, Work
<1>d. Using \cap Owning = {}
  BY DEF Using, Owning, InMutation
<1>h. /\ \A d \in Clients, t \in Threads : held[t] = d => May(d, pc[d], op[d])
      /\ \A d \in Clients : pc[d] \in Owning => \A t \in work[d].threads : held[t] = d
  BY DEF Holders, Holdings
<1>o. \A d \in Clients \ {c} : pc'[d] = pc[d] /\ op'[d] = op[d] /\ work'[d] = work[d]
  BY <1>1 DEF Others
<1>g. SUFFICES /\ \A d \in Clients, t \in Threads : held'[t] = d => May(d, pc'[d], op'[d])
               /\ \A d \in Clients : pc'[d] \in Owning => \A t \in work'[d].threads : held'[t] = d
  BY DEF Holders, Holdings
<1>2. CASE Keeps(c)
  <2>1. held' = held
    BY <1>2 DEF Keeps
  <2>2. May(c, pc[c], op[c]) => May(c, pc'[c], op'[c])
    BY <1>2 DEF Keeps
  <2>3. pc'[c] \in Owning => pc[c] \in Owning /\ work'[c].threads = work[c].threads
    BY <1>2 DEF Keeps
  <2> HIDE DEF May
  <2>4. ASSUME NEW d \in Clients, NEW t \in Threads, held'[t] = d PROVE May(d, pc'[d], op'[d])
    BY <1>h, <1>o, <2>1, <2>2, <2>4
  <2>5. ASSUME NEW d \in Clients, pc'[d] \in Owning, NEW t \in work'[d].threads PROVE held'[t] = d
    BY <1>h, <1>o, <2>1, <2>3, <2>5
  <2> QED
    BY <2>4, <2>5
<1>3. CASE Returns(c)
  <2>1. \A t \in Threads : held'[t] = IF held[t] = c THEN None ELSE held[t]
    BY <1>3 DEF Returns, Released
  <2>2. pc'[c] \notin Owning
    BY <1>3 DEF Returns
  <2> HIDE DEF May
  <2>3. ASSUME NEW d \in Clients, NEW t \in Threads, held'[t] = d PROVE May(d, pc'[d], op'[d])
    BY <1>0, <1>h, <1>o, <2>1, <2>3
  <2>4. ASSUME NEW d \in Clients, pc'[d] \in Owning, NEW t \in work'[d].threads PROVE held'[t] = d
    BY <1>h, <1>o, <1>t, <2>1, <2>2, <2>4
  <2> QED
    BY <2>3, <2>4
<1>4. CASE Takes(c)
  <2>1. \A t \in Threads : held'[t] = IF t = Thread(c) THEN c ELSE held[t]
    BY <1>t, <1>4 DEF Takes
  <2>2. /\ held[Thread(c)] = None /\ Thread(c) \in Threads
        /\ pc'[c] \in Using /\ op'[c] \in Reserving /\ pc'[c] \notin Owning
    BY <1>j, <1>4 DEF Takes, Using, Owning, InMutation, Thread
  <2>3. May(c, pc'[c], op'[c])
    BY <2>2
  <2> HIDE DEF May
  <2>4. ASSUME NEW d \in Clients, NEW t \in Threads, held'[t] = d PROVE May(d, pc'[d], op'[d])
    BY <1>h, <1>o, <2>1, <2>3, <2>4, <1>4 DEF Takes, May
  <2>5. ASSUME NEW d \in Clients, pc'[d] \in Owning, NEW t \in work'[d].threads PROVE held'[t] = d
    BY <1>0, <1>h, <1>o, <1>t, <2>1, <2>2, <2>5
  <2> QED
    BY <2>4, <2>5
<1>5. CASE TakesAll(c)
  <2>1. \A t \in Threads : held'[t] = IF t \in work'[c].threads THEN c ELSE held[t]
    BY <1>5 DEF TakesAll
  <2>2. (\A t \in work'[c].threads : held[t] = None) /\ pc'[c] \in Owning
    BY <1>5 DEF TakesAll
  <2>3. May(c, pc'[c], op'[c])
    BY <2>2
  <2> HIDE DEF May
  <2>4. ASSUME NEW d \in Clients, NEW t \in Threads, held'[t] = d PROVE May(d, pc'[d], op'[d])
    BY <1>h, <1>o, <2>1, <2>3, <2>4
  <2>5. ASSUME NEW d \in Clients, pc'[d] \in Owning, NEW t \in work'[d].threads PROVE held'[t] = d
    BY <1>0, <1>h, <1>o, <1>t, <1>w, <2>1, <2>2, <2>5
  <2> QED
    BY <2>4, <2>5
<1> QED
  BY <1>2, <1>3, <1>4, <1>5, HoldingSteps

-----------------------------------------------------------------------------
(* Gates *)

\* Where a rename has closed the gate of the new name, and where its kind is known.
Moving == {"moving", "undo", "undo checked", "returning"}
Renaming == Moving \cup {"checked", "renamed"}

\* Only a rename goes where renames go.
Renames == \A c \in Clients : pc[c] \in Renaming => op[c] = "rename project"

\* A gate is closed by a mutation of its Project, or by a rename to it.
Gates ==
    \A n \in mutating : \E c \in Clients :
        (pc[c] \in InMutation /\ n = Old(c)) \/ (pc[c] \in Moving /\ n = New(c))

\* What a step of client c does to the gates: nothing, while it stays on its side
\* of them; it closes one; or it opens what it closed.
Passes(c) ==
    /\ mutating' = mutating
    /\ pc[c] \in InMutation => pc'[c] \in InMutation
    /\ pc[c] \in Moving => pc'[c] \in Moving
    /\ pc'[c] \in Renaming => op'[c] = "rename project"

Closes(c) ==
    /\ pc[c] \in {"start", "renamed"}
    /\ IF pc[c] = "start"
       THEN mutating' = mutating \cup {Old(c)} /\ pc'[c] = "gated"
       ELSE mutating' = mutating \cup {New(c)} /\ pc'[c] = "moving"
    /\ pc'[c] \in Renaming => op'[c] = "rename project"

Opens(c) ==
    /\ mutating' \subseteq mutating \ {Old(c)}
    /\ pc[c] \in Moving => New(c) \notin mutating'
    /\ pc'[c] \notin InMutation
    /\ pc[c] \in InMutation
    /\ \A n \in mutating :
           n \in mutating' \cup {Old(c)} \/ (op[c] = "rename project" /\ n = New(c))

\* A request passes the gates, a mutation passes, closes or opens them.
LEMMA RequestPasses ==
    ASSUME ClientsOK, NEW c \in Clients, Request(c)
    PROVE  Passes(c) /\ job' = job
<1> USE DEF ClientsOK, InMutation, Moving, Renaming, Passes
<1>1. CASE Title(c) \/ StartThread(c) \/ Created(c) \/ Read(c)
  BY <1>1 DEF Title, StartThread, Created, Read
<1>2. ASSUME Raise(c), UNCHANGED <<mutating, job>>, pc[c] \notin InMutation
      PROVE  Passes(c) /\ job' = job
  BY <1>2 DEF Raise
<1>3. CASE Reserve(c) \/ Find(c) \/ Arrive(c)
  BY <1>2, <1>3 DEF Reserve, Find, Arrive
<1>4. CASE CodexRaises(c)
  BY <1>2, <1>4 DEF CodexRaises
<1>5. CASE ConfirmTitle(c) \/ Unarchive(c) \/ Fork(c) \/ StartTurn(c)
  BY <1>5 DEF ConfirmTitle, Unarchive, Fork, StartTurn
<1>6. CASE Archive(c) \/ Deletes(c) \/ Forked(c) \/ EndTurn(c)
  BY <1>6 DEF Archive, Deletes, Delete, Forked, EndTurn
<1>7. CASE ListThreads(c) \/ CodexLists(c) \/ Listed(c) \/ MakeDirectory(c) \/ ProjectCreated(c)
  BY <1>7 DEF ListThreads, CodexLists, Listed, MakeDirectory, ProjectCreated
<1> QED
  BY <1>1, <1>3, <1>4, <1>5, <1>6, <1>7 DEF Request

LEMMA LeaveOpens ==
    ASSUME ClientsOK, Renames, NEW c \in Clients, NEW where \in Ended, LeaveMutation(c, where),
           pc[c] \in InMutation, pc[c] \in Moving => where # "refused"
    PROVE  Opens(c)
<1>1. pc'[c] = where /\ where \notin InMutation
  BY DEF LeaveMutation, ClientsOK, Ended, InMutation
<1>2. pc[c] \in Moving => op[c] = "rename project"
  BY DEF Renames, Renaming
<1> QED
  BY <1>1, <1>2 DEF LeaveMutation, Opens

LEMMA MutationGates ==
    ASSUME ClientsOK, Renames, NEW c \in Clients, Mutation(c)
    PROVE  (Passes(c) \/ Closes(c) \/ Opens(c)) /\ job' = job
<1> USE DEF ClientsOK, InMutation, Moving, Renaming
<1>r. pc[c] \in Renaming => op[c] = "rename project"
  BY DEF Renames
<1>1. CASE CloseGate(c)
  BY <1>1 DEF CloseGate, Closes, Passes
<1>2. CASE ListActive(c)
  BY <1>2 DEF ListActive, Passes
<1>3. CASE ReserveAll(c)
  <2>1. /\ (Go(c, "reserved") /\ UNCHANGED mutating) \/ LeaveMutation(c, "refused")
        /\ pc[c] = "listing" /\ UNCHANGED <<job, op>>
    BY <1>3 DEF ReserveAll
  <2> QED
    BY <2>1, LeaveOpens DEF Passes, Ended
<1>4. CASE MutationRefused(c) \/ DeleteProject(c) \/ RenameDone(c) \/ RenameUndone(c)
  <2>1. /\ \/ LeaveMutation(c, "refused") /\ pc[c] \notin Moving
           \/ LeaveMutation(c, "done") \/ LeaveMutation(c, "failed")
        /\ pc[c] \in InMutation /\ UNCHANGED job
    BY <1>4 DEF MutationRefused, DeleteProject, RenameDone, RenameUndone
  <2> QED
    BY <2>1, LeaveOpens DEF Ended
<1>5. CASE RenameDirectory(c) \/ RestoreDirectory(c)
  BY <1>5, <1>r DEF RenameDirectory, RestoreDirectory, Passes
<1>6. CASE CloseNewGate(c)
  BY <1>6, <1>r DEF CloseNewGate, Closes
<1>7. CASE CheckNewName(c)
  <2>1. /\ (Go(c, "checked") /\ UNCHANGED mutating) \/ LeaveMutation(c, "refused")
        /\ pc[c] = "reserved" /\ op[c] = "rename project" /\ UNCHANGED <<job, op>>
    BY <1>7 DEF CheckNewName
  <2> QED
    BY <2>1, LeaveOpens DEF Passes, Ended
<1>8. CASE CheckOldName(c)
  <2>1. /\ (Go(c, "undo checked") /\ UNCHANGED mutating) \/ LeaveMutation(c, "broken")
        /\ pc[c] = "undo" /\ UNCHANGED <<job, op>>
    BY <1>8 DEF CheckOldName
  <2> QED
    BY <2>1, <1>r, LeaveOpens DEF Passes, Ended
<1>9. CASE MoveThread(c)
  <2>1. /\ pc[c] = "moving" /\ pc' \in {[pc EXCEPT ![c] = w] : w \in {"moving", "undo"}}
        /\ UNCHANGED <<mutating, job, op>>
    BY <1>9 DEF MoveThread
  <2> QED
    BY <2>1, <1>r DEF Passes
<1>10. CASE MoveBack(c)
  <2>1. /\ (Go(c, "returning") /\ UNCHANGED mutating) \/ LeaveMutation(c, "broken")
        /\ pc[c] = "returning" /\ UNCHANGED <<job, op>>
    BY <1>10 DEF MoveBack
  <2> QED
    BY <2>1, <1>r, LeaveOpens DEF Passes, Ended
<1> QED
  BY <1>1, <1>2, <1>3, <1>4, <1>5, <1>6, <1>7, <1>8, <1>9, <1>10 DEF Mutation

\* A closed gate belongs to a mutation that is under way.
LEMMA GatesKept ==
    ASSUME TypeOK, Renames, Gates, NEW c \in Clients, Request(c) \/ Mutation(c)
    PROVE  Renames' /\ Gates'
<1>1. (Passes(c) \/ Closes(c) \/ Opens(c)) /\ job' = job
  BY RequestPasses, MutationGates, TypeParts
<1>2. \A d \in Clients \ {c} : pc'[d] = pc[d] /\ op'[d] = op[d]
  BY HoldingSteps DEF Others
<1>3. Renames'
  <2>1. pc'[c] \in Renaming => op'[c] = "rename project"
    BY <1>1 DEF Passes, Closes, Opens, Renaming, Moving, InMutation
  <2> QED
    BY <1>2, <2>1 DEF Renames
<1>4. SUFFICES ASSUME NEW n \in mutating'
               PROVE  \E d \in Clients : \/ pc'[d] \in InMutation /\ n = Old(d)
                                         \/ pc'[d] \in Moving /\ n = New(d)
  BY <1>1, <1>3 DEF Gates
<1>5. CASE n \in mutating
  <2>1. PICK d \in Clients : (pc[d] \in InMutation /\ n = Old(d)) \/ (pc[d] \in Moving /\ n = New(d))
    BY <1>5 DEF Gates
  <2>2. CASE d # c
    BY <1>2, <2>1, <2>2
  <2>3. CASE d = c
    BY <1>1, <2>1, <2>3 DEF Passes, Closes, Opens, InMutation, Moving
  <2> QED
    BY <2>2, <2>3
<1>6. CASE n \notin mutating
  BY <1>1, <1>6 DEF Passes, Closes, Opens, InMutation, Moving
<1> QED
  BY <1>5, <1>6

-----------------------------------------------------------------------------

\* HeldByRequests needs all four parts: who may hold a Session, what a mutation
\* holds, and which gate belongs to whom.
Tidy == Holders /\ Holdings /\ Renames /\ Gates

\* The four parts together.
LEMMA TidyInit == Init => Tidy
<1> SUFFICES ASSUME Init PROVE Tidy
  OBVIOUS
<1>1. None \notin Clients
  BY Parameters DEF Parameters
<1>2. /\ \A t \in Threads : held[t] = None
      /\ \A c \in Clients : pc[c] = "start"
      /\ mutating = {}
  BY DEF Init
<1> QED
  BY <1>1, <1>2 DEF Tidy, Holders, Holdings, Renames, Gates, Owning, Renaming, Moving, InMutation

LEMMA TidyKept == TypeOK /\ Tidy /\ [Next]_vars => Tidy'
<1> SUFFICES ASSUME TypeOK, Tidy, [Next]_vars PROVE Tidy'
  OBVIOUS
<1>1. ASSUME NEW c \in Clients, Request(c) \/ Mutation(c) PROVE Tidy'
  BY <1>1, HoldersKept, GatesKept DEF Tidy
<1>2. CASE UNCHANGED vars
  BY <1>2 DEF vars, Tidy, Holders, Holdings, Renames, Gates
<1> QED
  BY <1>1, <1>2 DEF Next

\* Whatever way a request ends, and whatever it crosses, it leaves nothing behind:
\* every reservation and every closed gate belongs to a request under way, and a
\* mutation that moves or deletes holds all of its Sessions.
THEOREM NothingStaysHeld == Spec => []HeldByRequests
<1>1. TypeOK /\ Tidy => HeldByRequests
  <2> SUFFICES ASSUME TypeOK, Tidy PROVE HeldByRequests
    OBVIOUS
  <2>1. ASSUME NEW t \in Threads, held[t] # None PROVE pc[held[t]] \in Started \cup InMutation
    <3>1. held[t] \in Clients
      BY <2>1, TypeParts DEF ServiceOK
    <3> QED
      BY <3>1 DEF Tidy, Holders, Using, Owning, Started
  <2>2. ASSUME NEW n \in mutating
        PROVE \E c \in Clients : pc[c] \in InMutation /\ n \in {Old(c), New(c)}
    BY DEF Tidy, Gates, Moving, InMutation
  <2>3. \A c \in Clients : pc[c] \in InMutation \ {"gated", "listing"} =>
            \A t \in work[c].threads : held[t] = c
    BY DEF Tidy, Holdings, Owning
  <2> QED
    BY <2>1, <2>2, <2>3 DEF HeldByRequests
<1> QED
  BY <1>1, TidyInit, TidyKept, TypeInit, TypeKept, PTL DEF Spec

-----------------------------------------------------------------------------
(* What a client does where *)

\* The request of a client, the part of it that it is at, and its place in it
\* fit together.
PartOf(o, r, p) ==
    IF r = "prompt" THEN o \in {"new", "turn", "delete"} /\ (p = "start" => o = "new")
                    ELSE o = r

\* The places of each operation.
PlaceIn(p, o) ==
    /\ p \in InMutation => o \in Mutating
    /\ p \in Renaming \cup {"broken"} => o = "rename project"
    /\ p \in {"finding", "acting"} => o \in Reserving
    /\ p \in {"reading", "arriving"} => o \in Reserving \cup {"read", "title"}
    /\ p \in {"renamed title", "confirming"} => o = "title"
    /\ p = "running" => o = "turn"
    /\ p = "forked" => o = "fork"
    /\ p \in {"titling", "created"} => o = "new"
    /\ p = "asking" \/ p = "answered" => o = "list"

Fits ==
    \A c \in Clients :
        job[c] \in Jobs[c] /\ PartOf(op[c], job[c].op, pc[c]) /\ PlaceIn(pc[c], op[c])

\* A client keeps its request.
LEMMA JobsStay ==
    ASSUME NEW c \in Clients, Request(c) \/ Mutation(c)
    PROVE  job' = job
BY DEF Request, Title, StartThread, Created, Reserve, Find, Read, Arrive, ConfirmTitle, Archive,
   Unarchive, Deletes, Delete, Fork, Forked, StartTurn, EndTurn, CodexRaises, ListThreads,
   CodexLists, Listed, MakeDirectory, ProjectCreated, Mutation, CloseGate, ListActive, ReserveAll,
   MutationRefused, DeleteProject, CheckNewName, RenameDirectory, CloseNewGate, MoveThread,
   RenameDone, CheckOldName, RestoreDirectory, MoveBack, RenameUndone

\* At first each client is at the start of its request.
LEMMA FitsInit == Init => Fits
<1> SUFFICES ASSUME Init, NEW c \in Clients
             PROVE  job[c] \in Jobs[c] /\ PartOf(op[c], job[c].op, pc[c]) /\ PlaceIn(pc[c], op[c])
  BY DEF Fits
<1>1. job[c] \in Jobs[c] /\ pc[c] = "start"
  BY DEF Init
<1>2. op[c] = IF job[c].op = "prompt" THEN "new" ELSE job[c].op
  BY DEF Init
<1> QED
  BY <1>1, <1>2 DEF PartOf, PlaceIn, InMutation, Renaming, Moving

\* A step of client c leaves it at an end, or moves it to one of the places that
\* follow in the same part, or has a prompt take its next part.
LEMMA FitsStep ==
    ASSUME TypeOK, Fits, NEW c \in Clients, Request(c) \/ Mutation(c)
    PROVE  PartOf(op'[c], job[c].op, pc'[c]) /\ PlaceIn(pc'[c], op'[c])
<1>0. ClientsOK /\ PartOf(op[c], job[c].op, pc[c]) /\ PlaceIn(pc[c], op[c])
  BY TypeParts DEF Fits
<1> USE <1>0 DEF ClientsOK, PlaceIn, PartOf, InMutation, Renaming, Moving, Ended
<1>1. CASE Title(c) \/ StartThread(c) \/ Created(c)
  BY <1>1 DEF Title, StartThread, Created
<1>2. ASSUME Raise(c) PROVE PartOf(op'[c], job[c].op, pc'[c]) /\ PlaceIn(pc'[c], op'[c])
  BY <1>2 DEF Raise
<1>3. CASE Reserve(c)
  BY <1>2, <1>3 DEF Reserve
<1>4. CASE Find(c)
  BY <1>2, <1>4 DEF Find, Reserving
<1>5. CASE Read(c)
  <2>1. op[c] # "title" => pc[c] # "renamed title"
    OBVIOUS
  <2> QED
    BY <1>5, <2>1 DEF Read
<1>6. CASE Arrive(c)
  BY <1>2, <1>6 DEF Arrive, Reserving
<1>7. CASE ConfirmTitle(c) \/ Archive(c) \/ Unarchive(c) \/ Deletes(c)
  <2>1. CASE ConfirmTitle(c)
    BY <2>1 DEF ConfirmTitle
  <2>2. CASE Archive(c)
    BY <2>2 DEF Archive
  <2>3. CASE Unarchive(c)
    BY <2>3 DEF Unarchive, Reserving
  <2>4. CASE Deletes(c)
    <3>1. PICK effect, raises, verified \in BOOLEAN : Delete(c, effect, raises, verified)
      BY <2>4 DEF Deletes
    <3>2. pc[c] = "acting" /\ op' = op /\ pc' \in {[pc EXCEPT ![c] = w] : w \in {"done", "refused"}}
      BY <3>1 DEF Delete
    <3> QED
      BY <3>2
  <2> QED
    BY <1>7, <2>1, <2>2, <2>3, <2>4
<1>8. CASE Fork(c) \/ Forked(c) \/ StartTurn(c) \/ EndTurn(c)
  BY <1>8 DEF Fork, Forked, StartTurn, EndTurn
<1>9. CASE CodexRaises(c)
  BY <1>2, <1>9 DEF CodexRaises
<1>10. CASE ListThreads(c) \/ CodexLists(c) \/ Listed(c) \/ MakeDirectory(c) \/ ProjectCreated(c)
  BY <1>10 DEF ListThreads, CodexLists, Listed, MakeDirectory, ProjectCreated
<1>11. CASE CloseGate(c) \/ ListActive(c)
  BY <1>11 DEF CloseGate, ListActive
<1>12. CASE ReserveAll(c) \/ MutationRefused(c) \/ DeleteProject(c)
  BY <1>12 DEF ReserveAll, MutationRefused, DeleteProject, LeaveMutation
<1>13. CASE CheckNewName(c) \/ RenameDirectory(c) \/ CloseNewGate(c) \/ RestoreDirectory(c)
  BY <1>13 DEF CheckNewName, RenameDirectory, CloseNewGate, RestoreDirectory, LeaveMutation
<1>14. CASE RenameDone(c) \/ CheckOldName(c) \/ RenameUndone(c)
  BY <1>14 DEF RenameDone, CheckOldName, RenameUndone, LeaveMutation
<1>15. CASE MoveThread(c)
  <2>1. /\ pc' \in {[pc EXCEPT ![c] = w] : w \in {"moving", "undo"}} /\ op' = op /\ pc[c] = "moving"
    BY <1>15 DEF MoveThread
  <2> QED
    BY <2>1
<1>16. CASE MoveBack(c)
  <2>1. /\ pc' \in {[pc EXCEPT ![c] = w] : w \in {"returning", "broken"}} /\ op' = op
        /\ pc[c] = "returning"
    BY <1>16 DEF MoveBack, LeaveMutation
  <2> QED
    BY <2>1
<1> QED
  BY <1>1, <1>3, <1>4, <1>5, <1>6, <1>7, <1>8, <1>9, <1>10, <1>11, <1>12, <1>13, <1>14, <1>15,
     <1>16 DEF Request, Mutation

\* Requests, parts and places fit together.
LEMMA FitsKept ==
    ASSUME TypeOK, Fits, NEW c \in Clients, Request(c) \/ Mutation(c)
    PROVE  Fits'
<1>1. Others(c) /\ job' = job
  BY HoldingSteps, JobsStay
<1>2. PartOf(op'[c], job[c].op, pc'[c]) /\ PlaceIn(pc'[c], op'[c])
  BY FitsStep
<1>3. ASSUME NEW d \in Clients
      PROVE  job'[d] \in Jobs[d] /\ PartOf(op'[d], job'[d].op, pc'[d]) /\ PlaceIn(pc'[d], op'[d])
  <2>1. job[d] \in Jobs[d] /\ PartOf(op[d], job[d].op, pc[d]) /\ PlaceIn(pc[d], op[d])
    BY DEF Fits
  <2>2. CASE d = c
    BY <1>1, <1>2, <2>1, <2>2
  <2>3. CASE d # c
    BY <1>1, <2>1, <2>3 DEF Others
  <2> QED
    BY <2>2, <2>3
<1> QED
  BY <1>3 DEF Fits

\* An operation past its reservation holds its Session.
Reserved == \A c \in Clients : op[c] \in Reserving /\ pc[c] \in Using => held[Thread(c)] = c

\* An operation keeps its reservation until its end.
LEMMA ReservedKept ==
    ASSUME TypeOK, Reserved, NEW c \in Clients, Request(c) \/ Mutation(c)
    PROVE  Reserved'
<1>0. ServiceOK /\ ClientsOK /\ job' = job /\ None \notin Clients
  BY TypeParts, JobsStay, Parameters DEF Parameters
<1>1. (Keeps(c) \/ Returns(c) \/ Takes(c) \/ TakesAll(c)) /\ Others(c)
  BY HoldingSteps
<1> SUFFICES ASSUME NEW d \in Clients, op'[d] \in Reserving, pc'[d] \in Using
             PROVE  held'[Thread(d)] = d
  BY <1>0 DEF Reserved
<1>2. Thread(d) \in Threads /\ Thread(c) \in Threads
  BY <1>0, JobTyped
<1>3. d # c => held[Thread(d)] = d
  BY <1>1 DEF Others, Reserved
<1>4. CASE Keeps(c)
  BY <1>3, <1>4 DEF Keeps, Reserved
<1>5. CASE Returns(c)
  BY <1>2, <1>3, <1>5 DEF Returns, Released
<1>6. CASE Takes(c)
  BY <1>0, <1>2, <1>3, <1>6 DEF Takes, ServiceOK
<1>7. CASE TakesAll(c)
  <2>1. pc'[c] \notin Using
    BY <1>7 DEF TakesAll, Owning, Using, InMutation
  <2>2. \A t \in Threads : held[t] # None => held'[t] = held[t]
    BY <1>7 DEF TakesAll
  <2> QED
    BY <1>0, <1>2, <1>3, <2>1, <2>2
<1> QED
  BY <1>1, <1>4, <1>5, <1>6, <1>7

-----------------------------------------------------------------------------
(* Directories *)

\* Where the directory of a rename is at the new name, and where its Sessions are
\* on the way.
AtNew == {"renamed", "moving", "undo", "undo checked"}
Away == AtNew \cup {"returning"}

\* Where the directory of a mutation is.
Site(c) == IF pc[c] \in AtNew THEN New(c) ELSE Old(c)

\* A mutation keeps the gate of its Project closed and finds its directory where
\* it left it.
Grounded(c) ==
    pc[c] \in InMutation =>
        /\ Old(c) \in mutating
        /\ Found(Site(c))
        /\ pc[c] \in Renaming => Old(c) # New(c)

\* No two mutations are of one Project, and no two renames have one new name,
\* from the check of that name until its directory has gone back.
Disjoint(c, d) ==
    pc[c] \in InMutation /\ pc[d] \in InMutation =>
        /\ Old(c) # Old(d)
        /\ pc[c] \in AtNew \cup {"checked"} /\ pc[d] \in AtNew \cup {"checked"} => New(c) # New(d)

\* Where the directories of mutations are.
Turf ==
    /\ \A c \in Clients : Grounded(c)
    /\ \A c \in Clients : \A d \in Clients \ {c} : Disjoint(c, d)

\* What a step does to the directories.
Mkdir(c) ==
    /\ op[c] = "create project" /\ pc[c] = "start" /\ pc'[c] = "made"
    /\ dirs[Old(c)] = None /\ dirs' = [dirs EXCEPT ![Old(c)] = c]

Rmtree(c) ==
    /\ pc[c] = "reserved" /\ pc'[c] = "done" /\ Found(Old(c))
    /\ dirs' = [dirs EXCEPT ![Old(c)] = None]

Moves(c) ==
    /\ pc[c] = "checked" /\ pc'[c] = "renamed"
    /\ dirs' = [dirs EXCEPT ![Old(c)] = None, ![New(c)] = dirs[Old(c)]]

Returned(c) ==
    /\ pc[c] = "undo checked" /\ pc'[c] = "returning"
    /\ dirs' = [dirs EXCEPT ![New(c)] = None, ![Old(c)] = dirs[New(c)]]

\* A request that is no mutation stays out of the places of one.
LEMMA RequestPlaces ==
    ASSUME TypeOK, NEW c \in Clients, Request(c)
    PROVE  pc[c] \notin InMutation \cup Ended /\ pc'[c] \notin InMutation \cup {"broken"}
<1>0. ClientsOK
  BY TypeParts
<1> USE <1>0 DEF ClientsOK, InMutation, Ended
<1>1. CASE Title(c) \/ StartThread(c) \/ Created(c) \/ Read(c)
  BY <1>1 DEF Title, StartThread, Created, Read
<1>2. ASSUME Raise(c) PROVE pc'[c] \in {"reserving", "refused"}
  BY <1>2 DEF Raise
<1>3. CASE Reserve(c)
  BY <1>2, <1>3 DEF Reserve
<1>4. CASE Find(c)
  BY <1>2, <1>4 DEF Find
<1>5. CASE Arrive(c)
  BY <1>2, <1>5 DEF Arrive
<1>6. CASE CodexRaises(c)
  BY <1>2, <1>6 DEF CodexRaises
<1>7. CASE ConfirmTitle(c) \/ Archive(c) \/ Unarchive(c) \/ Deletes(c)
  BY <1>7 DEF ConfirmTitle, Archive, Unarchive, Deletes, Delete
<1>8. CASE Fork(c) \/ Forked(c) \/ StartTurn(c) \/ EndTurn(c)
  BY <1>8 DEF Fork, Forked, StartTurn, EndTurn
<1>9. CASE ListThreads(c) \/ CodexLists(c) \/ Listed(c) \/ MakeDirectory(c) \/ ProjectCreated(c)
  BY <1>9 DEF ListThreads, CodexLists, Listed, MakeDirectory, ProjectCreated
<1> QED
  BY <1>1, <1>3, <1>4, <1>5, <1>6, <1>7, <1>8, <1>9 DEF Request

\* Only these steps change a directory.  The others may take a mutation from
\* its gate to its list, its check or its way back, but not past a directory.
LEMMA DirectorySteps ==
    ASSUME TypeOK, Fits, NEW c \in Clients, Request(c) \/ Mutation(c)
    PROVE  \/ Mkdir(c) \/ Rmtree(c) \/ Moves(c) \/ Returned(c)
           \/ /\ dirs' = dirs
              /\ pc'[c] \in InMutation /\ pc[c] \in InMutation =>
                     (pc'[c] \in AtNew <=> pc[c] \in AtNew)
<1>0. ClientsOK /\ PlaceIn(pc[c], op[c])
  BY TypeParts DEF Fits
<1>f. \A p \in InMutation : p \notin Ended
  BY DEF InMutation, Ended
<1> USE <1>0 DEF ClientsOK, InMutation, AtNew
<1>1. ASSUME Request(c), ~MakeDirectory(c) PROVE dirs' = dirs
  BY <1>1 DEF Request, Title, StartThread, Created, Reserve, Find, Read, Arrive, ConfirmTitle,
     Archive, Unarchive, Deletes, Delete, Fork, Forked, StartTurn, EndTurn, CodexRaises,
     ListThreads, CodexLists, Listed, ProjectCreated
<1>2. Request(c) => pc'[c] \notin InMutation
  BY RequestPlaces
<1>3. CASE MakeDirectory(c)
  BY <1>3 DEF MakeDirectory, Mkdir
<1>4. CASE DeleteProject(c)
  BY <1>4 DEF DeleteProject, LeaveMutation, Rmtree
<1>5. CASE RenameDirectory(c) \/ RestoreDirectory(c)
  BY <1>5 DEF RenameDirectory, RestoreDirectory, Moves, Returned
<1>6. CASE CloseGate(c) \/ ListActive(c) \/ MutationRefused(c) \/ CheckNewName(c)
  BY <1>6 DEF CloseGate, ListActive, MutationRefused, CheckNewName, LeaveMutation
<1>7. CASE ReserveAll(c)
  <2>1. dirs' = dirs /\ pc[c] = "listing" /\ pc' \in {[pc EXCEPT ![c] = w] : w \in {"reserved", "refused"}}
    BY <1>7 DEF ReserveAll, LeaveMutation
  <2> QED
    BY <2>1
<1>8. CASE CloseNewGate(c) \/ RenameDone(c) \/ CheckOldName(c) \/ RenameUndone(c)
  BY <1>8 DEF CloseNewGate, RenameDone, CheckOldName, RenameUndone, LeaveMutation
<1>9. CASE MoveThread(c)
  <2>1. dirs' = dirs /\ pc[c] = "moving" /\ pc' \in {[pc EXCEPT ![c] = w] : w \in {"moving", "undo"}}
    BY <1>9 DEF MoveThread
  <2> QED
    BY <2>1
<1>10. CASE MoveBack(c)
  <2>1. /\ dirs' = dirs /\ pc[c] = "returning"
        /\ pc' \in {[pc EXCEPT ![c] = w] : w \in {"returning", "broken"}}
    BY <1>10 DEF MoveBack, LeaveMutation
  <2> QED
    BY <2>1
<1> QED
  BY <1>1, <1>2, <1>3, <1>4, <1>5, <1>6, <1>7, <1>8, <1>9, <1>10 DEF Mutation

\* A mutation begins with its gate, and names its new Project once it has checked
\* that there is none of that name.
LEMMA MutationEnters ==
    ASSUME TypeOK, NEW c \in Clients, Mutation(c)
    PROVE  /\ pc'[c] \in InMutation => pc[c] \in InMutation \/ CloseGate(c)
           /\ pc'[c] \in AtNew \cup {"checked"} =>
                  pc[c] \in AtNew \cup {"checked"} \/ CheckNewName(c)
           /\ pc'[c] \in Renaming => pc[c] \in Renaming \/ CheckNewName(c)
           /\ CloseGate(c) => pc[c] = "start" /\ pc'[c] \in {"gated", "refused"}
<1>0. ClientsOK
  BY TypeParts
<1> USE <1>0 DEF ClientsOK, InMutation, AtNew, Renaming, Moving
<1>1. CASE CloseGate(c)
  BY <1>1 DEF CloseGate
<1>2. CASE ListActive(c) \/ MutationRefused(c) \/ CheckNewName(c)
  BY <1>2 DEF ListActive, MutationRefused, CheckNewName, LeaveMutation, CloseGate
<1>3. CASE ReserveAll(c)
  <2>1. pc[c] = "listing" /\ pc' \in {[pc EXCEPT ![c] = w] : w \in {"reserved", "refused"}}
    BY <1>3 DEF ReserveAll, LeaveMutation
  <2> QED
    BY <2>1 DEF CloseGate
<1>4. CASE DeleteProject(c) \/ RenameDirectory(c) \/ RestoreDirectory(c)
  BY <1>4 DEF DeleteProject, RenameDirectory, RestoreDirectory, LeaveMutation, CloseGate
<1>5. CASE CloseNewGate(c) \/ RenameDone(c) \/ CheckOldName(c) \/ RenameUndone(c)
  BY <1>5 DEF CloseNewGate, RenameDone, CheckOldName, RenameUndone, LeaveMutation, CloseGate
<1>6. CASE MoveThread(c)
  <2>1. pc[c] = "moving" /\ pc' \in {[pc EXCEPT ![c] = w] : w \in {"moving", "undo"}}
    BY <1>6 DEF MoveThread
  <2> QED
    BY <2>1 DEF CloseGate
<1>7. CASE MoveBack(c)
  <2>1. pc[c] = "returning" /\ pc' \in {[pc EXCEPT ![c] = w] : w \in {"returning", "broken"}}
    BY <1>7 DEF MoveBack, LeaveMutation
  <2> QED
    BY <2>1 DEF CloseGate
<1> QED
  BY <1>1, <1>2, <1>3, <1>4, <1>5, <1>6, <1>7 DEF Mutation

\* A mutation finds its own directory where it left it.
LEMMA GroundedSelf ==
    ASSUME TypeOK, Fits, Renames, Turf, NEW c \in Clients, Request(c) \/ Mutation(c)
    PROVE  Grounded(c)'
<1>0. /\ CodexOK /\ ClientsOK /\ job' = job /\ job[c].name \in Names /\ job[c].to \in Names
      /\ Grounded(c)
  BY TypeParts, JobsStay, JobTyped DEF Turf
<1>1. SUFFICES ASSUME pc'[c] \in InMutation PROVE Grounded(c)'
  BY DEF Grounded
<1>2. Mutation(c)
  BY <1>1, RequestPlaces
<1>3. CASE CloseGate(c)
  BY <1>0, <1>1, <1>3 DEF CloseGate, Open, Found, Grounded, Site, ClientsOK, AtNew, Renaming, Moving,
     InMutation
<1>4. CASE pc[c] \in InMutation
  <2>1. Old(c) \in mutating'
    BY <1>0, <1>1, <1>2, <1>4, MutationGates DEF Grounded, Passes, Closes, Opens
  <2>2. pc'[c] \in Renaming => Old(c) # New(c)
    <3>1. pc'[c] \in Renaming => pc[c] \in Renaming \/ CheckNewName(c)
      BY <1>2, MutationEnters
    <3> QED
      BY <1>0, <1>4, <3>1 DEF CheckNewName, LeaveMutation, Grounded, ClientsOK, Renaming, Moving
  <2>3. dirs'[Site(c)'] # None
    <3>1. CASE dirs' = dirs /\ (pc'[c] \in AtNew <=> pc[c] \in AtNew)
      BY <1>0, <1>4, <3>1 DEF Grounded, Site, Found
    <3>2. CASE Moves(c)
      <4>1. Old(c) # New(c) /\ dirs[Old(c)] # None
        BY <1>0, <3>2 DEF Moves, Grounded, Site, Found, InMutation, Renaming, AtNew
      <4> QED
        BY <1>0, <3>2, <4>1 DEF Moves, Site, AtNew, CodexOK
    <3>3. CASE Returned(c)
      <4>1. Old(c) # New(c) /\ dirs[New(c)] # None
        BY <1>0, <3>3 DEF Returned, Grounded, Site, Found, InMutation, Renaming, Moving, AtNew
      <4> QED
        BY <1>0, <3>3, <4>1 DEF Returned, Site, AtNew, CodexOK
    <3>4. ~Mkdir(c) /\ ~Rmtree(c)
      BY <1>1, <1>4 DEF Mkdir, Rmtree, InMutation
    <3> QED
      BY <1>1, <1>4, <3>1, <3>2, <3>3, <3>4, DirectorySteps
  <2>4. Site(c)' \in Names /\ None \notin Names
    BY <1>0, Parameters DEF Site, Parameters
  <2> QED
    BY <1>0, <2>1, <2>2, <2>3, <2>4 DEF Grounded, Found
<1> QED
  BY <1>2, <1>1, <1>3, <1>4, MutationEnters

\* Nobody touches the directory of a mutation but the mutation itself.
LEMMA SiteStays ==
    ASSUME TypeOK, Fits, Turf, NamesApart, NEW c \in Clients, Request(c) \/ Mutation(c),
           NEW d \in Clients \ {c}, pc[d] \in InMutation
    PROVE  dirs'[Site(d)] = dirs[Site(d)]
<1>0. CodexOK /\ job[c].name \in Names /\ job[c].to \in Names
  BY TypeParts, JobTyped
<1>1. Site(d) \in Names /\ dirs[Site(d)] # None
  <2>1. job[d].name \in Names /\ job[d].to \in Names
    BY TypeParts, JobTyped
  <2> QED
    BY <2>1 DEF Turf, Grounded, Found, Site
<1>2. ASSUME pc[c] \in InMutation PROVE Site(d) # Old(c)
  <2>1. pc[d] \in AtNew => op[d] = "rename project"
    BY DEF Fits, PlaceIn, AtNew, Renaming, Moving
  <2>2. Old(c) # Old(d)
    BY <1>2 DEF Turf, Disjoint
  <2> QED
    BY <1>2, <2>1, <2>2 DEF NamesApart, Site
<1>3. ASSUME pc[c] \in {"checked", "undo checked"} PROVE Site(d) # New(c)
  <2>1. op[c] = "rename project"
    BY <1>3 DEF Fits, PlaceIn, Renaming, Moving
  <2> QED
    BY <1>3, <2>1 DEF NamesApart, Turf, Disjoint, Site, AtNew, InMutation
<1>4. CASE Mkdir(c)
  BY <1>0, <1>1, <1>4 DEF Mkdir, CodexOK
<1>5. CASE Rmtree(c)
  BY <1>0, <1>1, <1>2, <1>5 DEF Rmtree, CodexOK, InMutation
<1>6. CASE Moves(c)
  BY <1>0, <1>1, <1>2, <1>3, <1>6 DEF Moves, CodexOK, InMutation
<1>7. CASE Returned(c)
  BY <1>0, <1>1, <1>2, <1>3, <1>7 DEF Returned, CodexOK, InMutation
<1> QED
  BY <1>1, <1>4, <1>5, <1>6, <1>7, DirectorySteps

\* Nor do the steps of others move it.
LEMMA GroundedOthers ==
    ASSUME TypeOK, Fits, Renames, Turf, NamesApart, NEW c \in Clients, Request(c) \/ Mutation(c),
           NEW d \in Clients \ {c}
    PROVE  Grounded(d)'
<1>0. /\ ClientsOK /\ job' = job /\ job[d].name \in Names /\ job[d].to \in Names
      /\ None \notin Names \cup Clients
  BY TypeParts, JobsStay, JobTyped, Parameters DEF Parameters
<1>1. pc'[d] = pc[d] /\ op'[d] = op[d]
  BY HoldingSteps DEF Others
<1>2. SUFFICES ASSUME pc[d] \in InMutation
               PROVE  Old(d) \in mutating' /\ dirs'[Site(d)] # None
  <2>1. Grounded(d)
    BY DEF Turf
  <2>2. Site(d) \in Names /\ Site(d)' = Site(d)
    BY <1>0, <1>1 DEF Site
  <2> QED
    BY <1>0, <1>1, <1>2, <2>1, <2>2 DEF Grounded, Found
<1>3. Old(d) \in mutating /\ dirs[Site(d)] # None
  BY <1>2 DEF Turf, Grounded, Found
<1>4. pc[c] \in InMutation => Old(c) # Old(d)
  BY <1>2 DEF Turf, Disjoint
<1>5. pc[c] \in InMutation /\ op[c] = "rename project" => New(c) # Old(d)
  BY <1>2 DEF NamesApart
<1>6. Old(d) \in mutating'
  BY <1>3, <1>4, <1>5, RequestPasses, MutationGates, <1>0 DEF Passes, Closes, Opens
<1> QED
  BY <1>2, <1>3, <1>6, SiteStays

\* Gates keep mutations apart.
LEMMA DisjointKept ==
    ASSUME TypeOK, Fits, Turf, NEW c \in Clients, Request(c) \/ Mutation(c),
           NEW d \in Clients \ {c}
    PROVE  Disjoint(c, d)'
<1>0. ClientsOK /\ job' = job /\ pc'[d] = pc[d]
  BY TypeParts, JobsStay, HoldingSteps DEF Others
<1>1. SUFFICES ASSUME pc'[c] \in InMutation, pc[d] \in InMutation
               PROVE  /\ Old(c) # Old(d)
                      /\ pc'[c] \in AtNew \cup {"checked"} /\ pc[d] \in AtNew \cup {"checked"}
                             => New(c) # New(d)
  BY <1>0 DEF Disjoint
<1>2. Mutation(c)
  BY <1>1, RequestPlaces
<1>3. Disjoint(c, d) /\ Grounded(d)
  BY DEF Turf
<1>4. CASE CloseGate(c)
  <2>1. pc'[c] = "gated" /\ Old(c) \notin mutating
    BY <1>0, <1>1, <1>4 DEF CloseGate, Open, ClientsOK, InMutation
  <2> QED
    BY <1>1, <1>3, <2>1 DEF Grounded, AtNew
<1>5. CASE pc[c] \in InMutation
  <2>1. CASE CheckNewName(c) /\ pc'[c] \in AtNew \cup {"checked"}
    <3>1. ~Locked /\ ~Found(New(c))
      BY <1>0, <2>1 DEF CheckNewName, LeaveMutation, ClientsOK, AtNew
    <3>2. pc[d] # "checked"
      BY <3>1 DEF Locked
    <3>3. pc[d] \in AtNew => Found(New(d))
      BY <1>1, <1>3 DEF Grounded, Site
    <3> QED
      BY <1>1, <1>3, <1>5, <3>1, <3>2, <3>3 DEF Disjoint
  <2> QED
    BY <1>1, <1>2, <1>3, <1>5, <2>1, MutationEnters DEF Disjoint
<1> QED
  BY <1>1, <1>2, <1>4, <1>5, MutationEnters

\* Directories of mutations are where Turf says.
LEMMA TurfKept ==
    ASSUME TypeOK, Fits, Renames, Turf, NamesApart, NEW c \in Clients, Request(c) \/ Mutation(c)
    PROVE  Turf'
<1>1. \A d \in Clients : Grounded(d)'
  BY GroundedSelf, GroundedOthers
<1>2. ASSUME NEW d \in Clients, NEW e \in Clients \ {d} PROVE Disjoint(d, e)'
  <2>1. CASE d = c
    BY <2>1, DisjointKept
  <2>2. CASE e = c
    <3>1. Disjoint(c, d)'
      BY <2>2, DisjointKept
    <3> QED
      BY <2>2, <3>1 DEF Disjoint
  <2>3. CASE c \notin {d, e}
    BY <2>3, HoldingSteps, JobsStay DEF Turf, Disjoint, Others
  <2> QED
    BY <2>1, <2>2, <2>3
<1> QED
  BY <1>1, <1>2 DEF Turf

-----------------------------------------------------------------------------
(* Lists of a mutation *)

\* The elements of a sequence with one more, or one less.
LEMMA ToSetAppend ==
    ASSUME NEW S, NEW s \in Seq(S), NEW t \in S
    PROVE  ToSet(Append(s, t)) = ToSet(s) \cup {t}
<1>1. DOMAIN Append(s, t) = 1..(Len(s) + 1) /\ DOMAIN s = 1..Len(s) /\ Len(s) \in Nat
  OBVIOUS
<1>2. Append(s, t)[Len(s) + 1] = t /\ \A i \in 1..Len(s) : Append(s, t)[i] = s[i]
  OBVIOUS
<1>3. \A i \in 1..(Len(s) + 1) : i = Len(s) + 1 \/ i \in 1..Len(s)
  BY <1>1
<1> QED
  BY <1>1, <1>2, <1>3 DEF ToSet

LEMMA ToSetTail ==
    ASSUME NEW S, NEW s \in Seq(S), s # <<>>
    PROVE  /\ Head(s) \in ToSet(s) /\ Tail(s) \in Seq(S)
           /\ ToSet(s) = ToSet(Tail(s)) \cup {Head(s)}
<1>1. DOMAIN s = 1..Len(s) /\ Len(s) \in Nat \ {0} /\ Head(s) = s[1]
  OBVIOUS
<1>2. /\ Tail(s) \in Seq(S) /\ DOMAIN Tail(s) = 1..(Len(s) - 1)
      /\ \A i \in 1..(Len(s) - 1) : Tail(s)[i] = s[i + 1]
  OBVIOUS
<1>3. \A i \in 1..(Len(s) - 1) : i + 1 \in 1..Len(s)
  BY <1>1
<1>4. \A i \in 1..Len(s) : i = 1 \/ (i - 1 \in 1..(Len(s) - 1) /\ i - 1 + 1 = i)
  BY <1>1
<1>5. 1 \in 1..Len(s)
  BY <1>1
<1>6. ASSUME NEW x \in ToSet(s) PROVE x \in ToSet(Tail(s)) \cup {Head(s)}
  <2>1. PICK i \in 1..Len(s) : x = s[i]
    BY <1>1, <1>6 DEF ToSet
  <2>2. CASE i = 1
    BY <1>1, <2>1, <2>2
  <2>3. CASE i # 1
    BY <1>2, <1>4, <2>1, <2>3 DEF ToSet
  <2> QED
    BY <2>2, <2>3
<1>7. ToSet(Tail(s)) \subseteq ToSet(s)
  BY <1>1, <1>2, <1>3 DEF ToSet
<1> QED
  BY <1>1, <1>2, <1>5, <1>6, <1>7 DEF ToSet

LEMMA ToSetEmpty == ToSet(<<>>) = {}
BY DEF ToSet

\* A client begins with empty lists, and a mutation tries and stores only what it
\* has listed.
Unlisted == {"start", "gated", "listing"} \cup Started
Untried == Unlisted \cup {"reserved", "checked", "renamed"}

Lists ==
    \A c \in Clients :
        /\ ToSet(work[c].tried) \subseteq work[c].threads
        /\ work[c].stored \subseteq work[c].threads
        /\ pc[c] \in Unlisted => work[c].stored = {}
        /\ pc[c] \in Untried => work[c].tried = <<>>

\* What a step does to the lists of its client.
ListSame(c) ==
    /\ work'[c].threads = work[c].threads /\ work'[c].stored = work[c].stored
    /\ work'[c].tried = work[c].tried
    /\ pc'[c] \notin {"listing", "answered", "reserved"}
    /\ pc[c] \in {"moving", "returning"} => pc'[c] \in {"done", "failed"}
    /\ pc'[c] \in Unlisted => pc[c] \in Unlisted
    /\ pc'[c] \in Untried => pc[c] \in Untried

ListActives(c) ==
    /\ \/ pc[c] = "gated" /\ pc'[c] = "listing"
       \/ pc[c] = "asking" /\ pc'[c] = "answered"
    /\ work'[c].threads = {t \in listed \ archived : cwd[t] = Old(c)}
    /\ work'[c].stored = work[c].stored /\ work'[c].tried = work[c].tried

ListAll(c) ==
    LET stored == {t \in listed \cap archived : cwd[t] = Old(c)}
        fresh == {t \in Threads : pending[t] = Old(c)}
    IN
    /\ pc[c] = "listing" /\ pc'[c] = "reserved"
    /\ work'[c].threads = work[c].threads \cup stored \cup fresh
    /\ work'[c].stored = stored \cup {t \in fresh \ work[c].threads : t \in archived}
    /\ work'[c].tried = work[c].tried
    /\ \A t \in work'[c].threads : held[t] = None

ListTries(c) ==
    /\ pc[c] = "moving" /\ pc'[c] \in {"moving", "undo"}
    /\ work'[c].threads = work[c].threads /\ work'[c].stored = work[c].stored
    /\ \E t \in work[c].threads \ ToSet(work[c].tried) : work'[c].tried = Append(work[c].tried, t)

ListReturns(c) ==
    /\ pc[c] = "returning" /\ pc'[c] \in {"returning", "broken"}
    /\ work'[c].threads = work[c].threads /\ work'[c].stored = work[c].stored
    /\ work[c].tried # <<>> /\ work'[c].tried = Tail(work[c].tried)

\* Between the list and its end a mutation is where its lists say.
LEMMA ListSteps ==
    ASSUME TypeOK, Fits, NEW c \in Clients, Request(c) \/ Mutation(c)
    PROVE  ListSame(c) \/ ListActives(c) \/ ListAll(c) \/ ListTries(c) \/ ListReturns(c)
<1>0. ClientsOK /\ work \in [Clients -> Work] /\ work[c] \in Work /\ PlaceIn(pc[c], op[c])
  BY TypeParts DEF WorkOK, Fits
<1> USE <1>0 DEF ClientsOK, InMutation, Unlisted, Untried, Started, Ended
<1>1. CASE Title(c) \/ StartThread(c) \/ Created(c)
  BY <1>1 DEF Title, StartThread, Created, ListSame
<1>2. ASSUME Raise(c), UNCHANGED work, pc[c] \in {"start"} \cup Started PROVE ListSame(c)
  BY <1>2 DEF Raise, ListSame
<1>3. CASE Reserve(c)
  BY <1>2, <1>3 DEF Reserve, ListSame
<1>4. CASE Find(c)
  <2>1. /\ pc[c] \in {"start", "finding"}
        /\ \/ /\ \E n : Keep(c, [work[c] EXCEPT !.project = n])
              /\ pc' \in {[pc EXCEPT ![c] = w] : w \in {"acting", "reading"}}
           \/ Raise(c) /\ UNCHANGED work
    BY <1>4 DEF Find
  <2>2. CASE Raise(c) /\ UNCHANGED work
    BY <1>2, <2>1, <2>2
  <2>3. ASSUME NEW n, Keep(c, [work[c] EXCEPT !.project = n]),
               pc' \in {[pc EXCEPT ![c] = w] : w \in {"acting", "reading"}}
        PROVE ListSame(c)
    BY <2>1, <2>3 DEF ListSame, Work
  <2> QED
    BY <2>1, <2>2, <2>3
<1>5. CASE Read(c)
  <2>1. /\ pc[c] \in {"reading", "renamed title"}
        /\ pc' \in {[pc EXCEPT ![c] = w] : w \in {"arriving", "confirming"}}
    BY <1>5 DEF Read
  <2>2. PICK n : Keep(c, [work[c] EXCEPT !.seen = n])
    BY <1>5 DEF Read
  <2> QED
    BY <2>1, <2>2 DEF ListSame, Work
<1>6. CASE Arrive(c)
  <2>1. /\ pc[c] = "arriving" /\ UNCHANGED work
        /\ \/ pc' \in {[pc EXCEPT ![c] = w] : w \in {"renamed title", "done", "acting"}}
           \/ Raise(c)
    BY <1>6 DEF Arrive
  <2> QED
    BY <1>2, <2>1 DEF ListSame
<1>7. CASE CodexRaises(c)
  BY <1>2, <1>7 DEF CodexRaises
<1>8. CASE ConfirmTitle(c) \/ Archive(c) \/ Unarchive(c) \/ Deletes(c)
  BY <1>8 DEF ConfirmTitle, Archive, Unarchive, Deletes, Delete, ListSame
<1>9. CASE Fork(c) \/ Forked(c) \/ StartTurn(c) \/ EndTurn(c)
  BY <1>9 DEF Fork, Forked, StartTurn, EndTurn, ListSame
<1>10. CASE ListThreads(c) \/ Listed(c) \/ MakeDirectory(c) \/ ProjectCreated(c)
  BY <1>10 DEF ListThreads, Listed, MakeDirectory, ProjectCreated, ListSame
<1>11. CASE CodexLists(c) \/ ListActive(c)
  <2> DEFINE S == {t \in listed \ archived : cwd[t] = Old(c)}
  <2>1. /\ Keep(c, [work[c] EXCEPT !.threads = S])
        /\ \/ pc[c] = "gated" /\ pc' = [pc EXCEPT ![c] = "listing"]
           \/ pc[c] = "asking" /\ pc' = [pc EXCEPT ![c] = "answered"]
    BY <1>11 DEF CodexLists, ListActive
  <2> HIDE DEF S
  <2>2. /\ work'[c].threads = S /\ work'[c].stored = work[c].stored
        /\ work'[c].tried = work[c].tried
    BY <2>1 DEF Work
  <2> QED
    BY <2>1, <2>2 DEF ListActives, S
<1>12. CASE ReserveAll(c)
  <2> DEFINE stored == {t \in listed \cap archived : cwd[t] = Old(c)}
             fresh  == {t \in Threads : pending[t] = Old(c)}
             all    == work[c].threads \cup stored \cup fresh
             kept   == stored \cup {t \in fresh \ work[c].threads : t \in archived}
  <2>1. /\ pc[c] = "listing"
        /\ \/ /\ \A t \in all : held[t] = None
              /\ Keep(c, [work[c] EXCEPT !.threads = all, !.stored = kept])
              /\ Go(c, "reserved")
           \/ pc' = [pc EXCEPT ![c] = "refused"] /\ UNCHANGED work
    BY <1>12 DEF ReserveAll, LeaveMutation
  <2> HIDE DEF all, kept
  <2>2. CASE pc' = [pc EXCEPT ![c] = "refused"] /\ UNCHANGED work
    BY <2>1, <2>2 DEF ListSame
  <2>3. CASE /\ \A t \in all : held[t] = None
             /\ Keep(c, [work[c] EXCEPT !.threads = all, !.stored = kept])
             /\ Go(c, "reserved")
    <3>1. work'[c].threads = all /\ work'[c].stored = kept /\ work'[c].tried = work[c].tried
      BY <2>3 DEF Work
    <3> QED
      BY <2>1, <2>3, <3>1 DEF ListAll, all, kept
  <2> QED
    BY <2>1, <2>2, <2>3
<1>13. CASE CloseGate(c) \/ MutationRefused(c) \/ DeleteProject(c) \/ CheckNewName(c)
  BY <1>13 DEF CloseGate, MutationRefused, DeleteProject, CheckNewName, LeaveMutation, ListSame
<1>14. CASE RenameDirectory(c) \/ CloseNewGate(c) \/ RestoreDirectory(c)
  BY <1>14 DEF RenameDirectory, CloseNewGate, RestoreDirectory, ListSame
<1>15. CASE RenameDone(c) \/ CheckOldName(c) \/ RenameUndone(c)
  BY <1>15 DEF RenameDone, CheckOldName, RenameUndone, LeaveMutation, ListSame
<1>16. CASE MoveThread(c)
  <2>1. PICK t \in work[c].threads \ ToSet(work[c].tried) :
           /\ Keep(c, [work[c] EXCEPT !.tried = Append(@, t)])
           /\ pc' \in {[pc EXCEPT ![c] = w] : w \in {"moving", "undo"}}
    BY <1>16 DEF MoveThread
  <2>2. pc[c] = "moving"
    BY <1>16 DEF MoveThread
  <2> QED
    BY <2>1, <2>2 DEF ListTries, Work
<1>17. CASE MoveBack(c)
  <2>1. /\ pc[c] = "returning" /\ work[c].tried # <<>>
        /\ Keep(c, [work[c] EXCEPT !.tried = Tail(@)])
        /\ pc' \in {[pc EXCEPT ![c] = w] : w \in {"returning", "broken"}}
    BY <1>17 DEF MoveBack, LeaveMutation
  <2> QED
    BY <2>1 DEF ListReturns, Work
<1> QED
  BY <1>1, <1>3, <1>4, <1>5, <1>6, <1>7, <1>8, <1>9, <1>10, <1>11, <1>12, <1>13, <1>14, <1>15,
     <1>16, <1>17 DEF Request, Mutation

\* Lists of mutations stay as Lists says.
LEMMA ListsKept ==
    ASSUME TypeOK, Fits, Lists, NEW c \in Clients, Request(c) \/ Mutation(c)
    PROVE  Lists'
<1>0. work[c].tried \in Seq(Threads) /\ work[c].threads \subseteq Threads
  BY TypeParts DEF WorkOK, Work
<1>1. \A d \in Clients \ {c} : pc'[d] = pc[d] /\ work'[d] = work[d]
  BY HoldingSteps DEF Others
<1> SUFFICES /\ ToSet(work'[c].tried) \subseteq work'[c].threads
             /\ work'[c].stored \subseteq work'[c].threads
             /\ pc'[c] \in Unlisted => work'[c].stored = {}
             /\ pc'[c] \in Untried => work'[c].tried = <<>>
  BY <1>1 DEF Lists
<1>2. /\ ToSet(work[c].tried) \subseteq work[c].threads
      /\ work[c].stored \subseteq work[c].threads
      /\ pc[c] \in Unlisted => work[c].stored = {}
      /\ pc[c] \in Untried => work[c].tried = <<>>
  BY DEF Lists
<1>3. CASE ListSame(c)
  BY <1>2, <1>3 DEF ListSame
<1>4. CASE ListActives(c)
  BY <1>2, <1>4, ToSetEmpty DEF ListActives, Unlisted, Untried, Started
<1>5. CASE ListAll(c)
  BY <1>2, <1>5, ToSetEmpty DEF ListAll, Unlisted, Untried, Started
<1>6. CASE ListTries(c)
  <2>1. \A t \in work[c].threads : ToSet(Append(work[c].tried, t)) = ToSet(work[c].tried) \cup {t}
    BY <1>0, ToSetAppend
  <2> QED
    BY <1>2, <1>6, <2>1 DEF ListTries, Unlisted, Untried, Started
<1>7. CASE ListReturns(c)
  <2>1. ToSet(Tail(work[c].tried)) \subseteq ToSet(work[c].tried)
    BY <1>0, <1>7, ToSetTail DEF ListReturns
  <2> QED
    BY <1>2, <1>7, <2>1 DEF ListReturns, Unlisted, Untried, Started
<1> QED
  BY <1>3, <1>4, <1>5, <1>6, <1>7, ListSteps

-----------------------------------------------------------------------------
(* What a step of client c does to Session t *)

\* What a step may change of a Session, in one place each.
Placement(t) == <<cwd[t], home[t], t \in listed>>

Standing(t) == <<pending[t], t \in promised>>

Same(t) == UNCHANGED <<Placement(t), Standing(t), t \in archived>>

\* Codex makes a Session for "new".
Starts(c, t) ==
    /\ op[c] = "new" /\ pc[c] \in {"start", "titling"} /\ pc'[c] = "created"
    /\ t = Thread(c) /\ Open(Old(c))
    /\ cwd[t] = None /\ cwd'[t] = Old(c) /\ home'[t] = dirs[Old(c)]
    /\ UNCHANGED <<Standing(t), t \in archived, t \in listed>>

\* The Service tells its client of the new Session.
Remembers(c, t) ==
    /\ pc[c] = "created" /\ pc'[c] \in {"reserving", "done"} /\ t = Thread(c)
    /\ Found(cwd[t]) /\ pending'[t] = Old(c) /\ t \in promised'
    /\ UNCHANGED <<Placement(t), t \in archived>>

\* Codex makes a copy for "fork".
Copies(c, t) ==
    /\ op[c] = "fork" /\ pc[c] = "acting" /\ pc'[c] = "forked" /\ t = job[c].copy
    /\ cwd[t] = None /\ cwd[Thread(c)] # None
    /\ cwd'[t] = cwd[Thread(c)] /\ home'[t] = dirs[cwd[Thread(c)]]
    /\ t \in listed => t \in listed'
    /\ UNCHANGED <<Standing(t), t \in archived>>

\* The Service tells its client of the copy.
RemembersCopy(c, t) ==
    /\ pc[c] = "forked" /\ pc'[c] = "done" /\ t = job[c].copy
    /\ cwd[t] = work[c].project /\ Found(cwd[t])
    /\ pending'[t] = work[c].project /\ t \in promised'
    /\ UNCHANGED <<Placement(t), t \in archived>>

\* What the other requests do to their Session.
Archives(c, t) ==
    /\ op[c] = "archive" /\ pc[c] = "acting" /\ t = Thread(c)
    /\ t \in archived => t \in archived'
    /\ UNCHANGED <<Placement(t), Standing(t)>>

Unarchives(c, t) ==
    /\ op[c] = "unarchive" /\ pc[c] = "acting" /\ pc'[c] = "reading" /\ t = Thread(c)
    /\ UNCHANGED <<Placement(t), Standing(t)>>

\* A Session is deleted, or was already.
Removes(c, t) ==
    /\ op[c] = "delete" /\ pc[c] = "acting" /\ t = Thread(c)
    /\ cwd'[t] = None /\ t \notin promised' /\ t \notin listed'
    /\ pending'[t] \in {pending[t], None} /\ home'[t] = home[t]

FindsRemoved(c, t) ==
    /\ op[c] = "delete" /\ pc[c] = "acting" /\ t = Thread(c)
    /\ cwd[t] = None /\ pending'[t] = None
    /\ UNCHANGED <<Placement(t), t \in promised, t \in archived>>

\* A Turn gives the Session its first message.
Runs(c, t) ==
    /\ op[c] = "turn" /\ pc[c] = "acting" /\ pc'[c] = "running" /\ t = Thread(c)
    /\ t \in listed'
    /\ UNCHANGED <<cwd[t], home[t], Standing(t), t \in archived>>

\* A Session is pending no longer when an answer of Codex has it.
Forgets(c, t) ==
    /\ pc[c] \in {"arriving", "confirming"} /\ t = Thread(c)
    /\ ~Matches(c) /\ pending'[t] = None
    /\ UNCHANGED <<Placement(t), t \in promised, t \in archived>>

Sees(c, t) ==
    /\ op[c] = "list" /\ pc[c] = "answered" /\ t \in work[c].threads
    /\ pending'[t] = None
    /\ UNCHANGED <<Placement(t), t \in promised, t \in archived>>

\* The directory of a Session that was made in it goes.
Destroys(c, t) ==
    /\ Rmtree(c)
    /\ t \in promised' <=> t \in promised /\ home[t] # dirs[Old(c)]
    /\ IF t \in work[c].threads THEN pending'[t] = None ELSE pending'[t] = pending[t]
    /\ UNCHANGED <<Placement(t), t \in archived>>

\* A Session that is moved is at either place when the move fails, and at the
\* place it was meant for when it does not.  A stored one must be archived then.
Lands(c, t, n, fine) ==
    /\ IF fine THEN cwd'[t] = n ELSE cwd'[t] \in {cwd[t], n}
    /\ cwd[t] = None => ~fine /\ cwd'[t] = None
    /\ IF fine /\ pending[t] # None THEN pending'[t] = n ELSE pending'[t] = pending[t]
    /\ fine /\ t \in work[c].stored => t \in archived /\ t \in archived'
    /\ UNCHANGED <<home[t], t \in listed, t \in promised>>

\* A rename moves a Session to the new name, or back to the old.
MovesOut(c, t) ==
    /\ pc[c] = "moving" /\ pc'[c] \in {"moving", "undo"}
    /\ t \in work[c].threads \ ToSet(work[c].tried)
    /\ work'[c].tried = Append(work[c].tried, t)
    /\ Lands(c, t, New(c), pc'[c] = "moving")

MovesHome(c, t) ==
    /\ pc[c] = "returning" /\ pc'[c] \in {"returning", "broken"}
    /\ work[c].tried # <<>> /\ t = Head(work[c].tried)
    /\ work'[c].tried = Tail(work[c].tried)
    /\ Lands(c, t, Old(c), pc'[c] = "returning")

\* The alternatives.
SessionStep(c, t) ==
    \/ Same(t)
    \/ Starts(c, t) \/ Remembers(c, t) \/ Copies(c, t) \/ RemembersCopy(c, t)
    \/ Archives(c, t) \/ Unarchives(c, t) \/ Removes(c, t) \/ FindsRemoved(c, t)
    \/ Runs(c, t) \/ Forgets(c, t) \/ Sees(c, t) \/ Destroys(c, t)
    \/ MovesOut(c, t) \/ MovesHome(c, t)

\* Where a Session is that Codex was asked to move.
LEMMA OutcomesLand ==
    ASSUME TypeOK, NEW c \in Clients, NEW t \in Threads, NEW n \in Names, NEW o \in Outcomes(c, t, n),
           Relocate(c, t, n, o), UNCHANGED <<home, listed, promised>>
    PROVE  Lands(c, t, n, o.ok) /\ o.ok \in BOOLEAN
           /\ \A u \in Threads \ {t} : Same(u)
<1>0. CodexOK /\ ServiceOK /\ None \notin Names
  BY TypeParts, Parameters DEF Parameters
<1> DEFINE can == cwd[t] # None /\ (t \in work[c].stored => t \in archived)
           was == t \in archived
           may == {cwd[t]} \cup (IF can THEN {n} ELSE {})
           Moved == [cwd |-> n, archived |-> was, ok |-> TRUE, fault |-> 0]
           NotMoved(a, f) == [cwd : may, archived : a, ok : {FALSE}, fault : {f}]
<1>1. (o = Moved /\ can) \/ \E a \in {{was}, {FALSE}}, f \in {0, 1} : o \in NotMoved(a, f)
  <2>1. CASE o \in IF can /\ Found(n) THEN {Moved} ELSE {}
    BY <2>1
  <2>2. CASE o \in IF can /\ Found(n) THEN {} ELSE NotMoved({was}, 0)
    BY <2>2
  <2>3. CASE o \in IF "move" \in Faults /\ can THEN NotMoved({was}, 1) ELSE {}
    BY <2>3
  <2>4. CASE o \in IF "rearchive" \in Faults /\ can /\ t \in work[c].stored
                    THEN NotMoved({FALSE}, 1) ELSE {}
    BY <2>4
  <2> HIDE DEF can, was, may, Moved, NotMoved
  <2> QED
    BY <2>1, <2>2, <2>3, <2>4 DEF Outcomes, can, was, may, Moved, NotMoved
<1>2. /\ o.ok \in BOOLEAN
      /\ o.ok => o.cwd = n /\ can /\ o.archived = was
      /\ ~o.ok => o.cwd \in may
  <2>1. CASE o = Moved /\ can
    <3> HIDE DEF can, was
    <3> QED
      BY <2>1
  <2>2. ASSUME NEW a \in {{was}, {FALSE}}, NEW f \in {0, 1}, o \in NotMoved(a, f)
        PROVE  ~o.ok /\ o.cwd \in may /\ o.ok \in BOOLEAN
    <3> HIDE DEF may, was
    <3> QED
      BY <2>2
  <2> QED
    BY <1>1, <2>1, <2>2
<1>3. /\ cwd' = [cwd EXCEPT ![t] = o.cwd]
      /\ archived' = IF o.archived THEN archived ELSE archived \ {t}
      /\ pending' = IF o.ok /\ pending[t] # None THEN [pending EXCEPT ![t] = n] ELSE pending
  BY DEF Relocate
<1>4. Lands(c, t, n, o.ok)
  BY <1>0, <1>2, <1>3 DEF Lands, CodexOK, ServiceOK
<1>5. \A u \in Threads \ {t} : Same(u)
  BY <1>0, <1>3 DEF Same, Placement, Standing, CodexOK, ServiceOK
<1> QED
  BY <1>2, <1>4, <1>5

\* A step of a rename moves one Session.
LEMMA MoveThreadMoves ==
    ASSUME TypeOK, NEW c \in Clients, MoveThread(c)
    PROVE  \E u \in Threads : MovesOut(c, u) /\ \A x \in Threads \ {u} : Same(x)
<1>0. ClientsOK /\ WorkOK /\ job[c].name \in Names /\ job[c].to \in Names
  BY TypeParts, JobTyped
<1> USE <1>0 DEF ClientsOK, WorkOK
<1>1. PICK u \in work[c].threads \ ToSet(work[c].tried) : \E o \in Outcomes(c, u, New(c)) :
         /\ Relocate(c, u, New(c), o)
         /\ Keep(c, [work[c] EXCEPT !.tried = Append(@, u)])
         /\ Go(c, IF o.ok THEN "moving" ELSE "undo")
  BY DEF MoveThread
<1>2. PICK o \in Outcomes(c, u, New(c)) :
         /\ Relocate(c, u, New(c), o)
         /\ Keep(c, [work[c] EXCEPT !.tried = Append(@, u)])
         /\ Go(c, IF o.ok THEN "moving" ELSE "undo")
  BY <1>1
<1>3. u \in Threads /\ pc[c] = "moving" /\ UNCHANGED <<home, listed, promised>>
  BY DEF MoveThread, Work
<1>4. Lands(c, u, New(c), o.ok) /\ o.ok \in BOOLEAN /\ \A x \in Threads \ {u} : Same(x)
  BY <1>2, <1>3, OutcomesLand
<1>5. work'[c].tried = Append(work[c].tried, u)
  BY <1>2 DEF Work
<1>6. pc'[c] = IF o.ok THEN "moving" ELSE "undo"
  BY <1>2
<1>7. MovesOut(c, u)
  BY <1>1, <1>3, <1>4, <1>5, <1>6 DEF MovesOut
<1> QED
  BY <1>3, <1>4, <1>7

LEMMA MoveBackMoves ==
    ASSUME TypeOK, NEW c \in Clients, MoveBack(c)
    PROVE  /\ Head(work[c].tried) \in Threads /\ MovesHome(c, Head(work[c].tried))
           /\ \A x \in Threads \ {Head(work[c].tried)} : Same(x)
<1>0. ClientsOK /\ WorkOK /\ job[c].name \in Names
  BY TypeParts, JobTyped
<1> USE <1>0 DEF ClientsOK, WorkOK
<1> DEFINE u == Head(work[c].tried)
<1>1. /\ pc[c] = "returning" /\ work[c].tried # <<>> /\ UNCHANGED <<home, listed, promised>>
      /\ \E o \in Outcomes(c, u, Old(c)) :
           /\ Relocate(c, u, Old(c), o)
           /\ Keep(c, [work[c] EXCEPT !.tried = Tail(@)])
           /\ pc' = [pc EXCEPT ![c] = IF o.ok THEN "returning" ELSE "broken"]
  BY DEF MoveBack, LeaveMutation
<1>2. PICK o \in Outcomes(c, u, Old(c)) :
         /\ Relocate(c, u, Old(c), o)
         /\ Keep(c, [work[c] EXCEPT !.tried = Tail(@)])
         /\ pc' = [pc EXCEPT ![c] = IF o.ok THEN "returning" ELSE "broken"]
  BY <1>1
<1>3. u \in Threads
  BY <1>1 DEF Work
<1> HIDE DEF u
<1>4. Lands(c, u, Old(c), o.ok) /\ o.ok \in BOOLEAN /\ \A x \in Threads \ {u} : Same(x)
  BY <1>1, <1>2, <1>3, OutcomesLand
<1>5. work'[c].tried = Tail(work[c].tried)
  BY <1>2 DEF Work
<1>6. pc'[c] = IF o.ok THEN "returning" ELSE "broken"
  BY <1>2
<1>7. MovesHome(c, u)
  BY <1>1, <1>4, <1>5, <1>6 DEF MovesHome, u
<1> QED
  BY <1>3, <1>4, <1>7 DEF u

\* What any step does to one Session.
LEMMA SessionSteps ==
    ASSUME TypeOK, Fits, NEW c \in Clients, Request(c) \/ Mutation(c), NEW t \in Threads
    PROVE  SessionStep(c, t)
<1>0. /\ CodexOK /\ ServiceOK /\ ClientsOK /\ HistoryOK /\ PlaceIn(pc[c], op[c]) /\ WorkOK
      /\ job[c].thread \in Threads /\ job[c].copy \in Threads
      /\ job[c].name \in Names /\ job[c].to \in Names
  BY TypeParts, JobTyped DEF Fits
<1> USE <1>0 DEF CodexOK, ServiceOK, ClientsOK, HistoryOK, Placement, Standing
<1>s. ASSUME UNCHANGED <<codexVars, pending, promiseVars>> PROVE SessionStep(c, t)
  BY <1>s DEF Same, SessionStep
<1>1. CASE Title(c) \/ Reserve(c) \/ Find(c) \/ Read(c) \/ EndTurn(c) \/ CodexRaises(c)
  BY <1>1, <1>s DEF Title, Reserve, Find, Read, EndTurn, CodexRaises
<1>2. CASE StartThread(c)
  <2>1. CASE t = Thread(c) /\ Open(Old(c))
    BY <1>2, <2>1 DEF StartThread, Starts, SessionStep
  <2>2. CASE t # Thread(c) \/ ~Open(Old(c))
    BY <1>2, <2>2 DEF StartThread, Same, SessionStep
  <2> QED
    BY <2>1, <2>2
<1>3. CASE Created(c)
  BY <1>3, <1>s DEF Created, Remember, Remembers, Same, SessionStep
<1>4. CASE Arrive(c) \/ ConfirmTitle(c)
  BY <1>4, <1>s DEF Arrive, ConfirmTitle, Forget, Forgets, Same, SessionStep
<1>5. CASE Archive(c) \/ Unarchive(c)
  BY <1>5 DEF Archive, Unarchive, Archives, Unarchives, Same, SessionStep
<1>6. CASE Deletes(c)
  BY <1>6 DEF Deletes, Delete, CountsAsDeleted, Forget, Removes, FindsRemoved, Same, SessionStep
<1>7. CASE Fork(c)
  <2>1. CASE t = job[c].copy
    BY <1>7, <2>1 DEF Fork, Copies, SessionStep
  <2>2. CASE t # job[c].copy
    BY <1>7, <2>2 DEF Fork, Same, SessionStep
  <2> QED
    BY <2>1, <2>2
<1>8. CASE Forked(c)
  BY <1>8, <1>s DEF Forked, Remember, RemembersCopy, Same, SessionStep
<1>9. CASE StartTurn(c)
  BY <1>9 DEF StartTurn, Runs, Same, SessionStep
<1>10. CASE Listed(c)
  BY <1>10 DEF Listed, Sees, Same, SessionStep
<1>11. CASE ListThreads(c) \/ CodexLists(c) \/ MakeDirectory(c) \/ ProjectCreated(c)
  BY <1>11, <1>s DEF ListThreads, CodexLists, MakeDirectory, ProjectCreated
<1>12. CASE CloseGate(c) \/ ListActive(c) \/ ReserveAll(c) \/ MutationRefused(c)
  BY <1>12, <1>s DEF CloseGate, ListActive, ReserveAll, MutationRefused
<1>13. CASE CheckNewName(c) \/ RenameDirectory(c) \/ CloseNewGate(c) \/ RenameDone(c)
  BY <1>13, <1>s DEF CheckNewName, RenameDirectory, CloseNewGate, RenameDone
<1>14. CASE CheckOldName(c) \/ RestoreDirectory(c) \/ RenameUndone(c)
  BY <1>14, <1>s DEF CheckOldName, RestoreDirectory, RenameUndone
<1>15. CASE DeleteProject(c)
  <2>1. UNCHANGED <<codexVars, home>>
    BY <1>15 DEF DeleteProject
  <2>2. \/ UNCHANGED <<pending, promised>>
        \/ /\ Rmtree(c)
           /\ pending' = [u \in Threads |-> IF u \in work[c].threads THEN None ELSE pending[u]]
           /\ promised' = promised \ {u \in Threads : home[u] = dirs[Old(c)]}
    BY <1>15 DEF DeleteProject, Rmtree, LeaveMutation
  <2> QED
    BY <1>s, <2>1, <2>2 DEF Destroys, SessionStep
<1>16. CASE MoveThread(c)
  BY <1>16, MoveThreadMoves DEF SessionStep
<1>17. CASE MoveBack(c)
  BY <1>17, MoveBackMoves DEF SessionStep
<1> QED
  BY <1>1, <1>2, <1>3, <1>4, <1>5, <1>6, <1>7, <1>8, <1>9, <1>10, <1>11, <1>12, <1>13, <1>14, <1>15,
     <1>16, <1>17 DEF Request, Mutation

-----------------------------------------------------------------------------
(* What a step of client c does to what it knows of its Session *)

\* Once a request has found its Session.
Past == {"reading", "arriving", "renamed title", "confirming", "acting", "forked", "running"}

\* What a step lets a client know: where its Session is by the Service's own lookup,
\* where Codex says that it is, or nothing new.
Finds(c) ==
    LET t == Thread(c)
        n == IF pending[t] # None THEN pending[t] ELSE cwd[t]
    IN
    /\ pc[c] = "finding" \/ (pc[c] = "start" /\ op[c] \in {"read", "title"})
    /\ pending[t] # None \/ (t \in listed /\ Found(cwd[t]))
    /\ n \notin mutating \/ op[c] = "delete"
    /\ work'[c].project = n /\ op'[c] = op[c]
    /\ pc'[c] = "reading" \/ (pc'[c] = "acting" /\ op[c] \in {"delete", "unarchive"})

Reads(c) ==
    /\ \/ pc[c] = "reading" /\ pc'[c] = "arriving"
       \/ pc[c] = "renamed title" /\ pc'[c] = "confirming"
    /\ work'[c].seen = cwd[Thread(c)] /\ work'[c].project = work[c].project /\ op'[c] = op[c]

GoesOn(c) ==
    /\ work'[c].seen = work[c].seen /\ work'[c].project = work[c].project
    /\ pc'[c] \in Past =>
           /\ pc[c] \in Past /\ op'[c] = op[c] /\ pc'[c] \notin {"arriving", "confirming"}
           /\ pc'[c] = "reading" => pc[c] = "acting" /\ op[c] = "unarchive"
           /\ pc'[c] = "acting" => op[c] # "unarchive"

\* What any step lets its client know.
LEMMA FindingSteps ==
    ASSUME TypeOK, Fits, NEW c \in Clients, Request(c) \/ Mutation(c)
    PROVE  Finds(c) \/ Reads(c) \/ GoesOn(c)
<1>0. ClientsOK /\ work \in [Clients -> Work] /\ work[c] \in Work /\ PlaceIn(pc[c], op[c])
  BY TypeParts DEF WorkOK, Fits
<1> USE <1>0 DEF ClientsOK, Past
<1>1. ASSUME Raise(c), UNCHANGED work PROVE GoesOn(c)
  BY <1>1 DEF Raise, GoesOn
<1>2. CASE Find(c)
  <2> DEFINE t == Thread(c)
             n == IF pending[t] # None THEN pending[t] ELSE cwd[t]
  <2>1. CASE Raise(c) /\ UNCHANGED work
    BY <1>1, <2>1
  <2>2. CASE ~(Raise(c) /\ UNCHANGED work)
    <3>1. /\ pc[c] = "finding" \/ (pc[c] = "start" /\ op[c] \in {"read", "title"})
          /\ pending[t] # None \/ (t \in listed /\ Found(cwd[t]))
          /\ n \notin mutating \/ op[c] = "delete"
          /\ Keep(c, [work[c] EXCEPT !.project = n])
          /\ op' = op
          /\ \/ pc' = [pc EXCEPT ![c] = "reading"]
             \/ pc' = [pc EXCEPT ![c] = "acting"] /\ op[c] \in {"delete", "unarchive"}
      BY <1>2, <2>2 DEF Find
    <3>2. work'[c].project = n
      <4> HIDE DEF n
      <4> QED
        BY <3>1 DEF Work
    <3> QED
      BY <3>1, <3>2 DEF Finds
  <2> QED
    BY <2>1, <2>2
<1>3. CASE Read(c)
  <2> DEFINE n == cwd[Thread(c)]
  <2>1. /\ \/ pc[c] = "reading" /\ pc' = [pc EXCEPT ![c] = "arriving"]
           \/ pc[c] = "renamed title" /\ pc' = [pc EXCEPT ![c] = "confirming"]
        /\ Keep(c, [work[c] EXCEPT !.seen = n]) /\ op' = op
    BY <1>3 DEF Read
  <2>2. work'[c].seen = n /\ work'[c].project = work[c].project
    <3> HIDE DEF n
    <3> QED
      BY <2>1 DEF Work
  <2> QED
    BY <2>1, <2>2 DEF Reads
<1>4. CASE Arrive(c)
  <2>1. /\ UNCHANGED work
        /\ \/ /\ op[c] = "title" /\ pc' = [pc EXCEPT ![c] = "renamed title"] /\ op' = op
           \/ /\ op[c] \in {"read", "unarchive"} /\ pc' = [pc EXCEPT ![c] = "done"] /\ op' = op
           \/ op[c] # "unarchive" /\ pc' = [pc EXCEPT ![c] = "acting"] /\ op' = op
           \/ Raise(c)
        /\ pc[c] = "arriving"
    BY <1>4 DEF Arrive
  <2> QED
    BY <1>1, <2>1 DEF GoesOn
<1>5. CASE Title(c) \/ StartThread(c) \/ Created(c)
  BY <1>5 DEF Title, StartThread, Created, GoesOn
<1>6. CASE Reserve(c) \/ CodexRaises(c)
  BY <1>1, <1>6 DEF Reserve, CodexRaises, GoesOn
<1>7. CASE ConfirmTitle(c) \/ Archive(c) \/ Unarchive(c) \/ Deletes(c)
  BY <1>7 DEF ConfirmTitle, Archive, Unarchive, Deletes, Delete, GoesOn
<1>8. CASE Fork(c) \/ Forked(c) \/ StartTurn(c) \/ EndTurn(c)
  BY <1>8 DEF Fork, Forked, StartTurn, EndTurn, GoesOn
<1>9. CASE ListThreads(c) \/ Listed(c) \/ MakeDirectory(c) \/ ProjectCreated(c)
  BY <1>9 DEF ListThreads, Listed, MakeDirectory, ProjectCreated, GoesOn
<1>10. CASE CodexLists(c)
  <2> DEFINE S == {t \in listed \ archived : cwd[t] = job[c].name}
  <2>1. Keep(c, [work[c] EXCEPT !.threads = S]) /\ pc' = [pc EXCEPT ![c] = "answered"]
    BY <1>10 DEF CodexLists
  <2> HIDE DEF S
  <2> QED
    BY <2>1 DEF GoesOn, Work
<1>11. CASE Mutation(c)
  <2>1. pc'[c] \notin Past
    <3>1. CASE MoveThread(c)
      <4>1. pc' \in {[pc EXCEPT ![c] = w] : w \in {"moving", "undo"}}
        BY <3>1 DEF MoveThread
      <4> QED
        BY <4>1
    <3>2. CASE MoveBack(c)
      <4>1. pc' \in {[pc EXCEPT ![c] = w] : w \in {"returning", "broken"}}
        BY <3>2 DEF MoveBack, LeaveMutation
      <4> QED
        BY <4>1
    <3>3. CASE ReserveAll(c)
      <4>1. pc' \in {[pc EXCEPT ![c] = w] : w \in {"reserved", "refused"}}
        BY <3>3 DEF ReserveAll, LeaveMutation
      <4> QED
        BY <4>1
    <3>4. CASE CloseGate(c) \/ ListActive(c) \/ MutationRefused(c) \/ DeleteProject(c)
      BY <3>4 DEF CloseGate, ListActive, MutationRefused, DeleteProject, LeaveMutation
    <3>5. CASE CheckNewName(c) \/ RenameDirectory(c) \/ CloseNewGate(c) \/ RenameDone(c)
      BY <3>5 DEF CheckNewName, RenameDirectory, CloseNewGate, RenameDone, LeaveMutation
    <3>6. CASE CheckOldName(c) \/ RestoreDirectory(c) \/ RenameUndone(c)
      BY <3>6 DEF CheckOldName, RestoreDirectory, RenameUndone, LeaveMutation
    <3> QED
      BY <1>11, <3>1, <3>2, <3>3, <3>4, <3>5, <3>6 DEF Mutation
  <2>2. work'[c].seen = work[c].seen /\ work'[c].project = work[c].project
    <3>1. ASSUME NEW f, Keep(c, [work[c] EXCEPT !.threads = f])
          PROVE  work'[c].seen = work[c].seen /\ work'[c].project = work[c].project
      BY <3>1 DEF Work
    <3>2. ASSUME NEW f, Keep(c, [work[c] EXCEPT !.tried = f])
          PROVE  work'[c].seen = work[c].seen /\ work'[c].project = work[c].project
      BY <3>2 DEF Work
    <3>3. ASSUME NEW f, NEW g, Keep(c, [work[c] EXCEPT !.threads = f, !.stored = g])
          PROVE  work'[c].seen = work[c].seen /\ work'[c].project = work[c].project
      BY <3>3 DEF Work
    <3>4. \/ UNCHANGED work
          \/ \E f : Keep(c, [work[c] EXCEPT !.threads = f])
          \/ \E f : Keep(c, [work[c] EXCEPT !.tried = f])
          \/ \E f, g : Keep(c, [work[c] EXCEPT !.threads = f, !.stored = g])
      <4>1. CASE MoveThread(c)
        <5>1. PICK t : Keep(c, [work[c] EXCEPT !.tried = Append(@, t)])
          BY <4>1 DEF MoveThread
        <5> QED
          BY <5>1
      <4>2. CASE ~MoveThread(c)
        BY <1>11, <4>2 DEF Mutation, CloseGate, ListActive, ReserveAll, MutationRefused,
           DeleteProject, CheckNewName, RenameDirectory, CloseNewGate, RenameDone, CheckOldName,
           RestoreDirectory, MoveBack, RenameUndone
      <4> QED
        BY <4>1, <4>2
    <3> QED
      BY <3>1, <3>2, <3>3, <3>4
  <2> QED
    BY <2>1, <2>2 DEF GoesOn
<1> QED
  BY <1>2, <1>3, <1>4, <1>5, <1>6, <1>7, <1>8, <1>9, <1>10, <1>11 DEF Request

\* Where a request is before the Session it makes exists.
Making == {"start", "titling", "reserving", "finding", "reading", "arriving", "acting"}

\* The way of a request to the Session it makes.
LEMMA MakingSteps ==
    ASSUME TypeOK, Fits, NEW c \in Clients, Request(c) \/ Mutation(c), op'[c] \in {"new", "fork"}
    PROVE  /\ op'[c] = op[c]
           /\ pc'[c] \in Making => pc[c] \in Making
           /\ pc'[c] = "created" => Starts(c, Thread(c))
           /\ pc'[c] = "forked" => Copies(c, job[c].copy)
<1>0. /\ CodexOK /\ ServiceOK /\ ClientsOK /\ HistoryOK /\ PlaceIn(pc[c], op[c])
      /\ job[c].thread \in Threads /\ job[c].copy \in Threads
      /\ PlaceIn(pc'[c], op'[c])
  BY TypeParts, JobTyped, FitsStep DEF Fits
<1> USE <1>0 DEF ClientsOK, Making
<1>1. CASE StartThread(c)
  BY <1>1 DEF StartThread, Starts, Standing, CodexOK, HistoryOK
<1>2. CASE Fork(c)
  BY <1>2 DEF Fork, Copies, Standing, CodexOK, HistoryOK
<1>3. ASSUME Raise(c) PROVE op'[c] = op[c] /\ pc'[c] = "refused"
  BY <1>3 DEF Raise
<1>4. CASE Title(c) \/ Created(c) \/ Reserve(c) \/ CodexRaises(c)
  <2>1. CASE Title(c) \/ Created(c)
    BY <2>1 DEF Title, Created
  <2>2. CASE Reserve(c)
    BY <1>3, <2>2 DEF Reserve
  <2>3. CASE CodexRaises(c)
    BY <1>3, <2>3 DEF CodexRaises
  <2> QED
    BY <1>4, <2>1, <2>2, <2>3
<1>5. CASE Find(c)
  BY <1>3, <1>5 DEF Find
<1>6. CASE Read(c)
  BY <1>6 DEF Read, PlaceIn
<1>7. CASE Arrive(c)
  BY <1>3, <1>7 DEF Arrive
<1>8. CASE ConfirmTitle(c) \/ Archive(c) \/ Unarchive(c) \/ Deletes(c)
  BY <1>8 DEF ConfirmTitle, Archive, Unarchive, Deletes, Delete, PlaceIn
<1>9. CASE Forked(c) \/ StartTurn(c) \/ EndTurn(c)
  BY <1>9 DEF Forked, StartTurn, EndTurn
<1>10. CASE ListThreads(c) \/ CodexLists(c) \/ Listed(c) \/ MakeDirectory(c) \/ ProjectCreated(c)
  BY <1>10 DEF ListThreads, CodexLists, Listed, MakeDirectory, ProjectCreated, PlaceIn
<1>11. CASE Mutation(c)
  <2>1. op' = op
    BY <1>11 DEF Mutation, CloseGate, ListActive, ReserveAll, MutationRefused, DeleteProject,
       CheckNewName, RenameDirectory, CloseNewGate, MoveThread, RenameDone, CheckOldName,
       RestoreDirectory, MoveBack, RenameUndone
  <2>2. op[c] \in Mutating
    BY <1>11, <1>0 DEF PlaceIn, InMutation, Mutation, CloseGate, ListActive, ReserveAll,
       MutationRefused, DeleteProject, CheckNewName, RenameDirectory, CloseNewGate, MoveThread,
       RenameDone, CheckOldName, RestoreDirectory, MoveBack, RenameUndone
  <2> QED
    BY <2>1, <2>2 DEF Mutating
<1> QED
  BY <1>1, <1>2, <1>4, <1>5, <1>6, <1>7, <1>8, <1>9, <1>10, <1>11 DEF Request

-----------------------------------------------------------------------------
(* Sessions that are being made *)

\* The Session that a request makes.
Product(c) == IF op[c] = "fork" THEN job[c].copy ELSE Thread(c)

\* Nobody has come across Session t.
Unknown(t) ==
    /\ t \notin listed \cup promised /\ pending[t] = None
    /\ \A d \in Clients : t \notin work[d].threads /\ (Thread(d) = t => pc[d] \notin Past)

\* Nobody knows of a Session before the request that makes it has made it.
UnseenBy(c) ==
    LET t == Product(c) IN
    op[c] \in {"new", "fork"} =>
        /\ pc[c] \in Making => cwd[t] = None /\ Unknown(t)
        /\ pc[c] = "created" => cwd[t] = Old(c) /\ Unknown(t)
        /\ pc[c] = "forked" =>
               /\ t \notin promised /\ pending[t] = None
               /\ cwd[t] # None /\ t \notin listed => Unknown(t)

Unseen == \A c \in Clients : UnseenBy(c)

\* A Session that a request makes is no other request's.
LEMMA ProductOf ==
    ASSUME Fits, NEW c \in Clients, op[c] \in {"new", "fork"}
    PROVE  /\ Product(c) \in Makes(job[c]) /\ job[c] \in Jobs[c]
           /\ op[c] = "fork" => Product(c) # Thread(c)
BY FreshIds DEF FreshIds, Fits, PartOf, Product, Makes, Creating

LEMMA ProductsApart ==
    ASSUME Fits, NEW c \in Clients, NEW d \in Clients \ {c},
           op[c] \in {"new", "fork"}, op[d] \in {"new", "fork"}
    PROVE  Product(c) # Product(d)
BY ProductOf, FreshIds DEF FreshIds

\* The steps that make a Session.
Produces(c, t) == Starts(c, t) \/ Remembers(c, t) \/ Copies(c, t) \/ RemembersCopy(c, t)

\* Only the request that makes a Session produces it.
LEMMA ProducesProduct ==
    ASSUME Fits, NEW c \in Clients, NEW t, Produces(c, t)
    PROVE  op[c] \in {"new", "fork"} /\ t = Product(c)
BY DEF Produces, Starts, Remembers, Copies, RemembersCopy, Fits, PlaceIn, Product

\* What a client moves is on its list.
LEMMA MovesListed ==
    ASSUME TypeOK, Lists, NEW c \in Clients, NEW t, MovesOut(c, t) \/ MovesHome(c, t)
    PROVE  t \in work[c].threads
<1>1. work[c].tried \in Seq(Threads) /\ ToSet(work[c].tried) \subseteq work[c].threads
  BY TypeParts DEF WorkOK, Work, Lists
<1>2. MovesHome(c, t) => t \in ToSet(work[c].tried)
  BY <1>1, ToSetTail DEF MovesHome
<1> QED
  BY <1>1, <1>2 DEF MovesOut

\* A Session that nobody knows of is found by nobody but its maker.
LEMMA UnknownKept ==
    ASSUME TypeOK, Fits, Lists, NEW c \in Clients, Request(c) \/ Mutation(c),
           NEW t \in Threads, Unknown(t), ~Produces(c, t)
    PROVE  Unknown(t)' /\ cwd'[t] = cwd[t] /\ home'[t] = home[t]
<1>1. /\ t \notin listed \cup promised /\ pending[t] = None
      /\ \A d \in Clients : t \notin work[d].threads /\ (Thread(d) = t => pc[d] \notin Past)
  BY DEF Unknown
<1>2. Same(t) \/ Destroys(c, t)
  BY <1>1, SessionSteps, MovesListed DEF SessionStep, Produces, Archives, Unarchives, Removes,
     FindsRemoved, Runs, Forgets, Sees, Past
<1>3. /\ cwd'[t] = cwd[t] /\ home'[t] = home[t]
      /\ t \notin listed' \cup promised' /\ pending'[t] = None
  BY <1>1, <1>2 DEF Same, Destroys, Placement, Standing
<1>4. t \notin work'[c].threads
  <2>1. None \notin Names /\ Old(c) \in Names
    BY TypeParts, JobTyped, Parameters DEF Parameters
  <2> QED
    BY <1>1, <2>1, ListSteps DEF ListSame, ListActives, ListAll, ListTries, ListReturns
<1>5. Thread(c) = t => pc'[c] \notin Past
  BY <1>1, FindingSteps DEF Finds, Reads, GoesOn, Past
<1>6. job' = job /\ Others(c)
  BY JobsStay, HoldingSteps
<1> QED
  BY <1>1, <1>3, <1>4, <1>5, <1>6 DEF Unknown, Others

\* At first no request has made its Session.
LEMMA UnseenInit == Init => Unseen
<1> SUFFICES ASSUME Init, NEW c \in Clients, op[c] \in {"new", "fork"}
             PROVE  cwd[Product(c)] = None /\ Unknown(Product(c))
  <2>1. Init => \A c \in Clients : pc[c] = "start"
    BY DEF Init
  <2> QED
    BY <2>1 DEF Unseen, UnseenBy
<1>1. Fits /\ TypeOK
  BY FitsInit, TypeInit
<1>2. Placed[Product(c)] = None /\ Product(c) \in Threads
  BY <1>1, ProductOf, FreshIds, TypeParts, JobTyped DEF FreshIds, Product
<1>3. /\ cwd = Placed /\ listed \subseteq Existing /\ promised = Existing
      /\ pending = [t \in Threads |-> IF t \in listed THEN None ELSE Placed[t]]
      /\ \A d \in Clients : pc[d] = "start" /\ work[d].threads = {}
  BY DEF Init
<1>4. Product(c) \notin Existing
  BY <1>2 DEF Existing
<1> QED
  BY <1>2, <1>3, <1>4 DEF Unknown, Past

\* A Session stays unseen until it is made.
LEMMA UnseenKept ==
    ASSUME TypeOK, Fits, Lists, Unseen, NEW c \in Clients, Request(c) \/ Mutation(c)
    PROVE  Unseen'
<1>0. job' = job /\ Others(c) /\ \A d \in Clients : job[d].thread \in Threads /\ job[d].copy \in Threads
  BY JobsStay, HoldingSteps, TypeParts, JobTyped
<1> SUFFICES ASSUME NEW d \in Clients, op'[d] \in {"new", "fork"} PROVE UnseenBy(d)'
  BY DEF Unseen, UnseenBy
<1>1. op'[d] = op[d] /\ op[d] \in {"new", "fork"}
  BY <1>0, MakingSteps DEF Others
<1>t. PICK t \in Threads : t = Product(d)
  BY <1>0 DEF Product
<1>2. Product(d)' = t
  BY <1>0, <1>1, <1>t DEF Product
<1>3. /\ pc[d] \in Making => cwd[t] = None /\ Unknown(t)
      /\ pc[d] = "created" => cwd[t] = Old(d) /\ Unknown(t)
      /\ pc[d] = "forked" =>
             /\ t \notin promised /\ pending[t] = None
             /\ cwd[t] # None /\ t \notin listed => Unknown(t)
  BY <1>1, <1>t DEF Unseen, UnseenBy
<1>g. SUFFICES /\ pc'[d] \in Making => cwd'[t] = None /\ Unknown(t)'
               /\ pc'[d] = "created" => cwd'[t] = Old(d) /\ Unknown(t)'
               /\ pc'[d] = "forked" =>
                      /\ t \notin promised' /\ pending'[t] = None
                      /\ cwd'[t] # None /\ t \notin listed' => Unknown(t)'
  BY <1>0, <1>2 DEF UnseenBy
<1>4. CASE pc'[d] = pc[d] /\ ~Produces(c, t)
  <2>1. Unknown(t) => Unknown(t)' /\ cwd'[t] = cwd[t]
    BY <1>1, <1>4, UnknownKept
  <2>2. ASSUME pc[d] = "forked"
        PROVE  /\ t \notin promised' /\ pending'[t] = None
               /\ cwd'[t] # None /\ t \notin listed' => cwd[t] # None /\ t \notin listed
    <3>1. t \notin promised /\ pending[t] = None
      BY <1>3, <2>2
    <3>2. SessionStep(c, t) /\ ~Produces(c, t)
      BY <1>1, <1>4, SessionSteps
    <3> QED
      BY <3>1, <3>2 DEF SessionStep, Produces, Same, Archives, Unarchives, Removes, FindsRemoved,
         Runs, Forgets, Sees, Destroys, MovesOut, MovesHome, Lands, Placement, Standing
  <2> QED
    BY <1>2, <1>3, <1>4, <2>1, <2>2
<1>5. CASE d = c /\ pc'[c] \in Making
  <2>1. pc[c] \in Making
    BY <1>5, MakingSteps
  <2>2. ~Produces(c, t)
    BY <1>5, <2>1 DEF Produces, Starts, Remembers, Copies, RemembersCopy, Making
  <2>3. pc'[c] # "created" /\ pc'[c] # "forked"
    BY <1>5 DEF Making
  <2> QED
    BY <1>1, <1>2, <1>3, <1>5, <2>1, <2>2, <2>3, UnknownKept
<1>6. CASE d = c /\ pc'[c] = "created"
  <2>1. Starts(c, t) /\ pc[c] \in Making /\ op[c] = "new"
    <3>1. Starts(c, Thread(c))
      BY <1>1, <1>6, MakingSteps
    <3>2. op[c] = "new" /\ pc[c] \in Making
      BY <3>1 DEF Starts, Making
    <3>3. t = Thread(c)
      BY <1>6, <1>t, <3>2 DEF Product
    <3> QED
      BY <3>1, <3>2, <3>3
  <2>2. Unknown(t)
    BY <1>3, <1>6, <2>1
  <2>3. \A e \in Clients : t \notin work'[e].threads /\ (Thread(e) = t => pc'[e] \notin Past)
    <3>1. work'[c].threads = work[c].threads
      BY <1>6, <2>1, ListSteps DEF ListSame, ListActives, ListAll, ListTries, ListReturns, Starts
    <3> QED
      BY <1>0, <1>6, <2>2, <3>1 DEF Unknown, Others, Past
  <2> QED
    BY <1>0, <1>2, <1>6, <2>1, <2>2, <2>3 DEF Starts, Unknown, Standing, Making
<1>7. CASE d = c /\ pc'[c] = "forked"
  <2>1. Copies(c, t) /\ pc[c] \in Making /\ op[c] = "fork"
    <3>1. Copies(c, job[c].copy)
      BY <1>1, <1>7, MakingSteps
    <3>2. op[c] = "fork" /\ pc[c] \in Making
      BY <3>1 DEF Copies, Making
    <3>3. t = job[c].copy
      BY <1>7, <1>t, <3>2 DEF Product
    <3> QED
      BY <3>1, <3>2, <3>3
  <2>2. Unknown(t)
    BY <1>3, <1>7, <2>1
  <2>3. \A e \in Clients : t \notin work'[e].threads /\ (Thread(e) = t => pc'[e] \notin Past)
    <3>1. work'[c].threads = work[c].threads
      BY <1>7, <2>1, ListSteps DEF ListSame, ListActives, ListAll, ListTries, ListReturns, Copies
    <3>2. Thread(c) # t
      BY <1>1, <1>7, <1>t, <2>1, ProductOf
    <3> QED
      BY <1>0, <1>7, <2>2, <3>1, <3>2 DEF Unknown, Others
  <2> QED
    BY <1>0, <1>2, <1>7, <2>1, <2>2, <2>3 DEF Copies, Unknown, Standing, Making
<1>8. CASE d # c
  <2>1. pc'[d] = pc[d]
    BY <1>0, <1>8 DEF Others
  <2>2. ~Produces(c, t)
    BY <1>1, <1>8, <1>t, ProducesProduct, ProductsApart
  <2> QED
    BY <1>4, <2>1, <2>2
<1> QED
  BY <1>5, <1>6, <1>7, <1>8 DEF Making

-----------------------------------------------------------------------------
(* The course of a mutation *)

\* The way of a mutation through its places.
Flow(c) ==
    \/ pc[c] = "start" /\ pc'[c] \in {"gated", "refused"}
    \/ pc[c] = "gated" /\ pc'[c] \in {"listing", "refused"}
    \/ pc[c] = "listing" /\ pc'[c] \in {"reserved", "refused"}
    \/ pc[c] = "reserved" /\ pc'[c] \in {"checked", "refused", "done"}
    \/ pc[c] = "checked" /\ pc'[c] = "renamed"
    \/ pc[c] = "renamed" /\ pc'[c] = "moving"
    \/ pc[c] = "moving" /\ pc'[c] \in {"moving", "undo"}
    \/ pc[c] = "moving" /\ pc'[c] = "done" /\ ToSet(work[c].tried) = work[c].threads
    \/ pc[c] = "undo" /\ pc'[c] \in {"undo checked", "broken"}
    \/ pc[c] = "undo checked" /\ pc'[c] = "returning"
    \/ pc[c] = "returning" /\ pc'[c] \in {"returning", "broken"}
    \/ pc[c] = "returning" /\ pc'[c] = "failed" /\ work[c].tried = <<>>

\* A mutation takes its way, a request stays off it.
LEMMA PlaceSteps ==
    ASSUME TypeOK, NEW c \in Clients, Request(c) \/ Mutation(c)
    PROVE  \/ pc[c] \notin InMutation \cup Ended /\ pc'[c] \notin InMutation \cup {"broken"}
           \/ Flow(c)
<1>0. ClientsOK
  BY TypeParts
<1> USE <1>0 DEF ClientsOK
<1>1. CASE Request(c)
  BY <1>1, RequestPlaces
<1>2. CASE CloseGate(c) \/ ListActive(c) \/ MutationRefused(c) \/ DeleteProject(c)
  BY <1>2 DEF CloseGate, ListActive, MutationRefused, DeleteProject, LeaveMutation, Flow
<1>3. CASE ReserveAll(c)
  <2>1. pc[c] = "listing" /\ pc' \in {[pc EXCEPT ![c] = w] : w \in {"reserved", "refused"}}
    BY <1>3 DEF ReserveAll, LeaveMutation
  <2> QED
    BY <2>1 DEF Flow
<1>4. CASE CheckNewName(c) \/ RenameDirectory(c) \/ CloseNewGate(c) \/ RenameDone(c)
  BY <1>4 DEF CheckNewName, RenameDirectory, CloseNewGate, RenameDone, LeaveMutation, Flow
<1>5. CASE CheckOldName(c) \/ RestoreDirectory(c) \/ RenameUndone(c)
  BY <1>5 DEF CheckOldName, RestoreDirectory, RenameUndone, LeaveMutation, Flow
<1>6. CASE MoveThread(c)
  <2>1. pc[c] = "moving" /\ pc' \in {[pc EXCEPT ![c] = w] : w \in {"moving", "undo"}}
    BY <1>6 DEF MoveThread
  <2> QED
    BY <2>1 DEF Flow
<1>7. CASE MoveBack(c)
  <2>1. pc[c] = "returning" /\ pc' \in {[pc EXCEPT ![c] = w] : w \in {"returning", "broken"}}
    BY <1>7 DEF MoveBack, LeaveMutation
  <2> QED
    BY <2>1 DEF Flow
<1> QED
  BY <1>1, <1>2, <1>3, <1>4, <1>5, <1>6, <1>7 DEF Mutation

\* The Session that a rename tries next is the one it moves.
LEMMA TriedMoves ==
    ASSUME TypeOK, NEW c \in Clients, Request(c) \/ Mutation(c), NEW t \in Threads
    PROVE  /\ ListTries(c) /\ t \in ToSet(work'[c].tried) \ ToSet(work[c].tried) => MovesOut(c, t)
           /\ ListReturns(c) /\ t = Head(work[c].tried) => MovesHome(c, t)
<1>0. ClientsOK /\ work[c].tried \in Seq(Threads)
  BY TypeParts DEF WorkOK, Work
<1> USE <1>0 DEF ClientsOK
<1>1. pc[c] \in {"moving", "returning"} =>
          MoveThread(c) \/ RenameDone(c) \/ MoveBack(c) \/ RenameUndone(c)
  BY RequestPlaces DEF Mutation, CloseGate, ListActive, ReserveAll, MutationRefused, DeleteProject,
     CheckNewName, RenameDirectory, CloseNewGate, CheckOldName, RestoreDirectory, InMutation
<1>2. /\ RenameDone(c) => pc[c] = "moving" /\ pc'[c] = "done"
      /\ RenameUndone(c) => pc[c] = "returning" /\ pc'[c] = "failed"
      /\ MoveThread(c) => pc[c] = "moving"
      /\ MoveBack(c) => pc[c] = "returning"
  BY DEF RenameDone, RenameUndone, MoveThread, MoveBack, LeaveMutation
<1>3. ASSUME ListTries(c), t \in ToSet(work'[c].tried) \ ToSet(work[c].tried) PROVE MovesOut(c, t)
  <2>1. MoveThread(c)
    BY <1>1, <1>2, <1>3 DEF ListTries
  <2>2. PICK u \in Threads : MovesOut(c, u)
    BY <2>1, MoveThreadMoves
  <2>3. ToSet(work'[c].tried) = ToSet(work[c].tried) \cup {u}
    BY <2>2, ToSetAppend DEF MovesOut
  <2> QED
    BY <1>3, <2>2, <2>3
<1>4. ASSUME ListReturns(c), t = Head(work[c].tried) PROVE MovesHome(c, t)
  <2>1. MoveBack(c)
    BY <1>1, <1>2, <1>4 DEF ListReturns
  <2> QED
    BY <1>4, <2>1, MoveBackMoves
<1> QED
  BY <1>3, <1>4

-----------------------------------------------------------------------------
(* Where a Session is *)

\* Client c holds Session t: as a request, or with the list of a mutation.
Has(c, t) ==
    \/ pc[c] \in Owning /\ t \in work[c].threads
    \/ op[c] \in Reserving /\ pc[c] \in Using /\ t = Thread(c)

\* A rename has Session t on its way.
Owned(t) == \E c \in Clients : pc[c] \in Away /\ t \in work[c].threads

\* What a client has, it holds, and alone.
LEMMA HasAlone ==
    ASSUME Tidy, Reserved, NEW c \in Clients, NEW d \in Clients, NEW t, Has(c, t), Has(d, t)
    PROVE  c = d
BY DEF Has, Tidy, Holdings, Reserved

LEMMA Holds ==
    ASSUME Tidy, Reserved, NEW c \in Clients, NEW t, Has(c, t)
    PROVE  held[t] = c
BY DEF Has, Tidy, Holdings, Reserved

\* Client d has nothing of its own to lose by what others do.
LEMMA StrandedStays ==
    ASSUME TypeOK, NEW c \in Clients, Request(c) \/ Mutation(c)
    PROVE  /\ Stranded \subseteq Stranded'
           /\ pc'[c] = "broken" => work'[c].threads \subseteq Stranded'
<1>1. pc[c] # "broken" /\ Others(c)
  BY PlaceSteps, HoldingSteps DEF Flow, Ended
<1> QED
  BY <1>1 DEF Stranded, Others

\* A Session on the list of a mutation is at its old place until it has been
\* tried, and at one of the two from then on.
Spot(c, t, n) ==
    /\ n \in {Old(c), New(c)}
    /\ t \notin ToSet(work[c].tried) => n = Old(c)
    /\ pc[c] = "moving" /\ t \in ToSet(work[c].tried) => n = New(c)

OnList(c, t) ==
    t \in work[c].threads =>
        /\ pc[c] \in InMutation \ {"gated"} => Spot(c, t, cwd[t])
        /\ pc[c] \in Away => pending[t] = None \/ Spot(c, t, pending[t])
        /\ pc[c] \in Owning /\ t \in work[c].stored =>
               t \in archived \/ (t \in ToSet(work[c].tried) /\ pc[c] # "moving")

\* A Session is where the lists that have it say, and a pending one is remembered
\* there.
LocatedAt(t) ==
    cwd[t] # None =>
        /\ \A c \in Clients : OnList(c, t)
        /\ ~Owned(t) => pending[t] \in {None, cwd[t]}

Located == \A t \in Threads \ Stranded : LocatedAt(t)

\* What a Session is that did not exist before the step.
LEMMA NewSession ==
    ASSUME TypeOK, Fits, Lists, Unseen, NEW c \in Clients, Request(c) \/ Mutation(c),
           NEW t \in Threads, cwd[t] = None, cwd'[t] # None
    PROVE  (Starts(c, t) \/ Copies(c, t)) /\ Unknown(t)
<1>1. Starts(c, t) \/ Copies(c, t)
  BY SessionSteps DEF SessionStep, Same, Placement, Remembers, RemembersCopy, Archives, Unarchives,
     Removes, FindsRemoved, Runs, Forgets, Sees, Destroys, MovesOut, MovesHome, Lands
<1>2. t = Product(c) /\ op[c] \in {"new", "fork"} /\ pc[c] \in Making
  BY <1>1 DEF Starts, Copies, Product, Making
<1> QED
  BY <1>1, <1>2 DEF Unseen, UnseenBy

\* The steps of others leave a mutation's Sessions where its lists say.
LEMMA OnListOther ==
    ASSUME TypeOK, Fits, Tidy, Reserved, Turf, Lists, Unseen, NamesApart,
           NEW c \in Clients, Request(c) \/ Mutation(c), NEW d \in Clients \ {c},
           NEW t \in Threads, cwd[t] # None, cwd'[t] # None, LocatedAt(t)
    PROVE  OnList(d, t)'
<1>0. /\ pc'[d] = pc[d] /\ work'[d] = work[d] /\ job' = job /\ op'[d] = op[d]
  BY HoldingSteps, JobsStay DEF Others
<1>1. SUFFICES ASSUME t \in work[d].threads
               PROVE  /\ pc[d] \in InMutation \ {"gated"} => Spot(d, t, cwd'[t])
                      /\ pc[d] \in Away => pending'[t] = None \/ Spot(d, t, pending'[t])
                      /\ pc[d] \in Owning /\ t \in work[d].stored =>
                             t \in archived' \/ (t \in ToSet(work[d].tried) /\ pc[d] # "moving")
  BY <1>0 DEF OnList, Spot
<1>2. /\ pc[d] \in InMutation \ {"gated"} => Spot(d, t, cwd[t])
      /\ pc[d] \in Away => pending[t] = None \/ Spot(d, t, pending[t])
      /\ pc[d] \in Owning /\ t \in work[d].stored =>
             t \in archived \/ (t \in ToSet(work[d].tried) /\ pc[d] # "moving")
  BY <1>1 DEF LocatedAt, OnList
<1>3. Away \subseteq Owning /\ Owning \subseteq InMutation \ {"gated"}
  BY DEF Away, AtNew, Owning, InMutation
<1>4. pc[d] \in Owning => ~Has(c, t)
  BY <1>1, HasAlone DEF Has
<1>5. CASE Same(t) \/ Archives(c, t) \/ Runs(c, t) \/ Forgets(c, t) \/ Sees(c, t) \/ Destroys(c, t)
  BY <1>2, <1>5 DEF Same, Archives, Runs, Forgets, Sees, Destroys, Placement, Standing
<1>6. CASE Removes(c, t) \/ FindsRemoved(c, t) \/ Starts(c, t) \/ Copies(c, t)
  BY <1>6 DEF Removes, FindsRemoved, Starts, Copies
<1>7. CASE Remembers(c, t)
  <2>1. Unknown(t)
    BY <1>7 DEF Remembers, Fits, PlaceIn, Unseen, UnseenBy, Product
  <2> QED
    BY <1>1, <2>1 DEF Unknown
<1>8. CASE RemembersCopy(c, t)
  BY <1>2, <1>3, <1>8 DEF RemembersCopy, Placement
<1>9. CASE Unarchives(c, t)
  <2>1. Has(c, t)
    BY <1>9 DEF Unarchives, Has, Reserving, Using
  <2>2. pc[d] \notin Owning
    BY <1>4, <2>1
  <2> QED
    BY <1>2, <1>3, <1>9, <2>2 DEF Unarchives, Placement, Standing
<1>10. CASE MovesOut(c, t) \/ MovesHome(c, t)
  <2>1. t \in work[c].threads /\ pc[c] \in Owning /\ pc[c] \in Renaming
    BY <1>10, MovesListed DEF MovesOut, MovesHome, Owning, InMutation, Renaming, Moving
  <2>2. pc[d] \notin Owning
    BY <1>4, <2>1 DEF Has
  <2>3. cwd[t] \in {Old(c), New(c)}
    BY <1>3, <2>1 DEF LocatedAt, OnList, Spot
  <2>4. pc[d] \notin InMutation \ {"gated"}
    <3>1. ASSUME pc[d] \in InMutation \ {"gated"} PROVE FALSE
      <4>1. pc[d] = "listing"
        BY <2>2, <3>1 DEF Owning
      <4>2. work[d].tried = <<>>
        BY <4>1 DEF Lists, Untried, Unlisted
      <4>3. cwd[t] = Old(d)
        BY <1>2, <3>1, <4>2, ToSetEmpty DEF Spot
      <4>4. Old(c) # Old(d)
        BY <1>3, <2>1, <3>1 DEF Turf, Disjoint
      <4>5. New(c) # Old(d)
        BY <1>3, <2>1, <3>1 DEF NamesApart, Fits, PlaceIn
      <4> QED
        BY <2>3, <4>3, <4>4, <4>5
    <3> QED
      BY <3>1
  <2> QED
    BY <1>3, <2>2, <2>4
<1> QED
  BY <1>5, <1>6, <1>7, <1>8, <1>9, <1>10, SessionSteps DEF SessionStep

\* So do its own.
LEMMA OnListSelf ==
    ASSUME TypeOK, Fits, Tidy, Reserved, Turf, Lists, Unseen,
           NEW c \in Clients, Request(c) \/ Mutation(c),
           NEW t \in Threads, cwd[t] # None, cwd'[t] # None, LocatedAt(t), pc'[c] # "broken"
    PROVE  OnList(c, t)'
<1>0. /\ job' = job /\ work[c].tried \in Seq(Threads) /\ None \notin Names /\ Old(c) \in Names
      /\ Away \subseteq Owning /\ Owning \subseteq InMutation \ {"gated"}
  BY JobsStay, TypeParts, JobTyped, Parameters DEF WorkOK, Work, Parameters, Away, AtNew, Owning,
     InMutation
<1>1. SUFFICES ASSUME t \in work'[c].threads, pc'[c] \in InMutation \ {"gated"}
               PROVE  /\ Spot(c, t, cwd[t])'
                      /\ pc'[c] \in Away => pending'[t] = None \/ Spot(c, t, pending[t])'
                      /\ pc'[c] \in Owning /\ t \in work'[c].stored =>
                             t \in archived' \/ (t \in ToSet(work'[c].tried) /\ pc'[c] # "moving")
  BY <1>0 DEF OnList
<1>2. Flow(c)
  BY <1>1, PlaceSteps
<1>3. t \in work[c].threads =>
        /\ pc[c] \in InMutation \ {"gated"} => Spot(c, t, cwd[t])
        /\ pc[c] \in Away => pending[t] = None \/ Spot(c, t, pending[t])
        /\ pc[c] \in Owning /\ t \in work[c].stored =>
             t \in archived \/ (t \in ToSet(work[c].tried) /\ pc[c] # "moving")
  BY DEF LocatedAt, OnList
<1>4. ~Owned(t) => pending[t] \in {None, cwd[t]}
  BY DEF LocatedAt
<1>5. pc[c] \in Untried => work[c].tried = <<>> /\ ToSet(work[c].tried) = {}
  BY ToSetEmpty DEF Lists
<1>6. Same(t) \/ MovesOut(c, t) \/ MovesHome(c, t)
  BY <1>1, <1>2, SessionSteps DEF SessionStep, Flow, InMutation, Starts, Remembers, Copies,
     RemembersCopy, Archives, Unarchives, Removes, FindsRemoved, Runs, Forgets, Sees, Destroys, Rmtree
<1>7. CASE ListSame(c)
  <2>1. /\ pc[c] \in InMutation \ {"gated", "listing", "moving", "returning"}
        /\ t \in work[c].threads
        /\ ToSet(work'[c].tried) = ToSet(work[c].tried) /\ work'[c].stored = work[c].stored
    BY <1>1, <1>2, <1>7 DEF Flow, ListSame, InMutation, Ended
  <2>2. Same(t)
    BY <1>6, <2>1 DEF MovesOut, MovesHome
  <2>3. pc'[c] = "moving" => pc[c] = "renamed" /\ t \notin ToSet(work[c].tried)
    BY <1>2, <1>5, <2>1 DEF Flow, Untried
  <2>4. Spot(c, t, cwd[t]) /\ Spot(c, t, cwd[t])'
    BY <1>0, <1>3, <2>1, <2>2, <2>3 DEF Spot, Same, Placement
  <2>5. ASSUME pc'[c] \in Away PROVE pending'[t] = None \/ Spot(c, t, pending[t])'
    <3>1. pending'[t] = pending[t]
      BY <2>2 DEF Same, Standing
    <3>2. CASE pc[c] \in Away
      BY <1>0, <1>3, <2>1, <2>3, <3>1, <3>2 DEF Spot
    <3>3. CASE pc[c] \notin Away
      <4>1. pc[c] = "checked"
        BY <1>2, <2>1, <2>5, <3>3 DEF Flow, Away, AtNew
      <4>2. Has(c, t) /\ ~Owned(t)
        <5>1. Has(c, t)
          BY <2>1, <4>1 DEF Has, Owning, InMutation
        <5> QED
          BY <1>0, <3>3, <5>1, HasAlone DEF Owned, Has
      <4>3. pending[t] \in {None, cwd[t]}
        BY <1>4, <4>2
      <4> QED
        BY <2>2, <2>4, <3>1, <4>3 DEF Spot, Same, Placement
    <3> QED
      BY <3>2, <3>3
  <2>6. pc'[c] \in Owning /\ t \in work'[c].stored =>
            t \in archived' \/ (t \in ToSet(work'[c].tried) /\ pc'[c] # "moving")
    <3>1. pc[c] \in Owning
      BY <2>1 DEF Owning
    <3> QED
      BY <1>3, <2>1, <2>2, <2>3, <3>1 DEF Same
  <2> QED
    BY <2>4, <2>5, <2>6
<1>8. CASE ListActives(c)
  <2>1. pc[c] = "gated" /\ pc'[c] = "listing"
    BY <1>1, <1>8 DEF ListActives, InMutation
  <2>2. cwd[t] = Old(c) /\ Same(t) /\ ToSet(work'[c].tried) = {}
    BY <1>1, <1>5, <1>6, <1>8, <2>1 DEF ListActives, Untried, Unlisted, MovesOut, MovesHome
  <2> QED
    BY <1>0, <2>1, <2>2 DEF Spot, Same, Placement, Away, AtNew, Owning
<1>9. CASE ListAll(c)
  <2>1. /\ pc[c] = "listing" /\ pc'[c] = "reserved" /\ held[t] = None
        /\ t \in work[c].threads \/ cwd[t] = Old(c) \/ pending[t] = Old(c)
        /\ t \in work'[c].stored => t \in archived
    BY <1>1, <1>9 DEF ListAll
  <2>2. Same(t) /\ ToSet(work'[c].tried) = {} /\ ToSet(work[c].tried) = {}
    BY <1>5, <1>6, <1>9, <2>1 DEF ListAll, Untried, Unlisted, MovesOut, MovesHome
  <2>3. ~Owned(t)
    <3>1. None \notin Clients
      BY Parameters DEF Parameters
    <3> QED
      BY <1>0, <2>1, <3>1, Holds DEF Owned, Has
  <2>4. cwd[t] = Old(c)
    <3>1. t \in work[c].threads => cwd[t] = Old(c)
      BY <1>3, <2>1, <2>2 DEF Spot, InMutation
    <3>2. pending[t] = Old(c) => cwd[t] = Old(c)
      BY <1>0, <1>4, <2>3
    <3> QED
      BY <2>1, <3>1, <3>2
  <2> QED
    BY <1>0, <2>1, <2>2, <2>4 DEF Spot, Same, Placement, Away, AtNew
<1>10. CASE ListTries(c)
  <2>1. pc[c] = "moving" /\ pc'[c] \in {"moving", "undo"} /\ t \in work[c].threads
    BY <1>1, <1>10 DEF ListTries
  <2>2. PICK u \in work[c].threads \ ToSet(work[c].tried) : work'[c].tried = Append(work[c].tried, u)
    BY <1>10 DEF ListTries
  <2>3. ToSet(work'[c].tried) = ToSet(work[c].tried) \cup {u}
    <3>1. work[c].threads \subseteq Threads
      BY TypeParts DEF WorkOK, Work
    <3> QED
      BY <1>0, <2>2, <3>1, ToSetAppend
  <2>4. Spot(c, t, cwd[t]) /\ (pending[t] = None \/ Spot(c, t, pending[t]))
        /\ (t \in work[c].stored => t \in archived)
    BY <1>3, <2>1 DEF InMutation, Away, AtNew, Owning
  <2>5. work'[c].stored = work[c].stored
    BY <1>10 DEF ListTries
  <2>6. CASE t = u
    <3>1. MovesOut(c, t)
      BY <1>10, <2>2, <2>3, <2>6, TriedMoves
    <3>2. Lands(c, t, New(c), pc'[c] = "moving")
      BY <3>1 DEF MovesOut
    <3>3. t \in ToSet(work'[c].tried) /\ t \notin ToSet(work[c].tried)
      BY <2>2, <2>3, <2>6
    <3> QED
      BY <1>0, <2>1, <2>3, <2>4, <2>5, <3>2, <3>3 DEF Spot, Lands
  <2>7. CASE t # u
    <3>1. Same(t)
      <4>1. ~MovesOut(c, t)
        <5>1. ASSUME MovesOut(c, t) PROVE FALSE
          <6>1. work'[c].tried = Append(work[c].tried, t) /\ t \notin ToSet(work[c].tried)
            BY <5>1 DEF MovesOut
          <6>2. t \in ToSet(work'[c].tried)
            BY <1>0, <6>1, ToSetAppend
          <6> QED
            BY <2>3, <2>7, <6>1, <6>2
        <5> QED
          BY <5>1
      <4> QED
        BY <1>6, <2>1, <4>1 DEF MovesHome
    <3> QED
      BY <1>0, <2>1, <2>3, <2>4, <2>5, <2>7, <3>1 DEF Spot, Same, Placement, Standing
  <2> QED
    BY <2>6, <2>7
<1>11. CASE ListReturns(c)
  <2>1. pc[c] = "returning" /\ pc'[c] = "returning" /\ t \in work[c].threads
    BY <1>1, <1>11 DEF ListReturns, InMutation
  <2>2. /\ work[c].tried # <<>> /\ work'[c].stored = work[c].stored
        /\ ToSet(work[c].tried) = ToSet(work'[c].tried) \cup {Head(work[c].tried)}
    BY <1>0, <1>11, ToSetTail DEF ListReturns
  <2>4. /\ Spot(c, t, cwd[t]) /\ (pending[t] = None \/ Spot(c, t, pending[t]))
        /\ (t \in work[c].stored => t \in archived \/ t \in ToSet(work[c].tried))
    BY <1>3, <2>1 DEF InMutation, Away, AtNew, Owning
  <2>5. CASE t = Head(work[c].tried)
    <3>1. Lands(c, t, Old(c), TRUE)
      BY <1>11, <2>1, <2>5, TriedMoves DEF MovesHome
    <3> QED
      BY <1>0, <2>1, <2>2, <2>4, <3>1 DEF Spot, Lands
  <2>6. CASE t # Head(work[c].tried)
    <3>1. Same(t)
      BY <1>6, <2>1, <2>6 DEF MovesOut, MovesHome
    <3> QED
      BY <1>0, <2>1, <2>2, <2>4, <2>6, <3>1 DEF Spot, Same, Placement, Standing
  <2> QED
    BY <2>5, <2>6
<1> QED
  BY <1>7, <1>8, <1>9, <1>10, <1>11, ListSteps

-----------------------------------------------------------------------------
(* What a rename lets go of, and what it takes back *)

\* A rename lets go of a Session when all are at the new place, or back at the old.
LEMMA LetsGo ==
    ASSUME TypeOK, NEW c \in Clients, Request(c) \/ Mutation(c), Fits,
           NEW t \in Threads, t \notin Stranded', Owned(t), ~Owned(t)'
    PROVE  /\ \/ pc[c] = "moving" /\ pc'[c] = "done" /\ ToSet(work[c].tried) = work[c].threads
              \/ pc[c] = "returning" /\ pc'[c] = "failed" /\ work[c].tried = <<>>
           /\ t \in work[c].threads /\ Same(t)
<1>1. Others(c) /\ Away \subseteq InMutation
  BY HoldingSteps DEF Away, AtNew, InMutation
<1>2. pc[c] \in Away /\ t \in work[c].threads
  BY <1>1 DEF Owned, Others
<1>3. Flow(c)
  BY <1>1, <1>2, PlaceSteps
<1>4. work'[c].threads = work[c].threads
  BY <1>2, ListSteps DEF ListSame, ListActives, ListAll, ListTries, ListReturns, Away, AtNew
<1>5. pc'[c] \notin Away /\ pc'[c] # "broken"
  BY <1>2, <1>4, StrandedStays DEF Owned
<1>6. \/ pc[c] = "moving" /\ pc'[c] = "done" /\ ToSet(work[c].tried) = work[c].threads
      \/ pc[c] = "returning" /\ pc'[c] = "failed" /\ work[c].tried = <<>>
  BY <1>2, <1>3, <1>5 DEF Flow, Away, AtNew
<1>7. Same(t)
  BY <1>6, SessionSteps DEF SessionStep, Starts, Remembers, Copies, RemembersCopy, Archives,
     Unarchives, Removes, FindsRemoved, Runs, Forgets, Sees, Destroys, Rmtree, MovesOut, MovesHome
<1> QED
  BY <1>2, <1>6, <1>7

\* A Session that no rename has is remembered where it is.
LEMMA OffListKept ==
    ASSUME TypeOK, Fits, Lists, Unseen, NEW c \in Clients, Request(c) \/ Mutation(c),
           NEW t \in Threads, t \notin Stranded', cwd[t] # None, cwd'[t] # None, LocatedAt(t),
           ~Owned(t)'
    PROVE  pending'[t] \in {None, cwd'[t]}
<1>1. Others(c) /\ job' = job /\ Away \subseteq InMutation
  BY HoldingSteps, JobsStay DEF Away, AtNew, InMutation
<1>2. CASE Owned(t)
  <2>1. /\ \/ pc[c] = "moving" /\ pc'[c] = "done" /\ ToSet(work[c].tried) = work[c].threads
           \/ pc[c] = "returning" /\ pc'[c] = "failed" /\ work[c].tried = <<>>
        /\ t \in work[c].threads /\ Same(t)
    BY <1>2, LetsGo
  <2>2. Spot(c, t, cwd[t]) /\ (pending[t] = None \/ Spot(c, t, pending[t]))
    BY <2>1 DEF LocatedAt, OnList, Away, AtNew, InMutation
  <2> QED
    BY <2>1, <2>2, ToSetEmpty DEF Spot, Same, Placement, Standing
<1>3. CASE ~Owned(t)
  <2>1. pending[t] \in {None, cwd[t]}
    BY <1>3 DEF LocatedAt
  <2>2. CASE Remembers(c, t)
    <3>1. cwd[t] = Old(c)
      BY <2>2 DEF Remembers, Fits, PlaceIn, Unseen, UnseenBy, Product
    <3> QED
      BY <2>2, <3>1 DEF Remembers, Placement
  <2>3. CASE RemembersCopy(c, t)
    BY <2>3 DEF RemembersCopy, Placement
  <2>4. CASE MovesOut(c, t) \/ MovesHome(c, t)
    BY <1>3, <2>4, MovesListed DEF MovesOut, MovesHome, Owned, Away, AtNew
  <2>5. CASE Same(t) \/ Archives(c, t) \/ Unarchives(c, t) \/ Runs(c, t)
    BY <2>1, <2>5 DEF Same, Archives, Unarchives, Runs, Placement, Standing
  <2>6. CASE FindsRemoved(c, t) \/ Forgets(c, t) \/ Sees(c, t) \/ Destroys(c, t)
    BY <2>1, <2>6 DEF FindsRemoved, Forgets, Sees, Destroys, Placement
  <2>7. CASE Starts(c, t) \/ Copies(c, t) \/ Removes(c, t)
    BY <2>7 DEF Starts, Copies, Removes
  <2> QED
    BY <2>2, <2>3, <2>4, <2>5, <2>6, <2>7, SessionSteps DEF SessionStep
<1> QED
  BY <1>2, <1>3

\* At first no list has a Session.
LEMMA LocatedInit == Init => Located
<1> SUFFICES ASSUME Init, NEW t \in Threads PROVE LocatedAt(t)
  BY DEF Located
<1>1. /\ cwd = Placed /\ pending[t] \in {None, Placed[t]}
      /\ \A c \in Clients : work[c].threads = {}
  BY DEF Init
<1> QED
  BY <1>1 DEF LocatedAt, OnList

\* A Session is at the old or the new place of the rename that has it, as far as its
\* lists say, and the pending Sessions with it.
LEMMA LocatedKept ==
    ASSUME TypeOK, Fits, Tidy, Reserved, Turf, Lists, Unseen, NamesApart, Located,
           NEW c \in Clients, Request(c) \/ Mutation(c)
    PROVE  Located'
<1>1. SUFFICES ASSUME NEW t \in Threads, t \notin Stranded', cwd'[t] # None PROVE LocatedAt(t)'
  BY DEF Located, LocatedAt
<1>2. t \notin Stranded /\ LocatedAt(t)
  BY <1>1, StrandedStays DEF Located
<1>3. CASE cwd[t] # None
  <2>1. ASSUME NEW d \in Clients PROVE OnList(d, t)'
    <3>1. CASE d # c
      BY <1>1, <1>2, <1>3, <3>1, OnListOther
    <3>2. CASE d = c /\ pc'[c] # "broken"
      BY <1>1, <1>2, <1>3, <3>2, OnListSelf
    <3>3. CASE d = c /\ pc'[c] = "broken"
      BY <1>1, <3>3, StrandedStays DEF OnList
    <3> QED
      BY <3>1, <3>2, <3>3
  <2> QED
    BY <1>1, <1>2, <1>3, <2>1, OffListKept DEF LocatedAt
<1>4. CASE cwd[t] = None
  <2>1. (Starts(c, t) \/ Copies(c, t)) /\ Unknown(t)
    BY <1>1, <1>4, NewSession
  <2>2. \A d \in Clients : work'[d].threads = work[d].threads
    BY <2>1, HoldingSteps, ListSteps DEF Others, Starts, Copies, ListSame, ListActives, ListAll,
       ListTries, ListReturns
  <2>3. pending'[t] = None
    BY <2>1 DEF Starts, Copies, Standing, Unknown
  <2> QED
    BY <2>1, <2>2, <2>3 DEF LocatedAt, OnList, Unknown
<1> QED
  BY <1>3, <1>4

-----------------------------------------------------------------------------
(* What is said of a Session *)

\* A Session that a request is crossing is marked at once.
Races == raced' = raced \cup {t \in Threads : Crossed(t)' \/ UnsafeCopy(t)' \/ CopyOfRaced(t)}

Race == \A t \in Threads : Crossed(t) => t \in raced

\* What crosses a mutation is marked, from the first state on.
LEMMA RaceInit == Init => Race
BY DEF Init, Race, Crossed, InMutation

LEMMA RaceKept == Races => Race'
BY DEF Races, Race

\* A Session that a client was told of has a directory in Codex.
Alive == \A t \in promised : cwd[t] # None

\* A Session that a client was told of is in Codex until it is deleted.
LEMMA AliveInit == Init => Alive
BY DEF Init, Alive, Existing

LEMMA AliveKept ==
    ASSUME TypeOK, Fits, Alive, NEW c \in Clients, Request(c) \/ Mutation(c)
    PROVE  Alive'
<1>1. SUFFICES ASSUME NEW t \in Threads, t \in promised' PROVE cwd'[t] # None
  BY TypeParts, RequestTyped, MutationTyped DEF Alive, HistoryOK
<1>2. None \notin Names /\ Old(c) \in Names /\ New(c) \in Names
  BY TypeParts, JobTyped, Parameters DEF Parameters
<1>3. CASE Remembers(c, t) \/ RemembersCopy(c, t)
  BY <1>3 DEF Remembers, RemembersCopy, Found, Placement
<1>4. CASE ~(Remembers(c, t) \/ RemembersCopy(c, t))
  <2>1. t \in promised
    BY <1>1, <1>4, SessionSteps DEF SessionStep, Same, Standing, Starts, Copies, Archives,
       Unarchives, Removes, FindsRemoved, Runs, Forgets, Sees, Destroys, MovesOut, MovesHome, Lands
  <2>2. cwd[t] # None
    BY <2>1 DEF Alive
  <2> QED
    BY <1>1, <1>2, <1>4, <2>2, SessionSteps DEF SessionStep, Same, Placement, Starts, Copies,
       Archives, Unarchives, Removes, FindsRemoved, Runs, Forgets, Sees, Destroys, MovesOut,
       MovesHome, Lands
<1> QED
  BY <1>3, <1>4

-----------------------------------------------------------------------------
(* Where the directories of Sessions are *)

\* A directory that no mutation concerns stays.
LEMMA DirectoryStays ==
    ASSUME TypeOK, Fits, NEW c \in Clients, Request(c) \/ Mutation(c),
           NEW n \in Names, dirs[n] # None, pc[c] \in InMutation => n \notin Concerns(c)
    PROVE  dirs'[n] = dirs[n]
<1>0. CodexOK /\ job[c].name \in Names /\ job[c].to \in Names
  BY TypeParts, JobTyped
<1>1. pc[c] \in InMutation => n # Old(c)
  BY DEF Concerns
<1>2. pc[c] \in {"checked", "undo checked"} => n # New(c)
  BY DEF Concerns, Fits, PlaceIn, Renaming, Moving, InMutation
<1>3. CASE Mkdir(c)
  BY <1>0, <1>3 DEF Mkdir, CodexOK
<1>4. CASE Rmtree(c)
  BY <1>0, <1>1, <1>4 DEF Rmtree, CodexOK, InMutation
<1>5. CASE Moves(c) \/ Returned(c)
  BY <1>0, <1>1, <1>2, <1>5 DEF Moves, Returned, CodexOK, InMutation
<1> QED
  BY <1>3, <1>4, <1>5, DirectorySteps

\* Deleting a directory takes the Sessions that were made in it.
LEMMA RmtreeDestroys ==
    ASSUME TypeOK, NEW c \in Clients, Request(c) \/ Mutation(c), NEW t \in Threads, Rmtree(c)
    PROVE  t \in promised' => home[t] # dirs[Old(c)]
<1>0. ClientsOK
  BY TypeParts
<1>1. pc[c] = "reserved" /\ pc'[c] = "done"
  BY DEF Rmtree
<1>2. DeleteProject(c)
  BY <1>0, <1>1, RequestPlaces DEF Mutation, CloseGate, ListActive, ReserveAll, MutationRefused,
     CheckNewName, RenameDirectory, CloseNewGate, MoveThread, RenameDone, CheckOldName,
     RestoreDirectory, MoveBack, RenameUndone, LeaveMutation, ClientsOK, InMutation
<1>3. promised' = promised \ {u \in Threads : home[u] = dirs[Old(c)]}
  BY <1>0, <1>1, <1>2 DEF DeleteProject, LeaveMutation, ClientsOK
<1> QED
  BY <1>3

\* A Session that was just made is in the directory it was made in.
Newborn ==
    \A c \in Clients :
        LET t == Thread(c) IN
        pc[c] = "created" /\ t \notin raced => Found(cwd[t]) /\ dirs[cwd[t]] = home[t]

\* What is overlooked while its name is concerned is marked.
LEMMA Unmarked ==
    ASSUME Race, NEW c \in Clients, NEW d \in Clients, c # d, NEW t \in Threads, t \notin raced,
           Overlooked(d, t), pc[c] \in InMutation
    PROVE  cwd[t] \notin Concerns(c)
BY DEF Race, Crossed

\* A Session that was just made stays where it was made.
LEMMA NewbornKept ==
    ASSUME TypeOK, Fits, Lists, Unseen, Race, Newborn,
           NEW c \in Clients, Request(c) \/ Mutation(c), Races
    PROVE  Newborn'
<1>0. /\ job' = job /\ Others(c) /\ None \notin Names
      /\ \A d \in Clients : job[d].thread \in Threads /\ job[d].name \in Names
  BY JobsStay, HoldingSteps, TypeParts, JobTyped, Parameters DEF Parameters
<1>1. SUFFICES ASSUME NEW d \in Clients, pc'[d] = "created", NEW t \in Threads, t = Thread(d),
                      t \notin raced'
               PROVE  cwd'[t] # None /\ dirs'[cwd'[t]] # None /\ dirs'[cwd'[t]] = home'[t]
  BY <1>0 DEF Newborn, Found
<1>2. t \notin raced
  BY <1>1 DEF Races
<1>3. CASE d = c
  <2>1. op'[c] = "new"
    BY <1>1, <1>3, FitsStep DEF PlaceIn
  <2>2. Starts(c, t)
    BY <1>1, <1>3, <2>1, MakingSteps
  <2>3. dirs' = dirs
    BY <2>2, DirectorySteps DEF Starts, Mkdir, Rmtree, Moves, Returned
  <2> QED
    BY <1>0, <2>2, <2>3 DEF Starts, Open, Found
<1>4. CASE d # c
  <2>1. pc[d] = "created" /\ op[d] = "new"
    BY <1>0, <1>1, <1>4 DEF Others, Fits, PlaceIn
  <2>2. t = Product(d) /\ cwd[t] = Old(d) /\ Unknown(t)
    BY <1>1, <2>1 DEF Unseen, UnseenBy, Product
  <2>3. ~Produces(c, t)
    BY <1>4, <2>1, <2>2, ProducesProduct, ProductsApart
  <2>4. cwd'[t] = cwd[t] /\ home'[t] = home[t]
    BY <2>2, <2>3, UnknownKept
  <2>5. dirs[cwd[t]] # None /\ dirs[cwd[t]] = home[t]
    BY <1>1, <1>2, <2>1 DEF Newborn, Found
  <2>6. pc[c] \in InMutation => cwd[t] \notin Concerns(c)
    BY <1>1, <1>2, <1>4, <2>1, Unmarked DEF Overlooked, Started
  <2>7. dirs'[cwd[t]] = dirs[cwd[t]]
    BY <1>0, <2>2, <2>5, <2>6, DirectoryStays
  <2> QED
    BY <1>0, <2>2, <2>4, <2>5, <2>7
<1> QED
  BY <1>3, <1>4

-----------------------------------------------------------------------------
(* What requests know of their Sessions *)

\* A request that reads its Session without a reservation.
Reader(c, t) == Thread(c) = t /\ op[c] \in {"read", "title"} /\ pc[c] \in Past

\* A Session that is reserved stays where it was found.  So does one that is only
\* read, while it has no message yet, unless it was marked.
Sure(c) ==
    LET t == Thread(c) IN
    op[c] \in Reserving /\ t \notin Stranded /\ cwd[t] # None =>
        /\ pc[c] \in {"reading", "arriving"} \/ (op[c] = "unarchive" /\ pc[c] = "acting") =>
               work[c].project = cwd[t]
        /\ pc[c] = "arriving" => work[c].seen = cwd[t]

SureRead(c) ==
    LET t == Thread(c) IN
    Reader(c, t) /\ t \in Kept \ listed =>
        /\ work[c].project = cwd[t]
        /\ pc[c] \in {"arriving", "confirming"} => work[c].seen = cwd[t]

\* The answer that a list was given names Sessions that are still listed.
SureList(c) ==
    pc[c] = "answered" => \A t \in work[c].threads : cwd[t] # None => t \in listed

Users == \A c \in Clients : Sure(c) /\ SureRead(c) /\ SureList(c)

\* At first no request knows anything.
LEMMA UsersInit == Init => Users
BY DEF Init, Users, Sure, SureRead, SureList, Reader, Past

\* A step keeps the Session that another client has reserved where it is.
LEMMA HeldStays ==
    ASSUME TypeOK, Fits, Tidy, Reserved, Lists, NEW c \in Clients, Request(c) \/ Mutation(c),
           NEW d \in Clients \ {c}, NEW t \in Threads, Has(d, t), cwd[t] # None, cwd'[t] # None
    PROVE  cwd'[t] = cwd[t] /\ home'[t] = home[t]
<1>1. ~Has(c, t)
  BY HasAlone
<1>2. ~MovesOut(c, t) /\ ~MovesHome(c, t)
  BY <1>1, MovesListed DEF Has, MovesOut, MovesHome, Owning, InMutation
<1> QED
  BY <1>2, SessionSteps DEF SessionStep, Same, Placement, Starts, Remembers, Copies, RemembersCopy,
     Archives, Unarchives, Removes, FindsRemoved, Runs, Forgets, Sees, Destroys

\* A request that holds its Session still finds it where it was.
LEMMA SureKept ==
    ASSUME TypeOK, Fits, Tidy, Reserved, Lists, Unseen, Located, Users,
           NEW c \in Clients, Request(c) \/ Mutation(c), NEW d \in Clients
    PROVE  Sure(d)'
<1>0. /\ job' = job /\ Others(c) /\ job[d].thread \in Threads /\ Sure(d)
      /\ PlaceIn(pc[d], op[d]) /\ Stranded \subseteq Stranded'
  BY JobsStay, HoldingSteps, TypeParts, JobTyped, StrandedStays DEF Users, Fits
<1>1. SUFFICES ASSUME NEW t \in Threads, t = Thread(d), op'[d] \in Reserving, t \notin Stranded',
                      cwd'[t] # None
               PROVE  /\ pc'[d] \in {"reading", "arriving"} \/ (op'[d] = "unarchive" /\ pc'[d] = "acting")
                             => work'[d].project = cwd'[t]
                      /\ pc'[d] = "arriving" => work'[d].seen = cwd'[t]
  BY <1>0 DEF Sure
<1>2. /\ cwd[t] # None /\ op[d] \in Reserving =>
             /\ pc[d] \in {"reading", "arriving"} \/ (op[d] = "unarchive" /\ pc[d] = "acting") =>
                    work[d].project = cwd[t]
             /\ pc[d] = "arriving" => work[d].seen = cwd[t]
      /\ LocatedAt(t)
  BY <1>0, <1>1 DEF Sure, Located
<1>3. cwd[t] # None \/ pc[d] \notin Past
  BY <1>1, NewSession DEF Unknown
<1>4. CASE d # c
  <2>1. pc'[d] = pc[d] /\ op'[d] = op[d] /\ work'[d] = work[d]
    BY <1>0, <1>4 DEF Others
  <2>2. ASSUME pc[d] \in {"reading", "arriving"} \/ (op[d] = "unarchive" /\ pc[d] = "acting")
        PROVE  cwd[t] # None /\ cwd'[t] = cwd[t]
    <3>1. cwd[t] # None
      BY <1>3, <2>2 DEF Past
    <3>2. Has(d, t)
      BY <1>1, <2>1, <2>2 DEF Has, Using
    <3> QED
      BY <1>1, <1>4, <3>1, <3>2, HeldStays
  <2> QED
    BY <1>1, <1>2, <2>1, <2>2
<1>5. CASE d = c /\ (pc'[c] \in {"reading", "arriving"} \/ (op'[c] = "unarchive" /\ pc'[c] = "acting"))
  <2>1. op'[c] = op[c] /\ pc[c] \notin {"start", "created", "answered"}
    BY <1>0, <1>1, <1>5, FindingSteps DEF Finds, Reads, GoesOn, Past, Reserving
  <2>2. Same(t) \/ Unarchives(c, t)
    <3>1. pc[c] \in {"finding", "reading"} \/ (pc[c] = "acting" /\ op[c] = "unarchive" /\ pc'[c] = "reading")
      BY <1>0, <1>1, <1>5, <2>1, FindingSteps DEF Finds, Reads, GoesOn, Past, Reserving, PlaceIn
    <3> QED
      BY <1>0, <1>5, <2>1, <3>1, SessionSteps DEF SessionStep, Starts, Remembers, Copies, RemembersCopy,
         Archives, Removes, FindsRemoved, Runs, Forgets, Sees, Destroys, Rmtree, MovesOut, MovesHome
  <2>3. cwd'[t] = cwd[t]
    BY <2>2 DEF Same, Unarchives, Placement
  <2>4. CASE Finds(c)
    <3>1. Has(c, t)
      BY <1>1, <1>5, <2>1, <2>4 DEF Finds, Has, Using
    <3>2. ~Owned(t)
      <4>1. Away \subseteq Owning /\ Away \cap Using = {}
        BY DEF Away, AtNew, Owning, Using, InMutation
      <4>2. pc[c] \notin Away
        BY <2>1, <2>4 DEF Finds, Away, AtNew
      <4> QED
        BY <3>1, <4>1, <4>2, HasAlone DEF Owned, Has
    <3>3. pending[t] \in {None, cwd[t]}
      BY <1>1, <1>2, <2>3, <3>2 DEF LocatedAt
    <3> QED
      BY <1>1, <1>5, <2>3, <2>4, <3>3 DEF Finds
  <2>5. CASE Reads(c)
    <3>1. pc[c] = "reading"
      BY <1>0, <1>1, <1>5, <2>1, <2>5 DEF Reads, PlaceIn, Reserving
    <3> QED
      BY <1>1, <1>2, <1>5, <2>1, <2>3, <2>5, <3>1 DEF Reads
  <2>6. CASE GoesOn(c)
    BY <1>1, <1>2, <1>5, <2>1, <2>3, <2>6 DEF GoesOn, Past
  <2> QED
    BY <2>4, <2>5, <2>6, FindingSteps
<1> QED
  BY <1>4, <1>5

\* A Session of a list's answer stays listed.
LEMMA SureListKept ==
    ASSUME TypeOK, Fits, Lists, Unseen, Users, NEW c \in Clients, Request(c) \/ Mutation(c),
           NEW d \in Clients
    PROVE  SureList(d)'
<1>0. Others(c) /\ SureList(d) /\ work'[c].threads \subseteq Threads /\ work[d].threads \subseteq Threads
  <2>1. WorkOK /\ WorkOK'
    BY TypeParts, RequestTyped, MutationTyped
  <2> QED
    BY <2>1, HoldingSteps DEF Users, WorkOK, Work
<1>1. SUFFICES ASSUME pc'[d] = "answered", NEW t \in work'[d].threads, cwd'[t] # None
               PROVE  t \in listed'
  BY DEF SureList
<1>2. CASE d # c
  <2>1. pc[d] = "answered" /\ t \in work[d].threads
    BY <1>0, <1>1, <1>2 DEF Others
  <2>2. cwd[t] # None
    BY <1>0, <1>1, <2>1, NewSession DEF Unknown
  <2>3. t \in listed /\ t \in Threads
    BY <1>0, <2>1, <2>2 DEF SureList
  <2> QED
    BY <1>1, <2>3, SessionSteps DEF SessionStep, Same, Placement, Starts, Remembers, Copies,
       RemembersCopy, Archives, Unarchives, Removes, FindsRemoved, Runs, Forgets, Sees, Destroys,
       MovesOut, MovesHome, Lands
<1>3. CASE d = c
  <2>1. pc[c] = "asking" /\ t \in listed /\ t \in Threads
    BY <1>0, <1>1, <1>3, ListSteps DEF ListSame, ListActives, ListAll, ListTries, ListReturns
  <2>2. Same(t)
    BY <1>1, <1>3, <2>1, SessionSteps DEF SessionStep, Starts, Remembers, Copies,
       RemembersCopy, Archives, Unarchives, Removes, FindsRemoved, Runs, Forgets, Sees, Destroys,
       Rmtree, MovesOut, MovesHome
  <2> QED
    BY <2>1, <2>2 DEF Same, Placement
<1> QED
  BY <1>2, <1>3

\* A Session that stays and was known to clients before.
LEMMA KeptBefore ==
    ASSUME TypeOK, NEW c \in Clients, Request(c) \/ Mutation(c), Races, NEW t \in Threads, t \in Kept'
    PROVE  t \notin raced /\ t \notin Stranded /\ t \in promised' /\ t \notin raced' /\ t \notin Stranded'
           /\ (t \in promised => t \in Kept)
BY StrandedStays DEF Kept, Races

\* What a step leaves of a Session that clients know: all but its place while it
\* is moved.
LEMMA PromisedSteps ==
    ASSUME TypeOK, Fits, Lists, Unseen, Alive, NEW c \in Clients, Request(c) \/ Mutation(c),
           NEW t \in Threads, t \in promised, t \in promised'
    PROVE  /\ \/ Same(t) \/ Archives(c, t) \/ Unarchives(c, t) \/ Runs(c, t) \/ Forgets(c, t)
              \/ Sees(c, t) \/ Destroys(c, t) \/ MovesOut(c, t) \/ MovesHome(c, t)
           /\ cwd[t] # None /\ home'[t] = home[t] /\ (t \in listed => t \in listed')
           /\ MovesOut(c, t) \/ MovesHome(c, t) \/ cwd'[t] = cwd[t]
<1>1. cwd[t] # None
  BY DEF Alive
<1>2. ~Remembers(c, t) /\ ~RemembersCopy(c, t)
  BY DEF Remembers, RemembersCopy, Fits, PlaceIn, Unseen, UnseenBy, Product, Unknown
<1>3. ~Starts(c, t) /\ ~Copies(c, t) /\ ~Removes(c, t) /\ ~FindsRemoved(c, t)
  BY <1>1 DEF Starts, Copies, Removes, FindsRemoved
<1>4. \/ Same(t) \/ Archives(c, t) \/ Unarchives(c, t) \/ Runs(c, t) \/ Forgets(c, t)
      \/ Sees(c, t) \/ Destroys(c, t) \/ MovesOut(c, t) \/ MovesHome(c, t)
  BY <1>2, <1>3, SessionSteps DEF SessionStep
<1> QED
  BY <1>1, <1>4 DEF Same, Placement, Archives, Unarchives, Runs, Forgets, Sees, Destroys, MovesOut,
     MovesHome, Lands

\* A Session that clients are first told of is one that was just made.
LEMMA PromisedNew ==
    ASSUME TypeOK, Fits, NEW c \in Clients, Request(c) \/ Mutation(c),
           NEW t \in Threads, t \notin promised, t \in promised'
    PROVE  Remembers(c, t) \/ RemembersCopy(c, t)
BY SessionSteps DEF SessionStep, Same, Standing, Starts, Copies, Archives, Unarchives, Removes,
   FindsRemoved, Runs, Forgets, Sees, Destroys, MovesOut, MovesHome, Lands

\* A Session on the list of a rename that has begun to move them is where the
\* rename is concerned.
LEMMA MovedConcerns ==
    ASSUME TypeOK, Fits, NEW c \in Clients, pc[c] \in InMutation \ {"gated"},
           NEW t \in work[c].threads, cwd[t] # None, LocatedAt(t)
    PROVE  cwd[t] = Old(c) \/ (cwd[t] = New(c) /\ t \in ToSet(work[c].tried))
BY DEF LocatedAt, OnList, Spot

\* A request that reads a pending Session still finds it where it was.
LEMMA SureReadKept ==
    ASSUME TypeOK, Fits, Tidy, Reserved, Turf, Lists, Unseen, Located, Alive, Race, Users,
           NEW c \in Clients, Request(c) \/ Mutation(c), Races, NEW d \in Clients
    PROVE  SureRead(d)'
<1>0. /\ job' = job /\ Others(c) /\ job[d].thread \in Threads /\ SureRead(d)
      /\ PlaceIn(pc[d], op[d]) /\ Away \subseteq InMutation \ {"gated"}
  BY JobsStay, HoldingSteps, TypeParts, JobTyped DEF Users, Fits, Away, AtNew, InMutation
<1>1. SUFFICES ASSUME NEW t \in Threads, t = Thread(d), Reader(d, t)', t \in Kept' \ listed'
               PROVE  /\ work'[d].project = cwd'[t]
                      /\ pc'[d] \in {"arriving", "confirming"} => work'[d].seen = cwd'[t]
  BY <1>0 DEF SureRead
<1>2. /\ op'[d] \in {"read", "title"} /\ pc'[d] \in Past /\ t \notin raced /\ t \notin Stranded
      /\ t \in promised' /\ (t \in promised => t \in Kept)
      /\ t \notin raced' /\ LocatedAt(t)
  BY <1>1, KeptBefore DEF Reader, Located
<1>3. pc[d] \in Past => Reader(d, t) /\ t \in Kept \ listed
  <2>1. ASSUME pc[d] \in Past PROVE op[d] = op'[d]
    BY <1>0, <1>2, <2>1, FindingSteps DEF Others, Finds, Reads, GoesOn
  <2>2. ASSUME pc[d] \in Past PROVE t \in promised
    <3>1. ASSUME t \notin promised PROVE FALSE
      <4>1. Remembers(c, t) \/ RemembersCopy(c, t)
        BY <1>2, <3>1, PromisedNew
      <4>2. Unknown(t)
        BY <1>1, <4>1 DEF Remembers, RemembersCopy, Found, Placement, Fits, PlaceIn, Unseen, UnseenBy,
           Product
      <4> QED
        BY <1>1, <2>2, <4>2 DEF Unknown
    <3> QED
      BY <3>1
  <2>3. t \in promised => t \notin listed
    BY <1>1, <1>2, PromisedSteps
  <2> QED
    BY <1>1, <1>2, <2>1, <2>2, <2>3 DEF Reader
<1>4. pc[d] \in Past =>
          /\ work[d].project = cwd[t]
          /\ pc[d] \in {"arriving", "confirming"} => work[d].seen = cwd[t]
  BY <1>0, <1>1, <1>3 DEF SureRead
<1>5. CASE d # c
  <2>1. pc'[d] = pc[d] /\ op'[d] = op[d] /\ work'[d] = work[d]
    BY <1>0, <1>5 DEF Others
  <2>2. Reader(d, t) /\ t \in Kept \ listed /\ t \in promised
    BY <1>2, <1>3, <2>1 DEF Kept
  <2>3. ~MovesOut(c, t) /\ ~MovesHome(c, t)
    <3>1. ASSUME MovesOut(c, t) \/ MovesHome(c, t) PROVE FALSE
      <4>1. t \in work[c].threads /\ pc[c] \in {"moving", "returning"}
        BY <3>1, MovesListed DEF MovesOut, MovesHome
      <4>2. op[c] = "rename project" /\ pc[c] \in InMutation \ {"gated"}
        BY <4>1 DEF Fits, PlaceIn, Renaming, Moving, InMutation
      <4>3. cwd[t] \in Concerns(c)
        BY <1>2, <2>2, <4>1, <4>2, MovedConcerns DEF Alive, Concerns
      <4>4. Overlooked(d, t)
        BY <2>2 DEF Overlooked, Reader, Past, Started
      <4> QED
        BY <1>2, <1>5, <4>2, <4>3, <4>4, Unmarked
    <3> QED
      BY <3>1
  <2>4. cwd'[t] = cwd[t]
    BY <1>2, <2>2, <2>3, PromisedSteps
  <2> QED
    BY <1>2, <1>4, <2>1, <2>4
<1>6. CASE d = c /\ Finds(c)
  <2>1. op[c] \in {"read", "title"} /\ pc[c] = "start" /\ pc'[c] = "reading"
    BY <1>0, <1>2, <1>6 DEF Finds, PlaceIn, Reserving
  <2>2. Same(t)
    BY <2>1, SessionSteps DEF SessionStep, Starts, Remembers, Copies, RemembersCopy,
       Archives, Unarchives, Removes, FindsRemoved, Runs, Forgets, Sees, Destroys, Rmtree, MovesOut,
       MovesHome
  <2>3. t \notin listed /\ t \in promised /\ cwd'[t] = cwd[t] /\ cwd[t] # None
    BY <1>1, <1>2, <2>2 DEF Same, Placement, Standing, Alive
  <2>4. ~Owned(t)
    <3>1. ASSUME Owned(t) PROVE FALSE
      <4>1. PICK e \in Clients : pc[e] \in Away /\ t \in work[e].threads
        BY <3>1 DEF Owned
      <4>2. e # c /\ pc'[e] = pc[e] /\ op'[e] = op[e]
        BY <1>0, <2>1, <4>1 DEF Away, AtNew, Others
      <4>3. op[e] = "rename project"
        BY <4>1 DEF Fits, PlaceIn, Renaming, Moving, Away, AtNew
      <4>4. cwd'[t] \in Concerns(e)'
        BY <1>0, <1>2, <2>3, <4>1, <4>2, <4>3, MovedConcerns DEF Concerns
      <4>5. Overlooked(c, t)'
        BY <1>0, <1>1, <1>2, <1>6, <2>1 DEF Overlooked, Started
      <4>6. Crossed(t)'
        BY <1>0, <4>1, <4>2, <4>4, <4>5 DEF Crossed
      <4> QED
        BY <1>2, <4>6 DEF Races
    <3> QED
      BY <3>1
  <2>5. pending[t] \in {None, cwd[t]}
    BY <1>2, <2>3, <2>4 DEF LocatedAt
  <2> QED
    BY <1>1, <1>6, <2>1, <2>3, <2>5 DEF Finds
<1>7. CASE d = c /\ (Reads(c) \/ GoesOn(c))
  <2>1. pc[c] \in Past
    BY <1>2, <1>7 DEF Reads, GoesOn, Past
  <2>2. Same(t) \/ Forgets(c, t)
    <3>1. op[c] \in {"read", "title"} /\ pc[c] \notin InMutation
      BY <1>3, <1>7, <2>1 DEF Reader, Past, InMutation
    <3> QED
      BY <1>0, <1>7, <2>1, <3>1, SessionSteps DEF SessionStep, Starts, Remembers, Copies, RemembersCopy,
         Archives, Unarchives, Removes, FindsRemoved, Runs, Sees, Destroys, Rmtree, MovesOut,
         MovesHome, InMutation, PlaceIn, Past
  <2>3. cwd'[t] = cwd[t]
    BY <2>2 DEF Same, Forgets, Placement
  <2> QED
    BY <1>1, <1>2, <1>4, <1>7, <2>1, <2>3 DEF Reads, GoesOn
<1> QED
  BY <1>5, <1>6, <1>7, FindingSteps

\* Requests know where their Sessions are.
LEMMA UsersKept ==
    ASSUME TypeOK, Fits, Tidy, Reserved, Turf, Lists, Unseen, Located, Alive, Race, Users,
           NEW c \in Clients, Request(c) \/ Mutation(c), Races
    PROVE  Users'
BY SureKept, SureReadKept, SureListKept DEF Users

-----------------------------------------------------------------------------
(* Sessions that stay *)

\* A Session can be found by its cwd, and no mutation that does not have it is at
\* that directory.
AtHome(t) ==
    /\ Found(cwd[t]) /\ dirs[cwd[t]] = home[t]
    /\ \A d \in Clients :
           /\ pc[d] \in {"reserved", "checked"} /\ cwd[t] = Old(d) => t \in work[d].threads
           /\ pc[d] \in Away => cwd[t] # Old(d)
           /\ pc[d] \in AtNew \cup {"checked"} => cwd[t] # New(d)

\* A Session that stays is at home while no rename has it; while one has it, the
\* directory of the rename is the one it was made in.
HomeOf(t) ==
    /\ t \in listed \/ pending[t] # None
    /\ \A c \in Clients : pc[c] \in Away /\ t \in work[c].threads => home[t] = dirs[Site(c)]
    /\ ~Owned(t) => AtHome(t)

Homes == \A t \in Kept : HomeOf(t)

\* A fork that was made is as safe as its source.
Forks ==
    \A c \in Clients :
        LET t == Thread(c)
            f == job[c].copy
        IN
        pc[c] = "forked" /\ f \notin raced =>
            /\ t \in Kept /\ home[f] = home[t]
            /\ cwd[f] # None =>
                   /\ cwd[f] = cwd[t]
                   /\ \A d \in Clients : pc[d] \in Owning \cup {"broken"} => f \notin work[d].threads

\* Between its two list calls, a mutation may have missed a Session in the first
\* that is not in the second, either.  It is pending then, or nobody knows it.
Missed ==
    \A c \in Clients, t \in Threads \ (raced \cup Stranded) :
        /\ pc[c] = "listing" /\ cwd[t] = Old(c)
        /\ t \in listed \ archived /\ t \notin work[c].threads
        => /\ t \in promised => pending[t] # None
           /\ \A d \in Clients : ~Reader(d, t)

\* No rename has on its way what a request or another mutation has.
LEMMA HasNotOwned ==
    ASSUME Tidy, Reserved, NEW c \in Clients, NEW t, Has(c, t), pc[c] \notin Away
    PROVE  ~Owned(t)
<1>1. Away \subseteq Owning
  BY DEF Away, AtNew, Owning, InMutation
<1> QED
  BY <1>1, HasAlone DEF Owned, Has

\* At first every Session that stays is at home.
LEMMA StayInit == Init => Homes /\ Forks /\ Missed /\ Newborn
<1> SUFFICES ASSUME Init PROVE Homes /\ Forks /\ Missed /\ Newborn
  OBVIOUS
<1>1. \A c \in Clients : pc[c] = "start"
  BY DEF Init
<1>2. /\ cwd = Placed /\ home = Placed /\ promised = Existing
      /\ pending = [t \in Threads |-> IF t \in listed THEN None ELSE Placed[t]]
      /\ dirs = [n \in Names |-> IF n \in {Placed[t] : t \in Existing} THEN n ELSE None]
  BY DEF Init
<1>3. None \notin Names
  BY Parameters DEF Parameters
<1>4. ASSUME NEW t \in Threads, t \in Existing PROVE HomeOf(t)
  <2>1. Placed[t] # None /\ Placed[t] \in Names
    BY <1>4, Parameters DEF Existing, Parameters
  <2>2. dirs[Placed[t]] = Placed[t]
    BY <1>2, <1>4, <2>1
  <2> QED
    BY <1>1, <1>2, <2>1, <2>2 DEF HomeOf, AtHome, Found, Away, AtNew
<1> QED
  BY <1>1, <1>2, <1>4 DEF Homes, Forks, Missed, Newborn, Kept, Existing

\* The Session that a copy is made of, in the step and after.
LEMMA SourceStays ==
    ASSUME TypeOK, Fits, Lists, Unseen, NEW c \in Clients, Request(c) \/ Mutation(c), Races,
           NEW d \in Clients, pc'[d] = "forked", job[d].copy \notin raced', job[d].copy \in Threads
    PROVE  Thread(d) \in Kept' /\ Thread(d) \notin raced
<1>1. job' = job /\ Unseen' /\ Fits'
  BY UnseenKept, JobsStay, FitsKept
<1>2. PICK f \in Threads, t \in Threads : f = job[d].copy /\ t = Thread(d)
  BY TypeParts, JobTyped
<1>3. ~UnsafeCopy(f)' /\ ~CopyOfRaced(f)
  BY <1>2 DEF Races
<1>4. ~Crossed(t)' /\ t \notin Stranded' /\ t \in promised'
  BY <1>1, <1>2, <1>3 DEF UnsafeCopy
<1>5. t \notin raced
  BY <1>1, <1>2, <1>3 DEF CopyOfRaced
<1>6. \A e \in Clients : pc'[e] = "forked" => job[e].copy \notin promised'
  BY <1>1 DEF Unseen, UnseenBy, Product, Fits, PlaceIn
<1>7. ~UnsafeCopy(t)' /\ ~CopyOfRaced(t)
  BY <1>1, <1>4, <1>6 DEF UnsafeCopy, CopyOfRaced
<1>8. t \notin raced'
  BY <1>4, <1>5, <1>7 DEF Races
<1> QED
  BY <1>2, <1>4, <1>5, <1>8 DEF Kept

\* What is forked is not moved by another client, nor taken on a list that leaves
\* its source out.
LEMMA ForkUnmoved ==
    ASSUME TypeOK, Fits, Tidy, Reserved, Lists, Unseen, Located, Homes, Missed,
           NEW c \in Clients, Request(c) \/ Mutation(c),
           NEW d \in Clients \ {c}, pc[d] = "forked",
           NEW t \in Threads, t = Thread(d), t \in Kept,
           NEW f \in Threads, f = job[d].copy, cwd[f] # None, cwd[f] = cwd[t],
           \A e \in Clients : pc[e] \in Owning \cup {"broken"} => f \notin work[e].threads
    PROVE  pc'[c] \in Owning \cup {"broken"} => f \notin work'[c].threads
<1>0. /\ op[d] = "fork" /\ None \notin Clients /\ held[t] = d /\ Has(d, t)
      /\ f \notin Stranded /\ LocatedAt(f) /\ pending[f] = None
  <2>1. op[d] = "fork"
    BY DEF Fits, PlaceIn
  <2>2. Has(d, t)
    BY <2>1 DEF Has, Reserving, Using
  <2>3. pending[f] = None
    BY <2>1 DEF Unseen, UnseenBy, Product
  <2>4. f \notin Stranded
    BY DEF Stranded
  <2> QED
    BY <2>1, <2>2, <2>3, <2>4, Holds, Parameters DEF Located, Parameters
<1>1. SUFFICES ASSUME pc'[c] \in Owning \cup {"broken"}, f \in work'[c].threads PROVE FALSE
  OBVIOUS
<1>2. Flow(c)
  BY <1>1, PlaceSteps DEF Owning
<1>3. CASE pc[c] \in Owning
  <2>1. work'[c].threads = work[c].threads
    BY <1>3, ListSteps DEF ListSame, ListActives, ListAll, ListTries, ListReturns, Owning, InMutation
  <2> QED
    BY <1>1, <1>3, <2>1
<1>4. CASE pc[c] \notin Owning
  <2>1. pc[c] = "listing" /\ pc'[c] = "reserved"
    BY <1>1, <1>2, <1>4 DEF Flow, Owning, InMutation
  <2>2. ListAll(c)
    BY <2>1, ListSteps DEF ListSame, ListActives, ListTries, ListReturns
  <2>3. t \notin work'[c].threads
    BY <1>0, <2>2 DEF ListAll
  <2>4. None \notin Names /\ Old(c) \in Names
    BY TypeParts, JobTyped, Parameters DEF Parameters
  <2>5. cwd[f] = Old(c)
    <3>1. f \in work[c].threads => cwd[f] = Old(c)
      <4>1. work[c].tried = <<>>
        BY <2>1 DEF Lists, Untried, Unlisted
      <4> QED
        BY <1>0, <2>1, <4>1, ToSetEmpty DEF LocatedAt, OnList, Spot, InMutation
    <3> QED
      BY <1>0, <1>1, <2>2, <2>4, <3>1 DEF ListAll
  <2>6. ~Owned(t)
    BY <1>0, HasNotOwned DEF Away, AtNew
  <2>7. pending[t] \in {None, Old(c)} /\ t \notin raced /\ t \notin Stranded /\ t \in promised
    BY <2>4, <2>5, <2>6 DEF Located, LocatedAt, Kept
  <2>8. pending[t] = None
    BY <2>2, <2>3, <2>7 DEF ListAll
  <2>9. t \in listed
    BY <2>8 DEF Homes, HomeOf, AtHome
  <2>10. t \notin archived /\ t \notin work[c].threads
    BY <2>2, <2>3, <2>5, <2>9 DEF ListAll
  <2> QED
    BY <2>1, <2>5, <2>7, <2>8, <2>9, <2>10 DEF Missed
<1> QED
  BY <1>3, <1>4

\* A copy is as safe as its source.
LEMMA ForksKept ==
    ASSUME TypeOK, Fits, Tidy, Reserved, Turf, Lists, Unseen, Located, Alive, Race, Homes, Forks, Missed,
           NEW c \in Clients, Request(c) \/ Mutation(c), Races
    PROVE  Forks'
<1>0. job' = job /\ Others(c) /\ None \notin Names
  BY JobsStay, HoldingSteps, Parameters DEF Parameters
<1>1. SUFFICES ASSUME NEW d \in Clients, NEW t \in Threads, NEW f \in Threads,
                      t = Thread(d), f = job[d].copy, pc'[d] = "forked", f \notin raced'
               PROVE  /\ t \in Kept' /\ home'[f] = home'[t]
                      /\ cwd'[f] # None =>
                             /\ cwd'[f] = cwd'[t]
                             /\ \A e \in Clients : pc'[e] \in Owning \cup {"broken"} =>
                                    f \notin work'[e].threads
  <2>1. \A d \in Clients : job[d].thread \in Threads /\ job[d].copy \in Threads
    BY TypeParts, JobTyped
  <2> QED
    BY <1>0, <1>1, <2>1 DEF Forks
<1>2. t \in Kept' /\ t \notin raced /\ t \in promised' /\ f \notin raced /\ t \notin Stranded
      /\ (t \in promised => t \in Kept)
  <2>1. t \in Kept'
    BY <1>1, SourceStays
  <2> QED
    BY <1>1, <2>1, KeptBefore DEF Races
<1>3. CASE d = c
  <2>1. op'[c] = "fork" /\ op[c] = "fork" /\ Copies(c, f)
    <3>1. op'[c] = "fork"
      BY <1>1, <1>3, FitsStep DEF PlaceIn
    <3> QED
      BY <1>1, <1>3, <3>1, MakingSteps
  <2>2. f # t /\ f = Product(c) /\ Unknown(f)
    BY <1>1, <1>3, <2>1, ProductOf DEF Product, Copies, Unseen, UnseenBy, Making
  <2>3. Same(t)
    BY <1>1, <1>3, <2>1, <2>2, SessionSteps DEF SessionStep, Starts, Remembers, Copies, RemembersCopy,
       Archives, Unarchives, Removes, FindsRemoved, Runs, Forgets, Sees, Destroys, Rmtree,
       MovesOut, MovesHome
  <2>4. t \in Kept /\ cwd'[t] = cwd[t] /\ home'[t] = home[t]
    BY <1>2, <2>3 DEF Same, Standing, Placement
  <2>5. Has(c, t) /\ pc[c] = "acting"
    BY <1>1, <1>3, <2>1 DEF Copies, Has, Reserving, Using
  <2>6. dirs[cwd[t]] = home[t]
    BY <2>4, <2>5, HasNotOwned DEF Homes, HomeOf, AtHome, Away, AtNew
  <2>7. cwd'[f] = cwd[t] /\ home'[f] = dirs[cwd[t]]
    BY <1>1, <1>3, <2>1 DEF Copies
  <2>8. \A e \in Clients : f \notin work'[e].threads
    <3>1. work'[c].threads = work[c].threads
      BY <2>1, ListSteps DEF Copies, ListSame, ListActives, ListAll, ListTries, ListReturns
    <3> QED
      BY <1>0, <2>2, <3>1 DEF Others, Unknown
  <2> QED
    BY <1>2, <2>4, <2>6, <2>7, <2>8
<1>4. CASE d # c
  <2>1. pc[d] = "forked" /\ op[d] = "fork" /\ work'[d] = work[d]
    BY <1>0, <1>1, <1>4 DEF Others, Fits, PlaceIn
  <2>2. /\ t \in Kept /\ home[f] = home[t]
        /\ cwd[f] # None =>
               /\ cwd[f] = cwd[t]
               /\ \A e \in Clients : pc[e] \in Owning \cup {"broken"} => f \notin work[e].threads
    BY <1>1, <1>2, <2>1 DEF Forks
  <2>3. Has(d, t) /\ cwd[t] # None /\ cwd'[t] # None
    <3>1. Alive'
      BY AliveKept
    <3> QED
      BY <1>1, <1>2, <2>1, <2>2, <3>1 DEF Has, Reserving, Using, Alive, Kept
  <2>4. cwd'[t] = cwd[t] /\ home'[t] = home[t]
    BY <1>4, <2>3, HeldStays
  <2>5. ~Produces(c, f)
    BY <1>1, <1>4, <2>1, ProducesProduct, ProductsApart DEF Product
  <2>6. home'[f] = home[f] /\ (cwd[f] = None => cwd'[f] = None)
    BY <2>5, SessionSteps DEF SessionStep, Produces, Same, Placement, Archives, Unarchives, Removes,
       FindsRemoved, Runs, Forgets, Sees, Destroys, MovesOut, MovesHome, Lands
  <2>7. SUFFICES ASSUME cwd'[f] # None
                 PROVE  /\ cwd'[f] = cwd'[t]
                        /\ \A e \in Clients : pc'[e] \in Owning \cup {"broken"} =>
                               f \notin work'[e].threads
    BY <1>2, <2>2, <2>4, <2>6
  <2>8. /\ cwd[f] # None /\ cwd[f] = cwd[t]
        /\ \A e \in Clients : pc[e] \in Owning \cup {"broken"} => f \notin work[e].threads
    BY <2>2, <2>6, <2>7
  <2>9. cwd'[f] = cwd[f]
    <3>1. ~MovesOut(c, f) /\ ~MovesHome(c, f)
      BY <2>8, MovesListed DEF MovesOut, MovesHome, Owning, InMutation
    <3> QED
      BY <2>5, <2>7, <3>1, SessionSteps DEF SessionStep, Produces, Same, Placement, Archives,
         Unarchives, Removes, FindsRemoved, Runs, Forgets, Sees, Destroys
  <2>10. ASSUME NEW e \in Clients, pc'[e] \in Owning \cup {"broken"} PROVE f \notin work'[e].threads
    <3>1. CASE e # c
      BY <1>0, <2>8, <2>10, <3>1 DEF Others
    <3>2. CASE e = c
      BY <1>1, <1>4, <2>1, <2>2, <2>8, <2>10, <3>2, ForkUnmoved
    <3> QED
      BY <3>1, <3>2
  <2> QED
    BY <2>4, <2>8, <2>9, <2>10
<1> QED
  BY <1>3, <1>4

\* A Session that clients are first told of is at home.
LEMMA HomeOfNew ==
    ASSUME TypeOK, Fits, Tidy, Reserved, Lists, Unseen, Race, Newborn, Homes, Forks,
           NEW c \in Clients, Request(c) \/ Mutation(c), Races,
           NEW t \in Threads, t \in Kept', t \notin promised
    PROVE  HomeOf(t)'
<1>0. /\ job' = job /\ Others(c) /\ None \notin Names /\ Old(c) \in Names /\ t \notin raced
      /\ Away \subseteq Owning /\ {"reserved", "checked"} \subseteq Owning
  BY JobsStay, HoldingSteps, Parameters, TypeParts, JobTyped, KeptBefore DEF Parameters, Away, AtNew,
     Owning, InMutation
<1>1. Remembers(c, t) \/ RemembersCopy(c, t)
  BY KeptBefore, PromisedNew
<1>2. /\ pc[c] \in {"created", "forked"} /\ pc'[c] \in {"reserving", "done"}
      /\ cwd'[t] = cwd[t] /\ home'[t] = home[t] /\ cwd[t] # None /\ pending'[t] # None
  BY <1>0, <1>1 DEF Remembers, RemembersCopy, Placement, Found
<1>3. dirs' = dirs
  BY <1>2, DirectorySteps DEF Mkdir, Rmtree, Moves, Returned
<1>4. \A d \in Clients : pc'[d] \in InMutation => d # c /\ pc[d] = pc'[d] /\ work'[d] = work[d]
  BY <1>0, <1>2 DEF Others, InMutation
<1>5. /\ \A d \in Clients : pc[d] \in Away => t \notin work[d].threads
      /\ Found(cwd[t]) /\ dirs[cwd[t]] = home[t]
      /\ \A d \in Clients \ {c} :
             /\ pc[d] \in {"reserved", "checked"} => cwd[t] # Old(d)
             /\ pc[d] \in Away => cwd[t] # Old(d)
             /\ pc[d] \in AtNew \cup {"checked"} => cwd[t] # New(d)
  <2>1. CASE Remembers(c, t)
    <3>1. Unknown(t) /\ op[c] = "new" /\ t = Thread(c)
      BY <2>1 DEF Remembers, Fits, PlaceIn, Unseen, UnseenBy, Product
    <3>2. Found(cwd[t]) /\ dirs[cwd[t]] = home[t]
      BY <1>0, <2>1, <3>1 DEF Remembers, Newborn
    <3>3. Overlooked(c, t)
      BY <2>1, <3>1 DEF Overlooked, Remembers, Started
    <3>4. ASSUME NEW d \in Clients \ {c}, pc[d] \in InMutation PROVE cwd[t] \notin Concerns(d)
      BY <1>0, <3>3, <3>4, Unmarked
    <3>5. \A d \in Clients : pc[d] \in AtNew \cup {"checked"} =>
              op[d] = "rename project" /\ pc[d] \in InMutation
      BY DEF Fits, PlaceIn, Renaming, Moving, AtNew, InMutation
    <3> QED
      BY <3>1, <3>2, <3>4, <3>5 DEF Unknown, Concerns, InMutation, Away, AtNew
  <2>2. CASE RemembersCopy(c, t)
    <3>1. PICK s \in Threads : s = Thread(c)
      BY TypeParts, JobTyped
    <3>2. /\ s \in Kept /\ home[t] = home[s] /\ cwd[t] = cwd[s] /\ op[c] = "fork" /\ pc[c] = "forked"
          /\ \A d \in Clients : pc[d] \in Owning => t \notin work[d].threads
      BY <1>0, <1>2, <2>2, <3>1 DEF RemembersCopy, Forks, Fits, PlaceIn
    <3>3. Has(c, s) /\ pc[c] \notin Away /\ pc[c] \notin Owning
      BY <3>1, <3>2 DEF Has, Reserving, Using, Away, AtNew, Owning, InMutation
    <3>4. ~Owned(s) /\ HomeOf(s)
      BY <3>2, <3>3, HasNotOwned DEF Homes
    <3>5. \A d \in Clients \ {c} : pc[d] \in Owning => s \notin work[d].threads
      BY <3>3, HasAlone DEF Has
    <3> QED
      BY <1>0, <3>2, <3>4, <3>5 DEF HomeOf, AtHome
  <2> QED
    BY <1>1, <2>1, <2>2
<1>6. ~Owned(t)' /\ \A d \in Clients : pc'[d] \in Away => t \notin work'[d].threads
  <2>1. Away \subseteq InMutation
    BY DEF Away, AtNew, InMutation
  <2> QED
    BY <1>4, <1>5, <2>1 DEF Owned
<1>7. AtNew \cup {"checked", "reserved"} \subseteq InMutation /\ Away \subseteq InMutation
  BY DEF Away, AtNew, InMutation
<1> QED
  BY <1>0, <1>2, <1>3, <1>4, <1>5, <1>6, <1>7 DEF HomeOf, AtHome, Found

\* A Session that stays is still listed or pending.
LEMMA HomeListed ==
    ASSUME TypeOK, Fits, Tidy, Reserved, Turf, Lists, Unseen, Located, Alive, Race, Users, Homes,
           NEW c \in Clients, Request(c) \/ Mutation(c), Races,
           NEW t \in Threads, t \in Kept', t \in promised
    PROVE  t \in listed' \/ pending'[t] # None
<1>0. /\ t \in Kept /\ t \in promised' /\ HomeOf(t) /\ LocatedAt(t) /\ t \notin raced
      /\ None \notin Names /\ Old(c) \in Names /\ New(c) \in Names /\ cwd[t] # None
      /\ t \notin Stranded
  BY KeptBefore, Parameters, TypeParts, JobTyped DEF Parameters, Homes, Located, Alive
<1>1. t \in listed => t \in listed'
  BY <1>0, PromisedSteps
<1>2. CASE Same(t) \/ Archives(c, t) \/ Unarchives(c, t) \/ Runs(c, t)
  BY <1>0, <1>2 DEF HomeOf, AtHome, Same, Archives, Unarchives, Runs, Placement, Standing
<1>3. CASE Forgets(c, t)
  <2>1. SUFFICES ASSUME t \notin listed PROVE FALSE
    BY <1>1
  <2>2. ~Matches(c) /\ t = Thread(c) /\ pc[c] \in {"arriving", "confirming"}
    BY <1>3 DEF Forgets
  <2>3. CASE op[c] \in Reserving
    <3>1. pc[c] = "arriving"
      BY <2>2, <2>3 DEF Fits, PlaceIn, Reserving
    <3>2. work[c].seen = cwd[t] /\ work[c].project = cwd[t]
      BY <1>0, <2>2, <2>3, <3>1 DEF Users, Sure
    <3>3. ~Owned(t)
      BY <2>2, <2>3, <3>1, HasNotOwned DEF Has, Using, Away, AtNew
    <3> QED
      BY <1>0, <2>2, <3>2, <3>3 DEF HomeOf, AtHome, Matches
  <2>4. CASE op[c] \in {"read", "title"}
    <3>1. Reader(c, t)
      BY <2>2, <2>4 DEF Reader, Past
    <3>2. work[c].seen = cwd[t] /\ work[c].project = cwd[t]
      BY <1>0, <2>1, <2>2, <3>1 DEF Users, SureRead
    <3>3. ~Owned(t)
      <4>1. ASSUME NEW d \in Clients, pc[d] \in Away, t \in work[d].threads PROVE FALSE
        <5>1. d # c /\ pc[d] \in InMutation \ {"gated"} /\ op[d] = "rename project"
          BY <2>2, <4>1 DEF Away, AtNew, InMutation, Fits, PlaceIn, Renaming, Moving
        <5>2. cwd[t] \in Concerns(d)
          BY <1>0, <4>1, <5>1, MovedConcerns DEF Concerns
        <5>3. Overlooked(c, t)
          BY <2>1, <2>2, <2>4 DEF Overlooked, Started
        <5> QED
          BY <1>0, <5>1, <5>2, <5>3, Unmarked
      <4> QED
        BY <4>1 DEF Owned
    <3> QED
      BY <1>0, <2>2, <3>2, <3>3 DEF HomeOf, AtHome, Matches
  <2> QED
    BY <2>2, <2>3, <2>4 DEF Fits, PlaceIn
<1>4. CASE Sees(c, t)
  BY <1>0, <1>1, <1>4 DEF Sees, Users, SureList
<1>5. CASE Destroys(c, t)
  <2>1. CASE t \in work[c].threads
    <3>1. pc[c] = "reserved" /\ Has(c, t)
      BY <1>5, <2>1 DEF Destroys, Rmtree, Has, Owning, InMutation
    <3>2. ~Owned(t)
      BY <3>1, HasNotOwned DEF Away, AtNew
    <3>3. work[c].tried = <<>>
      BY <3>1 DEF Lists, Untried
    <3>4. cwd[t] = Old(c)
      BY <1>0, <2>1, <3>1, <3>3, ToSetEmpty DEF LocatedAt, OnList, Spot, InMutation
    <3> QED
      BY <1>0, <1>5, <3>2, <3>4 DEF HomeOf, AtHome, Destroys
  <2>2. CASE t \notin work[c].threads
    BY <1>0, <1>5, <2>2 DEF HomeOf, AtHome, Destroys, Placement
  <2> QED
    BY <2>1, <2>2
<1>6. CASE MovesOut(c, t) \/ MovesHome(c, t)
  BY <1>0, <1>1, <1>6 DEF HomeOf, AtHome, MovesOut, MovesHome, Lands
<1> QED
  BY <1>0, <1>2, <1>3, <1>4, <1>5, <1>6, PromisedSteps

\* The directory of a rename stays that of its Sessions.
LEMMA HomeMoved ==
    ASSUME TypeOK, Fits, Tidy, Reserved, Turf, Lists, Unseen, Located, Alive, Homes, NamesApart,
           NEW c \in Clients, Request(c) \/ Mutation(c), Races,
           NEW t \in Threads, t \in Kept', t \in promised,
           NEW d \in Clients, pc'[d] \in Away, t \in work'[d].threads
    PROVE  home'[t] = dirs'[Site(d)']
<1>0. /\ t \in Kept /\ t \in promised' /\ HomeOf(t) /\ LocatedAt(t) /\ cwd[t] # None
      /\ job' = job /\ Others(c) /\ home'[t] = home[t] /\ Away \subseteq InMutation
  BY KeptBefore, PromisedSteps, JobsStay, HoldingSteps DEF Homes, Located, Alive, Away, AtNew, InMutation
<1>1. CASE d # c
  <2>1. pc[d] = pc'[d] /\ work[d] = work'[d]
    BY <1>0, <1>1 DEF Others
  <2>2. dirs'[Site(d)] = dirs[Site(d)] /\ Site(d)' = Site(d)
    BY <1>0, <1>1, <2>1, SiteStays DEF Site
  <2> QED
    BY <1>0, <2>1, <2>2 DEF HomeOf, AtHome
<1>2. CASE d = c
  <2>0. CodexOK /\ Old(c) \in Names /\ New(c) \in Names
    BY TypeParts, JobTyped
  <2>1. Flow(c)
    BY <1>0, <1>2, PlaceSteps
  <2>2. CASE pc[c] \in Away
    <3>1. work'[c].threads = work[c].threads
      BY <2>2, ListSteps DEF ListSame, ListActives, ListAll, ListTries, ListReturns, Away, AtNew
    <3>2. home[t] = dirs[Site(c)]
      BY <1>0, <1>2, <2>2, <3>1 DEF HomeOf, AtHome
    <3>3. CASE Returned(c)
      <4>1. Site(c) = New(c) /\ Site(c)' = Old(c) /\ dirs'[Old(c)] = dirs[New(c)]
        BY <1>0, <2>0, <3>3 DEF Returned, Site, AtNew, CodexOK
      <4> QED
        BY <1>0, <1>2, <3>2, <4>1
    <3>4. CASE ~Returned(c)
      <4>1. /\ dirs' = dirs
            /\ pc'[c] \in AtNew <=> pc[c] \in AtNew
        BY <1>0, <1>2, <2>2, <3>4, DirectorySteps DEF Mkdir, Rmtree, Moves, Away, AtNew
      <4>2. Site(c)' = Site(c)
        BY <1>0, <4>1 DEF Site
      <4> QED
        BY <1>0, <1>2, <3>2, <4>1, <4>2
    <3> QED
      BY <3>3, <3>4
  <2>3. CASE pc[c] \notin Away
    <3>1. pc[c] = "checked" /\ pc'[c] = "renamed"
      BY <1>2, <2>1, <2>3 DEF Flow, Away, AtNew
    <3>2. work'[c].threads = work[c].threads /\ work[c].tried = <<>>
      BY <3>1, ListSteps DEF ListSame, ListActives, ListAll, ListTries, ListReturns, Lists, Untried
    <3>3. Moves(c)
      BY <3>1, DirectorySteps DEF Mkdir, Rmtree, Returned, InMutation, AtNew
    <3>4. cwd[t] = Old(c)
      BY <1>0, <1>2, <3>1, <3>2, ToSetEmpty DEF LocatedAt, OnList, Spot, InMutation
    <3>5. ~Owned(t)
      BY <1>2, <2>3, <3>1, <3>2, HasNotOwned DEF Has, Owning, InMutation
    <3>6. home[t] = dirs[Old(c)]
      BY <1>0, <3>4, <3>5 DEF HomeOf, AtHome
    <3>7. Site(c)' = New(c) /\ dirs'[New(c)] = dirs[Old(c)]
      BY <1>0, <2>0, <3>1, <3>3 DEF Moves, Site, AtNew, CodexOK
    <3> QED
      BY <1>0, <1>2, <3>6, <3>7
  <2> QED
    BY <2>2, <2>3
<1> QED
  BY <1>1, <1>2

\* A rename that lets a Session go leaves it at home.
LEMMA HomeLetGo ==
    ASSUME TypeOK, Fits, Turf, Located, Alive, Homes, NamesApart,
           NEW c \in Clients, Request(c) \/ Mutation(c), Races,
           NEW t \in Threads, t \in Kept', t \in promised, Owned(t), ~Owned(t)'
    PROVE  AtHome(t)'
<1>0. /\ t \in Kept /\ HomeOf(t) /\ LocatedAt(t) /\ cwd[t] # None
      /\ job' = job /\ Others(c) /\ t \notin Stranded'
  BY KeptBefore, JobsStay, HoldingSteps DEF Homes, Located, Alive
<1>1. /\ \/ pc[c] = "moving" /\ pc'[c] = "done" /\ ToSet(work[c].tried) = work[c].threads
         \/ pc[c] = "returning" /\ pc'[c] = "failed" /\ work[c].tried = <<>>
      /\ t \in work[c].threads /\ Same(t)
  BY <1>0, LetsGo
<1>2. /\ pc[c] \in InMutation \ {"gated"} /\ pc[c] \in Away /\ op[c] = "rename project"
      /\ pc'[c] \notin InMutation
  BY <1>1 DEF Away, AtNew, InMutation, Fits, PlaceIn, Renaming, Moving
<1>3. dirs' = dirs
  BY <1>1, DirectorySteps DEF Mkdir, Rmtree, Moves, Returned
<1>4. cwd[t] = Site(c) /\ (pc[c] = "moving" => cwd[t] = New(c)) /\ (pc[c] = "returning" => cwd[t] = Old(c))
  BY <1>0, <1>1, <1>2, ToSetEmpty DEF LocatedAt, OnList, Spot, Site, AtNew
<1>5. Found(Site(c)) /\ home[t] = dirs[Site(c)]
  BY <1>0, <1>1, <1>2 DEF Turf, Grounded, HomeOf, AtHome
<1>6. cwd'[t] = cwd[t] /\ home'[t] = home[t]
  BY <1>1 DEF Same, Placement
<1>7. ASSUME NEW d \in Clients, pc'[d] \in InMutation
      PROVE  /\ cwd[t] # Old(d)
             /\ pc'[d] \in AtNew \cup {"checked"} => cwd[t] # New(d)
  <2>1. d # c /\ pc[d] = pc'[d]
    BY <1>0, <1>2, <1>7 DEF Others
  <2>2. Old(d) # Old(c) /\ Old(d) # New(c)
    BY <1>2, <1>7, <2>1 DEF Turf, Disjoint, NamesApart
  <2>3. pc[d] \in AtNew \cup {"checked"} => op[d] = "rename project"
    BY DEF Fits, PlaceIn, Renaming, Moving, AtNew
  <2>4. pc[d] \in AtNew \cup {"checked"} => New(d) # Old(c)
    BY <1>2, <1>7, <2>1, <2>3 DEF NamesApart
  <2>5. pc[d] \in AtNew \cup {"checked"} /\ pc[c] = "moving" => New(d) # New(c)
    BY <1>2, <1>7, <2>1 DEF Turf, Disjoint, AtNew
  <2> QED
    BY <1>1, <1>4, <2>1, <2>2, <2>4, <2>5
<1>8. Away \subseteq InMutation /\ AtNew \cup {"reserved", "checked"} \subseteq InMutation
  BY DEF Away, AtNew, InMutation
<1> QED
  BY <1>0, <1>3, <1>4, <1>5, <1>6, <1>7, <1>8 DEF AtHome, Found

\* What a mutation reserves includes every Session that is at home in its Project.
LEMMA ReservedHome ==
    ASSUME TypeOK, Fits, Located, Homes, Missed, NEW c \in Clients, Request(c) \/ Mutation(c),
           pc[c] = "listing", pc'[c] = "reserved",
           NEW t \in Threads, t \in Kept, ~Owned(t), cwd[t] = Old(c)
    PROVE  t \in work'[c].threads
<1>1. ListAll(c)
  BY ListSteps DEF ListSame, ListActives, ListTries, ListReturns
<1>2. /\ Old(c) # None /\ t \notin raced /\ t \notin Stranded /\ t \in promised
  BY Parameters, TypeParts, JobTyped DEF Parameters, Kept
<1>3. pending[t] \in {None, Old(c)}
  BY <1>2 DEF Located, LocatedAt
<1>4. SUFFICES ASSUME t \notin work'[c].threads PROVE FALSE
  OBVIOUS
<1>5. pending[t] = None /\ t \in listed \ archived /\ t \notin work[c].threads
  BY <1>1, <1>3, <1>4 DEF ListAll, Homes, HomeOf, AtHome
<1> QED
  BY <1>2, <1>5 DEF Missed

\* A Session that no rename has or had stays at home.
LEMMA HomeOff ==
    ASSUME TypeOK, Fits, Tidy, Reserved, Turf, Lists, Unseen, Located, Alive, Homes, Missed,
           NEW c \in Clients, Request(c) \/ Mutation(c), Races,
           NEW t \in Threads, t \in Kept', t \in promised, ~Owned(t), ~Owned(t)'
    PROVE  AtHome(t)'
<1>0. /\ t \in Kept /\ t \in promised' /\ AtHome(t) /\ job' = job /\ Others(c)
      /\ CodexOK /\ Old(c) \in Names /\ New(c) \in Names /\ cwd[t] \in Names
      /\ ClientsOK
  BY KeptBefore, JobsStay, HoldingSteps, TypeParts, JobTyped DEF Homes, HomeOf, AtHome, CodexOK, Found
<1>1. cwd'[t] = cwd[t] /\ home'[t] = home[t]
  <2>1. ~MovesOut(c, t) /\ ~MovesHome(c, t)
    BY MovesListed DEF Owned, Away, AtNew, MovesOut, MovesHome
  <2> QED
    BY <1>0, <2>1, PromisedSteps
<1>2. dirs[cwd[t]] # None /\ dirs[cwd[t]] = home[t]
  BY <1>0 DEF AtHome, Found
<1>3. dirs'[cwd[t]] = dirs[cwd[t]]
  <2>1. CASE Mkdir(c)
    BY <1>0, <1>2, <2>1 DEF Mkdir, CodexOK
  <2>2. CASE Rmtree(c)
    <3>1. home[t] # dirs[Old(c)]
      BY <1>0, <2>2, RmtreeDestroys
    <3> QED
      BY <1>0, <1>2, <2>2, <3>1 DEF Rmtree, CodexOK
  <2>3. CASE Moves(c)
    <3>1. cwd[t] # Old(c)
      <4>1. ASSUME cwd[t] = Old(c) PROVE FALSE
        <5>1. t \in work[c].threads
          BY <1>0, <2>3, <4>1 DEF Moves, AtHome
        <5>2. work'[c].threads = work[c].threads
          BY <2>3, ListSteps DEF Moves, ListSame, ListActives, ListAll, ListTries, ListReturns
        <5> QED
          BY <2>3, <5>1, <5>2 DEF Moves, Owned, Away, AtNew
      <4> QED
        BY <4>1
    <3>2. cwd[t] # New(c)
      BY <1>0, <2>3 DEF Moves, AtHome
    <3> QED
      BY <1>0, <2>3, <3>1, <3>2 DEF Moves, CodexOK
  <2>4. CASE Returned(c)
    <3>1. cwd[t] # Old(c) /\ cwd[t] # New(c)
      BY <1>0, <2>4 DEF Returned, AtHome, Away, AtNew
    <3> QED
      BY <1>0, <2>4, <3>1 DEF Returned, CodexOK
  <2> QED
    BY <2>1, <2>2, <2>3, <2>4, DirectorySteps
<1>4. ASSUME NEW d \in Clients
      PROVE  /\ pc'[d] \in {"reserved", "checked"} /\ cwd[t] = Old(d) => t \in work'[d].threads
             /\ pc'[d] \in Away => cwd[t] # Old(d)
             /\ pc'[d] \in AtNew \cup {"checked"} => cwd[t] # New(d)
  <2>0. /\ pc[d] \in {"reserved", "checked"} /\ cwd[t] = Old(d) => t \in work[d].threads
        /\ pc[d] \in Away => cwd[t] # Old(d)
        /\ pc[d] \in AtNew \cup {"checked"} => cwd[t] # New(d)
    BY <1>0 DEF AtHome
  <2>1. CASE d # c
    BY <1>0, <2>0, <2>1 DEF Others
  <2>2. CASE d = c /\ pc'[c] \in InMutation \ {"gated", "listing"}
    <3>1. Flow(c)
      BY <2>2, PlaceSteps
    <3>2. pc[c] \in {"reserved", "checked"} \cup Away => work'[c].threads = work[c].threads
      BY ListSteps DEF ListSame, ListActives, ListAll, ListTries, ListReturns, Away, AtNew
    <3>3. pc'[c] \in {"reserved", "checked"} /\ cwd[t] = Old(c) => t \in work'[c].threads
      <4>1. pc'[c] = "reserved" => pc[c] = "listing"
        BY <3>1 DEF Flow
      <4>2. pc'[c] = "checked" => pc[c] = "reserved"
        BY <3>1 DEF Flow
      <4> QED
        BY <1>0, <2>0, <2>2, <3>2, <4>1, <4>2, ReservedHome
    <3>4. pc'[c] \in Away => cwd[t] # Old(c)
      <4>1. ASSUME pc'[c] \in Away, pc[c] \notin Away PROVE cwd[t] # Old(c)
        <5>1. pc[c] = "checked"
          BY <3>1, <4>1 DEF Flow, Away, AtNew
        <5> QED
          BY <2>0, <2>2, <3>2, <4>1, <5>1 DEF Owned
      <4> QED
        BY <2>0, <2>2, <4>1
    <3>5. pc'[c] \in AtNew \cup {"checked"} => cwd[t] # New(c)
      <4>1. ASSUME pc'[c] \in AtNew \cup {"checked"}, pc[c] \notin AtNew \cup {"checked"}
            PROVE  cwd[t] # New(c)
        <5>1. CheckNewName(c)
          BY <2>2, <4>1, MutationEnters, RequestPlaces
        <5>2. ~Found(New(c))
          BY <1>0, <4>1, <5>1 DEF CheckNewName, LeaveMutation, AtNew, ClientsOK
        <5> QED
          BY <1>0, <1>2, <5>2 DEF AtHome
      <4> QED
        BY <2>0, <2>2, <4>1
    <3> QED
      BY <2>2, <3>3, <3>4, <3>5
  <2>3. CASE d = c /\ pc'[c] \notin InMutation \ {"gated", "listing"}
    BY <2>3 DEF Away, AtNew, InMutation
  <2> QED
    BY <2>1, <2>2, <2>3
<1> QED
  BY <1>0, <1>1, <1>2, <1>3, <1>4 DEF AtHome, Found

\* Sessions that stay are at home.
LEMMA HomesKept ==
    ASSUME TypeOK, Fits, Tidy, Reserved, Turf, Lists, Unseen, Located, Alive, Race, Users, Newborn,
           Homes, Forks, Missed, NamesApart, NEW c \in Clients, Request(c) \/ Mutation(c), Races
    PROVE  Homes'
<1>1. SUFFICES ASSUME NEW t \in Threads, t \in Kept' PROVE HomeOf(t)'
  <2>1. promised' \subseteq Threads
    BY TypeParts, RequestTyped, MutationTyped
  <2> QED
    BY <1>1, <2>1 DEF Homes, Kept
<1>2. CASE t \notin promised
  BY <1>1, <1>2, HomeOfNew
<1>3. CASE t \in promised
  <2>1. t \in listed' \/ pending'[t] # None
    BY <1>1, <1>3, HomeListed
  <2>2. \A d \in Clients : pc'[d] \in Away /\ t \in work'[d].threads => home'[t] = dirs'[Site(d)']
    BY <1>1, <1>3, HomeMoved
  <2>3. ~Owned(t)' => AtHome(t)'
    BY <1>1, <1>3, HomeLetGo, HomeOff
  <2> QED
    BY <2>1, <2>2, <2>3 DEF HomeOf, AtHome
<1> QED
  BY <1>2, <1>3

\* No rename has a Session that is at the Project of another mutation, or takes it there.
LEMMA MovedElsewhere ==
    ASSUME TypeOK, Fits, Turf, Lists, Located, NamesApart,
           NEW c \in Clients, NEW d \in Clients \ {c}, pc[d] \in InMutation,
           NEW t \in Threads \ Stranded, pc[c] \in Away, t \in work[c].threads
    PROVE  /\ cwd[t] # Old(d)
           /\ MovesOut(c, t) \/ MovesHome(c, t) => cwd'[t] # Old(d)
<1>1. /\ pc[c] \in InMutation \ {"gated"} /\ op[c] = "rename project"
      /\ Old(d) # None
  BY TypeParts, JobTyped, Parameters DEF Fits, PlaceIn, Renaming, Moving, Away, AtNew, InMutation,
     Parameters
<1>2. Old(d) # Old(c) /\ Old(d) # New(c)
  BY <1>1 DEF Turf, Disjoint, NamesApart
<1>3. cwd[t] = None \/ cwd[t] \in {Old(c), New(c)}
  BY <1>1, MovedConcerns DEF Located
<1> QED
  BY <1>1, <1>2, <1>3 DEF MovesOut, MovesHome, Lands

\* What a mutation has missed in the first list is pending or unknown.
LEMMA MissedKept ==
    ASSUME TypeOK, Fits, Tidy, Reserved, Turf, Lists, Unseen, Located, Alive, Race, Users, Homes,
           Missed, NamesApart, NEW c \in Clients, Request(c) \/ Mutation(c), Races
    PROVE  Missed'
<1>0. job' = job /\ Others(c) /\ None \notin Names /\ \A d \in Clients : job[d].name \in Names
  BY JobsStay, HoldingSteps, Parameters, TypeParts, JobTyped DEF Parameters
<1>1. SUFFICES ASSUME NEW d \in Clients, NEW t \in Threads, t \notin raced', t \notin Stranded',
                      pc'[d] = "listing", cwd'[t] = Old(d), t \in listed', t \notin archived',
                      t \notin work'[d].threads
               PROVE  /\ t \in promised' => pending'[t] # None
                      /\ \A e \in Clients : ~Reader(e, t)'
  BY <1>0 DEF Missed
<1>2. /\ t \notin raced /\ t \notin Stranded /\ LocatedAt(t) /\ cwd'[t] # None /\ Old(d) # None
      /\ Past \subseteq Started
  BY <1>0, <1>1, StrandedStays DEF Races, Located, Past, Started
<1>3. ASSUME d = c PROVE FALSE
  <2>1. pc[c] = "gated" /\ work'[c].threads = {u \in listed \ archived : cwd[u] = Old(c)}
    BY <1>1, <1>3, ListSteps DEF ListSame, ListActives, ListAll, ListTries, ListReturns
  <2>2. Same(t)
    BY <1>1, <1>3, <2>1, SessionSteps DEF SessionStep, Starts, Remembers, Copies, RemembersCopy,
       Archives, Unarchives, Removes, FindsRemoved, Runs, Forgets, Sees, Destroys, Rmtree,
       MovesOut, MovesHome
  <2> QED
    BY <1>1, <1>3, <2>1, <2>2 DEF Same, Placement
<1>4. d # c /\ pc[d] = "listing" /\ t \notin work[d].threads /\ pc[d] \in InMutation
  BY <1>0, <1>1, <1>3 DEF Others, InMutation
<1>5. ~(Overlooked(c, t) /\ cwd[t] = Old(d))
  BY <1>2, <1>4, Unmarked DEF Concerns
<1>6. ASSUME MovesOut(c, t) \/ MovesHome(c, t) PROVE FALSE
  <2>1. t \in work[c].threads /\ pc[c] \in Away
    BY <1>6, MovesListed DEF MovesOut, MovesHome, Away, AtNew
  <2> QED
    BY <1>1, <1>2, <1>4, <1>6, <2>1, MovedElsewhere
<1>7. CASE cwd[t] = None
  <2>1. (Starts(c, t) \/ Copies(c, t)) /\ Unknown(t)
    BY <1>2, <1>7, NewSession
  <2>2. Copies(c, t)
    BY <1>1, <2>1 DEF Starts, Unknown
  <2>3. t \notin promised' /\ Thread(c) # t
    BY <2>1, <2>2, ProductOf DEF Copies, Standing, Unknown, Product
  <2> QED
    BY <1>0, <2>1, <2>3 DEF Reader, Unknown, Others
<1>8. CASE cwd[t] # None /\ t \notin listed
  <2>1. Runs(c, t)
    BY <1>1, <1>2, <1>6, <1>8, SessionSteps DEF SessionStep, Same, Placement, Starts, Remembers, Copies,
       RemembersCopy, Archives, Unarchives, Removes, FindsRemoved, Forgets, Sees, Destroys
  <2>2. cwd[t] = Old(d) /\ pending'[t] = pending[t] /\ (t \in promised' => t \in promised)
    BY <1>1, <2>1 DEF Runs, Standing
  <2>3. t \in promised => pending[t] # None
    BY <1>2, <1>8 DEF Homes, HomeOf, AtHome, Kept
  <2>4. ASSUME NEW e \in Clients, Reader(e, t)' PROVE FALSE
    <3>1. op'[c] = "turn"
      BY <2>1, FitsStep DEF Runs, PlaceIn
    <3>2. e # c /\ Reader(e, t)
      BY <1>0, <2>4, <3>1 DEF Reader, Others
    <3>3. Overlooked(e, t)
      BY <1>2, <1>8, <3>2 DEF Reader, Overlooked
    <3> QED
      BY <1>2, <1>4, <2>2, <3>2, <3>3, Unmarked DEF Concerns, Reader, Past, InMutation
  <2> QED
    BY <2>2, <2>3, <2>4
<1>9. CASE cwd[t] # None /\ t \in listed
  <2>1. cwd[t] = Old(d)
    BY <1>1, <1>2, <1>6, <1>9, SessionSteps DEF SessionStep, Same, Placement, Starts, Remembers, Copies,
       RemembersCopy, Archives, Unarchives, Removes, FindsRemoved, Runs, Forgets, Sees, Destroys
  <2>2. t \notin archived
    <3>1. ASSUME t \in archived PROVE FALSE
      <4>1. Unarchives(c, t)
        BY <1>1, <1>2, <1>6, <1>9, <3>1, SessionSteps DEF SessionStep, Same, Starts, Remembers, Copies,
           RemembersCopy, Archives, Removes, FindsRemoved, Runs, Forgets, Sees, Destroys
      <4> QED
        BY <1>5, <2>1, <4>1 DEF Unarchives, Overlooked, Started
    <3> QED
      BY <3>1
  <2>3. (t \in promised => pending[t] # None) /\ \A e \in Clients : ~Reader(e, t)
    BY <1>1, <1>2, <1>4, <1>9, <2>1, <2>2 DEF Missed
  <2>4. ~Owned(t) /\ Found(Old(d)) /\ Old(d) \in mutating
    <3>1. ~Owned(t)
      <4>1. ASSUME NEW e \in Clients, pc[e] \in Away, t \in work[e].threads PROVE FALSE
        <5>1. e # d
          BY <1>4, <4>1
        <5> QED
          BY <1>2, <1>4, <2>1, <4>1, <5>1, MovedElsewhere
      <4> QED
        BY <4>1 DEF Owned
    <3> QED
      BY <1>4, <3>1 DEF Turf, Grounded, Site, AtNew
  <2>5. t \in promised' => pending'[t] # None
    <3>1. CASE Forgets(c, t)
      <4>1. ~Matches(c) /\ t = Thread(c) /\ pc[c] \in {"arriving", "confirming"}
        BY <3>1 DEF Forgets
      <4>2. op[c] \in Reserving /\ pc[c] = "arriving"
        BY <2>3, <4>1 DEF Fits, PlaceIn, Reader, Past, Reserving
      <4>3. work[c].seen = cwd[t] /\ work[c].project = cwd[t]
        BY <1>2, <1>9, <4>1, <4>2 DEF Users, Sure
      <4> QED
        BY <2>1, <2>4, <4>1, <4>3 DEF Matches
    <3>2. CASE Sees(c, t)
      <4>1. pending[t] = None
        BY <1>5, <2>1, <3>2 DEF Sees, Overlooked, Started
      <4> QED
        BY <2>3, <3>2, <4>1 DEF Sees
    <3>3. CASE Destroys(c, t)
      <4>1. CASE t \in work[c].threads
        <5>1. pc[c] = "reserved" /\ pc[c] \in InMutation \ {"gated"} /\ work[c].tried = <<>>
          BY <3>3 DEF Destroys, Rmtree, InMutation, Lists, Untried
        <5>2. cwd[t] = Old(c)
          BY <1>2, <1>9, <4>1, <5>1, MovedConcerns, ToSetEmpty
        <5> QED
          BY <1>4, <2>1, <5>1, <5>2 DEF Turf, Disjoint
      <4>2. CASE t \notin work[c].threads
        BY <2>3, <3>3, <4>2 DEF Destroys
      <4> QED
        BY <4>1, <4>2
    <3>4. CASE Remembers(c, t) \/ RemembersCopy(c, t)
      BY <1>0, <1>9, <3>4 DEF Remembers, RemembersCopy
    <3>5. CASE Same(t) \/ Archives(c, t) \/ Unarchives(c, t) \/ Runs(c, t)
      BY <2>3, <3>5 DEF Same, Archives, Unarchives, Runs, Standing
    <3>6. ~(Starts(c, t) \/ Copies(c, t) \/ Removes(c, t) \/ FindsRemoved(c, t))
      BY <1>2, <1>9 DEF Starts, Copies, Removes, FindsRemoved
    <3> QED
      BY <1>6, <3>1, <3>2, <3>3, <3>4, <3>5, <3>6, SessionSteps DEF SessionStep
  <2>6. ASSUME NEW e \in Clients, Reader(e, t)' PROVE FALSE
    <3>1. e = c
      BY <1>0, <2>3, <2>6 DEF Others, Reader
    <3>2. t = Thread(c) /\ op'[c] \in {"read", "title"} /\ pc'[c] \in Past
      BY <1>0, <2>6, <3>1 DEF Reader
    <3>3. CASE Finds(c)
      BY <1>9, <2>1, <2>4, <1>2, <3>2, <3>3 DEF Finds, LocatedAt
    <3>4. CASE Reads(c) \/ GoesOn(c)
      BY <2>3, <3>2, <3>4 DEF Reads, GoesOn, Reader, Past
    <3> QED
      BY <3>3, <3>4, FindingSteps
  <2> QED
    BY <2>5, <2>6
<1> QED
  BY <1>7, <1>8, <1>9

-----------------------------------------------------------------------------
(* The inductive invariant *)

\* The inductive invariant.
Whereabouts == Turf /\ Lists /\ Unseen /\ Located
History == Race /\ Alive /\ Users /\ Newborn /\ Homes /\ Forks /\ Missed
Course == TypeOK /\ Tidy /\ Fits /\ Reserved /\ Whereabouts /\ History

\* The invariant holds at first, and is kept by steps and by stuttering.
LEMMA CourseInit == Init => Course
<1> SUFFICES ASSUME Init PROVE Course
  OBVIOUS
<1>1. \A c \in Clients : pc[c] = "start"
  BY DEF Init
<1>2. \A c \in Clients : work[c].threads = {} /\ work[c].stored = {} /\ work[c].tried = <<>>
  BY DEF Init
<1>3. Reserved /\ Turf
  BY <1>1 DEF Reserved, Using, Turf, Grounded, Disjoint, InMutation
<1>4. Lists
  BY <1>2, ToSetEmpty DEF Lists
<1> QED
  BY <1>3, <1>4, TypeInit, TidyInit, FitsInit, UnseenInit, LocatedInit, RaceInit, AliveInit,
     UsersInit, StayInit DEF Course, Whereabouts, History

LEMMA CourseStutters ==
    ASSUME Course, UNCHANGED vars
    PROVE  Course'
<1> USE DEF vars
<1>1. TypeOK'
  BY TypeKept DEF Course
<1>2. Tidy'
  BY TidyKept DEF Course
<1>3. Fits' /\ Reserved'
  BY DEF Course, Fits, PartOf, PlaceIn, Reserved
<1>4. Turf' /\ Lists'
  BY DEF Course, Whereabouts, Turf, Grounded, Disjoint, Site, Found, Lists
<1>5. Unseen'
  BY DEF Course, Whereabouts, Unseen, UnseenBy, Unknown, Product
<1>6. Located'
  BY DEF Course, Whereabouts, Located, LocatedAt, Stranded, OnList, Spot, Owned
<1>7. Race'
  <2>1. \A c \in Clients, t \in Threads : Overlooked(c, t)' <=> Overlooked(c, t)
    BY DEF Overlooked
  <2>2. \A t \in Threads : Crossed(t)' <=> Crossed(t)
    BY <2>1 DEF Crossed, Concerns
  <2> QED
    BY <2>2 DEF Course, History, Race
<1>8. Alive' /\ Newborn'
  BY DEF Course, History, Alive, Newborn, Found
<1>9. Users'
  BY DEF Course, History, Users, Sure, SureRead, SureList, Reader, Kept, Stranded
<1>10. Homes'
  BY DEF Course, History, Homes, HomeOf, AtHome, Kept, Stranded, Owned, Site, Found
<1>11. Forks'
  BY DEF Course, History, Forks, Kept, Stranded
<1>12. Missed'
  BY DEF Course, History, Missed, Stranded, Reader
<1> QED
  BY <1>1, <1>2, <1>3, <1>4, <1>5, <1>6, <1>7, <1>8, <1>9, <1>10, <1>11, <1>12
     DEF Course, Whereabouts, History

LEMMA CourseKept == Course /\ NamesApart /\ [Next]_vars => Course'
<1> SUFFICES ASSUME Course, NamesApart, [Next]_vars PROVE Course'
  OBVIOUS
<1>1. /\ TypeOK /\ Tidy /\ Fits /\ Reserved /\ Turf /\ Lists /\ Unseen /\ Located
      /\ Race /\ Alive /\ Users /\ Newborn /\ Homes /\ Forks /\ Missed
  BY DEF Course, Whereabouts, History
<1>2. ASSUME NEW c \in Clients, Request(c) \/ Mutation(c), Races PROVE Course'
  <2>1. TypeOK' /\ Tidy'
    <3>1. Next
      BY <1>2 DEF Next, Races
    <3> QED
      BY <1>1, <3>1, TypeKept, TidyKept
  <2>2. Fits' /\ Reserved'
    BY <1>1, <1>2, FitsKept, ReservedKept
  <2>3. Turf' /\ Lists'
    BY <1>1, <1>2, TurfKept, ListsKept DEF Tidy
  <2>4. Unseen' /\ Located'
    BY <1>1, <1>2, UnseenKept, LocatedKept
  <2>5. Race' /\ Alive' /\ Users'
    BY <1>1, <1>2, RaceKept, AliveKept, UsersKept
  <2>6. Newborn' /\ Homes'
    BY <1>1, <1>2, NewbornKept, HomesKept
  <2>7. Forks' /\ Missed'
    BY <1>1, <1>2, ForksKept, MissedKept
  <2> QED
    BY <2>1, <2>2, <2>3, <2>4, <2>5, <2>6, <2>7 DEF Course, Whereabouts, History
<1>3. CASE UNCHANGED vars
  BY <1>3, CourseStutters
<1> QED
  BY <1>2, <1>3 DEF Next, Races

\* All of it holds as long as no Project is given the name of one that is itself
\* being renamed or deleted.
LEMMA CourseHeld == Spec /\ []NamesApart => []Course
BY CourseInit, CourseKept, PTL DEF Spec

\* Renaming keeps the existing Sessions: a Session that clients were told of, that
\* was not deleted and that no request used behind the back of a mutation, can be
\* found in its own directory whenever no rename or delete is under way.
THEOREM SessionsKept == Spec /\ []NamesApart => []SessionsAreKept
<1>1. Course => SessionsAreKept
  <2> SUFFICES ASSUME Course, \A c \in Clients : pc[c] \notin InMutation,
                      NEW t \in Kept
               PROVE  Reachable(t)
    BY DEF SessionsAreKept
  <2>1. TypeOK /\ Homes /\ Located
    BY DEF Course, Whereabouts, History
  <2>2. t \in Threads /\ t \notin Stranded /\ HomeOf(t)
    BY <2>1, TypeParts DEF HistoryOK, Kept, Homes
  <2>3. ~Owned(t)
    BY DEF Owned, Away, AtNew, InMutation
  <2>4. Found(cwd[t]) /\ dirs[cwd[t]] = home[t] /\ (t \in listed \/ pending[t] # None)
    BY <2>2, <2>3 DEF HomeOf, AtHome
  <2>5. pending[t] \in {None, cwd[t]}
    BY <2>1, <2>2, <2>3, <2>4 DEF Located, LocatedAt, Found
  <2> QED
    BY <2>4, <2>5 DEF Reachable
<1> QED
  BY <1>1, CourseHeld, PTL

\* The directory of a Session with an operation under way, a Turn above all, is
\* neither renamed nor deleted.
THEOREM BusyStay == Spec /\ []NamesApart => BusySessionsStay
<1>1. ASSUME Course, [Next]_vars, NEW c \in Clients,
             op[c] \in Reserving, pc[c] \in {"acting", "forked", "running"},
             NEW t, t = Thread(c), Found(cwd[t]), t \in Kept
      PROVE  dirs'[cwd[t]] = dirs[cwd[t]]
  <2>1. TypeOK /\ Tidy /\ Fits /\ Reserved /\ Homes
    BY <1>1 DEF Course, Whereabouts, History
  <2>2. Has(c, t) /\ pc[c] \notin Away \cup Owning
    BY <1>1 DEF Has, Using, Away, AtNew, Owning, InMutation
  <2>3. HomeOf(t) /\ ~Owned(t)
    BY <1>1, <2>1, <2>2, HasNotOwned DEF Homes
  <2>4. CodexOK /\ t \in Threads /\ cwd[t] \in Names /\ dirs[cwd[t]] # None
    BY <1>1, <2>1, TypeParts, JobTyped DEF CodexOK, Found
  <2>5. CASE UNCHANGED vars
    BY <2>5 DEF vars
  <2>6. ASSUME NEW d \in Clients, Request(d) \/ Mutation(d) PROVE dirs'[cwd[t]] = dirs[cwd[t]]
    <3>1. pc[d] \in {"reserved", "checked"} => cwd[t] # Old(d)
      <4>1. ASSUME pc[d] \in {"reserved", "checked"}, cwd[t] = Old(d) PROVE FALSE
        <5>1. Has(d, t) /\ pc[d] \in Owning
          BY <2>3, <4>1 DEF HomeOf, AtHome, Has, Owning, InMutation
        <5> QED
          BY <2>1, <2>2, <5>1, HasAlone
      <4> QED
        BY <4>1
    <3>2. /\ pc[d] \in Away => cwd[t] # Old(d)
          /\ pc[d] \in AtNew \cup {"checked"} => cwd[t] # New(d)
      BY <2>3 DEF HomeOf, AtHome
    <3> QED
      BY <2>1, <2>4, <2>6, <3>1, <3>2, DirectorySteps DEF Mkdir, Rmtree, Moves, Returned, CodexOK,
         Away, AtNew
  <2> QED
    BY <1>1, <2>5, <2>6 DEF Next
<1>2. Course /\ [Next]_vars =>
          [\A c \in Clients :
               LET t == Thread(c) IN
               /\ op[c] \in Reserving /\ pc[c] \in {"acting", "forked", "running"}
               /\ Found(cwd[t]) /\ t \in Kept
               => dirs'[cwd[t]] = dirs[cwd[t]]]_vars
  BY <1>1
<1> QED
  BY <1>2, CourseHeld, PTL DEF Spec, BusySessionsStay

\* A rename that was taken back has left every Session that still exists as it was.
THEOREM UndoneRestores == Spec /\ []NamesApart => UndoneMeansRestored
<1>1. ASSUME Course, [Next]_vars, NEW c \in Clients, pc[c] = "returning", pc'[c] = "failed"
      PROVE  /\ Found(Old(c))'
             /\ \A t \in (work[c].threads \cap promised) \ Stranded :
                    /\ cwd[t] = Old(c)
                    /\ t \in work[c].stored => t \in archived
                    /\ pending[t] \in {None, Old(c)}
  <2>1. TypeOK /\ Fits /\ Turf /\ Located /\ Alive
    BY <1>1 DEF Course, Whereabouts, History
  <2>2. PICK d \in Clients : Request(d) \/ Mutation(d)
    BY <1>1 DEF Next, vars
  <2>3. d = c
    BY <1>1, <2>1, <2>2, HoldingSteps DEF Others
  <2>4. Flow(c) /\ pc[c] \in InMutation \ {"gated"} /\ pc[c] \in Away /\ pc[c] \in Owning
    BY <1>1, <2>1, <2>2, <2>3, PlaceSteps DEF InMutation, Away, Owning
  <2>5. work[c].tried = <<>> /\ ToSet(work[c].tried) = {}
    BY <1>1, <2>4, ToSetEmpty DEF Flow
  <2>6. Found(Old(c))'
    <3>1. job' = job /\ dirs' = dirs
      BY <1>1, <2>1, <2>2, <2>3, JobsStay, DirectorySteps DEF Mkdir, Rmtree, Moves, Returned
    <3>2. Found(Old(c))
      BY <1>1, <2>1, <2>4 DEF Turf, Grounded, Site, AtNew
    <3> QED
      BY <3>1, <3>2 DEF Found
  <2>7. ASSUME NEW t \in (work[c].threads \cap promised) \ Stranded
        PROVE  /\ cwd[t] = Old(c)
               /\ t \in work[c].stored => t \in archived
               /\ pending[t] \in {None, Old(c)}
    <3>1. cwd[t] # None /\ LocatedAt(t)
      BY <2>1, TypeParts DEF HistoryOK, Alive, Located
    <3> QED
      BY <2>4, <2>5, <2>7, <3>1 DEF LocatedAt, OnList, Spot
  <2> QED
    BY <2>6, <2>7
<1>2. Course /\ [Next]_vars =>
          [\A c \in Clients : pc[c] = "returning" /\ pc'[c] = "failed" =>
               /\ Found(Old(c))'
               /\ \A t \in (work[c].threads \cap promised) \ Stranded :
                      /\ cwd[t] = Old(c)
                      /\ t \in work[c].stored => t \in archived
                      /\ pending[t] \in {None, Old(c)}]_vars
  BY <1>1
<1> QED
  BY <1>2, CourseHeld, PTL DEF Spec, UndoneMeansRestored

-----------------------------------------------------------------------------
(* Failures of a rename *)

\* Each Session is tried once.
Distinct(s) == \A i, j \in DOMAIN s : s[i] = s[j] => i = j

\* Sequences without repetition, with one more element or one less.
LEMMA DistinctAppend ==
    ASSUME NEW S, NEW s \in Seq(S), NEW t \in S, Distinct(s), t \notin ToSet(s)
    PROVE  Distinct(Append(s, t)) /\ Last(Append(s, t)) = t
<1>1. DOMAIN Append(s, t) = 1..(Len(s) + 1) /\ DOMAIN s = 1..Len(s) /\ Len(s) \in Nat
      /\ Len(Append(s, t)) = Len(s) + 1
  OBVIOUS
<1>2. Append(s, t)[Len(s) + 1] = t /\ \A i \in 1..Len(s) : Append(s, t)[i] = s[i]
  OBVIOUS
<1>3. \A i \in 1..(Len(s) + 1) : i = Len(s) + 1 \/ i \in 1..Len(s)
  BY <1>1
<1>4. \A i \in 1..Len(s) : s[i] # t
  BY <1>1 DEF ToSet
<1>5. ASSUME NEW i \in 1..(Len(s) + 1), NEW j \in 1..(Len(s) + 1), Append(s, t)[i] = Append(s, t)[j]
      PROVE  i = j
  BY <1>1, <1>2, <1>3, <1>4, <1>5 DEF Distinct
<1> QED
  BY <1>1, <1>2, <1>5 DEF Distinct, Last

LEMMA DistinctTail ==
    ASSUME NEW S, NEW s \in Seq(S), s # <<>>, Distinct(s)
    PROVE  /\ Distinct(Tail(s))
           /\ Tail(s) # <<>> => Last(Tail(s)) = Last(s)
           /\ Head(s) = Last(s) => ToSet(s) = {Head(s)}
<1>1. DOMAIN s = 1..Len(s) /\ Len(s) \in Nat \ {0} /\ Head(s) = s[1]
  OBVIOUS
<1>2. /\ Tail(s) \in Seq(S) /\ DOMAIN Tail(s) = 1..(Len(s) - 1) /\ Len(Tail(s)) = Len(s) - 1
      /\ \A i \in 1..(Len(s) - 1) : Tail(s)[i] = s[i + 1]
  OBVIOUS
<1>3. Distinct(Tail(s))
  <2> SUFFICES ASSUME NEW i \in 1..(Len(s) - 1), NEW j \in 1..(Len(s) - 1), Tail(s)[i] = Tail(s)[j]
               PROVE  i = j
    BY <1>2 DEF Distinct
  <2>1. i + 1 \in 1..Len(s) /\ j + 1 \in 1..Len(s) /\ s[i + 1] = s[j + 1]
    BY <1>1, <1>2
  <2>2. i + 1 = j + 1
    BY <1>1, <2>1 DEF Distinct
  <2> QED
    BY <2>2
<1>4. ASSUME Tail(s) # <<>> PROVE Last(Tail(s)) = Last(s)
  <2>1. Len(s) - 1 \in 1..(Len(s) - 1)
    BY <1>1, <1>2, <1>4
  <2> QED
    BY <1>1, <1>2, <2>1 DEF Last
<1>5. ASSUME Head(s) = Last(s) PROVE ToSet(s) = {Head(s)}
  <2>1. 1 \in 1..Len(s) /\ Len(s) \in 1..Len(s)
    BY <1>1
  <2>2. Len(s) = 1
    BY <1>1, <1>5, <2>1 DEF Distinct, Last
  <2> QED
    BY <1>1, <2>2 DEF ToSet
<1> QED
  BY <1>3, <1>4, <1>5

Once == \A c \in Clients : Distinct(work[c].tried)

\* A rename tries each of its Sessions once.
LEMMA OnceKept ==
    ASSUME TypeOK, Fits, Once, NEW c \in Clients, Request(c) \/ Mutation(c)
    PROVE  Once'
<1>1. Others(c) /\ work[c].tried \in Seq(Threads) /\ work[c].threads \subseteq Threads
  BY HoldingSteps, TypeParts DEF WorkOK, Work
<1>2. Distinct(work'[c].tried)
  <2>1. CASE ListTries(c)
    <3>1. PICK t \in work[c].threads \ ToSet(work[c].tried) : work'[c].tried = Append(work[c].tried, t)
      BY <2>1 DEF ListTries
    <3> QED
      BY <1>1, <3>1, DistinctAppend DEF Once
  <2>2. CASE ListReturns(c)
    BY <1>1, <2>2, DistinctTail DEF ListReturns, Once
  <2> QED
    BY <2>1, <2>2, ListSteps DEF ListSame, ListActives, ListAll, Once
<1> QED
  BY <1>1, <1>2 DEF Once, Others

\* Without the fault that leaves a Session unarchived, a move fails only by a fault,
\* or as its Session is gone or was unarchived.
LEMMA FailedOutcome ==
    ASSUME TypeOK, "rearchive" \notin Faults, NEW c \in Clients, NEW t \in Threads, NEW n \in Names,
           NEW o \in Outcomes(c, t, n), Relocate(c, t, n, o), Found(n)
    PROVE  /\ ~o.ok => \/ cwd[t] = None \/ faults' = faults + 1
                       \/ t \in work[c].stored /\ t \notin archived
           /\ \A x \in archived : x \in archived'
<1> DEFINE can == cwd[t] # None /\ (t \in work[c].stored => t \in archived)
           was == t \in archived
           may == {cwd[t]} \cup (IF can THEN {n} ELSE {})
           Moved == [cwd |-> n, archived |-> was, ok |-> TRUE, fault |-> 0]
           NotMoved(f) == [cwd : may, archived : {was}, ok : {FALSE}, fault : {f}]
<1>1. o = Moved \/ (~can /\ o \in NotMoved(0)) \/ o \in NotMoved(1)
  <2>1. CASE o \in IF can /\ Found(n) THEN {Moved} ELSE {}
    BY <2>1
  <2>2. CASE o \in IF can /\ Found(n) THEN {} ELSE NotMoved(0)
    BY <2>2
  <2>3. CASE o \in IF "move" \in Faults /\ can THEN NotMoved(1) ELSE {}
    BY <2>3
  <2> HIDE DEF can, was, may, Moved, NotMoved
  <2> QED
    BY <2>1, <2>2, <2>3 DEF Outcomes, can, was, may, Moved, NotMoved
<1> HIDE DEF may, was
<1>2. o.archived = was /\ (~o.ok => o.fault = 1 \/ ~can)
  <2>1. CASE o = Moved
    BY <2>1
  <2>2. CASE ~can /\ o \in NotMoved(0)
    BY <2>2
  <2>3. CASE o \in NotMoved(1)
    BY <2>3
  <2> QED
    BY <1>1, <2>1, <2>2, <2>3
<1> QED
  BY <1>2 DEF Relocate, was

\* Faults are counted.
LEMMA FaultsStay ==
    ASSUME TypeOK, NEW c \in Clients, Request(c) \/ Mutation(c)
    PROVE  faults \in Nat /\ faults' \in Nat /\ faults' >= faults
<1>0. /\ CodexOK /\ WorkOK /\ faults \in Nat /\ job[c].name \in Names /\ job[c].to \in Names
      /\ work[c].threads \subseteq Threads /\ work[c].tried \in Seq(Threads)
  BY TypeParts, JobTyped, Parameters DEF Parameters, WorkOK, Work
<1>1. CASE MoveThread(c)
  <2>1. PICK t \in work[c].threads : \E o \in Outcomes(c, t, New(c)) : Relocate(c, t, New(c), o)
    BY <1>1 DEF MoveThread
  <2>2. PICK o \in Outcomes(c, t, New(c)) : Relocate(c, t, New(c), o)
    BY <2>1
  <2>3. o.fault \in {0, 1}
    BY <1>0, <2>2, OutcomesTyped
  <2> QED
    BY <1>0, <2>2, <2>3 DEF Relocate
<1>2. CASE MoveBack(c)
  <2>1. Head(work[c].tried) \in Threads
    BY <1>0, <1>2 DEF MoveBack
  <2>2. PICK o \in Outcomes(c, Head(work[c].tried), Old(c)) : Relocate(c, Head(work[c].tried), Old(c), o)
    BY <1>2 DEF MoveBack
  <2>3. o.fault \in {0, 1}
    BY <1>0, <2>1, <2>2, OutcomesTyped
  <2> QED
    BY <1>0, <2>2, <2>3 DEF Relocate
<1>3. CASE DeleteProject(c)
  <2>1. faults' \in {faults, faults + 1}
    BY <1>3 DEF DeleteProject
  <2> QED
    BY <1>0, <2>1
<1>4. CASE Request(c)
  <2>1. faults' = faults
    BY <1>4 DEF Request, Title, StartThread, Created, Reserve, Find, Read, Arrive, ConfirmTitle,
       Archive, Unarchive, Deletes, Delete, Fork, Forked, StartTurn, EndTurn, CodexRaises,
       ListThreads, CodexLists, Listed, MakeDirectory, ProjectCreated
  <2> QED
    BY <1>0, <2>1
<1>5. CASE \/ CloseGate(c) \/ ListActive(c) \/ ReserveAll(c) \/ MutationRefused(c)
           \/ CheckNewName(c) \/ RenameDirectory(c) \/ CloseNewGate(c) \/ RenameDone(c)
           \/ CheckOldName(c) \/ RestoreDirectory(c) \/ RenameUndone(c)
  <2>1. faults' = faults
    BY <1>5 DEF CloseGate, ListActive, ReserveAll, MutationRefused, CheckNewName, RenameDirectory,
       CloseNewGate, RenameDone, CheckOldName, RestoreDirectory, RenameUndone
  <2> QED
    BY <1>0, <2>1
<1> QED
  BY <1>1, <1>2, <1>3, <1>4, <1>5 DEF Mutation

\* What a step of a rename that moves Sessions, or moves them back, may leave.
LEMMA FailedMoves ==
    ASSUME TypeOK, Fits, Turf, "rearchive" \notin Faults, NEW c \in Clients, Request(c) \/ Mutation(c),
           pc[c] \in {"moving", "returning"}
    PROVE  /\ pc'[c] = "undo" =>
                  \E t \in work[c].threads \ ToSet(work[c].tried) :
                      /\ work'[c].tried = Append(work[c].tried, t)
                      /\ \/ cwd[t] = None \/ faults' = faults + 1
                         \/ t \in work[c].stored /\ t \notin archived
           /\ pc'[c] = "broken" =>
                  LET t == Head(work[c].tried) IN
                  /\ \/ cwd[t] = None \/ faults' = faults + 1
                     \/ t \in work[c].stored /\ t \notin archived
                  /\ \A x \in Threads \ {t} : Same(x)
           /\ \A x \in archived : x \in archived'
<1>0. /\ ClientsOK /\ WorkOK /\ work[c].threads \subseteq Threads /\ work[c].tried \in Seq(Threads)
      /\ job[c].name \in Names /\ job[c].to \in Names
  BY TypeParts, JobTyped DEF WorkOK, Work
<1>1. Found(Site(c)) /\ Site(c) = IF pc[c] = "moving" THEN New(c) ELSE Old(c)
  BY DEF Turf, Grounded, InMutation, Site, AtNew
<1>2. MoveThread(c) \/ RenameDone(c) \/ MoveBack(c) \/ RenameUndone(c)
  BY RequestPlaces DEF Mutation, CloseGate, ListActive, ReserveAll, MutationRefused, DeleteProject,
     CheckNewName, RenameDirectory, CloseNewGate, CheckOldName, RestoreDirectory, InMutation
<1>3. CASE RenameDone(c) \/ RenameUndone(c)
  BY <1>0, <1>3 DEF RenameDone, RenameUndone, LeaveMutation, ClientsOK
<1>4. CASE MoveThread(c)
  <2>p. PICK t \in work[c].threads \ ToSet(work[c].tried) : \E o \in Outcomes(c, t, New(c)) :
           /\ Relocate(c, t, New(c), o)
           /\ Keep(c, [work[c] EXCEPT !.tried = Append(@, t)])
           /\ Go(c, IF o.ok THEN "moving" ELSE "undo")
    BY <1>4 DEF MoveThread
  <2>1. PICK o \in Outcomes(c, t, New(c)) :
           /\ Relocate(c, t, New(c), o)
           /\ Keep(c, [work[c] EXCEPT !.tried = Append(@, t)])
           /\ Go(c, IF o.ok THEN "moving" ELSE "undo")
    BY <2>p
  <2>2. /\ ~o.ok => \/ cwd[t] = None \/ faults' = faults + 1
                    \/ t \in work[c].stored /\ t \notin archived
        /\ \A x \in archived : x \in archived'
    BY <1>0, <1>1, <1>4, <2>1, FailedOutcome DEF MoveThread
  <2>3. work'[c].tried = Append(work[c].tried, t)
    BY <1>0, <2>1 DEF WorkOK, Work
  <2>4. pc'[c] = IF o.ok THEN "moving" ELSE "undo"
    BY <1>0, <2>1 DEF ClientsOK
  <2> QED
    BY <2>2, <2>3, <2>4
<1>5. CASE MoveBack(c)
  <2>1. Head(work[c].tried) \in Threads /\ \A x \in Threads \ {Head(work[c].tried)} : Same(x)
    BY <1>5, MoveBackMoves
  <2>2. PICK o \in Outcomes(c, Head(work[c].tried), Old(c)) :
           /\ Relocate(c, Head(work[c].tried), Old(c), o)
           /\ pc' = [pc EXCEPT ![c] = IF o.ok THEN "returning" ELSE "broken"]
    BY <1>5 DEF MoveBack, LeaveMutation
  <2>3. /\ ~o.ok => \/ cwd[Head(work[c].tried)] = None \/ faults' = faults + 1
                    \/ Head(work[c].tried) \in work[c].stored /\ Head(work[c].tried) \notin archived
        /\ \A x \in archived : x \in archived'
    BY <1>0, <1>1, <1>5, <2>1, <2>2, FailedOutcome DEF MoveBack
  <2>4. pc'[c] = IF o.ok THEN "returning" ELSE "broken"
    BY <1>0, <2>2 DEF ClientsOK
  <2> QED
    BY <2>1, <2>3, <2>4
<1> QED
  BY <1>2, <1>3, <1>4, <1>5

\* An archived Session stays archived while a mutation has it.
StoredStay == \A c \in Clients : pc[c] \in Owning => work[c].stored \subseteq archived

\* Nobody unarchives a Session that a mutation has.
LEMMA StoredKept ==
    ASSUME TypeOK, Fits, Tidy, Reserved, Turf, Lists, StoredStay, "rearchive" \notin Faults,
           NEW c \in Clients, Request(c) \/ Mutation(c)
    PROVE  StoredStay'
<1>0. Others(c) /\ Owning \subseteq InMutation
  BY HoldingSteps DEF Owning
<1>1. SUFFICES ASSUME NEW d \in Clients, pc'[d] \in Owning, NEW t \in work'[d].stored
               PROVE  t \in archived'
  BY DEF StoredStay
<1>2. t \in Threads
  <2>1. WorkOK'
    BY TypeParts, RequestTyped, MutationTyped
  <2> QED
    BY <1>1, <2>1 DEF WorkOK, Work
<1>3. ASSUME t \in archived, ~Has(c, t) PROVE t \in archived'
  <2>1. ~Unarchives(c, t) /\ ~Removes(c, t)
    BY <1>3 DEF Unarchives, Removes, Has, Reserving, Using
  <2>2. ~MovesOut(c, t) /\ ~MovesHome(c, t)
    BY <1>3, MovesListed DEF Has, MovesOut, MovesHome, Owning, InMutation
  <2> QED
    BY <1>2, <1>3, <2>1, <2>2, SessionSteps DEF SessionStep, Same, Starts, Remembers, Copies,
       RemembersCopy, Archives, FindsRemoved, Runs, Forgets, Sees, Destroys
<1>4. CASE d # c
  <2>1. pc[d] \in Owning /\ t \in work[d].stored
    BY <1>0, <1>1, <1>4 DEF Others
  <2>2. t \in archived /\ Has(d, t)
    BY <2>1 DEF StoredStay, Lists, Has
  <2>3. ~Has(c, t)
    BY <1>4, <2>2, HasAlone
  <2> QED
    BY <1>3, <2>2, <2>3
<1>5. CASE d = c
  <2>1. Flow(c)
    BY <1>0, <1>1, <1>5, PlaceSteps
  <2>2. CASE pc[c] \in Owning
    <3>1. work'[c].stored = work[c].stored
      BY <2>2, ListSteps DEF ListSame, ListActives, ListAll, ListTries, ListReturns, Owning, InMutation
    <3>2. t \in archived
      BY <1>1, <1>5, <2>2, <3>1 DEF StoredStay
    <3>3. CASE pc[c] \in {"moving", "returning"}
      BY <3>2, <3>3, FailedMoves
    <3>4. CASE pc[c] \notin {"moving", "returning"}
      BY <1>2, <2>2, <3>2, <3>4, SessionSteps DEF SessionStep, Same, Starts, Remembers, Copies,
         RemembersCopy, Archives, Unarchives, Removes, FindsRemoved, Runs, Forgets, Sees, Destroys,
         MovesOut, MovesHome, Owning, InMutation
    <3> QED
      BY <3>3, <3>4
  <2>3. CASE pc[c] \notin Owning
    <3>1. pc[c] = "listing" /\ pc'[c] = "reserved"
      BY <1>1, <1>5, <2>1, <2>3 DEF Flow, Owning, InMutation
    <3>2. ListAll(c)
      BY <3>1, ListSteps DEF ListSame, ListActives, ListTries, ListReturns
    <3>3. t \in archived
      BY <1>1, <1>5, <3>2 DEF ListAll
    <3> QED
      BY <1>2, <3>1, <3>3, SessionSteps DEF SessionStep, Same, Starts, Remembers, Copies,
         RemembersCopy, Archives, Unarchives, Removes, FindsRemoved, Runs, Forgets, Sees, Destroys,
         MovesOut, MovesHome
  <2> QED
    BY <2>2, <2>3
<1> QED
  BY <1>4, <1>5

\* A rename goes back for a fault, or for a Session that is gone: the last that it
\* tried.
WayBack == {"undo", "undo checked", "returning"}

Cause(c) ==
    \/ faults >= 1
    \/ \E t \in work[c].threads :
           cwd[t] = None /\ (work[c].tried # <<>> => t = Last(work[c].tried))

Caused == \A c \in Clients : pc[c] \in WayBack => Cause(c)

\* A rename goes back only for a cause.
LEMMA CausedKept ==
    ASSUME TypeOK, Fits, Tidy, Reserved, Turf, Lists, Unseen, Once, StoredStay, Caused,
           "rearchive" \notin Faults, NEW c \in Clients, Request(c) \/ Mutation(c)
    PROVE  Caused'
<1>0. /\ Others(c) /\ faults \in Nat /\ faults' \in Nat /\ faults' >= faults
      /\ WorkOK /\ \A d \in Clients : work[d].threads \subseteq Threads
  BY HoldingSteps, FaultsStay, TypeParts DEF WorkOK, Work
<1>1. SUFFICES ASSUME NEW d \in Clients, pc'[d] \in WayBack, ~(faults' >= 1)
               PROVE  \E t \in work'[d].threads :
                          cwd'[t] = None /\ (work'[d].tried # <<>> => t = Last(work'[d].tried))
  BY DEF Caused, Cause
<1>2. ~(faults >= 1) /\ faults' # faults + 1
  BY <1>0, <1>1
<1>3. ASSUME NEW e \in Clients, NEW t \in work[e].threads, cwd[t] = None PROVE cwd'[t] = None
  BY <1>0, <1>3, NewSession DEF Unknown
<1>4. CASE pc[d] \in WayBack
  <2>1. PICK t \in work[d].threads : cwd[t] = None /\ (work[d].tried # <<>> => t = Last(work[d].tried))
    BY <1>2, <1>4 DEF Caused, Cause
  <2>2. cwd'[t] = None
    BY <1>3, <2>1
  <2>3. CASE d # c
    BY <1>0, <2>1, <2>2, <2>3 DEF Others
  <2>4. CASE d = c
    <3>1. work'[c].threads = work[c].threads
      BY <1>4, <2>4, ListSteps DEF ListSame, ListActives, ListAll, ListTries, ListReturns, WayBack
    <3>2. work'[c].tried = work[c].tried \/ ListReturns(c)
      BY <1>4, <2>4, ListSteps DEF ListSame, ListActives, ListAll, ListTries, WayBack
    <3>3. ListReturns(c) /\ work'[c].tried # <<>> => Last(work'[c].tried) = Last(work[c].tried)
      <4>1. work[c].tried \in Seq(Threads) /\ Distinct(work[c].tried)
        BY <1>0 DEF WorkOK, Work, Once
      <4> QED
        BY <4>1, DistinctTail DEF ListReturns
    <3>4. ListReturns(c) => work[c].tried # <<>>
      BY DEF ListReturns
    <3> QED
      BY <2>1, <2>2, <2>4, <3>1, <3>2, <3>3, <3>4
  <2> QED
    BY <2>3, <2>4
<1>5. CASE pc[d] \notin WayBack
  <2>1. d = c /\ WayBack \subseteq InMutation
    BY <1>0, <1>1, <1>5 DEF Others, WayBack, InMutation
  <2>2. pc[c] = "moving" /\ pc'[c] = "undo"
    BY <1>1, <1>5, <2>1, PlaceSteps DEF Flow, WayBack
  <2>3. PICK t \in work[c].threads \ ToSet(work[c].tried) :
           /\ work'[c].tried = Append(work[c].tried, t)
           /\ \/ cwd[t] = None \/ faults' = faults + 1
              \/ t \in work[c].stored /\ t \notin archived
    BY <2>2, FailedMoves
  <2>4. cwd[t] = None
    BY <1>2, <2>2, <2>3 DEF StoredStay, Owning, InMutation
  <2>5. work'[c].threads = work[c].threads
    BY <2>2, ListSteps DEF ListSame, ListActives, ListAll, ListTries, ListReturns
  <2>6. t = Last(work'[c].tried)
    <3>1. work[c].tried \in Seq(Threads) /\ t \in Threads /\ Distinct(work[c].tried)
      BY <1>0 DEF WorkOK, Work, Once
    <3> QED
      BY <2>3, <3>1, DistinctAppend
  <2> QED
    BY <1>3, <2>1, <2>3, <2>4, <2>5, <2>6
<1> QED
  BY <1>4, <1>5

\* The old name is free while its directory is at the new one, unless a client has
\* created a Project of that name.
Vacant(c) ==
    \/ dirs[Old(c)] = None
    \/ \E d \in Clients \ {c} : op[d] = "create project" /\ pc[d] # "start" /\ Old(d) = Old(c)

Vacated == \A c \in Clients : pc[c] \in AtNew => Vacant(c)

\* No step ends at the start of a request.
LEMMA BeginsOnce ==
    ASSUME TypeOK, NEW c \in Clients, Request(c) \/ Mutation(c)
    PROVE  pc'[c] # "start"
<1>0. ClientsOK
  BY TypeParts
<1> USE <1>0 DEF ClientsOK
<1>1. CASE Title(c) \/ StartThread(c) \/ Created(c) \/ Read(c)
  BY <1>1 DEF Title, StartThread, Created, Read
<1>2. ASSUME Raise(c) PROVE pc'[c] # "start"
  BY <1>2 DEF Raise
<1>3. CASE Reserve(c)
  BY <1>2, <1>3 DEF Reserve
<1>4. CASE Find(c)
  BY <1>2, <1>4 DEF Find
<1>5. CASE Arrive(c)
  BY <1>2, <1>5 DEF Arrive
<1>6. CASE CodexRaises(c)
  BY <1>2, <1>6 DEF CodexRaises
<1>7. CASE ConfirmTitle(c) \/ Archive(c) \/ Unarchive(c) \/ Deletes(c)
  BY <1>7 DEF ConfirmTitle, Archive, Unarchive, Deletes, Delete
<1>8. CASE Fork(c) \/ Forked(c) \/ StartTurn(c) \/ EndTurn(c)
  BY <1>8 DEF Fork, Forked, StartTurn, EndTurn
<1>9. CASE ListThreads(c) \/ CodexLists(c) \/ Listed(c) \/ MakeDirectory(c) \/ ProjectCreated(c)
  BY <1>9 DEF ListThreads, CodexLists, Listed, MakeDirectory, ProjectCreated
<1>10. CASE Mutation(c)
  <2>1. pc[c] \in InMutation \cup {"start"}
    BY <1>10 DEF Mutation, CloseGate, ListActive, ReserveAll, MutationRefused, DeleteProject,
       CheckNewName, RenameDirectory, CloseNewGate, MoveThread, RenameDone, CheckOldName,
       RestoreDirectory, MoveBack, RenameUndone, InMutation
  <2>2. CASE Flow(c)
    BY <2>2 DEF Flow
  <2>3. CASE ~Flow(c)
    <3>1. pc[c] = "start" /\ CloseGate(c)
      BY <1>10, <2>1, <2>3, PlaceSteps DEF Mutation, ListActive, ReserveAll, MutationRefused,
         DeleteProject, CheckNewName, RenameDirectory, CloseNewGate, MoveThread, RenameDone,
         CheckOldName, RestoreDirectory, MoveBack, RenameUndone
    <3> QED
      BY <3>1 DEF CloseGate
  <2> QED
    BY <2>2, <2>3
<1> QED
  BY <1>1, <1>3, <1>4, <1>5, <1>6, <1>7, <1>8, <1>9, <1>10 DEF Request

\* The old name stays free for the way back, but for a new Project.
LEMMA VacatedKept ==
    ASSUME TypeOK, Fits, Turf, NamesApart, Vacated, NEW c \in Clients, Request(c) \/ Mutation(c)
    PROVE  Vacated'
<1>0. /\ job' = job /\ Others(c) /\ CodexOK /\ Old(c) \in Names /\ New(c) \in Names
      /\ AtNew \subseteq InMutation /\ pc'[c] # "start"
      /\ \A d \in Clients : job[d].name \in Names /\ job[d].to \in Names
  BY JobsStay, HoldingSteps, TypeParts, JobTyped, BeginsOnce DEF AtNew, InMutation
<1>1. SUFFICES ASSUME NEW d \in Clients, pc'[d] \in AtNew
               PROVE  \/ dirs'[Old(d)] = None
                      \/ \E e \in Clients \ {d} :
                             op'[e] = "create project" /\ pc'[e] # "start" /\ Old(e) = Old(d)
  BY <1>0 DEF Vacated, Vacant
<1>2. ASSUME NEW e \in Clients \ {d}, op[e] = "create project", pc'[e] # "start", Old(e) = Old(d)
      PROVE  op'[e] = "create project"
  BY <1>0, <1>2, FitsKept DEF Fits, PartOf, Others
<1>3. ASSUME pc[d] \in AtNew, dirs'[Old(d)] = dirs[Old(d)]
      PROVE  \/ dirs'[Old(d)] = None
             \/ \E e \in Clients \ {d} :
                    op'[e] = "create project" /\ pc'[e] # "start" /\ Old(e) = Old(d)
  <2>1. CASE dirs[Old(d)] = None
    BY <1>3, <2>1
  <2>2. CASE dirs[Old(d)] # None
    <3>1. PICK e \in Clients \ {d} : op[e] = "create project" /\ pc[e] # "start" /\ Old(e) = Old(d)
      BY <1>3, <2>2 DEF Vacated, Vacant
    <3>2. pc'[e] # "start"
      BY <1>0, <3>1 DEF Others
    <3> QED
      BY <1>2, <3>1, <3>2
  <2> QED
    BY <2>1, <2>2
<1>4. CASE d # c
  <2>1. pc[d] \in AtNew /\ op[d] = "rename project"
    BY <1>0, <1>1, <1>4 DEF Others, Fits, PlaceIn, Renaming, Moving, AtNew
  <2>2. CASE Mkdir(c) /\ Old(c) = Old(d)
    BY <1>2, <1>4, <2>2 DEF Mkdir
  <2>3. CASE ~(Mkdir(c) /\ Old(c) = Old(d))
    <3>1. pc[c] \in InMutation => Old(d) # Old(c)
      BY <1>0, <1>4, <2>1 DEF Turf, Disjoint
    <3>2. pc[c] \in {"checked", "undo checked"} => Old(d) # New(c)
      <4>1. pc[c] \in {"checked", "undo checked"} => op[c] = "rename project" /\ pc[c] \in InMutation
        BY DEF Fits, PlaceIn, Renaming, Moving, InMutation
      <4> QED
        BY <1>0, <1>4, <2>1, <4>1 DEF NamesApart
    <3>3. dirs'[Old(d)] = dirs[Old(d)]
      BY <1>0, <2>3, <3>1, <3>2, DirectorySteps DEF Mkdir, Rmtree, Moves, Returned, CodexOK, InMutation
    <3> QED
      BY <1>3, <2>1, <3>3
  <2> QED
    BY <2>2, <2>3
<1>5. CASE d = c
  <2>1. CASE Moves(c)
    <3>1. Old(c) # New(c)
      BY <2>1 DEF Moves, Turf, Grounded, InMutation, Renaming
    <3> QED
      BY <1>0, <1>5, <2>1, <3>1 DEF Moves, CodexOK
  <2>2. CASE ~Moves(c)
    <3>1. pc[c] \in InMutation
      BY <1>0, <1>1, <1>5, PlaceSteps DEF Flow, AtNew, InMutation
    <3>2. dirs' = dirs /\ pc[c] \in AtNew
      BY <1>0, <1>1, <1>5, <2>2, <3>1, DirectorySteps DEF Mkdir, Rmtree, Returned, AtNew, InMutation
    <3> QED
      BY <1>3, <1>5, <3>2
  <2> QED
    BY <2>1, <2>2
<1> QED
  BY <1>4, <1>5

\* While renames fail as they may without the fault that leaves Sessions unarchived.
Failing == Course /\ Once /\ StoredStay /\ Caused /\ Vacated

\* The invariant of failures holds at first and is kept.
LEMMA FailingInit == Init => Failing
<1> SUFFICES ASSUME Init PROVE Failing
  OBVIOUS
<1>1. \A c \in Clients : pc[c] = "start" /\ work[c].tried = <<>>
  BY DEF Init
<1>2. Distinct(<<>>)
  BY DEF Distinct
<1> QED
  BY <1>1, <1>2, CourseInit DEF Failing, Once, StoredStay, Owning, InMutation, Caused, WayBack,
     Vacated, AtNew

LEMMA FailingKept ==
    ASSUME "rearchive" \notin Faults
    PROVE  Failing /\ NamesApart /\ [Next]_vars => Failing'
<1> SUFFICES ASSUME Failing, NamesApart, [Next]_vars PROVE Failing'
  OBVIOUS
<1>1. /\ Course /\ Once /\ StoredStay /\ Caused /\ Vacated
      /\ TypeOK /\ Tidy /\ Fits /\ Reserved /\ Turf /\ Lists /\ Unseen
  BY DEF Failing, Course, Whereabouts
<1>2. Course'
  BY <1>1, CourseKept
<1>3. ASSUME NEW c \in Clients, Request(c) \/ Mutation(c)
      PROVE  Once' /\ StoredStay' /\ Caused' /\ Vacated'
  BY <1>1, <1>3, OnceKept, StoredKept, CausedKept, VacatedKept
<1>4. ASSUME UNCHANGED vars
      PROVE  Once' /\ StoredStay' /\ Caused' /\ Vacated'
  BY <1>1, <1>4 DEF vars, Once, StoredStay, Caused, Cause, Vacated, Vacant
<1> QED
  BY <1>2, <1>3, <1>4 DEF Failing, Next

\* What the size of a finite set says of its elements.
LEMMA TwoGone ==
    ASSUME NEW S, IsFiniteSet(S), NEW t \in S
    PROVE  /\ Cardinality(S) \in Nat /\ Cardinality(S) >= 1
           /\ \A u \in S : u # t => Cardinality(S) >= 2
<1>1. Cardinality(S) \in Nat /\ Cardinality(S) # 0
  BY FS_CardinalityType, FS_EmptySet
<1>2. ASSUME NEW u \in S, u # t PROVE Cardinality(S) # 1
  BY <1>2, FS_Singleton
<1> QED
  BY <1>1, <1>2

\* One failure alone strands no Session, as long as a Session that was moved can be
\* archived again.
THEOREM OneFailure ==
    ASSUME "rearchive" \notin Faults
    PROVE  Spec /\ []NamesApart => OneFailureStrandsNone
<1>1. ASSUME Failing, [Next]_vars, NEW c \in Clients, pc[c] # "broken", pc'[c] = "broken",
             ~(faults' + Cardinality({t \in work[c].threads : cwd[t] = None}) > 1),
             ~\E d \in Clients \ {c} : op[d] = "create project" /\ pc[d] # "start" /\ Old(d) = Old(c),
             NEW t \in work[c].threads \cap Kept
      PROVE  Reachable(t)'
  <2>1. /\ TypeOK /\ Tidy /\ Fits /\ Reserved /\ Turf /\ Lists /\ Located /\ Alive /\ Homes
        /\ Once /\ StoredStay /\ Caused /\ Vacated
    BY <1>1 DEF Failing, Course, Whereabouts, History
  <2>2. PICK d \in Clients : Request(d) \/ Mutation(d)
    BY <1>1 DEF Next, vars
  <2>3. d = c
    BY <1>1, <2>1, <2>2, HoldingSteps DEF Others
  <2>4. pc[c] \in {"undo", "returning"}
    BY <1>1, <2>1, <2>2, <2>3, PlaceSteps DEF Flow
  <2>5. pc[c] # "undo"
    <3>1. ASSUME pc[c] = "undo" PROVE FALSE
      <4>1. CheckOldName(c)
        BY <1>1, <2>1, <2>2, <2>3, <3>1, RequestPlaces, TypeParts DEF Mutation, CloseGate, ListActive,
           ReserveAll, MutationRefused, DeleteProject, CheckNewName, RenameDirectory, CloseNewGate,
           MoveThread, RenameDone, RestoreDirectory, MoveBack, RenameUndone, InMutation
      <4>2. ~Found(New(c)) \/ Found(Old(c))
        <5>1. ClientsOK
          BY <2>1, TypeParts
        <5> QED
          BY <1>1, <4>1, <5>1 DEF CheckOldName, ClientsOK
      <4>3. Found(New(c))
        BY <2>1, <3>1 DEF Turf, Grounded, Site, AtNew, InMutation
      <4>4. dirs[Old(c)] = None
        BY <1>1, <2>1, <3>1 DEF Vacated, Vacant, AtNew
      <4> QED
        BY <4>2, <4>3, <4>4 DEF Found
    <3> QED
      BY <3>1
  <2>6. pc[c] = "returning" /\ pc[c] \in InMutation \ {"gated"} /\ pc[c] \in Away /\ pc[c] \in Owning
    BY <2>4, <2>5 DEF InMutation, Away, Owning
  <2> DEFINE gone == {u \in work[c].threads : cwd[u] = None}
             h == Head(work[c].tried)
  <2>7. /\ work[c].threads \subseteq Threads /\ work[c].tried \in Seq(Threads) /\ work[c].tried # <<>>
        /\ h \in work[c].threads /\ IsFiniteSet(gone)
    <3>1. work[c].threads \subseteq Threads /\ work[c].tried \in Seq(Threads)
      BY <2>1, TypeParts DEF WorkOK, Work
    <3>2. work[c].tried # <<>>
      BY <1>1, <2>1, <2>2, <2>3, <2>6, ListSteps DEF ListSame, ListActives, ListAll, ListTries,
         ListReturns
    <3>3. h \in work[c].threads
      BY <2>1, <3>1, <3>2, ToSetTail DEF Lists
    <3>4. IsFiniteSet(gone)
      BY <3>1, FiniteThreads, FS_Subset
    <3> QED
      BY <3>1, <3>2, <3>3, <3>4
  <2>8. /\ cwd[h] = None \/ faults' = faults + 1
        /\ \A x \in Threads \ {h} : Same(x)
    <3>1. h \in work[c].stored => h \in archived
      BY <2>1, <2>6 DEF StoredStay
    <3> QED
      BY <1>1, <2>1, <2>2, <2>3, <2>6, <3>1, FailedMoves
  <2>9. faults \in Nat /\ faults' \in Nat /\ faults' >= faults
    BY <2>1, <2>2, FaultsStay
  <2>a. ~(faults' + Cardinality(gone) > 1)
    BY <1>1
  <2>b. \A u : u \in gone <=> u \in work[c].threads /\ cwd[u] = None
    OBVIOUS
  <2> HIDE DEF gone
  <2>10. cwd[h] = None /\ h = Last(work[c].tried)
    <3>1. ASSUME NEW u \in gone PROVE ~(faults' >= 1) /\ \A v \in gone : v = u
      <4>1. /\ Cardinality(gone) \in Nat /\ Cardinality(gone) >= 1
            /\ \A v \in gone : v # u => Cardinality(gone) >= 2
        BY <2>7, TwoGone
      <4> QED
        BY <2>a, <2>9, <4>1
    <3>2. Cardinality(gone) \in Nat
      BY <2>7, FS_CardinalityType
    <3>3. ~(faults' >= 2)
      BY <2>a, <2>9, <3>2
    <3>4. faults >= 1 \/ \E u \in gone : u = Last(work[c].tried)
      BY <2>1, <2>6, <2>7, <2>b DEF Caused, Cause, WayBack
    <3>5. CASE faults >= 1
      <4>1. cwd[h] = None
        BY <2>8, <2>9, <3>3, <3>5
      <4> QED
        BY <2>7, <2>9, <2>b, <3>1, <3>5, <4>1
    <3>6. CASE \E u \in gone : u = Last(work[c].tried)
      <4>1. faults' # faults + 1
        BY <2>9, <3>1, <3>6
      <4>2. h \in gone
        BY <2>7, <2>8, <2>b, <4>1
      <4> QED
        BY <2>b, <3>1, <3>6, <4>2
    <3> QED
      BY <3>4, <3>5, <3>6
  <2>11. ToSet(work[c].tried) = {h}
    BY <2>1, <2>7, <2>10, DistinctTail DEF Once
  <2>12. /\ t \in Threads /\ t \notin Stranded /\ cwd[t] # None /\ LocatedAt(t) /\ HomeOf(t)
         /\ t # h
    BY <2>1, <2>7, <2>10 DEF Kept, Alive, Located, Homes
  <2>13. cwd[t] = Old(c) /\ pending[t] \in {None, Old(c)}
    BY <1>1, <2>6, <2>11, <2>12 DEF LocatedAt, OnList, Spot
  <2>14. /\ Found(Old(c)) /\ home[t] = dirs[Old(c)] /\ (t \in listed \/ pending[t] # None)
    BY <1>1, <2>1, <2>6, <2>12 DEF Turf, Grounded, HomeOf, AtHome, Site, AtNew
  <2>15. Same(t) /\ dirs' = dirs
    BY <1>1, <2>1, <2>2, <2>3, <2>6, <2>8, <2>12, DirectorySteps DEF Mkdir, Rmtree, Moves, Returned
  <2> QED
    BY <2>13, <2>14, <2>15 DEF Reachable, Found, Same, Placement, Standing
<1>2. Failing /\ [Next]_vars =>
          [\A c \in Clients : pc[c] # "broken" /\ pc'[c] = "broken" =>
               \/ \A t \in work[c].threads \cap Kept : Reachable(t)'
               \/ faults' + Cardinality({t \in work[c].threads : cwd[t] = None}) > 1
               \/ \E d \in Clients \ {c} :
                      /\ pc[d] # "start"
                      /\ \/ op[d] = "create project" /\ Old(d) = Old(c)
                         \/ op[d] \in Mutating /\ Old(d) = New(c)]_vars
  BY <1>1
<1>3. Failing /\ NamesApart /\ [Next]_vars => Failing'
  BY FailingKept
<1> QED
  BY <1>2, <1>3, FailingInit, PTL DEF Spec, OneFailureStrandsNone
=============================================================================
