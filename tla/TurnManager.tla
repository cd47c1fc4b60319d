---------------------------- MODULE TurnManager ----------------------------
(***************************************************************************)
(* TurnManager (turn_manager.py): the process-local registry that decides  *)
(* which operation, if any, a Thread is running.                           *)
(*                                                                         *)
(* Every method takes the manager's asyncio lock and awaits nothing while  *)
(* it holds it, so each one is a single atomic action here.  What awaits   *)
(* between two of them (RPCs, publications) belongs to the callers, which  *)
(* TurnLifecycle models; this module lets any caller make any call at any  *)
(* time.                                                                   *)
(*                                                                         *)
(* An ActiveTurn is a mutable Python object: the registry holds a          *)
(* reference, and callers keep references that outlive the registration.   *)
(* So the registry maps a key to an object of Ops, and op[o] is the        *)
(* object's contents.  turn_id and handle are assigned together, hence one *)
(* field; a Turn names its handle and its pump task as well.               *)
(***************************************************************************)
CONSTANTS Keys,        \* (owner_id, thread_id) pairs
          Ops,         \* ActiveTurn objects
          Turns,       \* Turn ids, handles and pump tasks of Codex Turns
          NoOp, NoTurn \* None

ASSUME Sentinels == NoOp \notin Ops /\ NoTurn \notin Turns

VARIABLES active,      \* _active: the object registered for each key
          mutating,    \* _mutating: keys held by a mutation
          accepting,   \* _accepting_turns
          op           \* contents of the ActiveTurn objects

vars == <<active, mutating, accepting, op>>

Kinds    == {"turn", "goal"}
Statuses == {"unborn", "starting", "running", "stopping"}

ActiveTurn == [kind : Kinds, status : Statuses,
               turn : Turns \cup {NoTurn}, task : Turns \cup {NoTurn}]

Unborn == [kind |-> "turn", status |-> "unborn", turn |-> NoTurn, task |-> NoTurn]

TypeOK ==
    /\ active \in [Keys -> Ops \cup {NoOp}]
    /\ mutating \in SUBSET Keys
    /\ accepting \in BOOLEAN
    /\ op \in [Ops -> ActiveTurn]

Init ==
    /\ active = [k \in Keys |-> NoOp]
    /\ mutating = {}
    /\ accepting = TRUE
    /\ op = [o \in Ops |-> Unborn]

-----------------------------------------------------------------------------
Held(k) == active[k] # NoOp

\* Faulty variant of Reservable: the admission test forgets a table.
ForgetsActive(k) == k \notin mutating

\* The condition under which reserve and reserve_mutation do not conflict.
Reservable(k) == ~Held(k) /\ k \notin mutating

\* active() and interrupt() require a registered handle.
Controllable(k) == Held(k) /\ op[active[k]].turn # NoTurn

\* The registered operation is Turn t (the callers' "current.turn_id == turn_id").
Runs(k, t) == Held(k) /\ op[active[k]].turn = t

\* finish(turn_id=t) pops the registered entry; without a turn_id it always does.
Releases(k, t) ==
    /\ Held(k)
    /\ t = NoTurn \/ op[active[k]].turn \in {NoTurn, t}

-----------------------------------------------------------------------------
Reserve(k, o, kind) ==
    /\ accepting
    /\ Reservable(k)
    /\ op[o].status = "unborn"
    /\ active' = [active EXCEPT ![k] = o]
    /\ op' = [op EXCEPT ![o] = [Unborn EXCEPT !.kind = kind, !.status = "starting"]]
    /\ UNCHANGED <<mutating, accepting>>

\* reserve_mutation does not look at the shutdown gate.
ReserveMutation(k) ==
    /\ Reservable(k)
    /\ mutating' = mutating \cup {k}
    /\ UNCHANGED <<active, accepting, op>>

FinishMutation(k) ==
    /\ mutating' = mutating \ {k}
    /\ UNCHANGED <<active, accepting, op>>

MarkRunning(k, t) ==
    /\ Held(k)
    /\ op' = [op EXCEPT ![active[k]].status = "running", ![active[k]].turn = t]
    /\ UNCHANGED <<active, mutating, accepting>>

AttachTask(k, t) ==
    /\ Held(k)
    /\ op' = [op EXCEPT ![active[k]].task = t]
    /\ UNCHANGED <<active, mutating, accepting>>

Finish(k, t) ==
    /\ active' = IF Releases(k, t) THEN [active EXCEPT ![k] = NoOp] ELSE active
    /\ UNCHANGED <<mutating, accepting, op>>

Interrupt(k) ==
    /\ Controllable(k)
    /\ op' = [op EXCEPT ![active[k]].status = "stopping"]
    /\ UNCHANGED <<active, mutating, accepting>>

\* The first critical section of shutdown(), before it interrupts and waits.
CloseGate ==
    /\ accepting' = FALSE
    /\ UNCHANGED <<active, mutating, op>>

\* The last critical section of shutdown().
Clear ==
    /\ active' = [k \in Keys |-> NoOp]
    /\ mutating' = {}
    /\ UNCHANGED <<accepting, op>>

Enable ==
    /\ accepting' = TRUE
    /\ UNCHANGED <<active, mutating, op>>

Next ==
    \/ \E k \in Keys, o \in Ops, kind \in Kinds : Reserve(k, o, kind)
    \/ \E k \in Keys : ReserveMutation(k)
    \/ \E k \in Keys : FinishMutation(k)
    \/ \E k \in Keys, t \in Turns : MarkRunning(k, t)
    \/ \E k \in Keys, t \in Turns : AttachTask(k, t)
    \/ \E k \in Keys, t \in Turns \cup {NoTurn} : Finish(k, t)
    \/ \E k \in Keys : Interrupt(k)
    \/ CloseGate
    \/ Clear
    \/ Enable

Spec == Init /\ [][Next]_vars

-----------------------------------------------------------------------------
(* PROPERTIES *)

\* A Thread never runs an operation and a mutation at once (the two
\* admission tests of reserve and reserve_mutation look at both tables).
MutationExcludesOperation == \A k \in mutating : ~Held(k)

\* An ActiveTurn object is registered at most once, and only after it was
\* reserved: no caller's reference can alias two Threads.
RegisteredOnce ==
    \A k \in Keys : Held(k) =>
        /\ op[active[k]].status # "unborn"
        /\ \A j \in Keys \ {k} : active[j] # active[k]

\* While the shutdown gate is closed the set of running operations only
\* shrinks: nothing enters the registry between the snapshot that shutdown()
\* interrupts and the moment it clears the registry.
ClosedGateOnlyDrains ==
    [][~accepting => \A k \in Keys : active'[k] \in {active[k], NoOp}]_vars

\* Who holds the Thread, in the terms of ThreadExclusion.
Holder(k) == IF Held(k) THEN active[k]
             ELSE IF k \in mutating THEN "mutation" ELSE "free"

Exclusion == INSTANCE ThreadExclusion WITH
    Holders  <- Ops,
    Free     <- "free",
    Mutation <- "mutation",
    holder   <- [k \in Keys |-> Holder(k)],
    granted  <- {o \in Ops : op[o].status # "unborn"}

\* The registry implements the abstract promise: a Thread changes hands only
\* through being free, and an ActiveTurn that left the registry (finish,
\* shutdown) never returns to it.
ImplementsExclusion == Exclusion!Spec
=============================================================================
