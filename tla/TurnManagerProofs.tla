------------------------- MODULE TurnManagerProofs -------------------------
(***************************************************************************)
(* Proofs about TurnManager for any number of Threads, operations and      *)
(* Turns.  The inductive invariant is the conjunction of the three         *)
(* invariants that the model checker sees: the exclusion needs the types,  *)
(* and the refinement needs to know that a registered object was reserved. *)
(***************************************************************************)
EXTENDS TurnManager, TLAPS

IInv ==
    /\ TypeOK
    /\ MutationExcludesOperation
    /\ RegisteredOnce

LEMMA InitIInv == Init => IInv
BY Sentinels DEF Init, IInv, TypeOK, MutationExcludesOperation, RegisteredOnce, Held,
                 ActiveTurn, Unborn, Kinds, Statuses

\* Each method of the manager keeps the three invariants.
LEMMA NextIInv == IInv /\ [Next]_vars => IInv'
<1> SUFFICES ASSUME IInv, [Next]_vars PROVE IInv'
  OBVIOUS
<1> USE Sentinels DEF IInv, TypeOK, MutationExcludesOperation, RegisteredOnce, Held,
                      ActiveTurn, Kinds, Statuses
<1>1. ASSUME NEW k \in Keys, NEW o \in Ops, NEW kind \in Kinds, Reserve(k, o, kind)
      PROVE  IInv'
  BY <1>1 DEF Reserve, Reservable, Unborn
<1>2. ASSUME NEW k \in Keys, ReserveMutation(k)
      PROVE  IInv'
  BY <1>2 DEF ReserveMutation, Reservable
<1>3. ASSUME NEW k \in Keys, FinishMutation(k)
      PROVE  IInv'
  BY <1>3 DEF FinishMutation
<1>4. ASSUME NEW k \in Keys, NEW t \in Turns, MarkRunning(k, t)
      PROVE  IInv'
  BY <1>4 DEF MarkRunning
<1>5. ASSUME NEW k \in Keys, NEW t \in Turns, AttachTask(k, t)
      PROVE  IInv'
  BY <1>5 DEF AttachTask
<1>6. ASSUME NEW k \in Keys, NEW t \in Turns \cup {NoTurn}, Finish(k, t)
      PROVE  IInv'
  BY <1>6 DEF Finish, Releases
<1>7. ASSUME NEW k \in Keys, Interrupt(k)
      PROVE  IInv'
  BY <1>7 DEF Interrupt, Controllable
<1>8. CASE CloseGate
  BY <1>8 DEF CloseGate
<1>9. CASE Clear
  BY <1>9 DEF Clear
<1>10. CASE Enable
  BY <1>10 DEF Enable
<1>11. CASE UNCHANGED vars
  BY <1>11 DEF vars
<1>12. QED
  BY <1>1, <1>2, <1>3, <1>4, <1>5, <1>6, <1>7, <1>8, <1>9, <1>10, <1>11 DEF Next

LEMMA SpecIInv == Spec => []IInv
<1>1. QED
  BY InitIInv, NextIInv, PTL DEF Spec

\* The registry's tables and objects always have the shape the code gives them.
THEOREM TypeCorrect == Spec => []TypeOK
<1>1. IInv => TypeOK
  BY DEF IInv
<1>2. QED
  BY <1>1, SpecIInv, PTL

\* No Thread runs an operation and a mutation at once, however the callers
\* interleave their calls (reserve and reserve_mutation of turn_manager.py).
THEOREM ExclusionOfMutations == Spec => []MutationExcludesOperation
<1>1. IInv => MutationExcludesOperation
  BY DEF IInv
<1>2. QED
  BY <1>1, SpecIInv, PTL

\* No ActiveTurn object is registered for two Threads, or before it was reserved.
THEOREM NoAliasing == Spec => []RegisteredOnce
<1>1. IInv => RegisteredOnce
  BY DEF IInv
<1>2. QED
  BY <1>1, SpecIInv, PTL

\* Once shutdown() has closed the gate, operations only leave the registry.
THEOREM GateOnlyDrains == Spec => ClosedGateOnlyDrains
<1>1. IInv /\ [Next]_vars =>
        [~accepting => \A k \in Keys : active'[k] \in {active[k], NoOp}]_vars
  <2> SUFFICES ASSUME IInv, Next, ~accepting, NEW k \in Keys
               PROVE  active'[k] \in {active[k], NoOp}
    BY DEF vars
  <2> USE DEF IInv, TypeOK
  <2>1. ASSUME NEW j \in Keys, NEW t \in Turns \cup {NoTurn}, Finish(j, t)
        PROVE  active'[k] \in {active[k], NoOp}
    BY <2>1 DEF Finish
  <2>2. CASE Clear
    BY <2>2 DEF Clear
  <2>3. QED
    BY <2>1, <2>2 DEF Next, Reserve, ReserveMutation, FinishMutation, MarkRunning,
                      AttachTask, Interrupt, CloseGate, Enable
<1>2. QED
  BY <1>1, SpecIInv, PTL DEF Spec, ClosedGateOnlyDrains

-----------------------------------------------------------------------------
(* The registry implements the abstract promise of ThreadExclusion.        *)

LEMMA InitRefines == Init => Exclusion!Init
BY Sentinels DEF Init, Exclusion!Init, Holder, Held, Unborn

LEMMA NextRefines == IInv /\ [Next]_vars => [Exclusion!Next]_Exclusion!vars
<1> SUFFICES ASSUME IInv, [Next]_vars
             PROVE  Exclusion!Next \/ UNCHANGED Exclusion!vars
  OBVIOUS
<1> DEFINE holder == [k \in Keys |-> Holder(k)]
           granted == {o \in Ops : op[o].status # "unborn"}
<1> USE Sentinels DEF IInv, TypeOK, MutationExcludesOperation, RegisteredOnce, Held
\* The steps that change neither table nor grant an object are stutters.
<1>0. ASSUME UNCHANGED <<active, mutating>>,
             \A o \in Ops : op'[o].status = "unborn" <=> op[o].status = "unborn"
      PROVE  UNCHANGED Exclusion!vars
  BY <1>0 DEF Exclusion!vars, Holder
<1>1. ASSUME NEW k \in Keys, NEW o \in Ops, NEW kind \in Kinds, Reserve(k, o, kind)
      PROVE  Exclusion!Next
  <2>1. holder[k] = "free" /\ o \notin granted
    BY <1>1 DEF Reserve, Reservable, Holder
  <2>2. holder' = [holder EXCEPT ![k] = o]
    BY <1>1 DEF Reserve, Reservable, Holder
  <2>3. granted' = granted \cup {o}
    BY <1>1 DEF Reserve, Unborn, ActiveTurn
  <2>4. Exclusion!Acquire(k, o)
    BY <2>1, <2>2, <2>3 DEF Exclusion!Acquire
  <2>5. QED
    BY <2>4 DEF Exclusion!Next
<1>2. ASSUME NEW k \in Keys, ReserveMutation(k)
      PROVE  Exclusion!Next
  <2>1. holder[k] = "free"
    BY <1>2 DEF ReserveMutation, Reservable, Holder
  <2>2. holder' = [holder EXCEPT ![k] = "mutation"]
    BY <1>2 DEF ReserveMutation, Reservable, Holder
  <2>3. granted' = granted
    BY <1>2 DEF ReserveMutation
  <2>4. Exclusion!BeginMutation(k)
    BY <2>1, <2>2, <2>3 DEF Exclusion!BeginMutation
  <2>5. QED
    BY <2>4 DEF Exclusion!Next
<1>3. ASSUME NEW k \in Keys, FinishMutation(k)
      PROVE  Exclusion!Next
  <2> DEFINE S == IF k \in mutating THEN {k} ELSE {}
  <2>1. holder' = [j \in Keys |-> IF j \in S THEN "free" ELSE holder[j]]
    BY <1>3 DEF FinishMutation, Holder
  <2>2. granted' = granted
    BY <1>3 DEF FinishMutation
  <2>3. Exclusion!Release(S)
    BY <2>1, <2>2 DEF Exclusion!Release
  <2>4. QED
    BY <2>3 DEF Exclusion!Next
<1>4. ASSUME NEW k \in Keys, NEW t \in Turns, MarkRunning(k, t)
      PROVE  UNCHANGED Exclusion!vars
  BY <1>0, <1>4 DEF MarkRunning, ActiveTurn
<1>5. ASSUME NEW k \in Keys, NEW t \in Turns, AttachTask(k, t)
      PROVE  UNCHANGED Exclusion!vars
  BY <1>0, <1>5 DEF AttachTask, ActiveTurn
<1>6. ASSUME NEW k \in Keys, NEW t \in Turns \cup {NoTurn}, Finish(k, t)
      PROVE  Exclusion!Next
  <2> DEFINE S == IF Releases(k, t) THEN {k} ELSE {}
  <2>1. holder' = [j \in Keys |-> IF j \in S THEN "free" ELSE holder[j]]
    BY <1>6 DEF Finish, Releases, Holder
  <2>2. granted' = granted
    BY <1>6 DEF Finish
  <2>3. Exclusion!Release(S)
    BY <2>1, <2>2 DEF Exclusion!Release
  <2>4. QED
    BY <2>3 DEF Exclusion!Next
<1>7. ASSUME NEW k \in Keys, Interrupt(k)
      PROVE  UNCHANGED Exclusion!vars
  BY <1>0, <1>7 DEF Interrupt, Controllable, ActiveTurn
<1>8. CASE CloseGate
  BY <1>0, <1>8 DEF CloseGate
<1>9. CASE Clear
  <2>1. holder' = [j \in Keys |-> IF j \in Keys THEN "free" ELSE holder[j]]
    BY <1>9 DEF Clear, Holder
  <2>2. granted' = granted
    BY <1>9 DEF Clear
  <2>3. Exclusion!Release(Keys)
    BY <2>1, <2>2 DEF Exclusion!Release
  <2>4. QED
    BY <2>3 DEF Exclusion!Next
<1>10. CASE Enable
  BY <1>0, <1>10 DEF Enable
<1>11. CASE UNCHANGED vars
  BY <1>0, <1>11 DEF vars
<1>12. QED
  BY <1>1, <1>2, <1>3, <1>4, <1>5, <1>6, <1>7, <1>8, <1>9, <1>10, <1>11 DEF Next

\* Whatever order the callers' calls arrive in, a Thread changes hands only
\* through being free and no operation is admitted twice.
THEOREM Refinement == Spec => ImplementsExclusion
<1>1. QED
  BY InitRefines, NextRefines, SpecIInv, PTL DEF Spec, ImplementsExclusion, Exclusion!Spec
=============================================================================
