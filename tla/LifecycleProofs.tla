--------------------------- MODULE LifecycleProofs ---------------------------
(* Proofs about the status record that every store implements. *)
EXTENDS Lifecycle, InvocationStatusProofs

USE DEF Final, AvailableForRun, RequiresOwnership, AcquiresOwnership, RecoveryStatuses,
        OverridesOwnership, ReleasesOwnership, Statuses, NoRecord

\* A step changes at most one record, and only as the status machine allows:
\* by appearing, by one transition, or by two in a row.
LEMMA StepOfRecord ==
    ASSUME TypeOK, Next, NEW i \in Invocations, record'[i] # record[i]
    PROVE  \E runner \in Owners :
              \/ /\ record[i].status = NoRecord
                 /\ record'[i] = [status |-> "Registered", owner |-> runner]
              \/ \E status \in Statuses :
                    /\ CanTransition(record[i], status, runner)
                    /\ record'[i] = Transitioned(record[i], status, runner)
              \/ \E via \in {"PendingRecovery", "RunningRecovery", "ConcurrencyControlled"} :
                    /\ CanTransition(record[i], via, runner)
                    /\ CanTransition(Transitioned(record[i], via, runner), "Rerouted", runner)
                    /\ record'[i] = Transitioned(Transitioned(record[i], via, runner),
                                                 "Rerouted", runner)
  <1>1. PICK j \in Invocations, runner \in Owners :
           \/ Register(j, runner)
           \/ \E status \in Statuses : SetStatus(j, status, runner)
           \/ \E via \in {"PendingRecovery", "RunningRecovery", "ConcurrencyControlled"} :
                  SetStatusVia(j, via, "Rerouted", runner)
    BY DEF Next
  <1>2. i = j
    BY <1>1 DEF TypeOK, Register, SetStatus, SetStatusVia
  <1>3. CASE Register(j, runner)
    BY <1>2, <1>3 DEF TypeOK, Register
  <1>4. ASSUME NEW status \in Statuses, SetStatus(j, status, runner)
        PROVE  /\ CanTransition(record[i], status, runner)
               /\ record'[i] = Transitioned(record[i], status, runner)
    BY <1>2, <1>4 DEF TypeOK, SetStatus
  <1>5. ASSUME NEW via \in {"PendingRecovery", "RunningRecovery", "ConcurrencyControlled"},
               SetStatusVia(j, via, "Rerouted", runner)
        PROVE  /\ CanTransition(record[i], via, runner)
               /\ CanTransition(Transitioned(record[i], via, runner), "Rerouted", runner)
               /\ record'[i] = Transitioned(Transitioned(record[i], via, runner),
                                            "Rerouted", runner)
    BY <1>2, <1>5 DEF TypeOK, SetStatusVia
  <1> QED
    BY <1>1, <1>3, <1>4, <1>5

-----------------------------------------------------------------------------

IInv == TypeOK /\ WorkIsOwned

LEMMA InitIInv == Init => IInv
  BY DEF Init, IInv, TypeOK, WorkIsOwned, Absent, StatusRecords, Owners

LEMMA NextTypeOK == TypeOK /\ [Next]_record => TypeOK'
  <1> SUFFICES ASSUME TypeOK, Next PROVE TypeOK'
    BY DEF TypeOK
  <1>1. PICK j \in Invocations, runner \in Owners :
           \/ Register(j, runner)
           \/ \E status \in Statuses : SetStatus(j, status, runner)
           \/ \E via \in {"PendingRecovery", "RunningRecovery", "ConcurrencyControlled"} :
                  SetStatusVia(j, via, "Rerouted", runner)
    BY DEF Next
  <1>2. record[j] \in StatusRecords
    BY DEF TypeOK
  <1>3. CASE Register(j, runner)
    BY <1>3 DEF Register, TypeOK, StatusRecords
  <1>4. ASSUME NEW status \in Statuses, SetStatus(j, status, runner) PROVE TypeOK'
    <2>1. Transitioned(record[j], status, runner) \in StatusRecords
      BY <1>2, <1>4, TransitionType DEF SetStatus
    <2> QED
      BY <1>4, <2>1 DEF SetStatus, TypeOK
  <1>5. ASSUME NEW via \in {"PendingRecovery", "RunningRecovery", "ConcurrencyControlled"},
               SetStatusVia(j, via, "Rerouted", runner)
        PROVE  TypeOK'
    <2>1. Transitioned(record[j], via, runner) \in StatusRecords
      BY <1>2, <1>5, TransitionType DEF SetStatusVia
    <2>2. Transitioned(Transitioned(record[j], via, runner), "Rerouted", runner) \in StatusRecords
      BY <1>5, <2>1, TransitionType DEF SetStatusVia
    <2> QED
      BY <1>5, <2>2 DEF SetStatusVia, TypeOK
  <1> QED
    BY <1>1, <1>3, <1>4, <1>5

LEMMA NextIInv == IInv /\ [Next]_record => IInv'
  <1> SUFFICES ASSUME IInv, [Next]_record PROVE WorkIsOwned'
    BY NextTypeOK DEF IInv
  <1>1. CASE UNCHANGED record
    BY <1>1 DEF IInv, WorkIsOwned
  <1>2. CASE Next
    <2> SUFFICES ASSUME NEW i \in Invocations, record'[i] # record[i],
                        record'[i].status \in RequiresOwnership
                 PROVE  record'[i].owner \in Runners
      BY DEF IInv, WorkIsOwned
    <2>1. /\ record[i] \in StatusRecords
          /\ record[i].status \in RequiresOwnership => record[i].owner \in Runners
      BY DEF IInv, TypeOK, WorkIsOwned
    <2>2. PICK runner \in Owners, status \in Statuses :
             /\ CanTransition(record[i], status, runner)
             /\ record'[i] = Transitioned(record[i], status, runner)
      <3>1. \A rec, runner : record'[i] # Transitioned(rec, "Rerouted", runner)
        BY DEF Transitioned
      <3>2. \A runner : record'[i] # [status |-> "Registered", owner |-> runner]
        OBVIOUS
      <3> QED
        BY <1>2, <3>1, <3>2, StepOfRecord DEF IInv
    <2>3. status \in RequiresOwnership
      BY <2>2 DEF Transitioned
    <2> QED
      BY <2>1, <2>2, <2>3, TransitionOwned
  <1> QED
    BY <1>1, <1>2

\* Every record keeps its type, whatever the callers do.
THEOREM Typing == Spec => []TypeOK
  <1>1. Init => TypeOK
    BY InitIInv DEF IInv
  <1> QED
    BY <1>1, NextTypeOK, PTL DEF Spec

\* An invocation in Pending, Running or Paused always has a runner on record.
THEOREM Ownership == Spec => []WorkIsOwned
  <1>1. IInv => WorkIsOwned
    BY DEF IInv
  <1> QED
    BY <1>1, InitIInv, NextIInv, PTL DEF Spec

\* No step changes a record whose status is final.
THEOREM Finality == Spec => FinalIsForever
  <1>1. TypeOK /\ [Next]_record =>
          [\A i \in Invocations : record[i].status \in Final => record'[i] = record[i]]_record
    <2> SUFFICES ASSUME TypeOK, Next, NEW i \in Invocations,
                        record[i].status \in Final, record'[i] # record[i]
                 PROVE  FALSE
      OBVIOUS
    <2>1. record[i].status # NoRecord
      OBVIOUS
    <2>2. PICK runner, status : CanTransition(record[i], status, runner)
      BY <2>1, StepOfRecord
    <2> QED
      BY <2>2, FinalHasNoTransition
  <1> QED
    BY <1>1, Typing, PTL DEF Spec, FinalIsForever

\* Ownership only changes hands through a record that names no runner.
THEOREM Handover == Spec => NoDirectHandover
  <1>1. TypeOK /\ [Next]_record =>
          [\A i \in Invocations :
              record[i].status \in RequiresOwnership
                => record'[i].owner \in {record[i].owner, NoRunner}]_record
    <2> SUFFICES ASSUME TypeOK, Next, NEW i \in Invocations,
                        record[i].status \in RequiresOwnership, record'[i] # record[i]
                 PROVE  record'[i].owner \in {record[i].owner, NoRunner}
      OBVIOUS
    <2>1. record[i] \in StatusRecords
      BY DEF TypeOK
    <2>2. CASE \E runner \in Owners, status \in Statuses :
                  /\ CanTransition(record[i], status, runner)
                  /\ record'[i] = Transitioned(record[i], status, runner)
      BY <2>1, <2>2 DEF CanTransition, ValidTransition, AllowedTransition, Transitioned,
                        ComputeNewOwner
    <2>3. CASE \E runner, rec : record'[i] = Transitioned(rec, "Rerouted", runner)
      BY <2>3 DEF Transitioned, ComputeNewOwner
    <2> QED
      BY <2>2, <2>3, StepOfRecord
  <1> QED
    BY <1>1, Typing, PTL DEF Spec, NoDirectHandover
=============================================================================
