----------------------- MODULE InvocationStatusProofs -----------------------
(* Lemmas about the status machine, for the proofs of the modules that use it. *)
EXTENDS InvocationStatus, TLAPS

USE DEF Final, AvailableForRun, RequiresOwnership, AcquiresOwnership, RecoveryStatuses,
        OverridesOwnership, ReleasesOwnership, Statuses, NoRecord

\* status_record_transition returns a record of the enum with an optional
\* runner, and every target of a transition is a stored status.
LEMMA TransitionType ==
    ASSUME NEW rec \in StatusRecords, NEW status, NEW runner \in Owners,
           CanTransition(rec, status, runner)
    PROVE  /\ status \in Statuses
           /\ Transitioned(rec, status, runner) \in StatusRecords
  <1>1. status \in Statuses
    BY DEF CanTransition, ValidTransition, AllowedTransition, StatusRecords
  <1>2. ComputeNewOwner(rec, status, runner) \in Owners
    BY DEF ComputeNewOwner, StatusRecords, Owners
  <1> QED
    BY <1>1, <1>2 DEF Transitioned, StatusRecords

\* An accepted transition into Pending, Running or Paused leaves a runner in
\* the record whenever the record it started from respected ownership.
LEMMA TransitionOwned ==
    ASSUME NEW rec \in StatusRecords, NEW status, NEW runner \in Owners,
           CanTransition(rec, status, runner),
           rec.status \in RequiresOwnership => rec.owner \in Runners,
           status \in RequiresOwnership
    PROVE  Transitioned(rec, status, runner).owner \in Runners
  <1>1. CASE status = "Pending"
    <2>1. runner # NoRunner
      BY <1>1 DEF CanTransition, ValidOwnership, ValidTransition, AllowedTransition,
                  StatusRecords
    <2> QED
      BY <1>1, <2>1 DEF Transitioned, ComputeNewOwner, Owners
  <1>2. CASE status \in {"Running", "Paused"}
    <2>1. rec.status \in RequiresOwnership
      BY <1>2 DEF CanTransition, ValidTransition, AllowedTransition, StatusRecords
    <2> QED
      BY <1>2, <2>1 DEF Transitioned, ComputeNewOwner
  <1> QED
    BY <1>1, <1>2

\* No transition leaves a final status.
LEMMA FinalHasNoTransition ==
    ASSUME NEW rec, NEW status, NEW runner, rec.status \in Final
    PROVE  ~CanTransition(rec, status, runner)
  BY DEF CanTransition, ValidTransition, AllowedTransition
=============================================================================
