-------------------------- MODULE InvocationStatus --------------------------
(***************************************************************************)
(* The invocation status machine of rustvello-proto/src/status: which      *)
(* status may follow which, and how ownership is validated, acquired, kept *)
(* and released.  Every backend and both runtimes of the project use these *)
(* operators; the module has no state of its own.                          *)
(***************************************************************************)

CONSTANTS
    Runners,     \* every RunnerId that may appear in a status record
    NoRunner     \* `None` where the code has an Option<RunnerId>

ASSUME NoRunnerAssumption == NoRunner \notin Runners

Owners == Runners \union {NoRunner}

Final == {"Success", "Failed", "ConcurrencyControlledFinal", "Cancelled"}

AvailableForRun == {"Registered", "Rerouted", "Retry"}

RequiresOwnership == {"Pending", "Running", "Paused"}

AcquiresOwnership == {"Pending"}

RecoveryStatuses == {"PendingRecovery", "RunningRecovery"}

OverridesOwnership == RecoveryStatuses \union {"Cancelled"}

\* Everything but the three statuses a runner works in gives ownership up.
ReleasesOwnership ==
    Final \union AvailableForRun \union RecoveryStatuses
          \union {"ConcurrencyControlled", "Killed"}

Statuses == ReleasesOwnership \union RequiresOwnership

\* "Absent" is the initial definition: no status record exists yet.
NoRecord == "Absent"

AllowedTransition(from, to) ==
    \/ from = NoRecord /\ to \in {"Registered"}
    \/ from = "Registered" /\ to \in {"Pending", "ConcurrencyControlled",
                                "ConcurrencyControlledFinal", "Cancelled"}
    \/ from = "ConcurrencyControlled" /\ to \in {"Rerouted", "Cancelled"}
    \/ from = "Rerouted" /\ to \in {"Pending", "ConcurrencyControlled", "Cancelled"}
    \/ from = "Pending" /\ to \in {"Running", "Killed", "Rerouted", "PendingRecovery", "Cancelled"}
    \/ from = "Running" /\ to \in {"Paused", "Killed", "Retry", "Success", "Failed",
                             "RunningRecovery", "Cancelled"}
    \/ from = "Paused" /\ to \in {"Running", "Killed", "Cancelled"}
    \/ from = "Killed" /\ to \in {"Rerouted", "Cancelled"}
    \/ from = "Retry" /\ to \in {"Pending", "Cancelled"}
    \/ from \in RecoveryStatuses /\ to \in {"Rerouted", "Failed", "Cancelled"}

StatusRecords == [status : Statuses \union {NoRecord}, owner : Owners]

Absent == [status |-> NoRecord, owner |-> NoRunner]

ValidTransition(record, status) == AllowedTransition(record.status, status)

ValidOwnership(record, status, runner) ==
    \/ record.status = NoRecord
    \/ status \in OverridesOwnership
    \/ /\ record.status \in RequiresOwnership => record.owner = runner
       /\ status \in AcquiresOwnership => runner # NoRunner

ComputeNewOwner(record, status, runner) ==
    IF status \in ReleasesOwnership THEN NoRunner
    ELSE IF status \in AcquiresOwnership THEN runner
    ELSE record.owner

\* status_record_transition succeeds ...
CanTransition(record, status, runner) ==
    ValidTransition(record, status) /\ ValidOwnership(record, status, runner)

\* ... and returns this record.
Transitioned(record, status, runner) ==
    [status |-> status, owner |-> ComputeNewOwner(record, status, runner)]
-----------------------------------------------------------------------------
(* PublicationChange: what a transactional runtime asks of its store.      *)

\* The runtime passes these as PublicationChange::Status: the claim, the
\* start, cancellation, and the recovery limit's two.
PlainStatuses ==
    {"Pending", "Running", "Cancelled", "PendingRecovery", "RunningRecovery", "Failed"}

\* A change ends in `status`; recovery and a concurrency reroute pass through
\* `via` first, in the same transaction.
PublicationChange ==
         [kind : {"status"}, via : {NoRecord}, status : PlainStatuses]
  \union [kind : {"retry"}, via : {NoRecord}, status : {"Retry"}]
  \union [kind : {"reroute"}, via : {NoRecord, "ConcurrencyControlled"}, status : {"Rerouted"}]
  \union [kind : {"recover"}, via : RecoveryStatuses, status : {"Rerouted"}]
  \union [kind : {"complete"}, via : {NoRecord}, status : {"Success", "Failed"}]

\* These carry a route: they put the invocation back on the queue.
Routed(change) == change.kind \in {"retry", "reroute", "recover"}

\* The record the last transition of a change starts from, and the one it
\* ends with.
Midway(record, change, runner) ==
    IF change.via = NoRecord THEN record ELSE Transitioned(record, change.via, runner)

Changed(record, change, runner) ==
    Transitioned(Midway(record, change, runner), change.status, runner)

\* Each transition is accepted, and a completion owns the running invocation.
CanChange(record, change, runner) ==
    /\ change.via # NoRecord => CanTransition(record, change.via, runner)
    /\ CanTransition(Midway(record, change, runner), change.status, runner)
    /\ change.kind = "complete" => record = [status |-> "Running", owner |-> runner]
=============================================================================
