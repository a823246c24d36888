----------------------------- MODULE Publication -----------------------------
(***************************************************************************)
(* The transactional store (rustvello-sqlite): the tables that the runtime *)
(* publication, the broker, the control backend and the state backend of   *)
(* one database share, and one action per transaction.  Callers are        *)
(* arbitrary here: any runner may issue any transaction the runtime uses   *)
(* at any time, so what is shown holds whatever the processes above do.    *)
(* TransactionalRuntime puts the real processes on top of these actions.   *)
(*                                                                         *)
(* Time is kept as three facts the transactions compare with the clock:    *)
(* `old` (the status timestamp passed its stale threshold), `heartbeat`    *)
(* and the reservation on a queue row.                                     *)
(***************************************************************************)
EXTENDS InvocationStatus, Integers, FiniteSets

CONSTANTS
    Invocations,
    Controlled,    \* invocations of a task under running concurrency control
    Limit          \* running_concurrency of that task

ASSUME StoreAssumption ==
    /\ Controlled \subseteq Invocations
    /\ IsFiniteSet(Invocations)
    /\ Limit \in Nat

VARIABLES
    record,      \* status_records: status and runner_id
    old,         \* invocations whose status timestamp is stale
    row,         \* broker_queue joined with broker_reservations
    slots,       \* cc_arg_pairs: holders of a concurrency slot
    waiting,     \* waiting_for: pairs <<waiter, waited on>>
    result,      \* results: the runner whose result is stored
    error,       \* errors: the runner whose error is stored
    retries,     \* RETRY entries of the history, and the retries table
    recoveries,  \* *_RECOVERY entries of the history
    attempt,     \* execution identity kept in workflow_data
    heartbeat    \* runner_heartbeats, compared with runner_dead_after

storeVars == <<record, old, row, slots, waiting, result, error, retries,
               recoveries, attempt, heartbeat>>

\* A queue row is deliverable, leased to a consumer, or hidden by a retry delay.
Rows == {"none", "ready", "leased", "delayed"}

NoAttempt == -1

Status(i) == record[i].status

StoreInit ==
    /\ record = [i \in Invocations |-> Absent]
    /\ old = {}
    /\ row = [i \in Invocations |-> "none"]
    /\ slots = {}
    /\ waiting = {}
    /\ result = [i \in Invocations |-> NoRunner]
    /\ error = [i \in Invocations |-> NoRunner]
    /\ retries = [i \in Invocations |-> 0]
    /\ recoveries = [i \in Invocations |-> 0]
    /\ attempt = [i \in Invocations |-> NoAttempt]
    /\ heartbeat = [r \in Runners |-> "none"]

-----------------------------------------------------------------------------
(* What `transition` and the tail of `change` write, given the last status *)
(* of the transaction.                                                     *)

WriteRecord(i, new) ==
    /\ record' = [record EXCEPT ![i] = new]
    /\ old' = old \ {i}

\* Pending acknowledges the delivery; a final status drops it.
Acknowledge(i, status) ==
    row' = IF status = "Pending" \/ status \in Final
           THEN [row EXCEPT ![i] = "none"] ELSE row

Publish(i, as) == row' = [row EXCEPT ![i] = as]

\* A published route and a final status free the slot; only a final status
\* releases the waiters.
ReleaseSlot(i) == slots' = slots \ {i}

ReleaseWaiters(i) == waiting' = {w \in waiting : w[2] # i}

TerminalEffects(i, status) ==
    IF status \in Final
    THEN ReleaseSlot(i) /\ ReleaseWaiters(i)
    ELSE UNCHANGED <<slots, waiting>>

-----------------------------------------------------------------------------
(* submit                                                                  *)

\* Mutant: a repeated submission of an accepted id starts it over.
Resubmit(i, runner) ==
    /\ WriteRecord(i, [status |-> "Registered", owner |-> runner])
    /\ Publish(i, "ready")
    /\ UNCHANGED <<slots, waiting, result, error, retries, recoveries, attempt, heartbeat>>

\* A repeated submission of an accepted id returns without writing.
Submit(i, runner) ==
    /\ Status(i) = NoRecord
    /\ WriteRecord(i, [status |-> "Registered", owner |-> runner])
    /\ Publish(i, "ready")
    /\ UNCHANGED <<slots, waiting, result, error, retries, recoveries, attempt, heartbeat>>

-----------------------------------------------------------------------------
(* change                                                                  *)

\* PublicationChange::Status.
ChangeStatus(i, status, runner) ==
    /\ Status(i) # NoRecord
    /\ status \in PlainStatuses
    /\ CanTransition(record[i], status, runner)
    /\ WriteRecord(i, Transitioned(record[i], status, runner))
    /\ Acknowledge(i, status)
    /\ TerminalEffects(i, status)
    /\ recoveries' = IF status \in RecoveryStatuses
                     THEN [recoveries EXCEPT ![i] = @ + 1] ELSE recoveries
    /\ UNCHANGED <<result, error, retries, attempt, heartbeat>>

\* PublicationChange::Retry and ::DelayedRetry.
ChangeRetry(i, runner, delayed) ==
    /\ CanTransition(record[i], "Retry", runner)
    /\ WriteRecord(i, Transitioned(record[i], "Retry", runner))
    /\ retries' = [retries EXCEPT ![i] = @ + 1]
    /\ Publish(i, IF delayed THEN "delayed" ELSE "ready")
    /\ ReleaseSlot(i)
    /\ UNCHANGED <<waiting, result, error, recoveries, attempt, heartbeat>>

\* PublicationChange::Reroute.
ChangeReroute(i, runner) ==
    /\ CanTransition(record[i], "Rerouted", runner)
    /\ WriteRecord(i, Transitioned(record[i], "Rerouted", runner))
    /\ Publish(i, "ready")
    /\ ReleaseSlot(i)
    /\ UNCHANGED <<waiting, result, error, retries, recoveries, attempt, heartbeat>>

\* PublicationChange::ConcurrencyReroute: two transitions, one commit.
ChangeConcurrencyReroute(i, runner) ==
    LET controlled == Transitioned(record[i], "ConcurrencyControlled", runner)
    IN  /\ CanTransition(record[i], "ConcurrencyControlled", runner)
        /\ CanTransition(controlled, "Rerouted", runner)
        /\ WriteRecord(i, Transitioned(controlled, "Rerouted", runner))
        /\ Publish(i, "ready")
        /\ ReleaseSlot(i)
        /\ UNCHANGED <<waiting, result, error, retries, recoveries, attempt, heartbeat>>

RecoveredFrom(status) == IF status = "PendingRecovery" THEN "Pending" ELSE "Running"

\* last_seen >= cutoff, negated: Pending counts from the status timestamp,
\* Running from the owner's heartbeat, or the timestamp while it has none.
Stale(i) ==
    \/ Status(i) = "Pending" /\ i \in old
    \/ /\ Status(i) = "Running"
       /\ IF heartbeat[record[i].owner] = "none"
          THEN i \in old ELSE heartbeat[record[i].owner] = "stale"

\* Mutant: the candidate's staleness is not checked again.
RecoverListed(i, status, runner) ==
    LET recovering == Transitioned(record[i], status, runner)
    IN  /\ CanTransition(record[i], status, runner)
        /\ CanTransition(recovering, "Rerouted", runner)
        /\ WriteRecord(i, Transitioned(recovering, "Rerouted", runner))
        /\ recoveries' = [recoveries EXCEPT ![i] = @ + 1]
        /\ Publish(i, "ready")
        /\ ReleaseSlot(i)
        /\ UNCHANGED <<waiting, result, error, retries, attempt, heartbeat>>

\* PublicationChange::Recover: staleness is checked again under the write
\* lock, then the recovery status and Rerouted commit together.
ChangeRecover(i, status, runner) ==
    LET recovering == Transitioned(record[i], status, runner)
    IN  /\ status \in RecoveryStatuses
        /\ Status(i) = RecoveredFrom(status)
        /\ Stale(i)
        /\ CanTransition(record[i], status, runner)
        /\ CanTransition(recovering, "Rerouted", runner)
        /\ WriteRecord(i, Transitioned(recovering, "Rerouted", runner))
        /\ recoveries' = [recoveries EXCEPT ![i] = @ + 1]
        /\ Publish(i, "ready")
        /\ ReleaseSlot(i)
        /\ UNCHANGED <<waiting, result, error, retries, attempt, heartbeat>>

\* PublicationChange::Success and ::Failure: the ownership fence precedes the
\* payload write.
OwnsRunning(i, runner) == record[i] = [status |-> "Running", owner |-> runner]

\* Mutant: the payload is written before the fence.
PayloadFirst(i, runner, status) ==
    /\ Status(i) # NoRecord
    /\ result' = IF status = "Success" THEN [result EXCEPT ![i] = runner] ELSE result
    /\ error' = IF status = "Success" THEN error ELSE [error EXCEPT ![i] = runner]
    /\ IF OwnsRunning(i, runner)
       THEN /\ WriteRecord(i, Transitioned(record[i], status, runner))
            /\ Acknowledge(i, status)
            /\ TerminalEffects(i, status)
       ELSE UNCHANGED <<record, old, row, slots, waiting>>
    /\ UNCHANGED <<retries, recoveries, attempt, heartbeat>>

ChangeComplete(i, runner, status) ==
    /\ OwnsRunning(i, runner)
    /\ CanTransition(record[i], status, runner)
    /\ WriteRecord(i, Transitioned(record[i], status, runner))
    /\ Acknowledge(i, status)
    /\ TerminalEffects(i, status)
    /\ IF status = "Success"
       THEN result' = [result EXCEPT ![i] = runner] /\ UNCHANGED error
       ELSE error' = [error EXCEPT ![i] = runner] /\ UNCHANGED result
    /\ UNCHANGED <<retries, recoveries, attempt, heartbeat>>

-----------------------------------------------------------------------------
(* The other transactions of the same database.                            *)

\* Mutants: a retried attempt is numbered by its retry count, or every one is.
RetryNumbers(previous, retryCount) ==
    IF retryCount > 0 THEN retryCount ELSE previous + 1

OnlyRetriesCount(previous, retryCount) == retryCount

\* next_execution_identity: never below the retry count, never repeated.
NextAttempt(previous, retryCount) ==
    IF retryCount > previous + 1 THEN retryCount ELSE previous + 1

BeginExecution(i, runner, retryCount) ==
    /\ OwnsRunning(i, runner)
    /\ attempt' = [attempt EXCEPT ![i] = NextAttempt(@, retryCount)]
    /\ UNCHANGED <<record, old, row, slots, waiting, result, error, retries,
                   recoveries, heartbeat>>

\* store_error, as the recovery limit calls it: no fence.
StoreError(i, runner) ==
    /\ Status(i) # NoRecord
    /\ error' = [error EXCEPT ![i] = runner]
    /\ UNCHANGED <<record, old, row, slots, waiting, result, retries, recoveries,
                   attempt, heartbeat>>

\* Mutant: the status is overwritten without validation.
OverwriteFinal(i) ==
    /\ Status(i) # NoRecord
    /\ WriteRecord(i, Transitioned(record[i], "ConcurrencyControlledFinal", NoRunner))
    /\ UNCHANGED <<row, slots, waiting, result, error, retries, recoveries, attempt,
                   heartbeat>>

\* set_invocation_status of the control backend, as admission calls it when it
\* may not reroute: no runner, no history, no terminal effects.
SetControlledFinal(i) ==
    /\ CanTransition(record[i], "ConcurrencyControlledFinal", NoRunner)
    /\ WriteRecord(i, Transitioned(record[i], "ConcurrencyControlledFinal", NoRunner))
    /\ UNCHANGED <<row, slots, waiting, result, error, retries, recoveries, attempt,
                   heartbeat>>

\* reserve: rows of invocations nobody may run are deleted, then one
\* deliverable row is leased.  Which one is the broker's ordering.
Deliverable(i) == row[i] = "ready" /\ Status(i) \in AvailableForRun

\* Mutant: the cleanup only knows two of the three available statuses.
CleanedTooMuch == [i \in Invocations |->
              IF Status(i) \in {"Registered", "Retry"} THEN row[i] ELSE "none"]

Cleaned == [i \in Invocations |->
              IF Status(i) \in AvailableForRun THEN row[i] ELSE "none"]

Reserve(i) ==
    /\ Deliverable(i)
    /\ row' = [Cleaned EXCEPT ![i] = "leased"]
    /\ UNCHANGED <<record, old, slots, waiting, result, error, retries, recoveries,
                   attempt, heartbeat>>

\* A poll that finds nothing to deliver still commits the cleanup.
PollEmpty ==
    /\ \A i \in Invocations : ~Deliverable(i)
    /\ row' = Cleaned
    /\ UNCHANGED <<record, old, slots, waiting, result, error, retries, recoveries,
                   attempt, heartbeat>>

\* Mutant: off by one.
SlotFreeAtLimit(i) == Cardinality(slots \ {i}) <= Limit

\* try_acquire_concurrency_slot: only other invocations are counted.
SlotFree(i) == Cardinality(slots \ {i}) < Limit

AcquireSlot(i) ==
    /\ i \in Controlled
    /\ SlotFree(i)
    /\ slots' = slots \union {i}
    /\ UNCHANGED <<record, old, row, waiting, result, error, retries, recoveries,
                   attempt, heartbeat>>

\* set_waiting_for, called by `wait` inside a running invocation.
SetWaitingFor(waiter, waitedOn) ==
    /\ waiter # waitedOn
    /\ waiting' = waiting \union {<<waiter, waitedOn>>}
    /\ UNCHANGED <<record, old, row, slots, result, error, retries, recoveries,
                   attempt, heartbeat>>

RegisterHeartbeat(runner) ==
    /\ heartbeat' = [heartbeat EXCEPT ![runner] = "fresh"]
    /\ UNCHANGED <<record, old, row, slots, waiting, result, error, retries,
                   recoveries, attempt>>

\* Time passes: a heartbeat, a status timestamp or a reservation expires.
HeartbeatExpires(runner) ==
    /\ heartbeat[runner] = "fresh"
    /\ heartbeat' = [heartbeat EXCEPT ![runner] = "stale"]
    /\ UNCHANGED <<record, old, row, slots, waiting, result, error, retries,
                   recoveries, attempt>>

StatusAges(i) ==
    /\ Status(i) \in RequiresOwnership \union RecoveryStatuses
    /\ i \notin old
    /\ old' = old \union {i}
    /\ UNCHANGED <<record, row, slots, waiting, result, error, retries, recoveries,
                   attempt, heartbeat>>

ReservationExpires(i) ==
    /\ row[i] \in {"leased", "delayed"}
    /\ Publish(i, "ready")
    /\ UNCHANGED <<record, old, slots, waiting, result, error, retries, recoveries,
                   attempt, heartbeat>>

-----------------------------------------------------------------------------

Change(i, runner) ==
    \/ \E status \in PlainStatuses : ChangeStatus(i, status, runner)
    \/ \E delayed \in BOOLEAN : ChangeRetry(i, runner, delayed)
    \/ ChangeReroute(i, runner)
    \/ ChangeConcurrencyReroute(i, runner)
    \/ \E status \in RecoveryStatuses : ChangeRecover(i, status, runner)
    \/ \E status \in {"Success", "Failed"} : ChangeComplete(i, runner, status)

StoreNext ==
    \/ \E i \in Invocations, runner \in Runners :
           \/ Submit(i, runner)
           \/ Change(i, runner)
           \/ BeginExecution(i, runner, retries[i])
           \/ StoreError(i, runner)
    \/ \E i \in Invocations :
           \/ SetControlledFinal(i)
           \/ Reserve(i)
           \/ AcquireSlot(i)
           \/ \E j \in Invocations : SetWaitingFor(i, j)
           \/ StatusAges(i)
           \/ ReservationExpires(i)
    \/ PollEmpty
    \/ \E runner \in Runners : RegisterHeartbeat(runner) \/ HeartbeatExpires(runner)

StoreSpec == StoreInit /\ [][StoreNext]_storeVars

-----------------------------------------------------------------------------
(* What the store promises, whoever calls it.                              *)

\* Every table holds values of its columns' types.
StoreTypeOK ==
    /\ record \in [Invocations -> StatusRecords]
    /\ old \subseteq Invocations
    /\ row \in [Invocations -> Rows]
    /\ slots \subseteq Controlled
    /\ waiting \subseteq Invocations \X Invocations
    /\ result \in [Invocations -> Owners]
    /\ error \in [Invocations -> Owners]
    /\ retries \in [Invocations -> Nat]
    /\ recoveries \in [Invocations -> Nat]
    /\ attempt \in [Invocations -> Nat \union {NoAttempt}]
    /\ heartbeat \in [Runners -> {"none", "fresh", "stale"}]

\* Nothing accepted is lost: an invocation that a worker may run has a queue
\* row, and a row without such an invocation is only what an admission that
\* ended in ConcurrencyControlledFinal left for the next poll to delete.
AvailableIsQueued ==
    \A i \in Invocations :
        /\ Status(i) \in AvailableForRun => row[i] # "none"
        /\ row[i] # "none" =>
               Status(i) \in AvailableForRun \union {"ConcurrencyControlledFinal"}

\* A result is stored exactly for the invocations that ended in Success:
\* status and payload never disagree, even for a reader between two commits.
ResultIffSuccess ==
    \A i \in Invocations : (result[i] # NoRunner) <=> (Status(i) = "Success")

\* The slots handed out for one concurrency key never exceed its limit.
SlotsWithinLimit == Cardinality(slots) <= Limit

\* One final result: it is written once, by the runner that owned the
\* invocation in Running when it was written.
ResultByOwnerOnce ==
    [][\A i \in Invocations :
          result'[i] # result[i] =>
              /\ result[i] = NoRunner
              /\ OwnsRunning(i, result'[i])]_storeVars

\* No execution identity is handed out twice for one invocation.
AttemptsGrow ==
    [][\A i \in Invocations : attempt'[i] # attempt[i] => attempt'[i] > attempt[i]]_storeVars

\* Running work is only requeued from under its runner when it is stale at the
\* moment of the commit, not merely when the recovery pass listed it.
RequeueNeedsStaleness ==
    [][\A i \in Invocations :
          Status(i) = "Running" /\ Status(i)' = "Rerouted" => Stale(i)]_storeVars

\* The tables implement the abstract status record.
Life == INSTANCE Lifecycle

ImplementsLifecycle == Life!Spec

=============================================================================
