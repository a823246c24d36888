------------------------- MODULE PostgresPublication -------------------------
(***************************************************************************)
(* The publication of the Postgres runtime: every call is one transaction  *)
(* at read committed.  Nothing it writes is visible before the commit, and *)
(* a transaction that is dropped leaves nothing behind.  What keeps two    *)
(* transactions apart is three locks, held to the end of the transaction:  *)
(*   - `current` locks the status row of the invocation;                   *)
(*   - `submit`, which has no row to lock yet, takes an advisory lock;     *)
(*   - `publish` locks the only row of runtime_profile, and counts the     *)
(*     queue under it.                                                     *)
(* The steps of a call are the points at which it may have to wait.        *)
(***************************************************************************)
EXTENDS InvocationStatus, Integers, FiniteSets

CONSTANTS
    Invocations,
    Callers,       \* transactions open at the same time
    Uses,          \* who takes part, and the kinds of changes they ask for
    Limit,         \* running_concurrency of the controlled task
    MaxRows,       \* max_queue_rows
    HistoryBound   \* bound on retries and attempts of an invocation

VARIABLES
    record,      \* status_records
    old,         \* invocations whose status timestamp is stale
    queued,      \* invocations with a row in broker_queue
    slots,       \* invocations with rows in cc_arg_pairs
    payload,     \* results and errors
    limited,     \* invocations for which the recovery limit stored its error
    retries,     \* retries
    attempt,     \* execution identity in workflow_data
    heartbeat,   \* runner_heartbeats, compared with the cutoff
    calls,       \* the open transaction of each caller
    use          \* the member of Uses this behaviour is about

storeVars == <<record, old, queued, slots, payload, limited, retries, attempt,
               heartbeat>>
vars == <<storeVars, calls, use>>

NoAttempt == -1
NoCall == [step |-> "none"]

Init ==
    /\ use \in Uses
    /\ record = [i \in Invocations |-> Absent]
    /\ old = {} /\ queued = {} /\ slots = {} /\ limited = {}
    /\ payload = [i \in Invocations |-> "none"]
    /\ retries = [i \in Invocations |-> 0]
    /\ attempt = [i \in Invocations |-> NoAttempt]
    /\ heartbeat = [r \in Runners |-> "none"]
    /\ calls = [c \in Callers |-> NoCall]

Open == {c \in Callers : calls[c].step # "none"}

Goes(c, call) == calls' = [calls EXCEPT ![c] = call] /\ UNCHANGED storeVars
Ends(c) == calls' = [calls EXCEPT ![c] = NoCall]

\* Mutant: a plain SELECT.
RowUnlocked(i) == TRUE

\* SELECT ... FOR UPDATE of `current`.
RowFree(i) == \A c \in Open : calls[c].inv = i => calls[c].kind = "submit"

\* pg_advisory_xact_lock(':submission:' || id)
SubmissionFree(i) == \A c \in Open : calls[c].inv = i => calls[c].kind # "submit"

\* Mutant: the admission counts are not serialized.
ProfileUnlocked == TRUE

\* SELECT singleton FROM runtime_profile FOR UPDATE
ProfileFree == \A c \in Open : calls[c].step # "admitted"

\* The row of the invocation itself was deleted first.
Room(i) == Cardinality(queued \ {i}) < MaxRows

-----------------------------------------------------------------------------
(* publish, in a submission or a change                                    *)

\* Lock, count, and either hold the lock to the commit or fail the call.
Admit(c) ==
    /\ calls[c].step = "publish" /\ ProfileFree
    /\ IF Room(calls[c].inv)
       THEN Goes(c, [calls[c] EXCEPT !.step = "admitted"])
       ELSE Ends(c) /\ UNCHANGED storeVars

-----------------------------------------------------------------------------
(* submit                                                                  *)

\* An accepted id is answered without writing.
SubmitStart(c, i, runner) ==
    /\ calls[c] = NoCall /\ SubmissionFree(i)
    /\ record[i] = Absent
    /\ Goes(c, [step |-> "publish", kind |-> "submit", inv |-> i, runner |-> runner])

SubmitCommit(c) ==
    LET call == calls[c]
    IN  /\ call.step = "admitted" /\ call.kind = "submit"
        /\ record' = [record EXCEPT ![call.inv] = [status |-> "Registered", owner |-> call.runner]]
        /\ queued' = queued \union {call.inv}
        /\ Ends(c)
        /\ UNCHANGED <<old, slots, payload, limited, retries, attempt, heartbeat>>

-----------------------------------------------------------------------------
(* change                                                                  *)

\* Lock the row, and decide on what it holds.  A change that is refused
\* rolls back.  The recovery limit stores its error before it asks for Failed.
ChangeStart(c, i, runner, change) ==
    /\ calls[c] = NoCall /\ RowFree(i)
    /\ record[i] # Absent
    /\ CanChange(record[i], change, runner)
    /\ change.kind = "status" /\ change.status = "Failed" => i \in limited
    /\ change.via = "PendingRecovery" => record[i].status = "Pending" /\ i \in old
    /\ Goes(c, [step |-> CASE change.via = "RunningRecovery" -> "beat"
                           [] change.via # "RunningRecovery" /\ Routed(change) -> "publish"
                           [] OTHER -> "write",
                kind |-> "change", inv |-> i, runner |-> runner,
                change |-> change, seen |-> record[i]])

\* Mutant: a runner without a heartbeat counts as dead.
StaleWithoutHeartbeat(i, owner) == heartbeat[owner] # "fresh"

\* A runner without a heartbeat yet counts from its RUNNING status time.
Stale(i, owner) == IF heartbeat[owner] = "none" THEN i \in old ELSE heartbeat[owner] = "stale"

\* The heartbeat is read in the transaction, but its row is not locked.
ReadHeartbeat(c) ==
    LET call == calls[c]
    IN  /\ call.step = "beat"
        /\ IF call.seen.status = "Running" /\ Stale(call.inv, call.seen.owner)
           THEN Goes(c, [call EXCEPT !.step = "publish"])
           ELSE Ends(c) /\ UNCHANGED storeVars

StorePayload(call) ==
    IF call.change.kind # "complete" THEN payload
    ELSE [payload EXCEPT ![call.inv] = IF call.change.status = "Success" THEN "result" ELSE "error"]

\* Pending takes the delivery, a final status drops it, a route replaces it.
Requeue(call) ==
    CASE Routed(call.change) -> queued \union {call.inv}
      [] call.change.status \in Final \union {"Pending"} -> queued \ {call.inv}
      [] OTHER -> queued

ChangeCommit(c) ==
    LET call == calls[c]
        new == Changed(call.seen, call.change, call.runner)
    IN  /\ call.step \in {"admitted", "write"} /\ call.kind = "change"
        /\ record' = [record EXCEPT ![call.inv] = new]
        /\ old' = old \ {call.inv}
        /\ retries' = IF new.status = "Retry" THEN [retries EXCEPT ![call.inv] = @ + 1] ELSE retries
        /\ payload' = StorePayload(call)
        /\ queued' = Requeue(call)
        /\ slots' = IF Routed(call.change) \/ new.status \in Final THEN slots \ {call.inv} ELSE slots
        /\ Ends(c)
        /\ UNCHANGED <<limited, attempt, heartbeat>>

\* The connection or the process is lost before the commit.
Abort(c) ==
    /\ calls[c].step # "none"
    /\ Ends(c) /\ UNCHANGED storeVars

-----------------------------------------------------------------------------
(* begin_execution                                                         *)

BeginStart(c, i, runner) ==
    /\ calls[c] = NoCall /\ RowFree(i)
    /\ record[i] = [status |-> "Running", owner |-> runner]
    /\ Goes(c, [step |-> "identity", kind |-> "begin", inv |-> i, prior |-> attempt[i]])

NextAttempt(previous, retryCount) ==
    IF retryCount > previous + 1 THEN retryCount ELSE previous + 1

BeginCommit(c) ==
    LET call == calls[c]
        next == NextAttempt(call.prior, retries[call.inv])
    IN  /\ call.step = "identity" /\ next <= HistoryBound
        /\ attempt' = [attempt EXCEPT ![call.inv] = next]
        /\ Ends(c)
        /\ UNCHANGED <<record, old, queued, slots, payload, limited, retries, heartbeat>>

-----------------------------------------------------------------------------
(* The control backend, as far as it touches these tables, and the clock.  *)

SlotFree(i) == Cardinality(slots \ {i}) < Limit

TryAcquireConcurrencySlot(i) ==
    /\ i \in use.controlled /\ record[i] # Absent /\ SlotFree(i)
    /\ slots' = slots \union {i}
    /\ UNCHANGED <<record, old, queued, payload, limited, retries, attempt, heartbeat, calls>>

\* store_error, as the recovery limit calls it before it asks for Failed: on its
\* own, whatever became of the invocation.
StoreError(i) ==
    /\ record[i] # Absent /\ i \notin limited
    /\ limited' = limited \union {i}
    /\ UNCHANGED <<record, old, queued, slots, payload, retries, attempt, heartbeat, calls>>

RegisterHeartbeat(runner) ==
    /\ heartbeat' = [heartbeat EXCEPT ![runner] = "fresh"]
    /\ UNCHANGED <<record, old, queued, slots, payload, limited, retries, attempt, calls>>

HeartbeatExpires(runner) ==
    /\ heartbeat[runner] = "fresh"
    /\ heartbeat' = [heartbeat EXCEPT ![runner] = "stale"]
    /\ UNCHANGED <<record, old, queued, slots, payload, limited, retries, attempt, calls>>

StatusAges(i) ==
    /\ record[i].status \in RequiresOwnership /\ i \notin old
    /\ old' = old \union {i}
    /\ UNCHANGED <<record, queued, slots, payload, limited, retries, attempt, heartbeat, calls>>

Offered == {x \in PublicationChange : x.kind \in use.offered}

Next ==
    /\ UNCHANGED use
    /\ \/ \E i \in use.invocations : TryAcquireConcurrencySlot(i)
       \/ \E c \in use.callers :
             \/ \E i \in use.invocations, runner \in use.runners :
                   \/ SubmitStart(c, i, runner)
                   \/ \E change \in Offered : ChangeStart(c, i, runner, change)
                   \/ BeginStart(c, i, runner)
             \/ Admit(c) \/ SubmitCommit(c) \/ ReadHeartbeat(c) \/ ChangeCommit(c)
             \/ BeginCommit(c) \/ Abort(c)
       \/ /\ "recover" \in use.offered    \* nothing else looks at the clock
          /\ \/ \E i \in use.invocations : StatusAges(i) \/ StoreError(i)
             \/ \E runner \in use.runners : RegisterHeartbeat(runner) \/ HeartbeatExpires(runner)

Bounded == \A i \in Invocations : retries'[i] <= HistoryBound

Spec == Init /\ [][Next /\ Bounded]_vars
=============================================================================
