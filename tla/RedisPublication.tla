-------------------------- MODULE RedisPublication --------------------------
(***************************************************************************)
(* The publication of the Redis runtime.  A change reads the status record *)
(* (and, to recover Running work, the owner's heartbeat), decides, and     *)
(* commits in one script that first compares what it read; on a conflict   *)
(* it starts again, at most MaxTries times.  The comparison is of the      *)
(* whole JSON value, timestamp included, so `fresh` says whether a value   *)
(* read by a call is still the one stored.                                 *)
(*                                                                         *)
(* Slots are taken by a script of the control backend and, unlike in the   *)
(* SQL stores, only a final status gives them back.                        *)
(***************************************************************************)
EXTENDS InvocationStatus, Integers, FiniteSets

CONSTANTS
    Invocations,
    Callers,       \* calls under way at the same time
    Uses,          \* who takes part, and the kinds of changes they ask for
    Limit,         \* running_concurrency of the controlled task
    MaxRows,       \* max_queue_rows
    MaxTries,      \* reads of one call before it gives up (8)
    HistoryBound   \* bound on retries and attempts of an invocation

VARIABLES
    record,      \* orch:status
    old,         \* invocations whose status timestamp is stale
    queued,      \* invocations with a broker entry, queued or leased
    slots,       \* orch:cc of one concurrency key
    payload,     \* state:result or state:error
    limited,     \* invocations for which the recovery limit stored its error
    retries,     \* orch:retries
    attempt,     \* execution identity in state:wf_data
    heartbeat,   \* orch:heartbeat, compared with the cutoff
    calls,       \* the local state of each call
    use          \* the member of Uses this behaviour is about

storeVars == <<record, old, queued, slots, payload, limited, retries, attempt,
               heartbeat>>
vars == <<storeVars, calls, use>>

NoAttempt == -1
NoCall == [step |-> "none"]

Init ==
    /\ use \in Uses
    /\ record = [i \in Invocations |-> Absent]
    /\ old = {} /\ queued = {} /\ slots = {} /\ limited = {}
    /\ payload = [i \in Invocations |-> "none"]
    /\ retries = [i \in Invocations |-> 0]
    /\ attempt = [i \in Invocations |-> NoAttempt]
    /\ heartbeat = [r \in Runners |-> "none"]
    /\ calls = [c \in Callers |-> NoCall]

\* A write makes every earlier read of the same value outdated.
Outdated(call, i) == IF call.step # "none" /\ call.inv = i THEN [call EXCEPT !.fresh = FALSE] ELSE call
OthersOutdated(c, i) == [d \in Callers |-> IF d = c THEN NoCall ELSE Outdated(calls[d], i)]

-----------------------------------------------------------------------------

\* submit: one script.  An id that is known, or a full queue, writes nothing.
Submit(i, runner) ==
    /\ record[i] = Absent
    /\ Cardinality(queued) < MaxRows
    /\ record' = [record EXCEPT ![i] = [status |-> "Registered", owner |-> runner]]
    /\ queued' = queued \union {i}
    /\ UNCHANGED <<old, slots, payload, limited, retries, attempt, heartbeat, calls>>

\* What `current` finds lets the change go on; a recovery also needs the
\* status it expects, and in Pending one that is old enough.  The recovery limit
\* has stored its error before it asks for Failed.
Permitted(i, runner, change) ==
    /\ CanChange(record[i], change, runner)
    /\ change.kind = "status" /\ change.status = "Failed" => i \in limited
    /\ change.via = "PendingRecovery" => record[i].status = "Pending" /\ i \in old

\* `current` and the checks on what it returns, at the start of a change or
\* of one more try.  A change that is refused ends without effect.
ReadCurrent(c, i, runner, change, tries) ==
    calls' = [calls EXCEPT ![c] =
          [step |-> IF change.via = "RunningRecovery"
                    THEN "beat" ELSE "commit",
           inv |-> i, runner |-> runner, change |-> change, seen |-> record[i],
           fresh |-> TRUE, same |-> TRUE, tries |-> tries]]

Start(c, i, runner, change) ==
    /\ calls[c] = NoCall /\ record[i] # Absent
    /\ Permitted(i, runner, change)
    /\ ReadCurrent(c, i, runner, change, 1)
    /\ UNCHANGED storeVars

\* The owner's heartbeat.  One that is missing lets the recovery go on.
ReadHeartbeat(c) ==
    LET call == calls[c]
    IN  /\ call.step = "beat"
        /\ calls' = [calls EXCEPT ![c] =
              IF call.seen.status = "Running" /\ heartbeat[call.seen.owner] # "fresh"
              THEN [call EXCEPT !.step = "commit"] ELSE NoCall]
        /\ UNCHANGED storeVars

\* The script compares the record, and the heartbeat of a recovery.
Unchanged(call) == call.fresh /\ call.same

\* Mutant: a recovery does not put the invocation back.
EffectsUnrouted(call, status) ==
    /\ payload' = IF call.change.kind = "complete"
                  THEN [payload EXCEPT ![call.inv] = IF status = "Success" THEN "result" ELSE "error"]
                  ELSE payload
    /\ retries' = IF status = "Retry" THEN [retries EXCEPT ![call.inv] = @ + 1] ELSE retries
    /\ queued' = IF call.change.kind \in {"retry", "reroute"}
                 THEN queued \union {call.inv} ELSE queued \ {call.inv}
    /\ slots' = IF status \in Final THEN slots \ {call.inv} ELSE slots

\* Mutant: every final status stores a payload.
EffectsAnyFinal(call, status) ==
    /\ payload' = IF status \in Final
                  THEN [payload EXCEPT ![call.inv] = IF status = "Success" THEN "result" ELSE "error"]
                  ELSE payload
    /\ retries' = IF status = "Retry" THEN [retries EXCEPT ![call.inv] = @ + 1] ELSE retries
    /\ queued' = IF Routed(call.change)
                 THEN queued \union {call.inv} ELSE queued \ {call.inv}
    /\ slots' = IF status \in Final THEN slots \ {call.inv} ELSE slots

\* Every change takes the invocation off the queue; a route puts it back.
Effects(call, status) ==
    /\ payload' = IF call.change.kind = "complete"
                  THEN [payload EXCEPT ![call.inv] = IF status = "Success" THEN "result" ELSE "error"]
                  ELSE payload
    /\ retries' = IF status = "Retry" THEN [retries EXCEPT ![call.inv] = @ + 1] ELSE retries
    /\ queued' = IF Routed(call.change)
                 THEN queued \union {call.inv} ELSE queued \ {call.inv}
    /\ slots' = IF status \in Final THEN slots \ {call.inv} ELSE slots

\* A route of an invocation that has no row needs room in the queue.
Full(call) ==
    Routed(call.change) /\ call.inv \notin queued /\ Cardinality(queued) >= MaxRows

Commit(c) ==
    LET call == calls[c]
        new == Changed(call.seen, call.change, call.runner)
    IN  /\ call.step = "commit"
        /\ Unchanged(call) /\ ~Full(call)
        /\ record' = [record EXCEPT ![call.inv] = new]
        /\ old' = old \ {call.inv}
        /\ Effects(call, new.status)
        /\ calls' = OthersOutdated(c, call.inv)
        /\ UNCHANGED <<limited, attempt, heartbeat>>

\* No room, or the last try: the call fails.  A recovery that meets a change
\* gives up at once.
Fail(c) ==
    LET call == calls[c]
    IN  /\ call.step = "commit"
        /\ \/ Unchanged(call) /\ Full(call)
           \/ ~Unchanged(call) /\ (call.change.kind = "recover" \/ call.tries = MaxTries)
        /\ calls' = [calls EXCEPT ![c] = NoCall]
        /\ UNCHANGED storeVars

TryAgain(c) ==
    LET call == calls[c]
    IN  /\ call.step = "commit"
        /\ ~Unchanged(call)
        /\ call.change.kind # "recover" /\ call.tries < MaxTries
        /\ IF Permitted(call.inv, call.runner, call.change)
           THEN ReadCurrent(c, call.inv, call.runner, call.change, call.tries + 1)
           ELSE calls' = [calls EXCEPT ![c] = NoCall]
        /\ UNCHANGED storeVars

-----------------------------------------------------------------------------
(* begin_execution                                                         *)

BeginStart(c, i, runner) ==
    /\ calls[c] = NoCall
    /\ record[i] = [status |-> "Running", owner |-> runner]
    /\ calls' = [calls EXCEPT ![c] = [step |-> "identity", inv |-> i, fresh |-> TRUE]]
    /\ UNCHANGED storeVars

ReadIdentity(c) ==
    /\ calls[c].step = "identity"
    /\ calls' = [calls EXCEPT ![c] = [step |-> "begin", inv |-> calls[c].inv,
                    fresh |-> calls[c].fresh, prior |-> attempt[calls[c].inv]]]
    /\ UNCHANGED storeVars

NextAttempt(previous, retryCount) ==
    IF retryCount > previous + 1 THEN retryCount ELSE previous + 1

\* Mutant: only the status is compared.
SameIdentityUnchecked(call) == call.fresh

SameIdentity(call) == call.fresh /\ attempt[call.inv] = call.prior

BeginCommit(c) ==
    LET call == calls[c]
        next == NextAttempt(call.prior, retries[call.inv])
    IN  /\ call.step = "begin" /\ SameIdentity(call) /\ next <= HistoryBound
        /\ attempt' = [attempt EXCEPT ![call.inv] = next]
        /\ calls' = [calls EXCEPT ![c] = NoCall]
        /\ UNCHANGED <<record, old, queued, slots, payload, limited, retries, heartbeat>>

\* Conflict: the caller starts again, or gives up.
BeginConflict(c) ==
    /\ calls[c].step = "begin" /\ ~SameIdentity(calls[c])
    /\ calls' = [calls EXCEPT ![c] = NoCall]
    /\ UNCHANGED storeVars

-----------------------------------------------------------------------------
(* The control backend and the broker, as far as they touch these keys.    *)

SlotFree(i) == Cardinality(slots \ {i}) < Limit

TryAcquireConcurrencySlot(i) ==
    /\ i \in use.controlled /\ record[i] # Absent /\ SlotFree(i)
    /\ slots' = slots \union {i}
    /\ UNCHANGED <<record, old, queued, payload, limited, retries, attempt, heartbeat, calls>>

\* store_error, as the recovery limit calls it before it asks for Failed: on its
\* own, whatever became of the invocation.
StoreError(i) ==
    /\ record[i] # Absent /\ i \notin limited
    /\ limited' = limited \union {i}
    /\ UNCHANGED <<record, old, queued, slots, payload, retries, attempt, heartbeat, calls>>

RegisterHeartbeat(runner) ==
    /\ heartbeat' = [heartbeat EXCEPT ![runner] = "fresh"]
    /\ calls' = [c \in Callers |->
          IF calls[c].step = "commit" /\ calls[c].change.kind = "recover"
                /\ calls[c].seen = [status |-> "Running", owner |-> runner]
          THEN [calls[c] EXCEPT !.same = FALSE] ELSE calls[c]]
    /\ UNCHANGED <<record, old, queued, slots, payload, limited, retries, attempt>>

HeartbeatExpires(runner) ==
    /\ heartbeat[runner] = "fresh"
    /\ heartbeat' = [heartbeat EXCEPT ![runner] = "stale"]
    /\ UNCHANGED <<record, old, queued, slots, payload, limited, retries, attempt, calls>>

StatusAges(i) ==
    /\ record[i].status \in RequiresOwnership /\ i \notin old
    /\ old' = old \union {i}
    /\ UNCHANGED <<record, queued, slots, payload, limited, retries, attempt, heartbeat, calls>>

Offered == {x \in PublicationChange : x.kind \in use.offered}

Next ==
    /\ UNCHANGED use
    /\ \/ \E i \in use.invocations :
             \/ \E runner \in use.runners : Submit(i, runner)
             \/ TryAcquireConcurrencySlot(i)
       \/ \E c \in use.callers :
             \/ \E i \in use.invocations, runner \in use.runners :
                   \/ \E change \in Offered : Start(c, i, runner, change)
                   \/ BeginStart(c, i, runner)
             \/ ReadHeartbeat(c) \/ Commit(c) \/ Fail(c) \/ TryAgain(c)
             \/ ReadIdentity(c) \/ BeginCommit(c) \/ BeginConflict(c)
       \/ /\ "recover" \in use.offered    \* nothing else looks at the clock
          /\ \/ \E i \in use.invocations : StatusAges(i) \/ StoreError(i)
             \/ \E runner \in use.runners : RegisterHeartbeat(runner) \/ HeartbeatExpires(runner)

Bounded == \A i \in Invocations : retries'[i] <= HistoryBound

Spec == Init /\ [][Next /\ Bounded]_vars
=============================================================================
