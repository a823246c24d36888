-------------------------- MODULE ServerPublications --------------------------
(***************************************************************************)
(* The publications of Redis and Postgres: calls of several runners that   *)
(* overlap, compare and try again in one, and wait for locks in the other. *)
(* What the runtime relies on is the same for both.  SQLite, whose         *)
(* transactions run one at a time, is module Publication.                  *)
(***************************************************************************)
EXTENDS InvocationStatus, Integers, FiniteSets

CONSTANTS
    Invocations,
    Callers,       \* calls under way at the same time
    Uses,          \* who takes part, and the kinds of changes they ask for
    Limit,         \* running_concurrency of the controlled task
    MaxRows,       \* max_queue_rows
    MaxTries,      \* reads of one call before it gives up
    HistoryBound   \* bound on retries and attempts of an invocation

ASSUME ServerAssumption ==
    /\ MaxRows \in Nat
    /\ \A u \in Uses :
          /\ u.invocations \subseteq Invocations
          /\ u.runners \subseteq Runners
          /\ u.callers \subseteq Callers

VARIABLES record, old, queued, slots, payload, limited, retries, attempt, heartbeat, calls, use

vars == <<record, old, queued, slots, payload, limited, retries, attempt, heartbeat, calls, use>>

R == INSTANCE RedisPublication
P == INSTANCE PostgresPublication

\* backend_preset: one store is chosen when the runtime is built.
Is(backend) == use.backend = backend

Init == R!Init \/ P!Init

Next ==
    \/ Is("redis") /\ R!Next /\ R!Bounded
    \/ Is("postgres") /\ P!Next /\ P!Bounded

Spec == Init /\ [][Next]_vars

-----------------------------------------------------------------------------

Life == INSTANCE Lifecycle WITH
    record <- record, Invocations <- Invocations, Runners <- Runners, NoRunner <- NoRunner

\* Reading first and comparing the whole record at the commit (Redis), and
\* deciding under the row lock (Postgres), give the status histories the port
\* promises: Life!Spec, with its stuttering steps told apart first.
ImplementsLifecycle == Life!Init /\ [][record' = record \/ Life!Next]_record

\* Nothing accepted is lost: what a worker may run is queued or leased, also
\* when a call fails, gives up or is cut off.
AvailableIsQueued ==
    \A i \in Invocations : record[i].status \in AvailableForRun => i \in queued

\* Status and payload agree: a result is stored exactly for the invocations that
\* ended in Success, a worker's error only for those that ended in Failed, and
\* who sees Failed finds an error.  The error of the recovery limit is written
\* without a fence: it can also be found for one that ends otherwise.
PayloadMatchesStatus ==
    \A i \in Invocations :
        /\ (payload[i] = "result") <=> (record[i].status = "Success")
        /\ (payload[i] = "error") => (record[i].status = "Failed")
        /\ (record[i].status = "Failed") => payload[i] = "error" \/ i \in limited

\* The queue never exceeds max_queue_rows, although submissions and reroutes
\* of several invocations count it at the same time.
QueueWithinRows == Cardinality(queued) <= MaxRows

\* Two calls of begin_execution never get the same identity: each commit is
\* above everything handed out before it.
AttemptsGrow ==
    [][\A i \in Invocations : attempt'[i] # attempt[i] => attempt'[i] > attempt[i]]_vars

\* Running work is not taken from a runner with a recent heartbeat, however long
\* ago the recovery pass listed it and read the heartbeat: Redis compares it
\* again in its script.  Postgres reads it under the row lock and counts a runner
\* without one from its RUNNING status time.
RequeueNeedsSilence ==
    [][\A i \in Invocations :
          record[i].status = "Running" /\ record'[i].status = "Rerouted"
             => /\ Is("redis") => heartbeat[record[i].owner] # "fresh"
                /\ Is("postgres") => (heartbeat[record[i].owner] = "none" => i \in old)]_vars

\* Running work is requeued only when the runner is stale: its heartbeat, or
\* without one the age of the status (get_stale_running_invocations).  Redis
\* takes a missing heartbeat for a dead runner.
RequeueNeedsStaleness ==
    [][Is("redis") =>
          \A i \in Invocations :
             record[i].status = "Running" /\ record'[i].status = "Rerouted"
                => IF heartbeat[record[i].owner] = "none"
                   THEN i \in old ELSE heartbeat[record[i].owner] = "stale"]_vars
=============================================================================
