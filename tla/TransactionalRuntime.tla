------------------------- MODULE TransactionalRuntime -------------------------
(***************************************************************************)
(* The processes of a deployment on one transactional store: workers that  *)
(* claim, run and finish invocations, recovery passes of the management    *)
(* loops, and clients that submit and cancel.  Between two actions of a    *)
(* process any other process may act, and a process keeps what it read     *)
(* before.  A worker is its RunnerId: an operation that fails retires the  *)
(* id for good (worker_loop draws a new one), like a crash of its process. *)
(***************************************************************************)
EXTENDS Publication

CONSTANTS
    Workers,         \* RunnerIds of workers
    Recoverers,      \* RunnerIds of management loops that run recovery passes
    Client,          \* RunnerId of the submitting process
    MaxRetries,      \* max_retries of the tasks
    MaxRecoveries,   \* max_invocation_recoveries
    RerouteOnCC,     \* controlled invocations whose task has reroute_on_cc
    Cancellable,     \* invocations some user may cancel
    WaitsOn,         \* pairs <<parent, child>>: the body of parent waits on child
    Unregistered,    \* pairs <<worker, invocation>>: its process lacks the task
    PromptClaims,    \* invocations claimed before the lease of their delivery ends
    MaxMisreads,     \* bound on failed reads that the code takes for an answer
    Responsive       \* processes that neither fail nor fall behind their deadlines

ASSUME RuntimeAssumption ==
    /\ Runners = Workers \union Recoverers \union {Client}
    /\ Workers \intersect (Recoverers \union {Client}) = {}
    /\ IsFiniteSet(Recoverers)
    /\ "none" \notin Invocations
    /\ MaxRetries \in Nat
    /\ MaxRecoveries \in Nat
    /\ MaxMisreads \in Nat
    /\ RerouteOnCC \subseteq Controlled
    /\ Cancellable \subseteq Invocations
    /\ WaitsOn \subseteq Invocations \X Invocations
    /\ \A u, v \in WaitsOn : u[1] = v[1] => u = v
    /\ Unregistered \subseteq Workers \X Invocations
    /\ PromptClaims \subseteq Invocations
    /\ Responsive \subseteq Workers \union Recoverers

VARIABLES
    phase,      \* where each worker is in claim_next and execute_invocation_common
    job,        \* the invocation it holds
    identity,   \* the execution attempt begin_execution gave it
    pass,       \* where each recovery pass is in recover_one
    target,     \* its candidate
    resuming,   \* whether the candidate was already in a recovery status
    misreads    \* failed reads so far that were taken for an answer

workerVars == <<phase, job, identity>>
passVars   == <<pass, target, resuming>>
vars       == <<storeVars, workerVars, passVars, misreads>>

Idle == "idle"
None == "none"

Gone == {"unborn", "dead"}

WorkerPhases ==
    Gone \union {Idle, "polling", "candidate", "denied", "admitted", "pending", "running",
                 "executing", "waiting", "finishing"}

PassPhases == {Idle, "listed", "read", "reroute", "limit", "error", "fail"}

Targets == [inv : Invocations, status : RecoveryStatuses]

NoTarget == [inv |-> None, status |-> None]

Init ==
    /\ StoreInit
    /\ phase = [w \in Workers |-> "unborn"]
    /\ job = [w \in Workers |-> None]
    /\ identity = [w \in Workers |-> NoAttempt]
    /\ pass = [p \in Recoverers |-> Idle]
    /\ target = [p \in Recoverers |-> NoTarget]
    /\ resuming = [p \in Recoverers |-> FALSE]
    /\ misreads = 0

Goto(w, where) ==
    /\ phase' = [phase EXCEPT ![w] = where]
    /\ UNCHANGED <<job, identity, passVars>>

\* A read of the store fails where the caller goes on with a default.
Misread == misreads < MaxMisreads /\ misreads' = misreads + 1

\* Mutant: the worker keeps its invocation while it polls.
KeepJob(w, where) ==
    /\ phase' = [phase EXCEPT ![w] = where]
    /\ identity' = [identity EXCEPT ![w] = NoAttempt]
    /\ UNCHANGED <<job, passVars>>

\* The worker drops its invocation: back to polling, or retired.
Drop(w, where) ==
    /\ phase' = [phase EXCEPT ![w] = where]
    /\ job' = [job EXCEPT ![w] = None]
    /\ identity' = [identity EXCEPT ![w] = NoAttempt]
    /\ UNCHANGED passVars

-----------------------------------------------------------------------------
(* claim_next and admit_candidate                                          *)

\* The first heartbeat precedes the loop; when it fails the loop starts anyway.
StartWorker(w) ==
    /\ phase[w] = "unborn"
    /\ RegisterHeartbeat(w) \/ UNCHANGED storeVars
    /\ Goto(w, Idle)

Hold(w, i) ==
    /\ phase' = [phase EXCEPT ![w] = "candidate"]
    /\ job' = [job EXCEPT ![w] = i]
    /\ UNCHANGED <<identity, passVars>>

\* get_blocking_invocations: waited on, and not waiting itself.
Blocking(i) ==
    /\ \E w \in waiting : w[2] = i
    /\ \A w \in waiting : w[1] # i
    /\ Status(i) \in {"Registered", "Pending", "Running"}

ClaimBlocking(w, i) ==
    /\ phase[w] = Idle
    /\ Blocking(i)
    /\ Hold(w, i)
    /\ UNCHANGED storeVars

\* Nothing is blocking, or the query failed: on to the queues.
NothingBlocking(w) ==
    /\ phase[w] = Idle
    /\ IF \A i \in Invocations : ~Blocking(i) THEN UNCHANGED misreads ELSE Misread
    /\ UNCHANGED storeVars
    /\ Goto(w, "polling")

ClaimQueued(w, i) ==
    /\ phase[w] = "polling"
    /\ Reserve(i)
    /\ Hold(w, i)

QueuesEmpty(w) ==
    /\ phase[w] = "polling"
    /\ PollEmpty
    /\ Goto(w, Idle)

\* The task of the invocation is in the registry of the worker's process.
Knows(w, i) == <<w, i>> \notin Unregistered

\* A task that is not registered here, or an invocation or call that cannot be
\* read, is admitted without a slot.
Admit(w) ==
    /\ phase[w] = "candidate"
    /\ \/ /\ job[w] \notin Controlled \/ ~Knows(w, job[w])
          /\ UNCHANGED <<storeVars, misreads>>
          /\ Goto(w, "admitted")
       \/ /\ Knows(w, job[w])
          /\ AcquireSlot(job[w])
          /\ Goto(w, "admitted")
          /\ UNCHANGED misreads
       \/ /\ Knows(w, job[w])
          /\ job[w] \in Controlled
          /\ ~SlotFree(job[w])
          /\ UNCHANGED <<storeVars, misreads>>
          /\ Goto(w, "denied")
       \/ /\ job[w] \in Controlled
          /\ Misread
          /\ UNCHANGED storeVars
          /\ Goto(w, "admitted")

\* A rejection that the status machine does not allow is ignored.  The next
\* candidate is another blocking one or comes from the queues.
Reject(w) ==
    /\ phase[w] = "denied"
    /\ IF job[w] \in RerouteOnCC
       THEN \/ ChangeConcurrencyReroute(job[w], w)
            \/ /\ ~CanTransition(record[job[w]], "ConcurrencyControlled", w)
               /\ UNCHANGED storeVars
       ELSE \/ SetControlledFinal(job[w])
            \/ /\ ~CanTransition(record[job[w]], "ConcurrencyControlledFinal", NoRunner)
               /\ UNCHANGED storeVars
    /\ Drop(w, Idle) \/ Drop(w, "polling")

-----------------------------------------------------------------------------
(* execute_invocation_common                                               *)

\* Losing the claim race leaves the slot alone: the release is a no-op here.
ClaimPending(w) ==
    /\ phase[w] = "admitted"
    /\ \/ /\ ChangeStatus(job[w], "Pending", w)
          /\ Goto(w, "pending")
       \/ /\ ~CanTransition(record[job[w]], "Pending", w)
          /\ UNCHANGED storeVars
          /\ Drop(w, Idle)

StartRunning(w) ==
    /\ phase[w] = "pending"
    /\ \/ /\ ChangeStatus(job[w], "Running", w)
          /\ Goto(w, "running")
       \/ /\ ~CanTransition(record[job[w]], "Running", w)
          /\ UNCHANGED storeVars
          /\ Drop(w, "dead")

\* Mutant: the attempt is numbered without the ownership fence.
BeginUnfenced(w) ==
    /\ phase[w] = "running"
    /\ attempt' = [attempt EXCEPT ![job[w]] = NextAttempt(@, retries[job[w]])]
    /\ phase' = [phase EXCEPT ![w] = "executing"]
    /\ identity' = [identity EXCEPT ![w] = NextAttempt(attempt[job[w]], retries[job[w]])]
    /\ UNCHANGED <<record, old, row, slots, waiting, result, error, retries, recoveries,
                   heartbeat, job, passVars>>

Begin(w) ==
    /\ phase[w] = "running"
    /\ Knows(w, job[w])
    /\ \/ /\ BeginExecution(job[w], w, retries[job[w]])
          /\ phase' = [phase EXCEPT ![w] = "executing"]
          /\ identity' = [identity EXCEPT ![w] = NextAttempt(attempt[job[w]], retries[job[w]])]
          /\ UNCHANGED <<job, passVars>>
       \/ /\ ~OwnsRunning(job[w], w)
          /\ UNCHANGED storeVars
          /\ Drop(w, "dead")

\* Mutant: a discarded outcome gives the slot back.
DiscardFreesSlot(w) ==
    /\ ReleaseSlot(job[w])
    /\ UNCHANGED <<record, old, row, waiting, result, error, retries, recoveries, attempt,
                   heartbeat>>
    /\ Drop(w, Idle)

\* A rejected outcome is discarded when the invocation was cancelled or taken
\* over; rejected while still ours, it is an error.
Discard(w) ==
    /\ UNCHANGED storeVars
    /\ Drop(w, IF Status(job[w]) \in {"Pending", "Running"} /\ record[job[w]].owner = w
               THEN "dead" ELSE Idle)

Succeed(w) ==
    /\ phase[w] \in {"executing", "finishing"}
    /\ \/ ChangeComplete(job[w], w, "Success") /\ Drop(w, Idle)
       \/ ~OwnsRunning(job[w], w) /\ Discard(w)

\* The body fails, or times out while it works or waits, with retries left.
FailAndRetry(w) ==
    /\ phase[w] \in {"executing", "waiting", "finishing"}
    /\ retries[job[w]] < MaxRetries
    /\ \/ \E delayed \in BOOLEAN : ChangeRetry(job[w], w, delayed) /\ Drop(w, Idle)
       \/ ~CanTransition(record[job[w]], "Retry", w) /\ Discard(w)

\* It fails for good: also with retries left, when the error or the timeout is
\* not one to retry.  A task that is not registered here fails before it begins.
FailForGood(w) ==
    /\ \/ phase[w] = "running" /\ ~Knows(w, job[w])
       \/ phase[w] \in {"executing", "waiting", "finishing"}
    /\ \/ ChangeComplete(job[w], w, "Failed") /\ Drop(w, Idle)
       \/ ~OwnsRunning(job[w], w) /\ Discard(w)

\* supervise sees the cancellation and abandons the attempt.
NoticeCancel(w) ==
    /\ phase[w] \in {"executing", "waiting", "finishing"}
    /\ Status(job[w]) = "Cancelled"
    /\ UNCHANGED storeVars
    /\ Drop(w, Idle)

\* The body waits for a child, polling its status after announcing itself.
Wait(w, child) ==
    /\ phase[w] = "executing"
    /\ <<job[w], child>> \in WaitsOn
    /\ Status(child) # NoRecord
    /\ SetWaitingFor(job[w], child)
    /\ Goto(w, "waiting")

WaitOver(w) ==
    /\ phase[w] = "waiting"
    /\ \A child \in Invocations : <<job[w], child>> \in WaitsOn => Status(child) \in Final
    /\ UNCHANGED storeVars
    /\ Goto(w, "finishing")

\* Mutant: the worker goes on under the same id after an error.
RetireKeepsId(w) ==
    /\ phase[w] \notin Gone
    /\ w \notin Responsive
    /\ UNCHANGED storeVars
    /\ Drop(w, Idle)

\* Any operation fails, or the process dies, before or after its commit.
Retire(w) ==
    /\ phase[w] \notin Gone
    /\ w \notin Responsive
    /\ UNCHANGED storeVars
    /\ Drop(w, "dead")

\* management_loop heartbeats for the workers it still lists.
Heartbeat(w) ==
    /\ phase[w] \notin Gone
    /\ heartbeat[w] # "fresh"
    /\ RegisterHeartbeat(w)
    /\ UNCHANGED <<workerVars, passVars>>

-----------------------------------------------------------------------------
(* recover_stale_invocations and recover_one                               *)

PassGoto(p, where) ==
    /\ pass' = [pass EXCEPT ![p] = where]
    /\ UNCHANGED <<target, resuming, workerVars>>

EndPass(p) ==
    /\ pass' = [pass EXCEPT ![p] = Idle]
    /\ target' = [target EXCEPT ![p] = NoTarget]
    /\ resuming' = [resuming EXCEPT ![p] = FALSE]
    /\ UNCHANGED workerVars

\* Mutant: only running invocations are listed.
RunningListed(i, status) == Status(i) = "Running" /\ Stale(i) /\ status = "RunningRecovery"

\* The candidates are listed first and visited later.
Listed(i, status) ==
    \/ Status(i) = RecoveredFrom(status) /\ Stale(i)
    \/ Status(i) = status /\ i \in old

ListCandidate(p, i, status) ==
    /\ pass[p] = Idle
    /\ Listed(i, status)
    /\ pass' = [pass EXCEPT ![p] = "listed"]
    /\ target' = [target EXCEPT ![p] = [inv |-> i, status |-> status]]
    /\ UNCHANGED <<storeVars, resuming, workerVars>>

ReadStatus(p) ==
    /\ pass[p] = "listed"
    /\ resuming' = [resuming EXCEPT ![p] = Status(target[p].inv) \in RecoveryStatuses]
    /\ pass' = [pass EXCEPT ![p] = "read"]
    /\ UNCHANGED <<storeVars, target, workerVars>>

\* Mutant: the recovery about to be made is not counted.
OverLimitLate(p, previous) == MaxRecoveries > 0 /\ previous > MaxRecoveries

\* A limit of 0 means no limit.
OverLimit(p, previous) ==
    /\ MaxRecoveries > 0
    /\ (IF resuming[p] THEN previous ELSE previous + 1) > MaxRecoveries

\* recovery_count: a history that cannot be read counts as empty.
ReadHistory(p) ==
    /\ pass[p] = "read"
    /\ \E previous \in {recoveries[target[p].inv], 0} :
        /\ IF previous = recoveries[target[p].inv] THEN UNCHANGED misreads ELSE Misread
        /\ PassGoto(p, IF ~OverLimit(p, previous) THEN "reroute"
                       ELSE IF resuming[p] THEN "error" ELSE "limit")
    /\ UNCHANGED storeVars

\* None from the store: not stale any more, or changed by someone else.
Requeue(p) ==
    LET i == target[p].inv
        status == target[p].status
    IN  /\ pass[p] = "reroute"
        /\ IF resuming[p]
           THEN \/ ChangeReroute(i, p)
                \/ ~CanTransition(record[i], "Rerouted", p) /\ UNCHANGED storeVars
           ELSE \/ ChangeRecover(i, status, p)
                \/ ~(Status(i) = RecoveredFrom(status) /\ Stale(i)) /\ UNCHANGED storeVars
        /\ EndPass(p)

\* fail_recovery_limit: three commits.
TakeOver(p) ==
    LET i == target[p].inv
        status == target[p].status
    IN  /\ pass[p] = "limit"
        /\ \/ ChangeStatus(i, status, p) /\ PassGoto(p, "error")
           \/ /\ ~CanTransition(record[i], status, p)
              /\ UNCHANGED storeVars
              /\ EndPass(p)

\* Mutant: the error is left out.
SkipLimitError(p) ==
    /\ pass[p] = "error"
    /\ UNCHANGED storeVars
    /\ PassGoto(p, "fail")

StoreLimitError(p) ==
    /\ pass[p] = "error"
    /\ StoreError(target[p].inv, p)
    /\ PassGoto(p, "fail")

FailAtLimit(p) ==
    LET i == target[p].inv
    IN  /\ pass[p] = "fail"
        /\ \/ ChangeStatus(i, "Failed", p)
           \/ ~CanTransition(record[i], "Failed", p) /\ UNCHANGED storeVars
        /\ EndPass(p)

\* An error on one candidate, an unknown task, or the death of the process.
AbandonPass(p) ==
    /\ pass[p] # Idle
    /\ p \notin Responsive
    /\ UNCHANGED storeVars
    /\ EndPass(p)

-----------------------------------------------------------------------------
(* Clients, and time.                                                      *)

ClientSubmit(i) ==
    /\ Submit(i, Client)
    /\ UNCHANGED <<workerVars, passVars>>

\* cancel_invocation: its first read only spares the write.
ClientCancel(i) ==
    /\ i \in Cancellable
    /\ ChangeStatus(i, "Cancelled", Client)
    /\ UNCHANGED <<workerVars, passVars>>

\* A worker is between the delivery of i and its claim.
Claiming(i) ==
    \E w \in Workers : phase[w] \in {"candidate", "denied", "admitted"} /\ job[w] = i

WorkerFallsSilent(w) ==
    /\ phase[w] # "unborn"
    /\ w \notin Responsive
    /\ HeartbeatExpires(w)
    /\ UNCHANGED <<workerVars, passVars>>

StatusExpires(i) ==
    /\ record[i].owner \notin Responsive
    /\ StatusAges(i)
    /\ UNCHANGED <<workerVars, passVars>>

LeaseExpires(i) ==
    /\ ~(i \in PromptClaims /\ Claiming(i))
    /\ ReservationExpires(i)
    /\ UNCHANGED <<workerVars, passVars>>

-----------------------------------------------------------------------------

Claim(w) ==
    \/ NothingBlocking(w)
    \/ Admit(w)
    \/ /\ \/ \E i \in Invocations : ClaimBlocking(w, i) \/ ClaimQueued(w, i)
          \/ QueuesEmpty(w)
          \/ Reject(w)
       /\ UNCHANGED misreads

Execute(w) ==
    /\ \/ ClaimPending(w)
       \/ StartRunning(w)
       \/ Begin(w)
       \/ Succeed(w)
       \/ FailAndRetry(w)
       \/ FailForGood(w)
       \/ NoticeCancel(w)
       \/ \E child \in Invocations : Wait(w, child)
       \/ WaitOver(w)
    /\ UNCHANGED misreads

Recover(p) ==
    \/ ReadHistory(p)
    \/ /\ \/ \E i \in Invocations, status \in RecoveryStatuses : ListCandidate(p, i, status)
          \/ ReadStatus(p)
          \/ Requeue(p)
          \/ TakeOver(p)
          \/ StoreLimitError(p)
          \/ FailAtLimit(p)
          \/ AbandonPass(p)
       /\ UNCHANGED misreads

\* A worker's process starts, dies, heartbeats or falls silent.
Live(w) ==
    /\ StartWorker(w) \/ Retire(w) \/ Heartbeat(w) \/ WorkerFallsSilent(w)
    /\ UNCHANGED misreads

\* Clients act, and deadlines in the store pass.
Environment(i) ==
    /\ ClientSubmit(i) \/ ClientCancel(i) \/ StatusExpires(i) \/ LeaseExpires(i)
    /\ UNCHANGED misreads

Next ==
    \/ \E w \in Workers : Claim(w) \/ Execute(w) \/ Live(w)
    \/ \E p \in Recoverers : Recover(p)
    \/ \E i \in Invocations : Environment(i)

Spec == Init /\ [][Next]_vars

\* The tokio runtime schedules every process; bodies return, so a worker that
\* executes goes on, but a wait need not have a deadline.  Deadlines pass.
Progress(w) ==
    \/ Claim(w)
    \/ phase[w] # "waiting" /\ Execute(w)
    \/ (WaitOver(w) \/ NoticeCancel(w)) /\ UNCHANGED misreads

Fairness ==
    /\ \A w \in Workers : WF_vars(Progress(w)) /\ WF_vars(WorkerFallsSilent(w) /\ UNCHANGED misreads)
    /\ \A w \in Responsive \intersect Workers : WF_vars(StartWorker(w) /\ UNCHANGED misreads)
    /\ \A p \in Recoverers : WF_vars(Recover(p))
    /\ \A i \in Invocations : WF_vars(StatusExpires(i) /\ UNCHANGED misreads)
                           /\ WF_vars(LeaseExpires(i) /\ UNCHANGED misreads)

FairSpec == Spec /\ Fairness

-----------------------------------------------------------------------------
(* Properties.                                                             *)

\* Each process is at a step of its code, with what that step holds.
TypeOK ==
    /\ phase \in [Workers -> WorkerPhases]
    /\ job \in [Workers -> Invocations \union {None}]
    /\ \A w \in Workers : (job[w] = None) <=> phase[w] \in Gone \union {Idle, "polling"}
    /\ identity \in [Workers -> Nat \union {NoAttempt}]
    /\ pass \in [Recoverers -> PassPhases]
    /\ target \in [Recoverers -> Targets \union {NoTarget}]
    /\ \A p \in Recoverers : (target[p] = NoTarget) <=> (pass[p] = Idle)
    /\ resuming \in [Recoverers -> BOOLEAN]
    /\ misreads \in 0 .. MaxMisreads

\* An invocation on record as Running by a live worker is the one that worker
\* is executing.  Otherwise its heartbeats would keep work nobody does from
\* ever being recovered (the reason worker_loop retires an id after an error).
LiveOwnerIsWorking ==
    \A i \in Invocations, w \in Workers :
        OwnsRunning(i, w) /\ phase[w] # "dead"
            => job[w] = i /\ phase[w] \in {"running", "executing", "waiting", "finishing"}

\* Two workers that execute the same invocation, one of them taken over
\* without knowing it, never run under the same attempt number.
AttemptsAreDistinct ==
    \A v, w \in Workers :
        v # w /\ job[v] # None /\ job[v] = job[w] /\ identity[v] # NoAttempt
            => identity[v] # identity[w]

\* The outcome a caller reads is there and is the only one: Failed has a stored
\* error, and no invocation has both a result and an error, unless a failed read
\* let one pass requeue what another is failing.
OutcomeIsComplete ==
    \A i \in Invocations :
        /\ Status(i) = "Failed" => error[i] # NoRunner
        /\ misreads = 0 => result[i] = NoRunner \/ error[i] = NoRunner

\* The recovery limit holds up to one stale decision per concurrent pass, as the
\* count is read before the commit that adds to it, and one per failed read.
RecoveriesAreBounded ==
    MaxRecoveries > 0 =>
        \A i \in Invocations :
            recoveries[i] <= MaxRecoveries + Cardinality(Recoverers) + misreads

\* Claimed or Running for a worker that has its task registered: what can come
\* to its body.
Runnable(i) == Status(i) \in {"Pending", "Running"} /\ Knows(record[i].owner, i)

\* An invocation that is claimed or runs under concurrency control holds one of
\* the limited slots, so no more than the limit execute at once.  A worker that
\* lacks the task claims without a slot, and fails the invocation before its
\* body (admit_candidate, dispatch.rs:110).
ClaimedHoldsSlot == \A i \in Controlled : Runnable(i) => i \in slots

\* No more bodies of a controlled key can be reached than running_concurrency.
RunnableWithinLimit == Cardinality({i \in Controlled : Runnable(i)}) <= Limit

\* At most running_concurrency invocations of the key run at a time
\* (docs/configuration/index.md:187).
RunningWithinLimit ==
    Cardinality({i \in Controlled : Status(i) = "Running"}) <= Limit

\* Recovery leaves alone what is not stale any more (maintenance.rs:35): the
\* work of a runner that heartbeats is not taken from it.
TakeOverNeedsStaleness ==
    [][\A i \in Invocations :
          Status(i) = "Running" /\ Status(i)' \in RecoveryStatuses => Stale(i)]_vars

\* Every step of the processes is a transaction of the store.
ImplementsStore == StoreSpec
=============================================================================
