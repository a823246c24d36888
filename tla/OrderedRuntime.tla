---------------------------- MODULE OrderedRuntime ----------------------------
(***************************************************************************)
(* The same workers, recovery passes and clients as in                     *)
(* TransactionalRuntime, on backends without a common transaction: the     *)
(* `else` branches of the orchestration, with the in-memory backends.      *)
(* Every write is a step of its own, a delivery is popped for good, and a  *)
(* process that dies between two writes leaves the second one undone.      *)
(***************************************************************************)
EXTENDS InvocationStatus, Naturals, FiniteSets

CONSTANTS
    Invocations,
    Workers,         \* RunnerIds of workers
    Recoverers,      \* RunnerIds of management loops that run recovery passes
    Client,          \* RunnerId of the submitting process
    Controlled,      \* invocations of the task under concurrency control
    Limit,           \* its running_concurrency
    RerouteOnCC,     \* those of them whose task has reroute_on_cc
    MaxRetries,      \* max_retries of the task of each invocation
    MaxRecoveries,   \* max_invocation_recoveries
    Cancellable,     \* invocations some user may cancel
    Awaited,         \* invocations some other invocation may wait for
    Unregistered,    \* pairs of a worker and an invocation whose task its process lacks
    Mortal,          \* processes that may die
    Silent           \* workers that may miss heartbeats although they go on

ASSUME OrderedAssumption ==
    /\ Runners = Workers \union Recoverers \union {Client}
    /\ Workers \intersect (Recoverers \union {Client}) = {}
    /\ "none" \notin Invocations
    /\ {Limit, MaxRecoveries} \subseteq Nat
    /\ MaxRetries \in [Invocations -> Nat]
    /\ RerouteOnCC \subseteq Controlled
    /\ Controlled \union Cancellable \union Awaited \subseteq Invocations
    /\ Unregistered \subseteq Workers \X Invocations
    /\ Mortal \subseteq Runners
    /\ Silent \subseteq Workers

VARIABLES
    record,       \* status record of each invocation
    old,          \* invocations whose status timestamp passed the stale threshold
    slots,        \* members of the concurrency key in cc_index
    ready, later, \* broker entries of each invocation: due, and still delayed
    waiters,      \* invocations with an entry in `waiters`
    result,       \* who stored the result, or NoRunner
    error,        \* who stored the error, or NoRunner
    retries,      \* retry counter of each invocation
    recoveries,   \* recovery entries of the history
    expired,      \* workers whose heartbeat is too old
    submission,   \* how far the submission of each invocation got
    phase,        \* where each worker is
    job,          \* the invocation it carries
    tries,        \* the retries it read from the history
    pass,         \* where each recovery pass is
    target,       \* its candidate: invocation and recovery status
    orphans       \* invocations whose delivery died with a process

control   == <<record, old, slots>>
queue     == <<ready, later>>
payload   == <<result, error>>
history   == <<retries, recoveries>>
worker    == <<phase, job, tries>>
passes    == <<pass, target>>
vars      == <<control, queue, waiters, payload, history, expired, submission, worker, passes, orphans>>

None == "none"

WorkerPhases ==
    {"idle", "polling", "candidate", "denied", "controlled", "rerouted", "admitted", "lost",
     "claimed", "running", "executing", "stored", "erred", "unslotted", "retried", "counted",
     "finished", "rejected", "releasing", "dead"}

\* The worker holds the only delivery of its job, or owes it one.
CarryingPhases ==
    {"candidate", "denied", "controlled", "rerouted", "admitted", "retried", "counted"}

PassPhases ==
    {"idle", "listed", "mark", "marked", "requeue", "route",
     "limit", "limited", "error", "fail", "failed"}

Targets == [inv : Invocations, status : RecoveryStatuses]
NoTarget == [inv |-> None, status |-> None]

Status(i) == record[i].status

Init ==
    /\ record = [i \in Invocations |-> Absent]
    /\ old = {} /\ slots = {} /\ waiters = {} /\ expired = {} /\ orphans = {}
    /\ ready = [i \in Invocations |-> 0]
    /\ later = [i \in Invocations |-> 0]
    /\ result = [i \in Invocations |-> NoRunner]
    /\ error = [i \in Invocations |-> NoRunner]
    /\ retries = [i \in Invocations |-> 0]
    /\ recoveries = [i \in Invocations |-> 0]
    /\ submission = [i \in Invocations |-> "new"]
    /\ phase = [w \in Workers |-> "idle"]
    /\ job = [w \in Workers |-> None]
    /\ tries = [w \in Workers |-> 0]
    /\ pass = [p \in Recoverers |-> "idle"]
    /\ target = [p \in Recoverers |-> NoTarget]

-----------------------------------------------------------------------------
(* Single writes of the backends.                                          *)

\* Mutant: the stored record is not looked at again under the lock.
BlindSetStatus(i, status, runner) ==
    /\ Status(i) # NoRecord
    /\ ValidOwnership(record[i], status, runner)
    /\ record' = [record EXCEPT ![i] = Transitioned(@, status, runner)]
    /\ old' = old \ {i}
    /\ slots' = IF status \in Final THEN slots \ {i} ELSE slots

\* set_invocation_status; a terminal status also leaves the concurrency index.
SetStatus(i, status, runner) ==
    /\ CanTransition(record[i], status, runner)
    /\ record' = [record EXCEPT ![i] = Transitioned(@, status, runner)]
    /\ old' = old \ {i}
    /\ slots' = IF status \in Final THEN slots \ {i} ELSE slots

Refused(i, status, runner) ==
    /\ ~CanTransition(record[i], status, runner)
    /\ UNCHANGED control

RemoveFromIndex(i) ==
    /\ slots' = slots \ {i}
    /\ UNCHANGED <<record, old>>

Push(i) == ready' = [ready EXCEPT ![i] = @ + 1] /\ UNCHANGED later
PushLater(i) == later' = [later EXCEPT ![i] = @ + 1] /\ UNCHANGED ready

\* Mutant: off by one.
SlotFreeAtLimit(i) == Cardinality(slots \ {i}) <= Limit

SlotFree(i) == Cardinality(slots \ {i}) < Limit

Goto(w, where) ==
    /\ phase' = [phase EXCEPT ![w] = where]
    /\ UNCHANGED <<job, tries>>

\* Mutant: a worker that is done keeps its invocation.
KeepJob(w, where) ==
    /\ phase' = [phase EXCEPT ![w] = where]
    /\ UNCHANGED <<job, tries>>

Drop(w, where) ==
    /\ phase' = [phase EXCEPT ![w] = where]
    /\ job' = [job EXCEPT ![w] = None]
    /\ tries' = [tries EXCEPT ![w] = 0]

Hold(w, i) ==
    /\ phase' = [phase EXCEPT ![w] = "candidate"]
    /\ job' = [job EXCEPT ![w] = i]
    /\ UNCHANGED tries

-----------------------------------------------------------------------------
(* claim_next and admit_candidate                                          *)

\* Everything in `waiters` that may run; Retry included.
Blocking(i) == i \in waiters /\ Status(i) \in AvailableForRun

ClaimBlocking(w, i) ==
    /\ phase[w] = "idle"
    /\ Blocking(i)
    /\ Hold(w, i)
    /\ UNCHANGED <<control, queue>>

NothingBlocking(w) ==
    /\ phase[w] = "idle"
    /\ \A i \in Invocations : ~Blocking(i)
    /\ Goto(w, "polling")
    /\ UNCHANGED <<control, queue>>

Pop(w, i) ==
    /\ phase[w] = "polling"
    /\ ready[i] > 0
    /\ ready' = [ready EXCEPT ![i] = @ - 1]
    /\ Hold(w, i)
    /\ UNCHANGED <<control, later>>

QueuesEmpty(w) ==
    /\ phase[w] = "polling"
    /\ \A i \in Invocations : ready[i] = 0
    /\ Goto(w, "idle")
    /\ UNCHANGED <<control, queue>>

\* The worker's process has the task of i.
Knows(w, i) == <<w, i>> \notin Unregistered

\* Without a slot: an uncontrolled task, one this process lacks, or a read of
\* the invocation or its call that fails.
Admit(w) ==
    /\ phase[w] = "candidate"
    /\ \/ Goto(w, "admitted") /\ UNCHANGED control
       \/ /\ job[w] \in Controlled /\ Knows(w, job[w])
          /\ SlotFree(job[w])
          /\ slots' = slots \union {job[w]}
          /\ Goto(w, "admitted")
          /\ UNCHANGED <<record, old>>
       \/ /\ job[w] \in Controlled /\ Knows(w, job[w])
          /\ ~SlotFree(job[w])
          /\ Goto(w, "denied")
          /\ UNCHANGED control
    /\ UNCHANGED queue

\* A refusal by the status machine is ignored, and the popped entry is gone.
Reject(w) ==
    /\ phase[w] = "denied"
    /\ IF job[w] \in RerouteOnCC
       THEN \/ SetStatus(job[w], "ConcurrencyControlled", NoRunner) /\ Goto(w, "controlled")
            \/ /\ Refused(job[w], "ConcurrencyControlled", NoRunner)
               /\ Drop(w, "polling") \/ Drop(w, "idle")
       ELSE /\ \/ SetStatus(job[w], "ConcurrencyControlledFinal", NoRunner)
               \/ Refused(job[w], "ConcurrencyControlledFinal", NoRunner)
            /\ Drop(w, "polling") \/ Drop(w, "idle")
    /\ UNCHANGED queue

\* Mutant: the status is taken for the delivery.
RerouteUnrouted(w) ==
    /\ phase[w] = "controlled"
    /\ SetStatus(job[w], "Rerouted", NoRunner) \/ Refused(job[w], "Rerouted", NoRunner)
    /\ Drop(w, "idle")
    /\ UNCHANGED queue

RerouteDenied(w) ==
    /\ phase[w] = "controlled"
    /\ \/ SetStatus(job[w], "Rerouted", NoRunner) /\ Goto(w, "rerouted")
       \/ Refused(job[w], "Rerouted", NoRunner) /\ Drop(w, "dead")
    /\ UNCHANGED queue

RouteDenied(w) ==
    /\ phase[w] = "rerouted"
    /\ Push(job[w])
    /\ Drop(w, "polling") \/ Drop(w, "idle")
    /\ UNCHANGED control

-----------------------------------------------------------------------------
(* execute_invocation_common                                               *)

ClaimPending(w) ==
    /\ phase[w] = "admitted"
    /\ \/ SetStatus(job[w], "Pending", w) /\ Goto(w, "claimed")
       \/ Refused(job[w], "Pending", w) /\ Goto(w, "lost")
    /\ UNCHANGED queue

\* Mutant: who lost the claim keeps the slot.
KeepLost(w) ==
    /\ phase[w] \in {"lost", "releasing"}
    /\ Drop(w, "idle")
    /\ UNCHANGED <<control, queue>>

\* The loser of a claim race takes the invocation out of the index.
ReleaseLost(w) ==
    /\ phase[w] \in {"lost", "releasing"}
    /\ RemoveFromIndex(job[w])
    /\ Drop(w, "idle")
    /\ UNCHANGED queue

StartRunning(w) ==
    /\ phase[w] = "claimed"
    /\ \/ SetStatus(job[w], "Running", w) /\ Goto(w, "running")
       \/ Refused(job[w], "Running", w) /\ Drop(w, "dead")
    /\ UNCHANGED queue

Begin(w) ==
    /\ phase[w] = "running" /\ Knows(w, job[w])
    /\ tries' = [tries EXCEPT ![w] = retries[job[w]]]
    /\ phase' = [phase EXCEPT ![w] = "executing"]
    /\ UNCHANGED <<job, control, queue>>

\* Mutant: the status is written before the payload.
StoreOutcomeLater(w) ==
    /\ phase[w] = "executing"
    /\ Goto(w, "stored") \/ Goto(w, "erred")
    /\ UNCHANGED <<control, queue, payload>>

\* store_result or store_error: no check of the owner.  An error may be one not
\* to be retried (its type, a timeout), or a task this process does not have.
StoreOutcome(w) ==
    /\ \/ /\ phase[w] = "executing"
          /\ result' = [result EXCEPT ![job[w]] = w]
          /\ Goto(w, "stored")
          /\ UNCHANGED error
       \/ /\ phase[w] = "executing" \/ (phase[w] = "running" /\ ~Knows(w, job[w]))
          /\ error' = [error EXCEPT ![job[w]] = w]
          /\ Goto(w, "erred")
          /\ UNCHANGED result
    /\ UNCHANGED <<control, queue>>

Complete(w) ==
    LET status == IF phase[w] = "stored" THEN "Success" ELSE "Failed"
    IN  /\ phase[w] \in {"stored", "erred"}
        /\ \/ SetStatus(job[w], status, w) /\ Goto(w, "finished")
           \/ Refused(job[w], status, w) /\ Goto(w, "rejected")
        /\ UNCHANGED queue

\* release_waiters, history, and the slot once more.
Finish(w) ==
    /\ phase[w] = "finished"
    /\ waiters' = waiters \ {job[w]}
    /\ RemoveFromIndex(job[w])
    /\ Drop(w, "idle")
    /\ UNCHANGED queue

\* The slot is released before the Retry status is written.
ReleaseForRetry(w) ==
    /\ phase[w] = "executing"
    /\ tries[w] < MaxRetries[job[w]]
    /\ RemoveFromIndex(job[w])
    /\ Goto(w, "unslotted")
    /\ UNCHANGED queue

WriteRetry(w) ==
    /\ phase[w] = "unslotted"
    /\ \/ SetStatus(job[w], "Retry", w) /\ Goto(w, "retried")
       \/ Refused(job[w], "Retry", w) /\ Goto(w, "rejected")
    /\ UNCHANGED queue

CountRetry(w) ==
    /\ phase[w] = "retried"
    /\ retries' = [retries EXCEPT ![job[w]] = @ + 1]
    /\ Goto(w, "counted")
    /\ UNCHANGED <<control, queue, recoveries>>

RouteRetry(w) ==
    /\ phase[w] = "counted"
    /\ Push(job[w]) \/ PushLater(job[w])
    /\ Drop(w, "idle")
    /\ UNCHANGED control

\* discarded_outcome: keep the slot for a worker that runs the copy, give up
\* when the invocation is still ours, release it otherwise.
Discard(w) ==
    LET held == Status(job[w]) \in {"Pending", "Running"}
    IN  /\ phase[w] = "rejected"
        /\ IF held THEN Drop(w, IF record[job[w]].owner = w THEN "dead" ELSE "idle")
           ELSE Goto(w, "releasing")
        /\ UNCHANGED <<control, queue>>

NoticeCancel(w) ==
    /\ phase[w] = "executing"
    /\ Status(job[w]) = "Cancelled"
    /\ Goto(w, "releasing")
    /\ UNCHANGED <<control, queue>>

Die(w) ==
    /\ phase[w] # "dead"
    /\ orphans' = orphans \union (IF phase[w] \in CarryingPhases THEN {job[w]} ELSE {})
    /\ Drop(w, "dead")
    /\ UNCHANGED <<control, queue>>

-----------------------------------------------------------------------------
(* recover_stale_invocations and recover_one, one candidate at a time      *)

Stale(i) ==
    \/ Status(i) = "Pending" /\ i \in old
    \/ Status(i) = "Running" /\ record[i].owner \in expired

RecoveryStatusOf(i) ==
    IF Status(i) \in RecoveryStatuses THEN Status(i)
    ELSE IF Status(i) = "Pending" THEN "PendingRecovery" ELSE "RunningRecovery"

PassGoto(p, where) == pass' = [pass EXCEPT ![p] = where] /\ UNCHANGED target

EndPass(p) ==
    /\ pass' = [pass EXCEPT ![p] = "idle"]
    /\ target' = [target EXCEPT ![p] = NoTarget]

List(p, i) ==
    /\ pass[p] = "idle"
    /\ Stale(i) \/ (Status(i) \in RecoveryStatuses /\ i \in old)
    /\ pass' = [pass EXCEPT ![p] = "listed"]
    /\ target' = [target EXCEPT ![p] = [inv |-> i, status |-> RecoveryStatusOf(i)]]
    /\ UNCHANGED <<control, queue>>

\* The status and the recoveries in the history decide; a limit of 0 is none.
Decide(p) ==
    LET i        == target[p].inv
        resuming == Status(i) \in RecoveryStatuses
        attempts == IF resuming THEN recoveries[i] ELSE recoveries[i] + 1
        over     == MaxRecoveries > 0 /\ attempts > MaxRecoveries
    IN  /\ pass[p] = "listed"
        /\ PassGoto(p, CASE over /\ resuming  -> "error"
                         [] over /\ ~resuming -> "limit"
                         [] ~over /\ resuming -> "requeue"
                         [] OTHER             -> "mark")
        /\ UNCHANGED <<control, queue>>

\* The recovery status is written without asking again whether it is stale.
Mark(p) ==
    /\ pass[p] \in {"mark", "limit"}
    /\ \/ /\ SetStatus(target[p].inv, target[p].status, p)
          /\ PassGoto(p, IF pass[p] = "mark" THEN "marked" ELSE "limited")
       \/ Refused(target[p].inv, target[p].status, p) /\ EndPass(p)
    /\ UNCHANGED queue

CountRecovery(p) ==
    /\ pass[p] \in {"marked", "limited"}
    /\ recoveries' = [recoveries EXCEPT ![target[p].inv] = @ + 1]
    /\ PassGoto(p, IF pass[p] = "marked" THEN "requeue" ELSE "error")
    /\ UNCHANGED <<control, queue, retries>>

Requeue(p) ==
    /\ pass[p] = "requeue"
    /\ \/ SetStatus(target[p].inv, "Rerouted", p) /\ PassGoto(p, "route")
       \/ Refused(target[p].inv, "Rerouted", p) /\ EndPass(p)
    /\ UNCHANGED queue

\* Mutant: the status alone is taken for a requeue.
RouteNothing(p) ==
    /\ pass[p] = "route"
    /\ EndPass(p)
    /\ UNCHANGED <<control, queue>>

Route(p) ==
    /\ pass[p] = "route"
    /\ Push(target[p].inv)
    /\ EndPass(p)
    /\ UNCHANGED control

StoreLimitError(p) ==
    /\ pass[p] = "error"
    /\ error' = [error EXCEPT ![target[p].inv] = p]
    /\ PassGoto(p, "fail")
    /\ UNCHANGED <<control, queue, result>>

FailAtLimit(p) ==
    /\ pass[p] = "fail"
    /\ \/ SetStatus(target[p].inv, "Failed", p) /\ PassGoto(p, "failed")
       \/ Refused(target[p].inv, "Failed", p) /\ EndPass(p)
    /\ UNCHANGED queue

ReleaseFailed(p) ==
    /\ pass[p] = "failed"
    /\ waiters' = waiters \ {target[p].inv}
    /\ EndPass(p)
    /\ UNCHANGED <<control, queue>>

\* The process of the pass dies, and another one takes its place.
AbandonPass(p) ==
    /\ pass[p] # "idle"
    /\ orphans' = orphans \union (IF pass[p] = "route" THEN {target[p].inv} ELSE {})
    /\ EndPass(p)
    /\ UNCHANGED <<control, queue>>

-----------------------------------------------------------------------------
(* Clients, waiting invocations, and time                                  *)

\* register_invocation_with_id, then the route after the other writes.
Register(i) ==
    /\ submission[i] = "new"
    /\ record' = [record EXCEPT ![i] = [status |-> "Registered", owner |-> Client]]
    /\ submission' = [submission EXCEPT ![i] = "registered"]
    /\ UNCHANGED <<old, slots, queue>>

RouteSubmitted(i) ==
    /\ submission[i] = "registered"
    /\ Push(i)
    /\ submission' = [submission EXCEPT ![i] = "done"]
    /\ UNCHANGED control

ClientDies(i) ==
    /\ submission[i] = "registered"
    /\ submission' = [submission EXCEPT ![i] = "done"]
    /\ orphans' = orphans \union {i}
    /\ UNCHANGED <<control, queue>>

\* cancel_invocation; the slot is gone with the terminal status.
Cancel(i) ==
    /\ i \in Cancellable
    /\ Status(i) \notin Final
    /\ SetStatus(i, "Cancelled", Client)
    /\ waiters' = waiters \ {i}
    /\ UNCHANGED queue

\* set_waiting_for by an invocation that is not modelled; a repeated wait on a
\* finished invocation returns at once.
Await(i) ==
    /\ i \in Awaited \ waiters
    /\ submission[i] = "done"
    /\ Status(i) \notin Final
    /\ waiters' = waiters \union {i}
    /\ UNCHANGED <<control, queue>>

DelayEnds(i) ==
    /\ later[i] > 0
    /\ later' = [later EXCEPT ![i] = @ - 1]
    /\ ready' = [ready EXCEPT ![i] = @ + 1]
    /\ UNCHANGED control

StatusAges(i) ==
    /\ i \notin old
    /\ \/ Status(i) \in RecoveryStatuses
       \/ Status(i) = "Pending" /\ \/ record[i].owner \in Silent
                                   \/ record[i].owner \in Workers /\ phase[record[i].owner] = "dead"
    /\ old' = old \union {i}
    /\ UNCHANGED <<record, slots, queue>>

HeartbeatExpires(w) ==
    /\ w \notin expired
    /\ w \in Silent \/ phase[w] = "dead"
    /\ expired' = expired \union {w}
    /\ UNCHANGED <<control, queue>>

Heartbeat(w) ==
    /\ w \in expired
    /\ phase[w] # "dead"
    /\ expired' = expired \ {w}
    /\ UNCHANGED <<control, queue>>

-----------------------------------------------------------------------------

Claim(w) ==
    /\ \/ \E i \in Invocations : ClaimBlocking(w, i) \/ Pop(w, i)
       \/ NothingBlocking(w)
       \/ QueuesEmpty(w)
       \/ Admit(w)
       \/ Reject(w)
       \/ RerouteDenied(w)
       \/ RouteDenied(w)
    /\ UNCHANGED <<waiters, payload, history>>

Execute(w) ==
    \/ /\ \/ ClaimPending(w) \/ ReleaseLost(w) \/ StartRunning(w) \/ Begin(w)
          \/ Complete(w) \/ ReleaseForRetry(w) \/ WriteRetry(w) \/ RouteRetry(w)
          \/ Discard(w) \/ NoticeCancel(w)
       /\ UNCHANGED <<waiters, payload, history>>
    \/ StoreOutcome(w) /\ UNCHANGED <<waiters, history>>
    \/ Finish(w) /\ UNCHANGED <<payload, history>>
    \/ CountRetry(w) /\ UNCHANGED <<waiters, payload>>

Work(w) == (Claim(w) \/ Execute(w)) /\ UNCHANGED <<expired, submission, passes, orphans>>

Recover(p) ==
    /\ \/ /\ \/ \E i \in Invocations : List(p, i)
             \/ Decide(p) \/ Mark(p) \/ Requeue(p) \/ Route(p) \/ FailAtLimit(p)
          /\ UNCHANGED <<waiters, payload, history>>
       \/ CountRecovery(p) /\ UNCHANGED <<waiters, payload>>
       \/ StoreLimitError(p) /\ UNCHANGED <<waiters, history>>
       \/ ReleaseFailed(p) /\ UNCHANGED <<payload, history>>
    /\ UNCHANGED <<worker, expired, submission, orphans>>

\* A process dies.
Fault(r) ==
    /\ \/ r \in Workers /\ Die(r) /\ UNCHANGED <<submission, passes>>
       \/ r \in Recoverers /\ AbandonPass(r) /\ UNCHANGED <<submission, worker>>
       \/ /\ r = Client
          /\ \E i \in Invocations : ClientDies(i)
          /\ UNCHANGED <<worker, passes>>
    /\ UNCHANGED <<waiters, payload, history, expired>>

Pulse(w) ==
    /\ HeartbeatExpires(w) \/ Heartbeat(w)
    /\ UNCHANGED <<waiters, payload, history, submission, worker, passes, orphans>>

Submit(i) ==
    /\ Register(i) \/ RouteSubmitted(i)
    /\ UNCHANGED <<waiters, payload, history, expired, worker, passes, orphans>>

Time(i) ==
    /\ DelayEnds(i) \/ StatusAges(i)
    /\ UNCHANGED <<waiters, payload, history, expired, submission, worker, passes, orphans>>

Environment(i) ==
    /\ Cancel(i) \/ Await(i)
    /\ UNCHANGED <<payload, history, expired, submission, worker, passes, orphans>>

Next ==
    \/ \E w \in Workers : Work(w) \/ Pulse(w)
    \/ \E p \in Recoverers : Recover(p)
    \/ \E i \in Invocations : Submit(i) \/ Time(i) \/ Environment(i)
    \/ \E r \in Mortal : Fault(r)

Spec == Init /\ [][Next]_vars

\* An entry leaves the deque after those in front of it (equal priorities).
InTurn(i) == \E w \in Workers : Work(w) /\ ready'[i] < ready[i]

\* The tokio runtime schedules every process, bodies return, deadlines pass.
Fairness ==
    /\ \A w \in Workers : WF_vars(Work(w)) /\ WF_vars(phase[w] = "dead" /\ Pulse(w))
    /\ \A p \in Recoverers : WF_vars(Recover(p))
    /\ \A i \in Invocations : /\ WF_vars(submission[i] # "new" /\ Submit(i))
                              /\ WF_vars(Time(i))
                              /\ SF_vars(InTurn(i))

FairSpec == Spec /\ Fairness

-----------------------------------------------------------------------------
(* Properties                                                              *)

\* Each process is at a step of its code and carries what that step needs.
TypeOK ==
    /\ record \in [Invocations -> StatusRecords]
    /\ old \subseteq Invocations
    /\ slots \subseteq Controlled
    /\ {ready, later, retries, recoveries} \subseteq [Invocations -> Nat]
    /\ waiters \subseteq Awaited
    /\ {result, error} \subseteq [Invocations -> Owners]
    /\ expired \subseteq Workers
    /\ submission \in [Invocations -> {"new", "registered", "done"}]
    /\ phase \in [Workers -> WorkerPhases]
    /\ job \in [Workers -> Invocations \union {None}]
    /\ \A w \in Workers : (job[w] = None) <=> phase[w] \in {"idle", "polling", "dead"}
    /\ tries \in [Workers -> Nat]
    /\ pass \in [Recoverers -> PassPhases]
    /\ target \in [Recoverers -> Targets \union {NoTarget}]
    /\ \A p \in Recoverers : (target[p] = NoTarget) <=> (pass[p] = "idle")
    /\ orphans \subseteq Invocations

\* A caller that sees Success or Failed finds the payload: every path stores it
\* before it writes the status, also when both are written by different workers.
OutcomeIsStored ==
    \A i \in Invocations :
        /\ Status(i) = "Success" => result[i] # NoRunner
        /\ Status(i) = "Failed" => error[i] # NoRunner

\* Some process holds the delivery of i, or is on its way to queue it.
Carried(i) ==
    \/ submission[i] = "registered"
    \/ \E w \in Workers : job[w] = i /\ phase[w] \in CarryingPhases
    \/ \E p \in Recoverers : target[p].inv = i /\ pass[p] = "route"

Queued(i) == ready[i] + later[i] > 0

\* A denial that the status machine refuses: from Retry there is no way back to
\* the queue, and a task without reroute_on_cc ends only what is Registered.
Irrevocable(i) ==
    /\ i \in Controlled
    /\ Status(i) = "Retry" \/ (Status(i) = "Rerouted" /\ i \notin RerouteOnCC)

\* What may run is queued or in the hands of a process that goes on.  Only the
\* death of a process between two of its writes can strand it (a popped entry,
\* a Retry or Rerouted without its route, a registration without one), or the
\* denial of a slot when the status machine refuses the status it is to get.
StrandedOnlyByDeath ==
    \A i \in Invocations :
        Status(i) \in AvailableForRun \union {"ConcurrencyControlled"}
            => Queued(i) \/ Carried(i) \/ i \in orphans \/ Irrevocable(i)

\* "Reroute when hitting concurrency limits" (docs/architecture.md:438): an
\* invocation of such a task is denied its slot and is queued again.
DenialReroutes ==
    \A i \in RerouteOnCC :
        Status(i) \in AvailableForRun => Queued(i) \/ Carried(i) \/ i \in orphans

\* No slot is lost to the limit: the index names an invocation that is over, or
\* waits for its retry, only while a worker admitted it and has not found out
\* that there is nothing to claim.  A worker that stops at that point leaks it.
SlotsAreGivenBack ==
    \A i \in slots :
        Status(i) \in Final \union {"Registered", "Retry"} =>
            \E w \in Workers : \/ job[w] = i /\ phase[w] \in {"admitted", "lost"}
                               \/ phase[w] = "dead"

\* Each write of the ordered path is a step of the status machine.
Life == INSTANCE Lifecycle WITH record <- record, Invocations <- Invocations

ImplementsLifecycle == Life!Spec
=============================================================================
