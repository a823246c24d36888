------------------------ MODULE RuntimeWorkerProofs ------------------------
(***************************************************************************)
(* What the workers of TransactionalRuntime guarantee, for every number of *)
(* them: a live worker is executing what it owns, two workers never        *)
(* execute one invocation under the same attempt number, and what runs     *)
(* under concurrency control holds a slot.                                 *)
(***************************************************************************)
EXTENDS RuntimeProofs

\* First-order reasoning throughout; leaves beyond it ask for SMT.
USE Zenon

-----------------------------------------------------------------------------
(* A live worker is executing what it owns.                                *)

Working == {"running", "executing", "waiting", "finishing"}

Owns(i, w) == record[i].owner = w /\ Status(i) \in {"Pending", "Running"}

\* The strengthening of LiveOwnerIsWorking: it also covers the claim.
OwnerHolds ==
    \A i \in Invocations, w \in Workers :
        Owns(i, w) /\ phase[w] # "dead"
            => /\ job[w] = i
               /\ IF Status(i) = "Pending" THEN phase[w] = "pending" ELSE phase[w] \in Working

\* No record becomes Pending or Running in this step.
Quiet ==
    \A i \in Invocations : record'[i] = record[i] \/ record'[i].status \notin {"Pending", "Running"}

LEMMA QuietWrite ==
    ASSUME StoreTypeOK, NEW i \in Invocations, NEW new, WriteRecord(i, new),
           new.status \notin {"Pending", "Running"}
    PROVE  Quiet
  BY DEF StoreTypeOK, WriteRecord, Quiet

LEMMA QuietUnchanged == UNCHANGED record \/ UNCHANGED storeVars => Quiet
  BY DEF storeVars, Quiet

LEMMA QuietStatus ==
    ASSUME StoreTypeOK, NEW i \in Invocations, NEW status, NEW runner,
           status \notin {"Pending", "Running"}, ChangeStatus(i, status, runner)
    PROVE  Quiet
  BY QuietWrite, TransitionedStatus DEF ChangeStatus

\* The store's commits that are neither a claim nor a start.
LEMMA QuietCommits ==
    ASSUME StoreTypeOK, NEW i \in Invocations, NEW runner
    PROVE  /\ ChangeReroute(i, runner) => Quiet
           /\ ChangeConcurrencyReroute(i, runner) => Quiet
           /\ \A status : ChangeRecover(i, status, runner) => Quiet
           /\ SetControlledFinal(i) => Quiet
           /\ Submit(i, runner) => Quiet
  <1>1. ChangeReroute(i, runner) => Quiet
    BY SMT, QuietWrite, TransitionedStatus DEF ChangeReroute
  <1>2. ChangeConcurrencyReroute(i, runner) => Quiet
    BY SMT, QuietWrite, TransitionedStatus DEF ChangeConcurrencyReroute
  <1>3. \A status : ChangeRecover(i, status, runner) => Quiet
    BY SMT, QuietWrite, TransitionedStatus DEF ChangeRecover
  <1>4. SetControlledFinal(i) => Quiet
    BY SMT, QuietWrite, TransitionedStatus DEF SetControlledFinal
  <1>5. Submit(i, runner) => Quiet
    BY QuietWrite DEF Submit
  <1> QED
    BY <1>1, <1>2, <1>3, <1>4, <1>5

\* Without a new claim, ownership stays in order when every worker stays where
\* it is, goes on with its body, retires, or owns nothing afterwards.
LEMMA QuietStep ==
    ASSUME OwnerHolds, Quiet,
           \A w \in Workers :
              \/ phase'[w] = phase[w] /\ job'[w] = job[w]
              \/ phase[w] \in Working /\ phase'[w] \in Working /\ job'[w] = job[w]
              \/ phase'[w] = "dead"
              \/ \A i \in Invocations : ~Owns(i, w)'
    PROVE  OwnerHolds'
  <1> SUFFICES ASSUME NEW i \in Invocations, NEW w \in Workers, Owns(i, w)', phase'[w] # "dead"
               PROVE  /\ job'[w] = i
                      /\ IF Status(i)' = "Pending" THEN phase'[w] = "pending"
                                                   ELSE phase'[w] \in Working
    BY DEF OwnerHolds
  <1>1. record'[i] = record[i]
    BY DEF Quiet, Owns, Status
  <1>2. Owns(i, w) /\ Status(i)' = Status(i)
    BY <1>1 DEF Owns, Status
  <1>3. phase[w] # "dead"
    BY DEF Working
  <1>4. job[w] = i /\ IF Status(i) = "Pending" THEN phase[w] = "pending" ELSE phase[w] \in Working
    BY <1>2, <1>3 DEF OwnerHolds
  <1> QED
    BY <1>2, <1>4 DEF Working

\* A worker outside claim and body owns nothing.
LEMMA QuietElsewhere ==
    ASSUME OwnerHolds, Quiet, UNCHANGED workerVars
    PROVE  OwnerHolds'
  BY QuietStep DEF workerVars

LEMMA FreeOwnsNothing ==
    ASSUME OwnerHolds, Quiet, NEW w \in Workers,
           phase[w] \notin Working \union {"pending", "dead"}
    PROVE  \A i \in Invocations : ~Owns(i, w)'
  BY DEF OwnerHolds, Quiet, Owns, Status

LEMMA ClaimOwner ==
    ASSUME TypeOK, StoreTypeOK, OwnerHolds, NEW w \in Workers, Claim(w)
    PROVE  OwnerHolds'
  <1>1. phase[w] \notin Working \union {"pending", "dead"}
    BY ClaimMoves DEF Working
  <1>2. Quiet
    <2>1. CASE NothingBlocking(w) \/ Admit(w) \/ QueuesEmpty(w)
      BY <2>1, QuietUnchanged DEF NothingBlocking, Admit, AcquireSlot, QueuesEmpty, PollEmpty
    <2>2. CASE \E i \in Invocations : ClaimBlocking(w, i) \/ ClaimQueued(w, i)
      BY <2>2, QuietUnchanged DEF ClaimBlocking, ClaimQueued, Reserve
    <2>3. CASE Reject(w)
      <3>1. job[w] \in Invocations
        BY <2>3, Holding DEF Reject, Free
      <3> QED
        BY <2>3, <3>1, QuietUnchanged, QuietCommits DEF Reject
    <2> QED
      BY <2>1, <2>2, <2>3 DEF Claim
  <1>3. \A v \in Workers \ {w} : phase'[v] = phase[v] /\ job'[v] = job[v]
    <2>1. ASSUME NEW i \in Invocations, Hold(w, i)
          PROVE  \A v \in Workers \ {w} : phase'[v] = phase[v] /\ job'[v] = job[v]
      BY <2>1 DEF Hold, TypeOK
    <2> QED
      BY <2>1, ClaimMoves, OneWorkerMoves
  <1> QED
    BY <1>1, <1>2, <1>3, FreeOwnsNothing, QuietStep

LEMMA LiveOwner ==
    ASSUME TypeOK, OwnerHolds, NEW w \in Workers, Live(w)
    PROVE  OwnerHolds'
  <1>1. Quiet
    BY QuietUnchanged DEF Live, StartWorker, Retire, Heartbeat, WorkerFallsSilent,
                          RegisterHeartbeat, HeartbeatExpires
  <1>2. CASE Heartbeat(w) \/ WorkerFallsSilent(w)
    BY <1>1, <1>2, QuietStep DEF Heartbeat, WorkerFallsSilent, workerVars
  <1>3. CASE StartWorker(w)
    <2>1. phase[w] \notin Working \union {"pending", "dead"}
      BY <1>3 DEF StartWorker, Working
    <2>2. \A v \in Workers \ {w} : phase'[v] = phase[v] /\ job'[v] = job[v]
      BY <1>3, OneWorkerMoves DEF StartWorker
    <2> QED
      BY <1>1, <2>1, <2>2, FreeOwnsNothing, QuietStep
  <1>4. CASE Retire(w)
    <2>1. /\ phase'[w] = "dead"
          /\ \A v \in Workers \ {w} : phase'[v] = phase[v] /\ job'[v] = job[v]
      BY <1>4, OneWorkerMoves DEF Retire
    <2> QED
      BY <1>1, <2>1, QuietStep
  <1> QED
    BY <1>2, <1>3, <1>4 DEF Live

LEMMA RecoverOwner ==
    ASSUME TypeOK, StoreTypeOK, OwnerHolds, NEW p \in Recoverers, Recover(p)
    PROVE  OwnerHolds'
  <1>1. pass[p] # "idle" => /\ target[p].inv \in Invocations
                            /\ target[p].status \notin {"Pending", "Running"}
    BY DEF TypeOK, Targets, RecoveryStatuses, Idle
  <1>2. UNCHANGED workerVars
    BY OthersMove
  <1>3. CASE Requeue(p)
    <2>1. /\ pass[p] # "idle"
          /\ \/ ChangeReroute(target[p].inv, p)
             \/ ChangeRecover(target[p].inv, target[p].status, p)
             \/ UNCHANGED storeVars
      BY <1>3 DEF Requeue
    <2> QED
      BY <1>1, <1>2, <2>1, QuietUnchanged, QuietCommits, QuietElsewhere
  <1>4. CASE TakeOver(p)
    <2>1. /\ pass[p] # "idle"
          /\ \/ ChangeStatus(target[p].inv, target[p].status, p)
             \/ UNCHANGED storeVars
      BY <1>4 DEF TakeOver
    <2> QED
      BY <1>1, <1>2, <2>1, QuietUnchanged, QuietStatus, QuietElsewhere
  <1>5. CASE FailAtLimit(p)
    <2>1. /\ pass[p] # "idle"
          /\ \/ ChangeStatus(target[p].inv, "Failed", p)
             \/ UNCHANGED storeVars
      BY <1>5 DEF FailAtLimit
    <2> QED
      BY SMT, <1>1, <1>2, <2>1, QuietUnchanged, QuietStatus, QuietElsewhere
  <1>6. CASE ~(Requeue(p) \/ TakeOver(p) \/ FailAtLimit(p))
    <2>1. UNCHANGED record \/ UNCHANGED storeVars
      BY <1>6 DEF Recover, ReadHistory, ListCandidate, ReadStatus, AbandonPass,
                  StoreLimitError, StoreError
    <2> QED
      BY <1>2, <2>1, QuietUnchanged, QuietElsewhere
  <1> QED
    BY <1>3, <1>4, <1>5, <1>6

LEMMA EnvironmentOwner ==
    ASSUME TypeOK, StoreTypeOK, OwnerHolds, NEW i \in Invocations, Environment(i)
    PROVE  OwnerHolds'
  <1>1. Quiet
    BY QuietUnchanged, QuietCommits, QuietStatus
       DEF Environment, ClientSubmit, ClientCancel, StatusExpires, StatusAges, LeaseExpires,
           ReservationExpires
  <1> QED
    BY <1>1, QuietElsewhere, OthersMove

\* The claim: Pending names the worker that wrote it.
LEMMA ClaimPendingOwner ==
    ASSUME TypeOK, StoreTypeOK, OwnerHolds, NEW w \in Workers, ClaimPending(w)
    PROVE  OwnerHolds'
  <1>1. phase[w] = "admitted" /\ job[w] \in Invocations
    BY Holding DEF ClaimPending, Free
  <1>2. CASE ChangeStatus(job[w], "Pending", w) /\ Goto(w, "pending")
    <2>1. /\ record' = [record EXCEPT ![job[w]] = [status |-> "Pending", owner |-> w]]
      BY <1>2 DEF ChangeStatus, WriteRecord, Transitioned, ComputeNewOwner, ReleasesOwnership,
                  AcquiresOwnership, Final, AvailableForRun, RecoveryStatuses
    <2>2. \A i \in Invocations :
             record'[i] = IF i = job[w] THEN [status |-> "Pending", owner |-> w] ELSE record[i]
      BY <1>1, <2>1 DEF StoreTypeOK
    <2>3. phase'[w] = "pending" /\ UNCHANGED job
          /\ \A v \in Workers \ {w} : phase'[v] = phase[v]
      BY <1>2 DEF Goto, TypeOK
    <2> QED
      BY SMT, <1>1, <2>2, <2>3 DEF OwnerHolds, Owns, Status, Working
  <1>3. CASE UNCHANGED storeVars /\ Drop(w, Idle)
    <2>1. Quiet
      BY <1>3, QuietUnchanged
    <2>2. \A v \in Workers \ {w} : phase'[v] = phase[v] /\ job'[v] = job[v]
      BY <1>3, OneWorkerMoves
    <2> QED
      BY <1>1, <2>1, <2>2, FreeOwnsNothing, QuietStep DEF Working
  <1> QED
    BY <1>2, <1>3 DEF ClaimPending

\* The start: Running keeps the owner, and only the owner may write it.
LEMMA StartRunningOwner ==
    ASSUME TypeOK, StoreTypeOK, OwnerHolds, NEW w \in Workers, StartRunning(w)
    PROVE  OwnerHolds'
  <1>1. phase[w] = "pending" /\ job[w] \in Invocations
    BY Holding DEF StartRunning, Free
  <1>2. CASE ChangeStatus(job[w], "Running", w) /\ Goto(w, "running")
    <2>1. record[job[w]].owner = w
      BY <1>2 DEF ChangeStatus, CanTransition, ValidTransition, AllowedTransition,
                  ValidOwnership, RequiresOwnership, OverridesOwnership, RecoveryStatuses, NoRecord
    <2>2. record' = [record EXCEPT ![job[w]] = [status |-> "Running", owner |-> w]]
      BY <1>2, <2>1 DEF ChangeStatus, WriteRecord, Transitioned, ComputeNewOwner,
                        ReleasesOwnership, AcquiresOwnership, Final, AvailableForRun,
                        RecoveryStatuses
    <2>3. \A i \in Invocations :
             record'[i] = IF i = job[w] THEN [status |-> "Running", owner |-> w] ELSE record[i]
      BY <1>1, <2>2 DEF StoreTypeOK
    <2>4. phase'[w] = "running" /\ UNCHANGED job
          /\ \A v \in Workers \ {w} : phase'[v] = phase[v]
      BY <1>2 DEF Goto, TypeOK
    <2> QED
      BY SMT, <1>1, <2>3, <2>4 DEF OwnerHolds, Owns, Status, Working
  <1>3. CASE UNCHANGED storeVars /\ Drop(w, "dead")
    <2>1. Quiet
      BY <1>3, QuietUnchanged
    <2>2. /\ phase'[w] = "dead"
          /\ \A v \in Workers \ {w} : phase'[v] = phase[v] /\ job'[v] = job[v]
      BY <1>3, OneWorkerMoves
    <2> QED
      BY <2>1, <2>2, QuietStep
  <1> QED
    BY <1>2, <1>3 DEF StartRunning

\* The worker in its body owns no other invocation, so nothing once the one it
\* holds has another owner or a status of no owner.
LEMMA LetGo ==
    ASSUME TypeOK, OwnerHolds, Quiet, NEW w \in Workers, phase[w] \in Working,
           NEW j, j = job[w], ~Owns(j, w)', Drop(w, Idle)
    PROVE  OwnerHolds'
  <1>1. \A i \in Invocations : ~Owns(i, w)'
    BY SMT DEF OwnerHolds, Quiet, Owns, Status, Working
  <1>2. \A v \in Workers \ {w} : phase'[v] = phase[v] /\ job'[v] = job[v]
    BY OneWorkerMoves
  <1> QED
    BY <1>1, <1>2, QuietStep

LEMMA DiscardOwner ==
    ASSUME TypeOK, OwnerHolds, NEW w \in Workers, phase[w] \in Working, Discard(w)
    PROVE  OwnerHolds'
  <1>1. Quiet
    BY QuietUnchanged DEF Discard
  <1>2. CASE Owns(job[w], w)
    <2>1. Drop(w, "dead")
      BY <1>2 DEF Discard, Owns
    <2>2. /\ phase'[w] = "dead"
          /\ \A v \in Workers \ {w} : phase'[v] = phase[v] /\ job'[v] = job[v]
      BY <2>1, OneWorkerMoves
    <2> QED
      BY <1>1, <2>2, QuietStep
  <1>3. CASE ~Owns(job[w], w)
    <2>1. Drop(w, Idle)
      BY <1>3 DEF Discard, Owns
    <2>2. PICK j : j = job[w]
      OBVIOUS
    <2>3. ~Owns(j, w)'
      BY <1>3, <2>2 DEF Discard, Owns, storeVars, Status
    <2> QED
      BY <1>1, <2>1, <2>2, <2>3, LetGo
  <1> QED
    BY <1>2, <1>3

\* A commit that ends the attempt leaves the record without an owner.
LEMMA OutcomeOwner ==
    ASSUME TypeOK, StoreTypeOK, OwnerHolds, NEW w \in Workers, phase[w] \in Working,
           NEW status \in {"Success", "Failed", "Retry"},
           WriteRecord(job[w], Transitioned(record[job[w]], status, w)), Drop(w, Idle)
    PROVE  OwnerHolds'
  <1>1. PICK j \in Invocations : j = job[w]
    BY Holding DEF Working, Free
  <1>2. Quiet
    BY <1>1, QuietWrite, TransitionedStatus
  <1>3. record'[j].status = status
    BY <1>1, TransitionedStatus DEF WriteRecord, StoreTypeOK
  <1>4. ~Owns(j, w)'
    BY <1>3 DEF Owns, Status
  <1> QED
    BY <1>1, <1>2, <1>4, LetGo

LEMMA ExecuteOwner ==
    ASSUME TypeOK, StoreTypeOK, OwnerHolds, NEW w \in Workers, Execute(w)
    PROVE  OwnerHolds'
  <1>1. CASE ClaimPending(w) \/ StartRunning(w)
    BY <1>1, ClaimPendingOwner, StartRunningOwner
  <1>2. CASE Begin(w)
    <2>1. Quiet
      BY <1>2 DEF Begin, BeginExecution, storeVars, Quiet
    <2>2. \A v \in Workers \ {w} : phase'[v] = phase[v] /\ job'[v] = job[v]
      BY <1>2 DEF Begin, Drop, TypeOK
    <2>3. \/ phase[w] \in Working /\ phase'[w] \in Working /\ job'[w] = job[w]
          \/ phase'[w] = "dead"
      BY <1>2 DEF Begin, Drop, TypeOK, Working
    <2> QED
      BY <2>1, <2>2, <2>3, QuietStep
  <1>3. CASE Succeed(w) \/ FailAndRetry(w) \/ FailForGood(w)
    <2>1. phase[w] \in Working
      BY <1>3 DEF Succeed, FailAndRetry, FailForGood, Working
    <2>2. CASE Discard(w)
      BY <2>1, <2>2, DiscardOwner
    <2>3. ASSUME NEW status \in {"Success", "Failed"}, ChangeComplete(job[w], w, status),
                 Drop(w, Idle)
          PROVE  OwnerHolds'
      BY <2>1, <2>3, OutcomeOwner DEF ChangeComplete
    <2>4. ASSUME NEW delayed \in BOOLEAN, ChangeRetry(job[w], w, delayed), Drop(w, Idle)
          PROVE  OwnerHolds'
      BY <2>1, <2>4, OutcomeOwner DEF ChangeRetry
    <2> QED
      BY <1>3, <2>2, <2>3, <2>4 DEF Succeed, FailAndRetry, FailForGood
  <1>4. CASE NoticeCancel(w)
    <2>1. Quiet
      BY <1>4 DEF NoticeCancel, storeVars, Quiet
    <2>2. PICK j : j = job[w]
      OBVIOUS
    <2>3. ~Owns(j, w)'
      BY <1>4, <2>2 DEF NoticeCancel, Owns, Status, storeVars
    <2> QED
      BY <1>4, <2>1, <2>2, <2>3, LetGo DEF NoticeCancel, Working
  <1>5. CASE WaitOver(w) \/ \E child \in Invocations : Wait(w, child)
    <2>1. Quiet
      BY <1>5 DEF Wait, WaitOver, SetWaitingFor, storeVars, Quiet
    <2>2. /\ phase[w] \in Working /\ phase'[w] \in Working
          /\ UNCHANGED job
          /\ \A v \in Workers \ {w} : phase'[v] = phase[v]
      BY <1>5 DEF Wait, WaitOver, Goto, TypeOK, Working
    <2> QED
      BY <2>1, <2>2, QuietStep
  <1> QED
    BY <1>1, <1>2, <1>3, <1>4, <1>5 DEF Execute

LEMMA NextOwner == TypeOK /\ StoreTypeOK /\ OwnerHolds /\ [Next]_vars => OwnerHolds'
  <1> SUFFICES ASSUME TypeOK, StoreTypeOK, OwnerHolds, [Next]_vars PROVE OwnerHolds'
    OBVIOUS
  <1>1. CASE UNCHANGED vars
    BY <1>1 DEF vars, storeVars, workerVars, OwnerHolds, Owns, Status
  <1> QED
    BY <1>1, ClaimOwner, ExecuteOwner, LiveOwner, RecoverOwner, EnvironmentOwner DEF Next

\* A live worker is executing what the records say it runs, so heartbeats
\* never protect work that nobody does: errors, lost claims and discarded
\* outcomes all leave the worker retired or without ownership.
THEOREM OwnersWork == Spec => []LiveOwnerIsWorking
  <1>1. Init => OwnerHolds
    BY SMT DEF Init, StoreInit, OwnerHolds, Owns, Status, Absent, NoRecord
  <1>2. RuntimeInv /\ OwnerHolds /\ [Next]_vars => OwnerHolds'
    BY NextOwner DEF RuntimeInv, IInv
  <1>3. OwnerHolds => LiveOwnerIsWorking
    BY SMT DEF OwnerHolds, Owns, Status, LiveOwnerIsWorking, OwnsRunning, Working
  <1> QED
    BY <1>1, <1>2, <1>3, RuntimeInvariance, PTL DEF Spec

-----------------------------------------------------------------------------
(* Two workers never execute under the same attempt number.                *)

\* An attempt a worker executes is one the store has handed out for its job.
IdentityInv ==
    /\ \A w \in Workers : identity[w] # NoAttempt
          => job[w] \in Invocations /\ identity[w] <= attempt[job[w]]
    /\ AttemptsAreDistinct

\* Identities are only forgotten, or kept with the job they belong to.
LEMMA IdentityKept ==
    ASSUME RuntimeInv, [Next]_vars, IdentityInv,
           \A w \in Workers : \/ identity'[w] = NoAttempt
                              \/ identity'[w] = identity[w] /\ job'[w] = job[w]
    PROVE  IdentityInv'
  <1>1. \A i \in Invocations : attempt'[i] >= attempt[i]
    <2>1. attempt \in [Invocations -> Nat \union {NoAttempt}]
      BY DEF RuntimeInv, IInv, StoreTypeOK
    <2>2. \A i \in Invocations : attempt'[i] # attempt[i] => attempt'[i] > attempt[i]
      BY NextStore, AttemptStep DEF RuntimeInv
    <2>3. attempt' \in [Invocations -> Nat \union {NoAttempt}]
      BY NextStore, NextIInv DEF RuntimeInv, IInv, StoreTypeOK
    <2> QED
      BY SMT, <2>1, <2>2, <2>3 DEF NoAttempt
  <1>2. /\ identity \in [Workers -> Nat \union {NoAttempt}]
        /\ attempt \in [Invocations -> Nat \union {NoAttempt}]
        /\ attempt' \in [Invocations -> Nat \union {NoAttempt}]
    BY NextStore, NextIInv DEF RuntimeInv, IInv, StoreTypeOK, TypeOK
  <1>3. \A w \in Workers : identity'[w] # NoAttempt
          => job'[w] \in Invocations /\ identity'[w] <= attempt'[job'[w]]
    BY SMT, <1>1, <1>2 DEF IdentityInv, NoAttempt
  <1>4. AttemptsAreDistinct'
    BY DEF IdentityInv, AttemptsAreDistinct
  <1> QED
    BY <1>3, <1>4 DEF IdentityInv

\* begin_execution gives the worker a number above all that are in use.
LEMMA BeginIdentity ==
    ASSUME RuntimeInv, IdentityInv, NEW w \in Workers, BeginExecution(job[w], w, retries[job[w]]),
           job[w] \in Invocations, UNCHANGED job,
           identity' = [identity EXCEPT ![w] = NextAttempt(attempt[job[w]], retries[job[w]])]
    PROVE  IdentityInv'
  <1> DEFINE new == NextAttempt(attempt[job[w]], retries[job[w]])
  <1>1. /\ identity \in [Workers -> Nat \union {NoAttempt}]
        /\ attempt \in [Invocations -> Nat \union {NoAttempt}]
        /\ retries \in [Invocations -> Nat]
    BY DEF RuntimeInv, IInv, StoreTypeOK, TypeOK
  <1>2. new \in Nat /\ new > attempt[job[w]]
    BY SMT, <1>1 DEF NextAttempt, NoAttempt
  <1>3. \A i \in Invocations : attempt'[i] = IF i = job[w] THEN new ELSE attempt[i]
    BY <1>1 DEF BeginExecution
  <1>4. \A v \in Workers : identity'[v] = IF v = w THEN new ELSE identity[v]
    BY <1>1
  <1> HIDE DEF new
  <1>5. \A v \in Workers : identity'[v] # NoAttempt
          => job'[v] \in Invocations /\ identity'[v] <= attempt'[job'[v]]
    BY SMT, <1>1, <1>2, <1>3, <1>4 DEF IdentityInv, NoAttempt
  <1>6. \A v \in Workers : v # w /\ job[v] = job[w] => identity[v] < new
    BY SMT, <1>1, <1>2 DEF IdentityInv, NoAttempt
  <1>7. AttemptsAreDistinct'
    <2> SUFFICES ASSUME NEW u \in Workers, NEW v \in Workers, u # v, job[u] # None,
                        job[u] = job[v], identity'[u] # NoAttempt
                 PROVE  identity'[u] # identity'[v]
      BY DEF AttemptsAreDistinct
    <2>1. CASE u # w /\ v # w
      BY <1>4, <2>1 DEF IdentityInv, AttemptsAreDistinct
    <2>2. CASE u = w \/ v = w
      BY SMT, <1>1, <1>2, <1>4, <1>6, <2>2 DEF NoAttempt
    <2> QED
      BY <2>1, <2>2
  <1> QED
    BY <1>5, <1>7 DEF IdentityInv

LEMMA NextIdentity == RuntimeInv /\ IdentityInv /\ [Next]_vars => IdentityInv'
  <1> SUFFICES ASSUME RuntimeInv, IdentityInv, [Next]_vars PROVE IdentityInv'
    OBVIOUS
  <1> DEFINE Kept == \A v \in Workers : \/ identity'[v] = NoAttempt
                                        \/ identity'[v] = identity[v] /\ job'[v] = job[v]
  <1>1. Kept => IdentityInv'
    BY IdentityKept
  <1>2. TypeOK
    BY DEF RuntimeInv
  <1>3. CASE UNCHANGED vars
    BY <1>1, <1>3 DEF vars, workerVars
  <1>4. ASSUME NEW w \in Workers, Claim(w) PROVE IdentityInv'
    <2>1. ASSUME NEW i \in Invocations, Hold(w, i), phase[w] \in Free PROVE Kept
      <3>1. identity[w] = NoAttempt
        BY <1>2, <2>1, FreePhases, RuntimeAssumption DEF IdentityInv, None
      <3> QED
        BY <1>2, <2>1, <3>1 DEF Hold, TypeOK
    <2>2. ASSUME NEW where, Goto(w, where) \/ Drop(w, where) PROVE Kept
      BY <1>2, <2>2, OneWorkerMoves
    <2> HIDE DEF Kept
    <2> QED
      BY <1>1, <1>4, <2>1, <2>2, ClaimMoves
  <1>5. ASSUME NEW w \in Workers, Execute(w) PROVE IdentityInv'
    <2>1. ASSUME NEW where, Goto(w, where) \/ Drop(w, where) PROVE Kept
      BY <1>2, <2>1, OneWorkerMoves
    <2> HIDE DEF Kept
    <2>2. CASE Begin(w)
      <3>1. job[w] \in Invocations
        BY <1>2, <2>2, Holding DEF Begin, Free
      <3> QED
        BY <1>1, <2>1, <2>2, <3>1, BeginIdentity DEF Begin
    <2> QED
      BY <1>1, <1>5, <2>1, <2>2
         DEF Execute, ClaimPending, StartRunning, Succeed, FailAndRetry, FailForGood,
             Discard, NoticeCancel, Wait, WaitOver
  <1>6. ASSUME NEW w \in Workers, Live(w) PROVE IdentityInv'
    BY <1>1, <1>2, <1>6 DEF Live, StartWorker, Retire, Heartbeat, WorkerFallsSilent, Goto,
                            Drop, workerVars, TypeOK
  <1>7. ASSUME UNCHANGED workerVars PROVE IdentityInv'
    BY <1>1, <1>7 DEF workerVars
  <1> QED
    BY <1>3, <1>4, <1>5, <1>6, <1>7, OthersMove DEF Next

\* A worker that was taken over without knowing it and its successor run under
\* different attempt numbers, however many recoveries and retries there were.
THEOREM DistinctAttempts == Spec => []AttemptsAreDistinct
  <1>1. Init => IdentityInv
    BY DEF Init, IdentityInv, AttemptsAreDistinct
  <1>2. IdentityInv => AttemptsAreDistinct
    BY DEF IdentityInv
  <1> QED
    BY <1>1, <1>2, NextIdentity, RuntimeInvariance, PTL DEF Spec

-----------------------------------------------------------------------------
(* Concurrency control.  Admission takes a slot before the claim, in       *)
(* another transaction, and between the two the only protection is the     *)
(* lease on the row.  What runs holds a slot, if deliveries are claimed    *)
(* before their lease ends, nobody waits on a controlled invocation (who   *)
(* is waited on is claimed past the queue), and no failed read admits      *)
(* without a slot.  A worker that lacks the task needs none: it fails the  *)
(* invocation before its body.                                             *)

PromptControl ==
    /\ Controlled \subseteq PromptClaims
    /\ \A pair \in WaitsOn : pair[2] \notin Controlled

\* From the delivery to the claim.
Between == {"candidate", "denied", "admitted"}

Holds(w, i) == phase[w] \in Between /\ job[w] = i

\* Who holds a controlled invocation before its claim is alone with it as long
\* as it may still be claimed: the row stays leased, and after admission by a
\* worker that has the task there is a slot.
Guarded(w, i) ==
    /\ Status(i) \in AvailableForRun \union Final
    /\ Status(i) \in AvailableForRun =>
          row[i] = "leased" /\ (phase[w] = "admitted" /\ Knows(w, i) => i \in slots)

\* Owned by a worker that can come to the body.
Needy(i) == Status(i) \in RequiresOwnership /\ Knows(record[i].owner, i)

SlotInv ==
    /\ waiting \subseteq WaitsOn
    /\ \A i \in Controlled, w \in Workers : Holds(w, i) => Guarded(w, i)
    /\ \A i \in Controlled : \A v, w \in Workers : Holds(v, i) /\ Holds(w, i) => v = w
    /\ \A i \in Controlled : Needy(i) => i \in slots

-----------------------------------------------------------------------------
(* What a step may do to a controlled invocation.                          *)

Kept(i) ==
    /\ record'[i] = record[i]
    /\ row[i] = "leased" /\ Status(i) \in AvailableForRun => row'[i] = "leased"
    /\ i \in slots => i \in slots'

Closed(i) == Status(i)' \in Final

\* It leaves the hands of every worker.
Freed(i) ==
    /\ \A w \in Workers : ~Holds(w, i)'
    /\ Needy(i)' => i \in slots'

\* No worker gets hold of a controlled invocation or is admitted.
NoNewHolder ==
    \A i \in Controlled, w \in Workers :
        Holds(w, i)' => Holds(w, i) /\ (phase'[w] = "admitted" => phase[w] = "admitted")

LEMMA DisjointStatuses ==
    /\ AvailableForRun \intersect RequiresOwnership = {}
    /\ Final \intersect RequiresOwnership = {}
    /\ AvailableForRun \intersect Final = {}
  BY DEF AvailableForRun, RequiresOwnership, Final

LEMMA SlotStep ==
    ASSUME SlotInv, NoNewHolder, waiting' \subseteq WaitsOn,
           \A i \in Controlled : Kept(i) \/ Closed(i) \/ Freed(i)
    PROVE  SlotInv'
  <1>1. \A i \in Controlled, w \in Workers : Holds(w, i)' => Guarded(w, i)'
    <2> SUFFICES ASSUME NEW i \in Controlled, NEW w \in Workers, Holds(w, i)'
                 PROVE  Guarded(w, i)'
      OBVIOUS
    <2>1. Guarded(w, i) /\ (phase'[w] = "admitted" => phase[w] = "admitted")
      BY DEF SlotInv, NoNewHolder
    <2>2. CASE Kept(i)
      BY <2>1, <2>2 DEF Kept, Guarded, Status
    <2>3. CASE Closed(i)
      BY <2>3, DisjointStatuses DEF Closed, Guarded
    <2> QED
      BY <2>2, <2>3 DEF Freed
  <1>2. \A i \in Controlled : \A v, w \in Workers : Holds(v, i)' /\ Holds(w, i)' => v = w
    BY DEF SlotInv, NoNewHolder
  <1>3. \A i \in Controlled : Needy(i)' => i \in slots'
    BY DisjointStatuses DEF SlotInv, Kept, Closed, Freed, Needy, Status
  <1> QED
    BY <1>1, <1>2, <1>3 DEF SlotInv

\* Nobody holds what is past its claim.
LEMMA Unheld ==
    ASSUME SlotInv, NoNewHolder, NEW i \in Controlled,
           Status(i) \notin AvailableForRun \union Final
    PROVE  \A w \in Workers : ~Holds(w, i)'
  BY DEF SlotInv, NoNewHolder, Guarded

\* Steps that leave records and slots alone, and drop no row that may be run.
LEMMA SlotQuietStep ==
    ASSUME SlotInv, NoNewHolder, UNCHANGED <<record, slots>>, waiting' \subseteq WaitsOn,
           \A i \in Controlled : Status(i) \in AvailableForRun => row'[i] = row[i]
    PROVE  SlotInv'
  <1>1. \A i \in Controlled : Kept(i)
    BY DEF Kept
  <1> QED
    BY <1>1, SlotStep

-----------------------------------------------------------------------------
(* The transactions.                                                       *)

\* A transaction about i keeps the others.
About(i) == \A j \in Controlled \ {i} : Kept(j)

LEMMA StatusEffect ==
    ASSUME StoreTypeOK, NEW i \in Invocations, NEW status, NEW runner,
           ChangeStatus(i, status, runner)
    PROVE  /\ About(i) /\ Status(i)' = status /\ waiting' \subseteq waiting
           /\ status \notin Final => slots' = slots
           /\ CanTransition(record[i], status, runner)
           /\ record'[i] = Transitioned(record[i], status, runner)
  <1>1. /\ Status(i)' = status
        /\ record'[i] = Transitioned(record[i], status, runner)
        /\ \A j \in Invocations \ {i} : record'[j] = record[j]
    BY TransitionedStatus DEF ChangeStatus, WriteRecord, StoreTypeOK, Status
  <1>2. \A j \in Invocations \ {i} : row'[j] = row[j]
    BY DEF ChangeStatus, Acknowledge, StoreTypeOK
  <1>3. /\ \A j \in Invocations \ {i} : j \in slots => j \in slots'
        /\ waiting' \subseteq waiting
        /\ status \notin Final => slots' = slots
    BY DEF ChangeStatus, TerminalEffects, ReleaseSlot, ReleaseWaiters
  <1>4. CanTransition(record[i], status, runner)
    BY DEF ChangeStatus
  <1> QED
    BY <1>1, <1>2, <1>3, <1>4, StoreAssumption DEF About, Kept

LEMMA RouteEffect ==
    ASSUME StoreTypeOK, NEW i \in Invocations, NEW new, WriteRecord(i, new), NEW as,
           Publish(i, as), ReleaseSlot(i), UNCHANGED waiting
    PROVE  About(i) /\ Status(i)' = new.status /\ waiting' \subseteq waiting
  <1>1. /\ Status(i)' = new.status
        /\ \A j \in Invocations \ {i} : record'[j] = record[j]
    BY DEF WriteRecord, StoreTypeOK, Status
  <1>2. \A j \in Invocations \ {i} : row'[j] = row[j]
    BY DEF Publish, StoreTypeOK
  <1>3. \A j \in Invocations \ {i} : j \in slots => j \in slots'
    BY DEF ReleaseSlot
  <1> QED
    BY <1>1, <1>2, <1>3, StoreAssumption DEF About, Kept

LEMMA FinalEffect ==
    ASSUME StoreTypeOK, NEW i \in Invocations, NEW runner
    PROVE  /\ \A status \in {"Success", "Failed"} :
                ChangeComplete(i, runner, status) =>
                    About(i) /\ Closed(i) /\ waiting' \subseteq waiting
           /\ SetControlledFinal(i) => About(i) /\ Closed(i) /\ waiting' \subseteq waiting
  <1>1. ASSUME NEW status \in {"Success", "Failed"}, ChangeComplete(i, runner, status)
        PROVE  About(i) /\ Closed(i) /\ waiting' \subseteq waiting
    <2>1. /\ Status(i)' = status
          /\ \A j \in Invocations \ {i} : record'[j] = record[j]
      BY SMT, <1>1, TransitionedStatus DEF ChangeComplete, WriteRecord, StoreTypeOK, Status
    <2>2. \A j \in Invocations \ {i} : row'[j] = row[j]
      BY <1>1 DEF ChangeComplete, Acknowledge, StoreTypeOK
    <2>3. /\ \A j \in Invocations \ {i} : j \in slots => j \in slots'
          /\ waiting' \subseteq waiting
      BY <1>1 DEF ChangeComplete, TerminalEffects, ReleaseSlot, ReleaseWaiters
    <2> QED
      BY <2>1, <2>2, <2>3, StoreAssumption DEF About, Kept, Closed, Final
  <1>2. ASSUME SetControlledFinal(i)
        PROVE  About(i) /\ Closed(i) /\ waiting' \subseteq waiting
    <2>1. /\ Status(i)' = "ConcurrencyControlledFinal"
          /\ \A j \in Invocations \ {i} : record'[j] = record[j]
          /\ row' = row /\ slots' = slots /\ waiting' = waiting
      BY <1>2, TransitionedStatus DEF SetControlledFinal, WriteRecord, StoreTypeOK, Status
    <2> QED
      BY <2>1, StoreAssumption DEF About, Kept, Closed, Final
  <1> QED
    BY <1>1, <1>2

-----------------------------------------------------------------------------
(* Workers.                                                                *)

LEMMA HolderMoves ==
    ASSUME TypeOK
    PROVE  /\ UNCHANGED workerVars => NoNewHolder
           /\ \A w \in Workers : \A where :
                /\ where \notin Between /\ (Goto(w, where) \/ Drop(w, where)) =>
                      NoNewHolder /\ \A i : ~Holds(w, i)'
                /\ where = "denied" /\ phase[w] \in Between /\ Goto(w, where) => NoNewHolder
  BY DEF NoNewHolder, Holds, workerVars, TypeOK, Goto, Drop

LEMMA ClaimSlots ==
    ASSUME PromptControl, TypeOK, StoreTypeOK, SlotInv, NEW w \in Workers, Claim(w),
           UNCHANGED misreads
    PROVE  SlotInv'
  <1>0. waiting \subseteq WaitsOn
    BY DEF SlotInv
  <1>1. misreads \in Nat
    BY SMT DEF TypeOK
  <1>2. CASE NothingBlocking(w)
    <2>1. NoNewHolder
      BY <1>2, HolderMoves DEF NothingBlocking, Between
    <2> QED
      BY <1>0, <1>2, <2>1, SlotQuietStep DEF NothingBlocking, storeVars
  <1>3. CASE QueuesEmpty(w)
    <2>1. NoNewHolder
      BY <1>3, HolderMoves DEF QueuesEmpty, Between, Idle
    <2>2. \A i \in Controlled : Status(i) \in AvailableForRun => row'[i] = row[i]
      BY <1>3, StoreAssumption DEF QueuesEmpty, PollEmpty, Cleaned
    <2> QED
      BY <1>0, <1>3, <2>1, <2>2, SlotQuietStep DEF QueuesEmpty, PollEmpty
  <1>4. ASSUME NEW i \in Invocations, ClaimBlocking(w, i) PROVE SlotInv'
    <2>1. i \notin Controlled
      BY <1>0, <1>4 DEF ClaimBlocking, Blocking, PromptControl
    <2>2. NoNewHolder
      BY <1>4, <2>1 DEF ClaimBlocking, Hold, NoNewHolder, Holds, TypeOK
    <2> QED
      BY <1>0, <1>4, <2>2, SlotQuietStep DEF ClaimBlocking, storeVars
  <1>5. ASSUME NEW i \in Invocations, ClaimQueued(w, i) PROVE SlotInv'
    <2>1. /\ row[i] = "ready" /\ Status(i) \in AvailableForRun /\ phase[w] \notin Between
          /\ UNCHANGED <<record, slots, waiting>>
          /\ row' = [Cleaned EXCEPT ![i] = "leased"]
          /\ phase' = [phase EXCEPT ![w] = "candidate"] /\ job' = [job EXCEPT ![w] = i]
      BY <1>5 DEF ClaimQueued, Reserve, Deliverable, Hold, Between
    <2>2. /\ \A v \in Workers \ {w} : phase'[v] = phase[v] /\ job'[v] = job[v]
          /\ phase'[w] = "candidate" /\ job'[w] = i
      BY <2>1 DEF TypeOK
    <2>3. i \in Controlled => \A v \in Workers : ~Holds(v, i)
      BY <2>1 DEF SlotInv, Guarded
    <2>4. \A v \in Workers, j \in Controlled :
            Holds(v, j)' => \/ v = w /\ j = i
                            \/ v # w /\ j # i /\ Holds(v, j) /\ phase'[v] = phase[v]
      BY <2>2, <2>3 DEF Holds
    <2>5. \A j \in Controlled : j # i /\ Status(j) \in AvailableForRun => row'[j] = row[j]
      BY <2>1, StoreAssumption DEF Cleaned
    <2>6. row'[i] = "leased"
      BY <2>1 DEF Cleaned
    <2>7. \A j \in Controlled : Status(j)' = Status(j) /\ (Needy(j)' <=> Needy(j))
      BY <2>1 DEF Status, Needy
    <2>8. \A j \in Controlled, v \in Workers : Holds(v, j)' => Guarded(v, j)'
      <3> SUFFICES ASSUME NEW j \in Controlled, NEW v \in Workers, Holds(v, j)'
                   PROVE  Guarded(v, j)'
        OBVIOUS
      <3>1. CASE v = w /\ j = i
        BY <2>1, <2>2, <2>6, <2>7, <3>1 DEF Guarded
      <3>2. CASE v # w /\ j # i /\ Holds(v, j)
        BY <2>1, <2>2, <2>5, <2>7, <3>2 DEF Guarded, SlotInv
      <3> QED
        BY <2>4, <3>1, <3>2
    <2>9. \A j \in Controlled : \A u, v \in Workers : Holds(u, j)' /\ Holds(v, j)' => u = v
      BY <2>4 DEF SlotInv
    <2> QED
      BY <1>0, <2>1, <2>7, <2>8, <2>9 DEF SlotInv
  <1>6. CASE Admit(w)
    <2>1. CASE job[w] \notin Controlled
      <3>1. UNCHANGED storeVars /\ Goto(w, "admitted")
        BY <1>1, <1>6, <2>1 DEF Admit, Misread, AcquireSlot
      <3>2. NoNewHolder
        BY <2>1, <3>1 DEF Goto, NoNewHolder, Holds, TypeOK
      <3> QED
        BY <1>0, <3>1, <3>2, SlotQuietStep DEF storeVars
    <2>2. CASE AcquireSlot(job[w]) /\ Goto(w, "admitted")
      <3>1. PICK i \in Controlled : job[w] = i
        BY <2>2 DEF AcquireSlot
      <3>2. /\ UNCHANGED <<record, row, waiting>> /\ slots' = slots \union {i}
            /\ job' = job /\ phase'[w] = "admitted"
            /\ \A v \in Workers \ {w} : phase'[v] = phase[v]
        BY <2>2, <3>1 DEF AcquireSlot, Goto, TypeOK
      <3>3. phase[w] = "candidate" /\ Holds(w, i)
        BY <1>6, <3>1 DEF Admit, Holds, Between
      <3>4. \A v \in Workers, j \in Controlled : Holds(v, j)' => Holds(v, j)
        BY <3>1, <3>2, <3>3 DEF Holds
      <3>5. \A v \in Workers, j \in Controlled : Holds(v, j)' => Guarded(v, j)'
        <4> SUFFICES ASSUME NEW v \in Workers, NEW j \in Controlled, Holds(v, j)'
                     PROVE  Guarded(v, j)'
          OBVIOUS
        <4>1. Guarded(v, j) /\ (v = w => j = i)
          BY <3>1, <3>4 DEF SlotInv, Holds
        <4> QED
          BY <3>2, <4>1 DEF Guarded, Status
      <3>6. \A j \in Controlled : Needy(j)' => j \in slots'
        BY <3>2 DEF SlotInv, Needy, Status
      <3> QED
        BY <1>0, <3>2, <3>4, <3>5, <3>6 DEF SlotInv
    <2>4. CASE job[w] \in Controlled /\ ~Knows(w, job[w])
      <3>1. PICK i \in Controlled : job[w] = i
        BY <2>4
      <3>2. /\ phase[w] = "candidate" /\ Holds(w, i) /\ ~Knows(w, i)
            /\ UNCHANGED <<record, row, slots, waiting>> /\ job' = job
            /\ \A v \in Workers \ {w} : phase'[v] = phase[v]
            /\ phase'[w] = "admitted"
        BY SMT, <1>1, <1>6, <2>4, <3>1 DEF Admit, Misread, Holds, Between, Goto, TypeOK, storeVars
      <3>3. \A v \in Workers, j \in Controlled : Holds(v, j)' => Holds(v, j)
        BY <3>1, <3>2 DEF Holds
      <3>4. \A v \in Workers, j \in Controlled : Holds(v, j)' => Guarded(v, j)'
        <4> SUFFICES ASSUME NEW v \in Workers, NEW j \in Controlled, Holds(v, j)'
                     PROVE  Guarded(v, j)'
          OBVIOUS
        <4>1. Guarded(v, j) /\ (v = w => j = i)
          BY <3>1, <3>3 DEF SlotInv, Holds
        <4> QED
          BY <3>2, <4>1 DEF Guarded, Status
      <3>5. \A j \in Controlled : Needy(j)' => j \in slots'
        BY <3>2 DEF SlotInv, Needy, Status
      <3> QED
        BY <1>0, <3>2, <3>3, <3>4, <3>5 DEF SlotInv
    <2>3. CASE UNCHANGED storeVars /\ Goto(w, "denied")
      <3>1. NoNewHolder
        BY <1>6, <2>3, HolderMoves DEF Admit, Between
      <3> QED
        BY <1>0, <2>3, <3>1, SlotQuietStep DEF storeVars
    <2> QED
      BY SMT, <1>1, <1>6, <2>1, <2>2, <2>3, <2>4 DEF Admit, Misread
  <1>7. CASE Reject(w)
    <2>1. PICK where \in {Idle, "polling"} : Drop(w, where)
      BY <1>7 DEF Reject
    <2>2. where \notin Between
      BY DEF Between, Idle
    <2>3. NoNewHolder /\ \A i : ~Holds(w, i)'
      BY <2>1, <2>2, HolderMoves
    <2>4. phase[w] = "denied" /\ w \in Runners
      BY <1>7, Participants DEF Reject
    <2>5. PICK i \in Invocations : job[w] = i
      BY <2>4, Holding DEF Free
    <2>6. CASE UNCHANGED storeVars
      BY <1>0, <2>3, <2>6, SlotQuietStep DEF storeVars
    <2>7. CASE SetControlledFinal(i)
      <3>1. About(i) /\ Closed(i) /\ waiting' \subseteq waiting
        BY <2>7, FinalEffect
      <3> QED
        BY <1>0, <2>3, <3>1, SlotStep DEF About
    <2>8. CASE ChangeConcurrencyReroute(i, w)
      <3> DEFINE new == Transitioned(Transitioned(record[i], "ConcurrencyControlled", w), "Rerouted", w)
      <3>1. WriteRecord(i, new) /\ Publish(i, "ready") /\ ReleaseSlot(i) /\ UNCHANGED waiting
        BY <2>8 DEF ChangeConcurrencyReroute
      <3>2. new.status = "Rerouted"
        BY TransitionedStatus
      <3> HIDE DEF new
      <3>3. About(i) /\ Status(i)' = "Rerouted" /\ waiting' \subseteq waiting
        BY <3>1, <3>2, RouteEffect
      <3>4. i \in Controlled => \A v \in Workers : ~Holds(v, i)'
        <4>1. Holds(w, i)
          BY <2>4, <2>5 DEF Holds, Between
        <4> QED
          BY SMT, <2>3, <4>1 DEF SlotInv, NoNewHolder
      <3>5. i \in Controlled => Freed(i)
        BY <3>3, <3>4 DEF Freed, Needy, RequiresOwnership
      <3> QED
        BY <1>0, <2>3, <3>3, <3>5, SlotStep DEF About
    <2> QED
      BY <1>7, <2>5, <2>6, <2>7, <2>8 DEF Reject
  <1> QED
    BY <1>2, <1>3, <1>4, <1>5, <1>6, <1>7 DEF Claim

LEMMA ExecuteSlots ==
    ASSUME TypeOK, StoreTypeOK, SlotInv, NEW w \in Workers, Execute(w)
    PROVE  SlotInv'
  <1>0. waiting \subseteq WaitsOn
    BY DEF SlotInv
  <1>1. PICK i \in Invocations : job[w] = i
    BY Holding DEF Execute, ClaimPending, StartRunning, Begin, Succeed, FailAndRetry,
                   FailForGood, NoticeCancel, Wait, WaitOver, Free
  <1>3. CASE ClaimPending(w)
    <2>1. NoNewHolder /\ ~Holds(w, i)'
      BY <1>3, HolderMoves DEF ClaimPending, Between, Idle
    <2>2. CASE UNCHANGED storeVars
      BY <1>0, <2>1, <2>2, SlotQuietStep DEF storeVars
    <2>3. CASE ChangeStatus(i, "Pending", w)
      <3>1. /\ About(i) /\ Status(i)' = "Pending" /\ waiting' \subseteq waiting
            /\ CanTransition(record[i], "Pending", w)
            /\ record'[i] = Transitioned(record[i], "Pending", w)
        BY <2>3, StatusEffect
      <3>2. slots' = slots
        BY <2>3 DEF ChangeStatus, TerminalEffects, Final
      <3>3. Status(i) \in AvailableForRun
        BY <3>1 DEF CanTransition, ValidTransition, AllowedTransition, AvailableForRun, Status,
                    RecoveryStatuses
      <3>4. phase[w] = "admitted" /\ Holds(w, i)
        BY <1>1, <1>3 DEF ClaimPending, Holds, Between
      <3>5. i \in Controlled => (Knows(w, i) => i \in slots) /\ \A v \in Workers : ~Holds(v, i)'
        BY <2>1, <3>3, <3>4 DEF SlotInv, Guarded, NoNewHolder
      <3>7. record'[i].owner = w
        BY SMT, <3>1 DEF Transitioned, ComputeNewOwner, ReleasesOwnership, AcquiresOwnership, Final,
                    AvailableForRun, RecoveryStatuses
      <3>6. i \in Controlled => Freed(i)
        BY <3>2, <3>5, <3>7 DEF Freed, Needy, Knows
      <3> QED
        BY <1>0, <2>1, <3>1, <3>6, SlotStep DEF About
    <2> QED
      BY <1>1, <1>3, <2>2, <2>3 DEF ClaimPending
  <1>4. CASE StartRunning(w)
    <2>1. NoNewHolder
      BY <1>4, HolderMoves DEF StartRunning, Between
    <2>2. CASE UNCHANGED storeVars
      BY <1>0, <2>1, <2>2, SlotQuietStep DEF storeVars
    <2>3. CASE ChangeStatus(i, "Running", w)
      <3>1. /\ About(i) /\ Status(i)' = "Running" /\ waiting' \subseteq waiting
            /\ CanTransition(record[i], "Running", w)
            /\ record'[i] = Transitioned(record[i], "Running", w)
        BY <2>3, StatusEffect
      <3>2. slots' = slots
        BY <2>3 DEF ChangeStatus, TerminalEffects, Final
      <3>3. Status(i) \in RequiresOwnership
        BY <3>1 DEF CanTransition, ValidTransition, AllowedTransition, RequiresOwnership, Status,
                    RecoveryStatuses
      <3>6. record'[i].owner = record[i].owner
        BY SMT, <3>1 DEF Transitioned, ComputeNewOwner, ReleasesOwnership, AcquiresOwnership, Final,
                    AvailableForRun, RecoveryStatuses
      <3>4. i \in Controlled => (Needy(i)' => i \in slots) /\ \A v \in Workers : ~Holds(v, i)'
        BY <2>1, <3>3, <3>6, Unheld, DisjointStatuses DEF SlotInv, Needy, Knows
      <3>5. i \in Controlled => Freed(i)
        BY <3>2, <3>4 DEF Freed
      <3> QED
        BY <1>0, <2>1, <3>1, <3>5, SlotStep DEF About
    <2> QED
      BY <1>1, <1>4, <2>2, <2>3 DEF StartRunning
  <1>5. CASE Begin(w)
    <2>1. NoNewHolder
      <3>1. CASE OwnsRunning(job[w], w)
        BY <1>5, <3>1 DEF Begin, NoNewHolder, Holds, TypeOK, Between
      <3>2. CASE ~OwnsRunning(job[w], w)
        BY <1>5, <3>2, HolderMoves DEF Begin, BeginExecution, Between
      <3> QED
        BY <3>1, <3>2
    <2>2. UNCHANGED <<record, slots, waiting, row>>
      BY <1>5 DEF Begin, BeginExecution, storeVars
    <2> QED
      BY <1>0, <2>1, <2>2, SlotQuietStep
  <1>6. CASE Succeed(w) \/ FailForGood(w)
    <2>1. PICK where \in {"idle", "dead"} : Drop(w, where)
      BY <1>6 DEF Succeed, FailForGood, Discard, Idle
    <2>2. NoNewHolder
      BY <2>1, HolderMoves DEF Between
    <2>3. CASE UNCHANGED storeVars
      BY <1>0, <2>2, <2>3, SlotQuietStep DEF storeVars
    <2>4. CASE \E status \in {"Success", "Failed"} : ChangeComplete(i, w, status)
      <3>1. About(i) /\ Closed(i) /\ waiting' \subseteq waiting
        BY <2>4, FinalEffect
      <3> QED
        BY <1>0, <2>2, <3>1, SlotStep DEF About
    <2> QED
      BY <1>1, <1>6, <2>3, <2>4 DEF Succeed, FailForGood, Discard
  <1>7. CASE FailAndRetry(w)
    <2>1. PICK where \in {"idle", "dead"} : Drop(w, where)
      BY <1>7 DEF FailAndRetry, Discard, Idle
    <2>2. NoNewHolder
      BY <2>1, HolderMoves DEF Between
    <2>3. CASE UNCHANGED storeVars
      BY <1>0, <2>2, <2>3, SlotQuietStep DEF storeVars
    <2>4. ASSUME NEW delayed \in BOOLEAN, ChangeRetry(i, w, delayed) PROVE SlotInv'
      <3>1. /\ CanTransition(record[i], "Retry", w)
            /\ WriteRecord(i, Transitioned(record[i], "Retry", w))
            /\ Publish(i, IF delayed THEN "delayed" ELSE "ready")
            /\ ReleaseSlot(i) /\ UNCHANGED waiting
        BY <2>4 DEF ChangeRetry
      <3>2. About(i) /\ Status(i)' = "Retry" /\ waiting' \subseteq waiting
        BY SMT, <3>1, RouteEffect, TransitionedStatus
      <3>3. Status(i) \notin AvailableForRun \union Final
        BY <3>1 DEF CanTransition, ValidTransition, AllowedTransition, AvailableForRun, Final,
                    Status, RecoveryStatuses
      <3>4. i \in Controlled => Freed(i)
        BY <2>2, <3>2, <3>3, Unheld DEF Freed, Needy, RequiresOwnership
      <3> QED
        BY <1>0, <2>2, <3>2, <3>4, SlotStep DEF About
    <2> QED
      BY <1>1, <1>7, <2>3, <2>4 DEF FailAndRetry, Discard
  <1>8. CASE NoticeCancel(w) \/ WaitOver(w)
    <2>1. NoNewHolder
      BY <1>8, HolderMoves DEF NoticeCancel, WaitOver, Between, Idle
    <2> QED
      BY <1>0, <1>8, <2>1, SlotQuietStep DEF NoticeCancel, WaitOver, storeVars
  <1>9. ASSUME NEW child \in Invocations, Wait(w, child) PROVE SlotInv'
    <2>1. NoNewHolder
      BY <1>9, HolderMoves DEF Wait, Between
    <2>2. UNCHANGED <<record, slots, row>> /\ waiting' \subseteq WaitsOn
      BY <1>0, <1>9 DEF Wait, SetWaitingFor
    <2> QED
      BY <2>1, <2>2, SlotQuietStep
  <1> QED
    BY <1>3, <1>4, <1>5, <1>6, <1>7, <1>8, <1>9 DEF Execute

LEMMA LiveSlots ==
    ASSUME TypeOK, SlotInv, NEW w \in Workers, Live(w)
    PROVE  SlotInv'
  <1>1. NoNewHolder
    BY HolderMoves DEF Live, StartWorker, Retire, Heartbeat, WorkerFallsSilent, Between, Idle
  <1>2. UNCHANGED <<record, slots, row, waiting>>
    BY DEF Live, StartWorker, Retire, Heartbeat, WorkerFallsSilent, RegisterHeartbeat,
           HeartbeatExpires, storeVars
  <1> QED
    BY <1>1, <1>2, SlotQuietStep DEF SlotInv

-----------------------------------------------------------------------------
(* Recovery passes, clients and time.                                      *)

\* A recovery pass, or a client, takes nothing from a worker before its claim.
LEMMA RouteSource ==
    ASSUME NEW rec, NEW runner, CanTransition(rec, "Rerouted", runner)
    PROVE  rec.status \notin AvailableForRun \union Final
  BY DEF CanTransition, ValidTransition, AllowedTransition, AvailableForRun, Final,
         RecoveryStatuses, NoRecord

LEMMA TakeOverSource ==
    ASSUME NEW rec, NEW runner, NEW status \in RecoveryStatuses,
           CanTransition(rec, status, runner)
    PROVE  rec.status \in {"Pending", "Running"}
  BY DEF CanTransition, ValidTransition, AllowedTransition, RecoveryStatuses, NoRecord

LEMMA RecoverSlots ==
    ASSUME TypeOK, StoreTypeOK, SlotInv, NEW p \in Recoverers, Recover(p)
    PROVE  SlotInv'
  <1>0. waiting \subseteq WaitsOn
    BY DEF SlotInv
  <1>1. NoNewHolder
    BY OthersMove, HolderMoves
  <1>2. CASE UNCHANGED storeVars
    BY <1>0, <1>1, <1>2, SlotQuietStep DEF storeVars
  <1>3. CASE StoreLimitError(p)
    BY <1>0, <1>1, <1>3, SlotQuietStep DEF StoreLimitError, StoreError
  <1>4. ASSUME pass[p] # Idle
        PROVE  target[p].inv \in Invocations /\ target[p].status \in RecoveryStatuses
    BY <1>4 DEF TypeOK, Targets
  <1>5. CASE Requeue(p)
    <2>1. PICK i \in Invocations, status \in RecoveryStatuses :
            target[p].inv = i /\ target[p].status = status
      BY <1>4, <1>5 DEF Requeue, Idle
    <2>2. ASSUME NEW new, WriteRecord(i, new), new.status = "Rerouted", Publish(i, "ready"),
                 ReleaseSlot(i), UNCHANGED waiting, Status(i) \notin AvailableForRun \union Final
          PROVE  SlotInv'
      <3>1. About(i) /\ Status(i)' = "Rerouted" /\ waiting' \subseteq waiting
        BY <2>2, RouteEffect
      <3>2. i \in Controlled => Freed(i)
        BY <1>1, <2>2, <3>1, Unheld DEF Freed, Needy, RequiresOwnership
      <3> QED
        BY <1>0, <1>1, <3>1, <3>2, SlotStep DEF About
    <2>3. CASE ChangeReroute(i, p)
      <3>1. Status(i) \notin AvailableForRun \union Final
        BY <2>3, RouteSource DEF ChangeReroute, Status
      <3>2. /\ WriteRecord(i, Transitioned(record[i], "Rerouted", p)) /\ Publish(i, "ready")
            /\ ReleaseSlot(i) /\ UNCHANGED waiting
        BY <2>3 DEF ChangeReroute
      <3> QED
        BY <2>2, <3>1, <3>2, TransitionedStatus
    <2>4. CASE ChangeRecover(i, status, p)
      <3> DEFINE new == Transitioned(Transitioned(record[i], status, p), "Rerouted", p)
      <3>1. Status(i) \notin AvailableForRun \union Final
        BY <2>4 DEF ChangeRecover, RecoveredFrom, AvailableForRun, Final
      <3>2. WriteRecord(i, new) /\ Publish(i, "ready") /\ ReleaseSlot(i) /\ UNCHANGED waiting
        BY <2>4 DEF ChangeRecover
      <3>3. new.status = "Rerouted"
        BY TransitionedStatus
      <3> HIDE DEF new
      <3> QED
        BY <2>2, <3>1, <3>2, <3>3
    <2> QED
      BY <1>2, <1>5, <2>1, <2>3, <2>4 DEF Requeue
  <1>6. CASE TakeOver(p)
    <2>1. PICK i \in Invocations, status \in RecoveryStatuses :
            target[p].inv = i /\ target[p].status = status
      BY <1>4, <1>6 DEF TakeOver, Idle
    <2>2. CASE ChangeStatus(i, status, p)
      <3>1. /\ About(i) /\ Status(i)' = status /\ waiting' \subseteq waiting
            /\ CanTransition(record[i], status, p)
        BY <2>2, StatusEffect
      <3>2. Status(i) \notin AvailableForRun \union Final
        BY <3>1, TakeOverSource DEF Status, AvailableForRun, Final
      <3>3. status \notin RequiresOwnership
        BY DEF RecoveryStatuses, RequiresOwnership
      <3>4. i \in Controlled => Freed(i)
        BY <1>1, <3>1, <3>2, <3>3, Unheld DEF Freed, Needy
      <3> QED
        BY <1>0, <1>1, <3>1, <3>4, SlotStep DEF About
    <2> QED
      BY <1>2, <1>6, <2>1, <2>2 DEF TakeOver
  <1>7. CASE FailAtLimit(p)
    <2>1. PICK i \in Invocations : target[p].inv = i
      BY <1>4, <1>7 DEF FailAtLimit, Idle
    <2>2. CASE ChangeStatus(i, "Failed", p)
      <3>1. About(i) /\ Status(i)' = "Failed" /\ waiting' \subseteq waiting
        BY <2>2, StatusEffect
      <3> QED
        BY <1>0, <1>1, <3>1, SlotStep DEF About, Closed, Final
    <2> QED
      BY <1>2, <1>7, <2>1, <2>2 DEF FailAtLimit
  <1> QED
    BY <1>2, <1>3, <1>5, <1>6, <1>7
       DEF Recover, ReadHistory, ListCandidate, ReadStatus, AbandonPass

LEMMA EnvironmentSlots ==
    ASSUME PromptControl, TypeOK, StoreTypeOK, SlotInv, NEW i \in Invocations, Environment(i)
    PROVE  SlotInv'
  <1>0. waiting \subseteq WaitsOn
    BY DEF SlotInv
  <1>1. NoNewHolder
    BY OthersMove, HolderMoves
  <1>2. CASE ClientSubmit(i)
    <2>1. /\ Status(i)' = "Registered"
          /\ \A j \in Invocations \ {i} : record'[j] = record[j]
      BY <1>2 DEF ClientSubmit, Submit, WriteRecord, StoreTypeOK, Status
    <2>2. \A j \in Invocations \ {i} : row'[j] = row[j]
      BY <1>2 DEF ClientSubmit, Submit, Publish, StoreTypeOK
    <2>3. slots' = slots /\ waiting' = waiting
      BY <1>2 DEF ClientSubmit, Submit
    <2>4. \A j \in Controlled \ {i} : Kept(j)
      BY <2>1, <2>2, <2>3, StoreAssumption DEF Kept
    <2>5. Status(i) \notin AvailableForRun \union Final
      BY <1>2 DEF ClientSubmit, Submit, NoRecord, AvailableForRun, Final
    <2>6. i \in Controlled => Freed(i)
      BY <1>1, <2>1, <2>5, Unheld DEF Freed, Needy, RequiresOwnership
    <2> QED
      BY <1>0, <1>1, <2>3, <2>4, <2>6, SlotStep
  <1>3. CASE ClientCancel(i)
    <2>1. About(i) /\ Status(i)' = "Cancelled" /\ waiting' \subseteq waiting
      BY <1>3, StatusEffect DEF ClientCancel
    <2> QED
      BY <1>0, <1>1, <2>1, SlotStep DEF About, Closed, Final
  <1>4. CASE StatusExpires(i)
    BY <1>0, <1>1, <1>4, SlotQuietStep DEF StatusExpires, StatusAges
  <1>5. CASE LeaseExpires(i)
    <2>1. /\ UNCHANGED <<record, slots, waiting, phase, job>>
          /\ \A j \in Invocations \ {i} : row'[j] = row[j]
      BY <1>5 DEF LeaseExpires, ReservationExpires, Publish, workerVars, StoreTypeOK
    <2>2. i \in Controlled => \A w \in Workers : ~Holds(w, i)'
      BY <1>5, <2>1 DEF LeaseExpires, Claiming, PromptControl, Holds, Between
    <2>3. i \in Controlled => Freed(i)
      BY <2>1, <2>2 DEF Freed, SlotInv, Needy, Status
    <2>4. \A j \in Controlled \ {i} : Kept(j)
      BY <2>1, StoreAssumption DEF Kept
    <2> QED
      BY <1>0, <1>1, <2>1, <2>3, <2>4, SlotStep
  <1> QED
    BY <1>2, <1>3, <1>4, <1>5 DEF Environment

-----------------------------------------------------------------------------
(* The invariant, and what follows.                                        *)

ControlInv == misreads = 0 => SlotInv

LEMMA InitSlots == Init => ControlInv
  <1> SUFFICES ASSUME Init PROVE SlotInv
    BY DEF ControlInv
  <1>1. \A w \in Workers, i \in Controlled : ~Holds(w, i)
    BY DEF Init, Holds, Between
  <1>2. \A i \in Controlled : Status(i) \notin RequiresOwnership
    BY StoreAssumption DEF Init, StoreInit, Status, Absent, NoRecord, RequiresOwnership
  <1>3. waiting = {}
    BY DEF Init, StoreInit
  <1> QED
    BY <1>1, <1>2, <1>3 DEF SlotInv, Needy

LEMMA MisreadsCount == [Next]_vars => Misread \/ misreads' = misreads
  <1>1. ASSUME NEW w \in Workers, Claim(w) PROVE Misread \/ misreads' = misreads
    BY <1>1 DEF Claim, NothingBlocking, Admit
  <1>2. ASSUME NEW w \in Workers, Execute(w) \/ Live(w) PROVE misreads' = misreads
    BY <1>2 DEF Execute, Live
  <1>3. ASSUME NEW p \in Recoverers, Recover(p) PROVE Misread \/ misreads' = misreads
    BY <1>3 DEF Recover, ReadHistory
  <1>4. ASSUME NEW i \in Invocations, Environment(i) PROVE misreads' = misreads
    BY <1>4 DEF Environment
  <1>5. UNCHANGED vars => misreads' = misreads
    BY DEF vars
  <1> QED
    BY <1>1, <1>2, <1>3, <1>4, <1>5 DEF Next

LEMMA NextSlots ==
    ASSUME PromptControl, TypeOK, StoreTypeOK, ControlInv, [Next]_vars
    PROVE  ControlInv'
  <1> SUFFICES ASSUME misreads' = 0 PROVE SlotInv'
    BY DEF ControlInv
  <1>1. misreads' = misreads
    BY SMT, MisreadsCount DEF Misread, TypeOK
  <1>2. SlotInv
    BY <1>1 DEF ControlInv
  <1>3. CASE UNCHANGED vars
    <2>1. NoNewHolder
      BY <1>3, HolderMoves DEF vars
    <2> QED
      BY <1>2, <1>3, <2>1, SlotQuietStep DEF vars, storeVars, SlotInv
  <1> QED
    BY <1>1, <1>2, <1>3, ClaimSlots, ExecuteSlots, LiveSlots, RecoverSlots, EnvironmentSlots
       DEF Next

LEMMA SlotInvariance ==
    ASSUME PromptControl
    PROVE  Spec => [](RuntimeInv /\ ControlInv)
  <1>1. Init => RuntimeInv /\ ControlInv
    BY InitTypeOK, InitIInv, InitSlots DEF Init, RuntimeInv
  <1>2. RuntimeInv /\ ControlInv /\ [Next]_vars => (RuntimeInv /\ ControlInv)'
    BY NextTypeOK, NextStore, NextIInv, NextSlots DEF RuntimeInv, IInv
  <1> QED
    BY <1>1, <1>2, PTL DEF Spec

\* What is claimed or runs under concurrency control, for a worker that has its
\* task, holds a slot, although admission and claim are two transactions:
\* deliveries are claimed within their lease, nobody waits on a controlled
\* invocation, and no failed read admitted one unseen.
THEOREM SlotsAreHeld ==
    ASSUME PromptControl
    PROVE  Spec => [](misreads = 0 => ClaimedHoldsSlot)
  <1>1. ControlInv => (misreads = 0 => ClaimedHoldsSlot)
    BY DEF ControlInv, SlotInv, ClaimedHoldsSlot, Runnable, Needy, RequiresOwnership
  <1> QED
    BY <1>1, SlotInvariance, PTL

\* Under the same conditions no more invocations of a controlled task are claimed
\* or run at once, for workers that can come to their bodies, than
\* running_concurrency allows; workers may lack any tasks.
THEOREM RunningIsLimited ==
    ASSUME PromptControl
    PROVE  Spec => [](misreads = 0 => RunnableWithinLimit)
  <1>1. RuntimeInv /\ ControlInv => (misreads = 0 => RunnableWithinLimit)
    <2> SUFFICES ASSUME RuntimeInv, ControlInv, misreads = 0 PROVE RunnableWithinLimit
      OBVIOUS
    <2> DEFINE running == {i \in Controlled : Runnable(i)}
    <2>1. running \subseteq slots
      BY DEF ControlInv, SlotInv, Runnable, Needy, RequiresOwnership
    <2>2. IsFiniteSet(slots)
      BY StoreAssumption, FS_Subset DEF RuntimeInv, IInv, StoreTypeOK
    <2>3. Cardinality(running) <= Cardinality(slots) /\ IsFiniteSet(running)
      BY <2>1, <2>2, FS_Subset
    <2>4. Cardinality(running) \in Nat /\ Cardinality(slots) \in Nat /\ Limit \in Nat
      BY <2>2, <2>3, FS_CardinalityType, StoreAssumption
    <2>5. Cardinality(slots) <= Limit
      BY DEF RuntimeInv, IInv, SlotsWithinLimit
    <2> HIDE DEF running
    <2>6. Cardinality(running) <= Limit
      BY SMT, <2>3, <2>4, <2>5
    <2> QED
      BY <2>6 DEF RunnableWithinLimit, running
  <1> QED
    BY <1>1, SlotInvariance, PTL
=============================================================================
