---------------------------- MODULE OrderedProofs ----------------------------
(***************************************************************************)
(* Theorems about OrderedRuntime, for every number of workers, passes and  *)
(* invocations and for every limit.                                        *)
(***************************************************************************)
EXTENDS OrderedRuntime, InvocationStatusProofs

\* First-order reasoning throughout; leaves with arithmetic ask for SMT.
USE Zenon

-----------------------------------------------------------------------------
(* Types, one predicate per group of variables.                            *)

ControlOK ==
    /\ record \in [Invocations -> StatusRecords]
    /\ old \subseteq Invocations
    /\ slots \subseteq Controlled

QueueOK == ready \in [Invocations -> Nat] /\ later \in [Invocations -> Nat]

PayloadOK == result \in [Invocations -> Owners] /\ error \in [Invocations -> Owners]

HistoryOK == retries \in [Invocations -> Nat] /\ recoveries \in [Invocations -> Nat]

Jobless == {"idle", "polling", "dead"}

WorkerOK ==
    /\ phase \in [Workers -> WorkerPhases]
    /\ job \in [Workers -> Invocations \union {None}]
    /\ \A w \in Workers : (job[w] = None) <=> phase[w] \in Jobless
    /\ tries \in [Workers -> Nat]

PassOK ==
    /\ pass \in [Recoverers -> PassPhases]
    /\ target \in [Recoverers -> Targets \union {NoTarget}]
    /\ \A p \in Recoverers : (target[p] = NoTarget) <=> (pass[p] = "idle")

ClientOK ==
    /\ waiters \subseteq Awaited
    /\ expired \subseteq Workers
    /\ submission \in [Invocations -> {"new", "registered", "done"}]
    /\ orphans \subseteq Invocations

AllOK == ControlOK /\ QueueOK /\ PayloadOK /\ HistoryOK /\ WorkerOK /\ PassOK /\ ClientOK

\* The groups are the type invariant.
LEMMA TypeGroups == (TypeOK <=> AllOK) /\ (TypeOK' <=> AllOK')
  BY DEF TypeOK, AllOK, ControlOK, QueueOK, PayloadOK, HistoryOK, WorkerOK, PassOK, ClientOK,
         Jobless

\* A worker that is busy carries an invocation.
LEMMA BusyHasJob ==
    ASSUME WorkerOK, NEW w \in Workers, phase[w] \notin Jobless
    PROVE  job[w] \in Invocations
  BY DEF WorkerOK

\* A pass that is not idle has an invocation and a recovery status in hand.
LEMMA BusyHasTarget ==
    ASSUME PassOK, NEW p \in Recoverers, pass[p] # "idle"
    PROVE  target[p] \in Targets /\ target[p].inv \in Invocations
                                 /\ target[p].status \in RecoveryStatuses
  BY DEF PassOK, Targets

LEMMA RunnerTypes ==
    /\ Workers \subseteq Owners
    /\ Recoverers \subseteq Owners
    /\ Client \in Owners
    /\ NoRunner \in Owners
  BY OrderedAssumption DEF Owners

LEMMA GotoType ==
    ASSUME WorkerOK, NEW w \in Workers, NEW where \in WorkerPhases, Goto(w, where),
           phase[w] \in Jobless <=> where \in Jobless
    PROVE  WorkerOK'
  BY DEF WorkerOK, Goto

LEMMA DropType ==
    ASSUME WorkerOK, NEW w \in Workers, NEW where \in Jobless, Drop(w, where)
    PROVE  WorkerOK'
  BY DEF WorkerOK, Drop, Jobless, WorkerPhases

LEMMA HoldType ==
    ASSUME WorkerOK, NEW w \in Workers, NEW i \in Invocations, Hold(w, i)
    PROVE  WorkerOK'
  BY OrderedAssumption DEF WorkerOK, Hold, Jobless, WorkerPhases, None

LEMMA SetStatusType ==
    ASSUME ControlOK, NEW i \in Invocations, NEW status, NEW runner \in Owners,
           SetStatus(i, status, runner)
    PROVE  ControlOK'
  <1>1. Transitioned(record[i], status, runner) \in StatusRecords
    BY TransitionType DEF ControlOK, SetStatus
  <1> QED
    BY <1>1 DEF ControlOK, SetStatus

LEMMA RefusedType ==
    ASSUME ControlOK, NEW i, NEW status, NEW runner, Refused(i, status, runner)
    PROVE  ControlOK'
  BY DEF ControlOK, Refused, control

LEMMA UnchangedType ==
    /\ ControlOK /\ UNCHANGED control => ControlOK'
    /\ QueueOK /\ UNCHANGED queue => QueueOK'
    /\ PayloadOK /\ UNCHANGED payload => PayloadOK'
    /\ HistoryOK /\ UNCHANGED history => HistoryOK'
    /\ WorkerOK /\ UNCHANGED worker => WorkerOK'
    /\ PassOK /\ UNCHANGED passes => PassOK'
  BY DEF ControlOK, control, QueueOK, queue, PayloadOK, payload, HistoryOK, history,
         WorkerOK, worker, PassOK, passes

LEMMA PushType ==
    ASSUME QueueOK, NEW i \in Invocations, Push(i) \/ PushLater(i)
    PROVE  QueueOK'
  BY SMT DEF QueueOK, Push, PushLater

LEMMA RemoveType ==
    ASSUME ControlOK, NEW i, RemoveFromIndex(i)
    PROVE  ControlOK'
  BY DEF ControlOK, RemoveFromIndex

LEMMA PassGotoType ==
    ASSUME PassOK, NEW p \in Recoverers, NEW where \in PassPhases, PassGoto(p, where),
           pass[p] # "idle", where # "idle"
    PROVE  PassOK'
  BY DEF PassOK, PassGoto

LEMMA EndPassType ==
    ASSUME PassOK, NEW p \in Recoverers, EndPass(p)
    PROVE  PassOK'
  BY DEF PassOK, EndPass, PassPhases

-----------------------------------------------------------------------------
(* What each group of actions does to the types.                           *)

LEMMA ClaimType ==
    ASSUME ControlOK, QueueOK, WorkerOK, NEW w \in Workers, Claim(w)
    PROVE  ControlOK' /\ QueueOK' /\ WorkerOK'
  <1> USE DEF WorkerPhases, Jobless
  <1> NoRunner \in Owners
    BY RunnerTypes
  <1>1. ASSUME NEW i \in Invocations, ClaimBlocking(w, i) PROVE ControlOK' /\ QueueOK' /\ WorkerOK'
    BY <1>1, HoldType, UnchangedType DEF ClaimBlocking
  <1>2. ASSUME NEW i \in Invocations, Pop(w, i) PROVE ControlOK' /\ QueueOK' /\ WorkerOK'
    <2>1. QueueOK'
      BY SMT, <1>2 DEF QueueOK, Pop
    <2> QED
      BY <1>2, <2>1, HoldType, UnchangedType DEF Pop
  <1>3. CASE NothingBlocking(w)
    BY <1>3, GotoType, UnchangedType DEF NothingBlocking
  <1>4. CASE QueuesEmpty(w)
    BY <1>4, GotoType, UnchangedType DEF QueuesEmpty
  <1>5. CASE Admit(w)
    <2>1. WorkerOK'
      BY <1>5, GotoType DEF Admit
    <2>2. ControlOK'
      BY <1>5, UnchangedType DEF Admit, ControlOK
    <2> QED
      BY <1>5, <2>1, <2>2, UnchangedType DEF Admit
  <1>6. CASE Reject(w)
    <2>1. job[w] \in Invocations
      BY <1>6, BusyHasJob DEF Reject
    <2>2. ControlOK'
      BY <1>6, <2>1, SetStatusType, RefusedType DEF Reject
    <2>3. WorkerOK'
      BY <1>6, GotoType, DropType DEF Reject
    <2> QED
      BY <1>6, <2>2, <2>3, UnchangedType DEF Reject
  <1>7. CASE RerouteDenied(w)
    <2>1. job[w] \in Invocations
      BY <1>7, BusyHasJob DEF RerouteDenied
    <2>2. ControlOK'
      BY <1>7, <2>1, SetStatusType, RefusedType DEF RerouteDenied
    <2>3. WorkerOK'
      BY <1>7, GotoType, DropType DEF RerouteDenied
    <2> QED
      BY <1>7, <2>2, <2>3, UnchangedType DEF RerouteDenied
  <1>8. CASE RouteDenied(w)
    <2>1. job[w] \in Invocations
      BY <1>8, BusyHasJob DEF RouteDenied
    <2>2. WorkerOK'
      BY <1>8, DropType DEF RouteDenied
    <2> QED
      BY <1>8, <2>1, <2>2, PushType, UnchangedType DEF RouteDenied
  <1> QED
    BY <1>1, <1>2, <1>3, <1>4, <1>5, <1>6, <1>7, <1>8 DEF Claim

LEMMA ExecuteType ==
    ASSUME ControlOK, QueueOK, PayloadOK, HistoryOK, WorkerOK, waiters \subseteq Awaited,
           NEW w \in Workers, Execute(w)
    PROVE  /\ ControlOK' /\ QueueOK' /\ PayloadOK' /\ HistoryOK' /\ WorkerOK'
           /\ waiters' \subseteq Awaited
  <1> USE DEF WorkerPhases, Jobless
  <1> DEFINE Plain == UNCHANGED <<waiters, payload, history>>
  <1>0. /\ Plain => PayloadOK' /\ HistoryOK' /\ waiters' \subseteq Awaited
        /\ w \in Owners
    BY UnchangedType, RunnerTypes
  <1>1. CASE ClaimPending(w) /\ Plain
    <2>1. job[w] \in Invocations
      BY <1>1, BusyHasJob DEF ClaimPending
    <2> QED
      BY <1>0, <1>1, <2>1, SetStatusType, RefusedType, GotoType, UnchangedType DEF ClaimPending
  <1>2. CASE ReleaseLost(w) /\ Plain
    BY <1>0, <1>2, RemoveType, DropType, UnchangedType DEF ReleaseLost
  <1>3. CASE StartRunning(w) /\ Plain
    <2>1. job[w] \in Invocations
      BY <1>3, BusyHasJob DEF StartRunning
    <2> QED
      BY <1>0, <1>3, <2>1, SetStatusType, RefusedType, GotoType, DropType, UnchangedType
         DEF StartRunning
  <1>4. CASE Begin(w) /\ Plain
    <2>1. job[w] \in Invocations
      BY <1>4, BusyHasJob DEF Begin
    <2>2. WorkerOK'
      BY <1>4, <2>1 DEF Begin, WorkerOK, HistoryOK
    <2> QED
      BY <1>0, <1>4, <2>2, UnchangedType DEF Begin
  <1>5. CASE Complete(w) /\ Plain
    <2>1. job[w] \in Invocations
      BY <1>5, BusyHasJob DEF Complete
    <2> QED
      BY <1>0, <1>5, <2>1, SetStatusType, RefusedType, GotoType, UnchangedType DEF Complete
  <1>6. CASE ReleaseForRetry(w) /\ Plain
    BY <1>0, <1>6, RemoveType, GotoType, UnchangedType DEF ReleaseForRetry
  <1>7. CASE WriteRetry(w) /\ Plain
    <2>1. job[w] \in Invocations
      BY <1>7, BusyHasJob DEF WriteRetry
    <2> QED
      BY <1>0, <1>7, <2>1, SetStatusType, RefusedType, GotoType, UnchangedType DEF WriteRetry
  <1>8. CASE RouteRetry(w) /\ Plain
    <2>1. job[w] \in Invocations
      BY <1>8, BusyHasJob DEF RouteRetry
    <2> QED
      BY <1>0, <1>8, <2>1, PushType, DropType, UnchangedType DEF RouteRetry
  <1>9. CASE Discard(w) /\ Plain
    BY <1>0, <1>9, GotoType, DropType, UnchangedType DEF Discard
  <1>10. CASE NoticeCancel(w) /\ Plain
    BY <1>0, <1>10, GotoType, UnchangedType DEF NoticeCancel
  <1>11. CASE StoreOutcome(w) /\ UNCHANGED <<waiters, history>>
    <2>1. job[w] \in Invocations
      BY <1>11, BusyHasJob DEF StoreOutcome
    <2>2. PayloadOK'
      BY <1>0, <1>11, <2>1 DEF StoreOutcome, PayloadOK
    <2> QED
      BY <1>11, <2>2, GotoType, UnchangedType DEF StoreOutcome
  <1>12. CASE Finish(w) /\ UNCHANGED <<payload, history>>
    BY <1>12, RemoveType, DropType, UnchangedType DEF Finish
  <1>13. CASE CountRetry(w) /\ UNCHANGED <<waiters, payload>>
    <2>1. job[w] \in Invocations
      BY <1>13, BusyHasJob DEF CountRetry
    <2>2. HistoryOK'
      BY SMT, <1>13, <2>1 DEF CountRetry, HistoryOK
    <2> QED
      BY <1>13, <2>2, GotoType, UnchangedType DEF CountRetry
  <1> QED
    BY <1>1, <1>2, <1>3, <1>4, <1>5, <1>6, <1>7, <1>8, <1>9, <1>10, <1>11, <1>12, <1>13
       DEF Execute

LEMMA RecoverType ==
    ASSUME ControlOK, QueueOK, PayloadOK, HistoryOK, PassOK, waiters \subseteq Awaited,
           NEW p \in Recoverers, Recover(p)
    PROVE  /\ ControlOK' /\ QueueOK' /\ PayloadOK' /\ HistoryOK' /\ PassOK'
           /\ waiters' \subseteq Awaited
  <1> USE DEF PassPhases
  <1> DEFINE Plain == UNCHANGED <<waiters, payload, history>>
  <1>0. /\ Plain => PayloadOK' /\ HistoryOK' /\ waiters' \subseteq Awaited
        /\ p \in Owners
    BY UnchangedType, RunnerTypes
  <1>1. ASSUME NEW i \in Invocations, List(p, i), Plain
        PROVE  ControlOK' /\ QueueOK' /\ PassOK'
    <2>1. RecoveryStatusOf(i) \in RecoveryStatuses
      BY DEF RecoveryStatusOf, RecoveryStatuses
    <2>2. [inv |-> i, status |-> RecoveryStatusOf(i)] # NoTarget
      BY OrderedAssumption DEF NoTarget, None
    <2>3. PassOK'
      BY <1>1, <2>1, <2>2 DEF List, PassOK, Targets
    <2> QED
      BY <1>1, <2>3, UnchangedType DEF List
  <1>2. CASE Decide(p) /\ Plain
    <2>1. \E where \in {"error", "limit", "requeue", "mark"} : PassGoto(p, where)
      BY <1>2 DEF Decide
    <2> QED
      BY <1>0, <1>2, <2>1, PassGotoType, UnchangedType DEF Decide
  <1>3. CASE Mark(p) /\ Plain
    <2>1. target[p].inv \in Invocations
      BY <1>3, BusyHasTarget DEF Mark
    <2> QED
      BY <1>0, <1>3, <2>1, SetStatusType, RefusedType, PassGotoType, EndPassType, UnchangedType
         DEF Mark
  <1>4. CASE Requeue(p) /\ Plain
    <2>1. target[p].inv \in Invocations
      BY <1>4, BusyHasTarget DEF Requeue
    <2> QED
      BY <1>0, <1>4, <2>1, SetStatusType, RefusedType, PassGotoType, EndPassType, UnchangedType
         DEF Requeue
  <1>5. CASE Route(p) /\ Plain
    <2>1. target[p].inv \in Invocations
      BY <1>5, BusyHasTarget DEF Route
    <2> QED
      BY <1>0, <1>5, <2>1, PushType, EndPassType, UnchangedType DEF Route
  <1>6. CASE FailAtLimit(p) /\ Plain
    <2>1. target[p].inv \in Invocations
      BY <1>6, BusyHasTarget DEF FailAtLimit
    <2> QED
      BY <1>0, <1>6, <2>1, SetStatusType, RefusedType, PassGotoType, EndPassType, UnchangedType
         DEF FailAtLimit
  <1>7. CASE CountRecovery(p) /\ UNCHANGED <<waiters, payload>>
    <2>1. target[p].inv \in Invocations
      BY <1>7, BusyHasTarget DEF CountRecovery
    <2>2. HistoryOK'
      BY SMT, <1>7, <2>1 DEF CountRecovery, HistoryOK
    <2> QED
      BY <1>7, <2>2, PassGotoType, UnchangedType DEF CountRecovery
  <1>8. CASE StoreLimitError(p) /\ UNCHANGED <<waiters, history>>
    <2>1. target[p].inv \in Invocations
      BY <1>8, BusyHasTarget DEF StoreLimitError
    <2>2. PayloadOK'
      BY <1>0, <1>8, <2>1 DEF StoreLimitError, PayloadOK
    <2> QED
      BY <1>8, <2>2, PassGotoType, UnchangedType DEF StoreLimitError
  <1>9. CASE ReleaseFailed(p) /\ UNCHANGED <<payload, history>>
    BY <1>9, EndPassType, UnchangedType DEF ReleaseFailed
  <1> QED
    BY <1>0, <1>1, <1>2, <1>3, <1>4, <1>5, <1>6, <1>7, <1>8, <1>9 DEF Recover

LEMMA FaultType ==
    ASSUME AllOK, NEW r \in Mortal, Fault(r)
    PROVE  AllOK'
  <1> USE DEF AllOK
  <1>0. ControlOK' /\ QueueOK' /\ PayloadOK' /\ HistoryOK'
    BY UnchangedType DEF Fault, Die, AbandonPass, ClientDies
  <1>1. CASE r \in Workers /\ Die(r) /\ UNCHANGED <<submission, passes>>
    <2>1. WorkerOK' /\ PassOK'
      BY <1>1, DropType, UnchangedType DEF Die, Jobless
    <2>2. orphans' \subseteq Invocations
      <3>1. phase[r] \in CarryingPhases => job[r] \in Invocations
        BY <1>1, BusyHasJob DEF CarryingPhases, Jobless
      <3> QED
        BY <1>1, <3>1 DEF Die, ClientOK
    <2> QED
      BY <1>0, <1>1, <2>1, <2>2 DEF Fault, ClientOK
  <1>2. CASE r \in Recoverers /\ AbandonPass(r) /\ UNCHANGED <<submission, worker>>
    <2>1. WorkerOK' /\ PassOK'
      BY <1>2, EndPassType, UnchangedType DEF AbandonPass
    <2>2. orphans' \subseteq Invocations
      BY <1>2, BusyHasTarget DEF AbandonPass, ClientOK
    <2> QED
      BY <1>0, <1>2, <2>1, <2>2 DEF Fault, ClientOK
  <1>3. CASE (\E i \in Invocations : ClientDies(i)) /\ UNCHANGED <<worker, passes>>
    <2>1. ClientOK'
      BY <1>3 DEF ClientDies, Fault, ClientOK
    <2> QED
      BY <1>0, <1>3, <2>1, UnchangedType
  <1> QED
    BY <1>1, <1>2, <1>3 DEF Fault

LEMMA OutsideType ==
    ASSUME AllOK
    PROVE  /\ \A w \in Workers : Pulse(w) => AllOK'
           /\ \A i \in Invocations : Submit(i) \/ Time(i) \/ Environment(i) => AllOK'
  <1> USE DEF AllOK
  <1>1. ASSUME NEW w \in Workers, Pulse(w) PROVE AllOK'
    <2>1. ClientOK'
      BY <1>1 DEF Pulse, HeartbeatExpires, Heartbeat, ClientOK
    <2> QED
      BY <1>1, <2>1, UnchangedType DEF Pulse, HeartbeatExpires, Heartbeat
  <1>2. ASSUME NEW i \in Invocations, Submit(i) PROVE AllOK'
    <2>1. CASE Register(i)
      <3>1. [status |-> "Registered", owner |-> Client] \in StatusRecords
        BY RunnerTypes DEF StatusRecords, Statuses, ReleasesOwnership, AvailableForRun
      <3>2. ControlOK' /\ ClientOK'
        BY <1>2, <2>1, <3>1 DEF Submit, Register, ControlOK, ClientOK
      <3> QED
        BY <1>2, <2>1, <3>2, UnchangedType DEF Submit, Register
    <2>2. CASE RouteSubmitted(i)
      <3>1. ClientOK'
        BY <1>2, <2>2 DEF Submit, RouteSubmitted, ClientOK
      <3> QED
        BY <1>2, <2>2, <3>1, PushType, UnchangedType DEF Submit, RouteSubmitted
    <2> QED
      BY <1>2, <2>1, <2>2 DEF Submit
  <1>3. ASSUME NEW i \in Invocations, Time(i) PROVE AllOK'
    <2>1. ClientOK'
      BY <1>3 DEF Time, ClientOK
    <2>2. CASE DelayEnds(i)
      <3>1. QueueOK'
        BY SMT, <2>2 DEF DelayEnds, QueueOK
      <3> QED
        BY <1>3, <2>1, <2>2, <3>1, UnchangedType DEF Time, DelayEnds
    <2>3. CASE StatusAges(i)
      <3>1. ControlOK'
        BY <2>3 DEF StatusAges, ControlOK
      <3> QED
        BY <1>3, <2>1, <2>3, <3>1, UnchangedType DEF Time, StatusAges
    <2> QED
      BY <1>3, <2>2, <2>3 DEF Time
  <1>4. ASSUME NEW i \in Invocations, Environment(i) PROVE AllOK'
    <2>1. ClientOK'
      BY <1>4 DEF Environment, Cancel, Await, ClientOK
    <2>2. ControlOK' /\ QueueOK'
      BY <1>4, SetStatusType, RunnerTypes, UnchangedType DEF Environment, Cancel, Await
    <2> QED
      BY <1>4, <2>1, <2>2, UnchangedType DEF Environment
  <1> QED
    BY <1>1, <1>2, <1>3, <1>4

LEMMA InitType == Init => TypeOK
  BY SMT, OrderedAssumption DEF Init, TypeOK, StatusRecords, Absent, Owners, WorkerPhases, PassPhases

LEMMA StepType == TypeOK /\ [Next]_vars => TypeOK'
  <1> SUFFICES ASSUME AllOK, [Next]_vars PROVE AllOK'
    BY TypeGroups
  <1>1. CASE UNCHANGED vars
    BY <1>1, UnchangedType DEF AllOK, vars, ClientOK
  <1>2. ASSUME NEW w \in Workers, Work(w) PROVE AllOK'
    <2>1. PassOK'
      BY <1>2, UnchangedType DEF Work, AllOK
    <2>2. CASE Claim(w)
      BY <1>2, <2>1, <2>2, ClaimType, UnchangedType DEF Work, Claim, AllOK, ClientOK
    <2>3. CASE Execute(w)
      BY <1>2, <2>1, <2>3, ExecuteType DEF Work, AllOK, ClientOK
    <2> QED
      BY <1>2, <2>2, <2>3 DEF Work
  <1>3. ASSUME NEW p \in Recoverers, Recover(p) PROVE AllOK'
    <2>1. WorkerOK'
      BY <1>3, UnchangedType DEF Recover, AllOK
    <2> QED
      BY <1>3, <2>1, RecoverType DEF Recover, AllOK, ClientOK
  <1> QED
    BY <1>1, <1>2, <1>3, FaultType, OutsideType DEF Next

\* Every process stays at a step of its code with the data that step needs.
THEOREM TypeCorrect == Spec => []TypeOK
  <1> QED
    BY InitType, StepType, PTL DEF Spec

-----------------------------------------------------------------------------
(* Who writes which status, and where the writer is before and after.      *)


\* A worker at `from` writes the status of its job and goes on to `to`.
WorkerWrites(w, from, status, to) ==
    /\ phase[w] = from
    /\ phase' = [phase EXCEPT ![w] = to]
    /\ job' = job
    /\ \E runner \in Owners : SetStatus(job[w], status, runner)

PassWrites(p, from, status, to) ==
    /\ pass[p] = from
    /\ pass' = [pass EXCEPT ![p] = to]
    /\ target' = target
    /\ SetStatus(target[p].inv, status, p)

\* The writes of a worker.
LEMMA WorkWrites ==
    ASSUME NEW w \in Workers, Work(w)
    PROVE  \/ record' = record
           \/ WorkerWrites(w, "denied", "ConcurrencyControlled", "controlled")
           \/ /\ phase[w] = "denied"
              /\ \E runner \in Owners : SetStatus(job[w], "ConcurrencyControlledFinal", runner)
           \/ WorkerWrites(w, "controlled", "Rerouted", "rerouted")
           \/ WorkerWrites(w, "admitted", "Pending", "claimed")
           \/ WorkerWrites(w, "claimed", "Running", "running")
           \/ WorkerWrites(w, "stored", "Success", "finished")
           \/ WorkerWrites(w, "erred", "Failed", "finished")
           \/ WorkerWrites(w, "unslotted", "Retry", "retried")
  <1> USE RunnerTypes
  <1>1. CASE Claim(w)
    <2>1. CASE Reject(w)
      BY <2>1 DEF Reject, Refused, control, Goto, WorkerWrites
    <2>2. CASE RerouteDenied(w)
      BY <2>2 DEF RerouteDenied, Refused, control, Goto, WorkerWrites
    <2>3. CASE Admit(w) \/ RouteDenied(w) \/ QueuesEmpty(w) \/ NothingBlocking(w)
      BY <2>3 DEF Admit, RouteDenied, QueuesEmpty, NothingBlocking, control
    <2>4. CASE \E i \in Invocations : ClaimBlocking(w, i) \/ Pop(w, i)
      BY <2>4 DEF ClaimBlocking, Pop, control
    <2> QED
      BY <1>1, <2>1, <2>2, <2>3, <2>4 DEF Claim
  <1>2. CASE Execute(w)
    <2>1. CASE ClaimPending(w)
      BY <2>1 DEF ClaimPending, Refused, control, Goto, WorkerWrites
    <2>2. CASE StartRunning(w)
      BY <2>2 DEF StartRunning, Refused, control, Goto, WorkerWrites
    <2>3. CASE Complete(w)
      BY <2>3 DEF Complete, Refused, control, Goto, WorkerWrites
    <2>4. CASE WriteRetry(w)
      BY <2>4 DEF WriteRetry, Refused, control, Goto, WorkerWrites
    <2>5. CASE \/ ReleaseLost(w) \/ Begin(w) \/ ReleaseForRetry(w) \/ RouteRetry(w)
               \/ Discard(w) \/ NoticeCancel(w) \/ StoreOutcome(w) \/ Finish(w) \/ CountRetry(w)
      BY <2>5 DEF ReleaseLost, Begin, ReleaseForRetry, RouteRetry, Discard, NoticeCancel,
                  StoreOutcome, Finish, CountRetry, RemoveFromIndex, control
    <2> QED
      BY <1>2, <2>1, <2>2, <2>3, <2>4, <2>5 DEF Execute
  <1> QED
    BY <1>1, <1>2 DEF Work

\* The writes of a recovery pass.
LEMMA RecoverWrites ==
    ASSUME PassOK, NEW p \in Recoverers, Recover(p)
    PROVE  \/ record' = record
           \/ \E from \in {"mark", "limit"}, to \in {"marked", "limited"} :
                 PassWrites(p, from, target[p].status, to)
           \/ PassWrites(p, "requeue", "Rerouted", "route")
           \/ PassWrites(p, "fail", "Failed", "failed")
  <1>1. CASE Mark(p)
    BY <1>1 DEF Mark, Refused, control, PassGoto, PassWrites
  <1>2. CASE Requeue(p)
    BY <1>2 DEF Requeue, Refused, control, PassGoto, PassWrites
  <1>3. CASE FailAtLimit(p)
    BY <1>3 DEF FailAtLimit, Refused, control, PassGoto, PassWrites
  <1>4. CASE \/ \E i \in Invocations : List(p, i)
             \/ Decide(p) \/ Route(p) \/ CountRecovery(p) \/ StoreLimitError(p)
             \/ ReleaseFailed(p)
    BY <1>4 DEF List, Decide, Route, CountRecovery, StoreLimitError, ReleaseFailed, control
  <1> QED
    BY <1>1, <1>2, <1>3, <1>4 DEF Recover

\* Besides, a registration creates a record and a cancellation ends one.
LEMMA OutsideWrites ==
    /\ \A w \in Workers : Pulse(w) => record' = record
    /\ \A r \in Mortal : Fault(r) => record' = record
    /\ \A i \in Invocations :
          /\ Time(i) => record' = record
          /\ Submit(i) => record' = record \/ Register(i)
          /\ Environment(i) => record' = record \/ Cancel(i)
  <1>1. ASSUME NEW r \in Mortal, Fault(r) PROVE record' = record
    BY <1>1 DEF Fault, Die, AbandonPass, ClientDies, control
  <1>2. ASSUME NEW i \in Invocations
        PROVE  /\ Time(i) => record' = record
               /\ Submit(i) => record' = record \/ Register(i)
               /\ Environment(i) => record' = record \/ Cancel(i)
    BY DEF Time, DelayEnds, StatusAges, Submit, RouteSubmitted, Environment, Await, control
  <1>3. ASSUME NEW w \in Workers, Pulse(w) PROVE record' = record
    BY <1>3 DEF Pulse, HeartbeatExpires, Heartbeat, control
  <1> QED
    BY <1>1, <1>2, <1>3

\* One write changes the status of one invocation.
LEMMA WriteEffect ==
    ASSUME ControlOK, NEW i \in Invocations, NEW status, NEW runner, SetStatus(i, status, runner)
    PROVE  /\ record'[i].status = status
           /\ AllowedTransition(record[i].status, status)
           /\ \A j \in Invocations \ {i} : record'[j] = record[j]
  BY DEF ControlOK, SetStatus, Transitioned, CanTransition, ValidTransition

-----------------------------------------------------------------------------
(* OutcomeIsStored: the payload is written before the status, and stays.   *)

\* Whoever is about to write Success or Failed has seen to the payload.
StoredInv ==
    /\ OutcomeIsStored
    /\ \A w \in Workers :
          /\ phase[w] = "stored" => result[job[w]] # NoRunner
          /\ phase[w] = "erred" => error[job[w]] # NoRunner
    /\ \A p \in Recoverers : pass[p] = "fail" => error[target[p].inv] # NoRunner

\* A worker moves only itself.
LEMMA WorkMovesOne ==
    ASSUME WorkerOK, NEW w \in Workers, Work(w)
    PROVE  /\ \A v \in Workers \ {w} : phase'[v] = phase[v] /\ job'[v] = job[v]
           /\ pass' = pass /\ target' = target /\ submission' = submission /\ orphans' = orphans
  <1>0. pass' = pass /\ target' = target /\ submission' = submission /\ orphans' = orphans
    BY DEF Work, passes
  <1>1. CASE Claim(w)
    <2>1. CASE \E i \in Invocations : ClaimBlocking(w, i) \/ Pop(w, i)
      BY <1>0, <2>1 DEF ClaimBlocking, Pop, Hold, WorkerOK
    <2>2. CASE NothingBlocking(w) \/ QueuesEmpty(w) \/ Admit(w)
      BY <1>0, <2>2 DEF NothingBlocking, QueuesEmpty, Admit, Goto, WorkerOK
    <2>3. CASE Reject(w) \/ RerouteDenied(w) \/ RouteDenied(w)
      BY <1>0, <2>3 DEF Reject, RerouteDenied, RouteDenied, Goto, Drop, WorkerOK
    <2> QED
      BY <1>1, <2>1, <2>2, <2>3 DEF Claim
  <1>2. CASE Execute(w)
    <2>1. CASE ClaimPending(w) \/ StartRunning(w) \/ Complete(w) \/ WriteRetry(w) \/ Discard(w)
      BY <1>0, <2>1 DEF ClaimPending, StartRunning, Complete, WriteRetry, Discard, Goto, Drop,
                        WorkerOK
    <2>2. CASE ReleaseLost(w) \/ RouteRetry(w) \/ Finish(w) \/ Begin(w)
      BY <1>0, <2>2 DEF ReleaseLost, RouteRetry, Finish, Begin, Drop, WorkerOK
    <2>3. CASE ReleaseForRetry(w) \/ NoticeCancel(w) \/ StoreOutcome(w) \/ CountRetry(w)
      BY <1>0, <2>3 DEF ReleaseForRetry, NoticeCancel, StoreOutcome, CountRetry, Goto, WorkerOK
    <2> QED
      BY <1>2, <2>1, <2>2, <2>3 DEF Execute
  <1> QED
    BY <1>1, <1>2 DEF Work

\* Only store_result and store_error lead to the writes of Success and Failed.
LEMMA StoresFirst ==
    ASSUME WorkerOK, NEW w \in Workers, Work(w), phase'[w] \in {"stored", "erred"}
    PROVE  StoreOutcome(w)
  <1>1. CASE Claim(w)
    BY <1>1 DEF Claim, ClaimBlocking, Pop, Hold, NothingBlocking, QueuesEmpty, Admit, Goto,
                Reject, RerouteDenied, RouteDenied, Drop, WorkerOK
  <1>2. ~(ClaimPending(w) \/ StartRunning(w) \/ Complete(w) \/ WriteRetry(w) \/ Discard(w))
    BY DEF ClaimPending, StartRunning, Complete, WriteRetry, Discard, Goto, Drop, WorkerOK
  <1>3. ~(ReleaseLost(w) \/ RouteRetry(w) \/ Finish(w) \/ Begin(w))
    BY DEF ReleaseLost, RouteRetry, Finish, Begin, Drop, WorkerOK
  <1>4. ~(ReleaseForRetry(w) \/ NoticeCancel(w) \/ CountRetry(w))
    BY DEF ReleaseForRetry, NoticeCancel, CountRetry, Goto, WorkerOK
  <1> QED
    BY <1>1, <1>2, <1>3, <1>4 DEF Work, Execute

\* Nothing erases a stored payload.
LEMMA PayloadStays ==
    ASSUME AllOK, Next
    PROVE  \A i \in Invocations : /\ result[i] # NoRunner => result'[i] # NoRunner
                                  /\ error[i] # NoRunner => error'[i] # NoRunner
  <1> USE NoRunnerAssumption, OrderedAssumption DEF AllOK
  <1>1. ASSUME NEW w \in Workers, StoreOutcome(w)
        PROVE  \A i \in Invocations : /\ result[i] # NoRunner => result'[i] # NoRunner
                                      /\ error[i] # NoRunner => error'[i] # NoRunner
    BY <1>1, BusyHasJob DEF StoreOutcome, PayloadOK
  <1>2. ASSUME NEW p \in Recoverers, StoreLimitError(p)
        PROVE  \A i \in Invocations : /\ result[i] # NoRunner => result'[i] # NoRunner
                                      /\ error[i] # NoRunner => error'[i] # NoRunner
    BY <1>2, BusyHasTarget DEF StoreLimitError, PayloadOK
  <1> DEFINE Others == UNCHANGED payload
  <1>3. ASSUME NEW w \in Workers, Work(w) PROVE StoreOutcome(w) \/ Others
    BY <1>3 DEF Work, Claim, Execute
  <1>4. ASSUME NEW p \in Recoverers, Recover(p) PROVE StoreLimitError(p) \/ Others
    BY <1>4 DEF Recover
  <1>5. \/ \E w \in Workers : Pulse(w)
        \/ \E i \in Invocations : Submit(i) \/ Time(i) \/ Environment(i)
        \/ \E r \in Mortal : Fault(r)
        => Others
    BY DEF Pulse, Submit, Time, Environment, Fault
  <1> QED
    BY <1>1, <1>2, <1>3, <1>4, <1>5 DEF Next, payload

\* A pass moves only itself.
LEMMA RecoverMovesOne ==
    ASSUME PassOK, NEW p \in Recoverers, Recover(p)
    PROVE  /\ \A q \in Recoverers \ {p} : pass'[q] = pass[q] /\ target'[q] = target[q]
           /\ phase' = phase /\ job' = job /\ submission' = submission /\ orphans' = orphans
  <1>0. phase' = phase /\ job' = job /\ submission' = submission /\ orphans' = orphans
    BY DEF Recover, worker
  <1>1. CASE \E i \in Invocations : List(p, i)
    BY <1>0, <1>1 DEF List, PassOK
  <1>2. CASE Decide(p) \/ CountRecovery(p) \/ StoreLimitError(p)
    BY <1>0, <1>2 DEF Decide, CountRecovery, StoreLimitError, PassGoto, PassOK
  <1>3. CASE Mark(p) \/ Requeue(p) \/ FailAtLimit(p) \/ Route(p) \/ ReleaseFailed(p)
    BY <1>0, <1>3 DEF Mark, Requeue, FailAtLimit, Route, ReleaseFailed, PassGoto, EndPass, PassOK
  <1> QED
    BY <1>1, <1>2, <1>3 DEF Recover

\* Only StoreLimitError leads to the Failed of a pass.
LEMMA StoresLimitFirst ==
    ASSUME PassOK, NEW p \in Recoverers, Recover(p), pass'[p] = "fail"
    PROVE  StoreLimitError(p)
  BY DEF Recover, List, Decide, CountRecovery, Mark, Requeue, FailAtLimit, Route, ReleaseFailed,
         PassGoto, EndPass, PassOK

\* A process that dies is not on its way to a status.
LEMMA FaultMoves ==
    ASSUME AllOK, NEW r \in Mortal, Fault(r)
    PROVE  /\ \A w \in Workers : phase'[w] # "dead" => phase'[w] = phase[w] /\ job'[w] = job[w]
           /\ \A p \in Recoverers : pass'[p] # "idle" => pass'[p] = pass[p] /\ target'[p] = target[p]
  <1> USE DEF AllOK
  <1>1. CASE r \in Workers /\ Die(r) /\ UNCHANGED <<submission, passes>>
    BY <1>1 DEF Die, Drop, WorkerOK, passes
  <1>2. CASE r \in Recoverers /\ AbandonPass(r) /\ UNCHANGED <<submission, worker>>
    BY <1>2 DEF AbandonPass, EndPass, PassOK, worker
  <1>3. CASE (\E i \in Invocations : ClientDies(i)) /\ UNCHANGED <<worker, passes>>
    BY <1>3 DEF worker, passes
  <1> QED
    BY <1>1, <1>2, <1>3 DEF Fault

LEMMA StoredStep == TypeOK /\ StoredInv /\ [Next]_vars => StoredInv'
  <1> SUFFICES ASSUME AllOK, StoredInv, [Next]_vars PROVE StoredInv'
    BY TypeGroups
  <1> USE DEF AllOK
  <1>0. CASE UNCHANGED vars
    BY <1>0 DEF StoredInv, OutcomeIsStored, Status, vars, control, payload, worker, passes
  <1> SUFFICES ASSUME Next PROVE StoredInv'
    BY <1>0
  <1> DEFINE Kept == \A i \in Invocations : /\ result[i] # NoRunner => result'[i] # NoRunner
                                            /\ error[i] # NoRunner => error'[i] # NoRunner
  <1>1. Kept
    BY PayloadStays
  <1> HIDE DEF Kept
  <1>2. ASSUME \A i \in Invocations : record'[i].status \in {"Success", "Failed"}
                                        => record'[i].status = record[i].status
        PROVE  OutcomeIsStored'
    BY <1>1, <1>2 DEF Kept, StoredInv, OutcomeIsStored, Status
  <1>3. ASSUME \A w \in Workers : phase'[w] \in {"stored", "erred"}
                                    => phase'[w] = phase[w] /\ job'[w] = job[w]
        PROVE  \A w \in Workers : /\ phase'[w] = "stored" => result'[job'[w]] # NoRunner
                                  /\ phase'[w] = "erred" => error'[job'[w]] # NoRunner
    <2> SUFFICES ASSUME NEW w \in Workers, phase'[w] \in {"stored", "erred"}
                 PROVE  /\ phase'[w] = "stored" => result'[job'[w]] # NoRunner
                        /\ phase'[w] = "erred" => error'[job'[w]] # NoRunner
      OBVIOUS
    <2>1. job[w] \in Invocations
      BY <1>3, BusyHasJob DEF Jobless
    <2> QED
      BY <1>1, <1>3, <2>1 DEF Kept, StoredInv
  <1>4. ASSUME \A p \in Recoverers : pass'[p] = "fail"
                                       => pass'[p] = pass[p] /\ target'[p] = target[p]
        PROVE  \A p \in Recoverers : pass'[p] = "fail" => error'[target'[p].inv] # NoRunner
    <2> SUFFICES ASSUME NEW p \in Recoverers, pass'[p] = "fail"
                 PROVE  error'[target'[p].inv] # NoRunner
      OBVIOUS
    <2>1. target[p].inv \in Invocations
      BY <1>4, BusyHasTarget
    <2> QED
      BY <1>1, <1>4, <2>1 DEF Kept, StoredInv
  <1>5. ASSUME NEW w \in Workers, Work(w) PROVE StoredInv'
    <2>1. OutcomeIsStored'
      <3>1. ASSUME NEW status \in Statuses \ {"Success", "Failed"}, phase[w] \notin Jobless,
                   \E runner \in Owners : SetStatus(job[w], status, runner)
            PROVE  OutcomeIsStored'
        BY <1>2, <3>1, BusyHasJob, WriteEffect
      <3>2. CASE WorkerWrites(w, "stored", "Success", "finished")
        <4>1. job[w] \in Invocations
          BY <3>2, BusyHasJob DEF WorkerWrites, Jobless
        <4>2. result'[job[w]] # NoRunner
          BY <1>1, <3>2, <4>1 DEF WorkerWrites, Kept, StoredInv
        <4>3. /\ record'[job[w]].status = "Success"
              /\ \A j \in Invocations \ {job[w]} : record'[j] = record[j]
          BY <3>2, <4>1, WriteEffect DEF WorkerWrites
        <4> QED
          BY <1>1, <4>1, <4>2, <4>3 DEF Kept, StoredInv, OutcomeIsStored, Status
      <3>3. CASE WorkerWrites(w, "erred", "Failed", "finished")
        <4>1. job[w] \in Invocations
          BY <3>3, BusyHasJob DEF WorkerWrites, Jobless
        <4>2. error'[job[w]] # NoRunner
          BY <1>1, <3>3, <4>1 DEF WorkerWrites, Kept, StoredInv
        <4>3. /\ record'[job[w]].status = "Failed"
              /\ \A j \in Invocations \ {job[w]} : record'[j] = record[j]
          BY <3>3, <4>1, WriteEffect DEF WorkerWrites
        <4> QED
          BY <1>1, <4>1, <4>2, <4>3 DEF Kept, StoredInv, OutcomeIsStored, Status
      <3>4. CASE record' = record
        BY <1>2, <3>4
      <3>5. \/ record' = record
            \/ WorkerWrites(w, "stored", "Success", "finished")
            \/ WorkerWrites(w, "erred", "Failed", "finished")
            \/ \E status \in Statuses \ {"Success", "Failed"} :
                  /\ phase[w] \notin Jobless
                  /\ \E runner \in Owners : SetStatus(job[w], status, runner)
        BY <1>5, WorkWrites DEF WorkerWrites, Jobless, Statuses, ReleasesOwnership, Final,
           AvailableForRun, RequiresOwnership
      <3> QED
        BY <3>1, <3>2, <3>3, <3>4, <3>5
    <2>2. CASE StoreOutcome(w)
      <3>1. job[w] \in Invocations
        BY <2>2, BusyHasJob DEF StoreOutcome, Jobless
      <3>2. /\ phase'[w] = "stored" => result'[job'[w]] # NoRunner
            /\ phase'[w] = "erred" => error'[job'[w]] # NoRunner
        BY SMT, <2>2, <3>1, NoRunnerAssumption, OrderedAssumption
           DEF StoreOutcome, Goto, WorkerOK, PayloadOK
      <3>3. ASSUME NEW v \in Workers \ {w}, phase'[v] \in {"stored", "erred"}
            PROVE  /\ phase'[v] = "stored" => result'[job'[v]] # NoRunner
                   /\ phase'[v] = "erred" => error'[job'[v]] # NoRunner
        <4>1. phase[v] = phase'[v] /\ job[v] = job'[v]
          BY <1>5, WorkMovesOne
        <4>2. job[v] \in Invocations
          BY <3>3, <4>1, BusyHasJob DEF Jobless
        <4> QED
          BY <1>1, <4>1, <4>2 DEF Kept, StoredInv
      <3> QED
        BY <1>4, <1>5, <2>1, <3>2, <3>3, WorkMovesOne DEF StoredInv
    <2>3. CASE ~StoreOutcome(w)
      BY <1>3, <1>4, <1>5, <2>1, <2>3, WorkMovesOne, StoresFirst DEF StoredInv
    <2> QED
      BY <2>2, <2>3
  <1>6. ASSUME NEW p \in Recoverers, Recover(p) PROVE StoredInv'
    <2>1. OutcomeIsStored'
      <3>1. ASSUME NEW status, status \notin {"Success", "Failed"}, pass[p] # "idle",
                   SetStatus(target[p].inv, status, p)
            PROVE  OutcomeIsStored'
        BY <1>2, <3>1, BusyHasTarget, WriteEffect
      <3>2. CASE PassWrites(p, "fail", "Failed", "failed")
        <4>1. target[p].inv \in Invocations
          BY <3>2, BusyHasTarget DEF PassWrites
        <4>2. error'[target[p].inv] # NoRunner
          BY <1>1, <3>2, <4>1 DEF PassWrites, Kept, StoredInv
        <4>3. /\ record'[target[p].inv].status = "Failed"
              /\ \A j \in Invocations \ {target[p].inv} : record'[j] = record[j]
          BY <3>2, <4>1, WriteEffect DEF PassWrites
        <4> QED
          BY <1>1, <4>1, <4>2, <4>3 DEF Kept, StoredInv, OutcomeIsStored, Status
      <3>3. CASE record' = record
        BY <1>2, <3>3
      <3>4. ASSUME NEW from \in {"mark", "limit"}, NEW to, PassWrites(p, from, target[p].status, to)
            PROVE  OutcomeIsStored'
        BY <3>1, <3>4, BusyHasTarget DEF PassWrites, RecoveryStatuses
      <3>5. CASE PassWrites(p, "requeue", "Rerouted", "route")
        BY SMT, <3>1, <3>5 DEF PassWrites
      <3> QED
        BY <1>6, <3>2, <3>3, <3>4, <3>5, RecoverWrites
    <2>2. CASE StoreLimitError(p)
      <3>1. target[p].inv \in Invocations
        BY <2>2, BusyHasTarget DEF StoreLimitError
      <3>2. error'[target'[p].inv] # NoRunner
        BY <2>2, <3>1, NoRunnerAssumption, OrderedAssumption
           DEF StoreLimitError, PassGoto, PayloadOK
      <3>3. ASSUME NEW q \in Recoverers \ {p}, pass'[q] = "fail"
            PROVE  error'[target'[q].inv] # NoRunner
        <4>1. pass[q] = pass'[q] /\ target[q] = target'[q]
          BY <1>6, RecoverMovesOne
        <4>2. target[q].inv \in Invocations
          BY <3>3, <4>1, BusyHasTarget
        <4> QED
          BY <1>1, <3>3, <4>1, <4>2 DEF Kept, StoredInv
      <3> QED
        BY <1>3, <1>6, <2>1, <3>2, <3>3, RecoverMovesOne DEF StoredInv
    <2>3. CASE ~StoreLimitError(p)
      BY <1>3, <1>4, <1>6, <2>1, <2>3, RecoverMovesOne, StoresLimitFirst DEF StoredInv
    <2> QED
      BY <2>2, <2>3
  <1>7. ASSUME NEW w \in Workers, Pulse(w) PROVE StoredInv'
    BY <1>2, <1>3, <1>4, <1>7, OutsideWrites DEF StoredInv, Pulse, worker, passes
  <1>8. ASSUME NEW r \in Mortal, Fault(r) PROVE StoredInv'
    BY <1>2, <1>3, <1>4, <1>8, OutsideWrites, FaultMoves DEF StoredInv
  <1>9. ASSUME NEW i \in Invocations, Submit(i) \/ Time(i) \/ Environment(i) PROVE StoredInv'
    <2>1. phase' = phase /\ job' = job /\ pass' = pass /\ target' = target
      BY <1>9 DEF Submit, Time, Environment, worker, passes
    <2>2. \A j \in Invocations : record'[j].status \in {"Success", "Failed"}
                                   => record'[j].status = record[j].status
      BY SMT, <1>9, OutsideWrites, WriteEffect, RunnerTypes DEF Register, Cancel, ControlOK
    <2> QED
      BY <1>2, <1>3, <1>4, <2>1, <2>2 DEF StoredInv
  <1> QED
    BY <1>5, <1>6, <1>7, <1>8, <1>9 DEF Next

\* Whatever the order in which workers, passes and cancellations write: who
\* reads Success finds a result, and who reads Failed finds an error.
THEOREM OutcomesAreStored == Spec => []OutcomeIsStored
  <1>1. Init => StoredInv
    BY SMT DEF Init, StoredInv, OutcomeIsStored, Status, Absent, NoRecord
  <1>2. StoredInv => OutcomeIsStored
    BY DEF StoredInv
  <1> QED
    BY <1>1, <1>2, TypeCorrect, StoredStep, PTL DEF Spec

-----------------------------------------------------------------------------
(* ImplementsLifecycle: each write is a step of the status machine.        *)

\* A record appears with the registration and not before.
SubmissionInv ==
    \A i \in Invocations : submission[i] = "new" => record[i].status = NoRecord

\* The lifecycle uses the same status machine.
LEMMA SameMachine ==
    ASSUME NEW rec, NEW status, NEW runner
    PROVE  /\ Life!CanTransition(rec, status, runner) <=> CanTransition(rec, status, runner)
           /\ Life!Transitioned(rec, status, runner) = Transitioned(rec, status, runner)
  <1> USE DEF RequiresOwnership, AcquiresOwnership, OverridesOwnership, ReleasesOwnership,
         RecoveryStatuses, Final, AvailableForRun, NoRecord, Life!RequiresOwnership,
         Life!AcquiresOwnership, Life!OverridesOwnership, Life!ReleasesOwnership,
         Life!RecoveryStatuses, Life!Final, Life!AvailableForRun, Life!NoRecord
  <1>1. Life!ValidTransition(rec, status) <=> ValidTransition(rec, status)
    BY DEF ValidTransition, AllowedTransition, Life!ValidTransition, Life!AllowedTransition
  <1>2. Life!ValidOwnership(rec, status, runner) <=> ValidOwnership(rec, status, runner)
    BY DEF ValidOwnership, Life!ValidOwnership
  <1>3. Life!ComputeNewOwner(rec, status, runner) = ComputeNewOwner(rec, status, runner)
    BY DEF ComputeNewOwner, Life!ComputeNewOwner
  <1> QED
    BY <1>1, <1>2, <1>3 DEF CanTransition, Life!CanTransition, Transitioned, Life!Transitioned

\* A write of any status but Registered is a step of the lifecycle.
LEMMA WriteIsStep ==
    ASSUME ControlOK, NEW i \in Invocations, NEW status \in Statuses \ {"Registered"},
           NEW runner \in Owners, SetStatus(i, status, runner)
    PROVE  Life!Next
  <1>1. record[i].status # NoRecord
    BY WriteEffect DEF AllowedTransition, NoRecord, RecoveryStatuses
  <1>2. Life!SetStatus(i, status, runner)
    BY <1>1, SameMachine DEF SetStatus, Life!SetStatus, NoRecord, Life!NoRecord
  <1>3. runner \in Life!Owners /\ status \in Life!Statuses
    BY DEF Owners, Life!Owners, Statuses, Life!Statuses, ReleasesOwnership, RequiresOwnership,
           RecoveryStatuses, Final, AvailableForRun, Life!ReleasesOwnership,
           Life!RequiresOwnership, Life!RecoveryStatuses, Life!Final, Life!AvailableForRun
  <1> QED
    BY <1>2, <1>3 DEF Life!Next

LEMMA RegisterIsStep ==
    ASSUME NEW i \in Invocations, Register(i), SubmissionInv
    PROVE  Life!Next
  <1>1. Life!Register(i, Client)
    BY DEF Register, SubmissionInv, Life!Register, NoRecord, Life!NoRecord
  <1>2. Client \in Life!Owners
    BY RunnerTypes DEF Owners, Life!Owners
  <1> QED
    BY <1>1, <1>2 DEF Life!Next

\* Every step leaves the records alone, registers one, or makes one write.
LEMMA RecordStep ==
    ASSUME AllOK, [Next]_vars
    PROVE  \/ record' = record
           \/ \E i \in Invocations : Register(i)
           \/ \E i \in Invocations, status \in Statuses \ {"Registered"}, runner \in Owners :
                 SetStatus(i, status, runner)
  <1> USE DEF AllOK
  <1> DEFINE Write == \E i \in Invocations, status \in Statuses \ {"Registered"}, runner \in Owners :
                          SetStatus(i, status, runner)
  <1>0. CASE UNCHANGED vars
    BY <1>0 DEF vars, control
  <1>1. ASSUME NEW w \in Workers, Work(w) PROVE Write \/ record' = record
    <2>1. \/ record' = record
          \/ \E status \in Statuses \ {"Registered"} :
                /\ phase[w] \notin Jobless
                /\ \E runner \in Owners : SetStatus(job[w], status, runner)
      BY <1>1, WorkWrites DEF WorkerWrites, Jobless, Statuses, ReleasesOwnership, Final,
         AvailableForRun, RequiresOwnership
    <2> QED
      BY <2>1, BusyHasJob
  <1>2. ASSUME NEW p \in Recoverers, Recover(p) PROVE Write \/ record' = record
    <2>1. \/ record' = record
          \/ \E status \in RecoveryStatuses \union {"Rerouted", "Failed"} :
                pass[p] # "idle" /\ SetStatus(target[p].inv, status, p)
      BY <1>2, RecoverWrites, BusyHasTarget DEF PassWrites
    <2>2. RecoveryStatuses \union {"Rerouted", "Failed"} \subseteq Statuses \ {"Registered"}
      BY DEF Statuses, ReleasesOwnership, Final, AvailableForRun, RecoveryStatuses
    <2> QED
      BY <2>1, <2>2, BusyHasTarget, RunnerTypes
  <1>3. ASSUME NEW i \in Invocations, Cancel(i) PROVE Write
    <2>1. "Cancelled" \in Statuses \ {"Registered"}
      BY DEF Statuses, ReleasesOwnership, Final
    <2> QED
      BY <1>3, <2>1, RunnerTypes DEF Cancel
  <1> QED
    BY <1>0, <1>1, <1>2, <1>3, OutsideWrites DEF Next

LEMMA SubmissionStep == TypeOK /\ SubmissionInv /\ [Next]_vars => SubmissionInv'
  <1> SUFFICES ASSUME AllOK, SubmissionInv, [Next]_vars PROVE SubmissionInv'
    BY TypeGroups
  <1> SUFFICES ASSUME NEW j \in Invocations, submission'[j] = "new"
               PROVE  record'[j].status = NoRecord
    BY DEF SubmissionInv
  <1> USE DEF AllOK
  <1>1. submission[j] = "new"
    BY DEF Next, vars, Work, Pulse, Recover, Submit, Register, RouteSubmitted, Time, Environment,
           Fault, ClientDies, ClientOK
  <1>2. record[j].status = NoRecord
    BY <1>1 DEF SubmissionInv
  <1>3. ASSUME NEW i \in Invocations, NEW status \in Statuses \ {"Registered"}, NEW runner \in Owners,
               SetStatus(i, status, runner)
        PROVE  record'[j] = record[j]
    BY <1>2, <1>3, WriteEffect DEF AllowedTransition, NoRecord, RecoveryStatuses
  <1>4. ASSUME NEW i \in Invocations, Register(i) PROVE record'[j] = record[j]
    BY <1>4 DEF Register, ControlOK, ClientOK
  <1> QED
    BY <1>2, <1>3, <1>4, RecordStep

\* The in-memory backends, written to by workers, passes and clients in any
\* order, implement the lifecycle of a status record.
THEOREM OrderedRefinesLifecycle == Spec => ImplementsLifecycle
  <1>1. Init => SubmissionInv /\ Life!Init
    BY SMT DEF Init, SubmissionInv, Life!Init, Absent, Life!Absent, NoRecord, Life!NoRecord
  <1>2. TypeOK /\ SubmissionInv /\ [Next]_vars => [Life!Next]_record
    BY TypeGroups, RecordStep, WriteIsStep, RegisterIsStep DEF AllOK
  <1> QED
    BY <1>1, <1>2, TypeCorrect, SubmissionStep, PTL DEF Spec, ImplementsLifecycle, Life!Spec

-----------------------------------------------------------------------------
(* StrandedOnlyByDeath.  A controlled worker is no witness for what may    *)
(* run: when someone else reroutes its job, its own write is refused and   *)
(* it ends.  So each status has its own witnesses.                         *)

KeepingPhases == CarryingPhases \ {"controlled"}

Secured(i) ==
    \/ Queued(i)
    \/ submission[i] = "registered"
    \/ \E w \in Workers : job[w] = i /\ phase[w] \in KeepingPhases
    \/ \E p \in Recoverers : target[p].inv = i /\ pass[p] = "route"
    \/ i \in orphans
    \/ Irrevocable(i)

StrandInv ==
    /\ \A i \in Invocations :
          /\ Status(i) \in AvailableForRun => Secured(i)
          /\ Status(i) = "ConcurrencyControlled"
               => \/ i \in orphans
                  \/ \E w \in Workers : job[w] = i /\ phase[w] = "controlled"
    /\ \A w \in Workers : phase[w] = "denied" => job[w] \in Controlled

LEMMA StrandedFromInv == StrandInv => StrandedOnlyByDeath
  BY DEF StrandInv, Secured, KeepingPhases, CarryingPhases, StrandedOnlyByDeath, Carried

LEMMA PushQueues ==
    ASSUME QueueOK, NEW i \in Invocations, Push(i) \/ PushLater(i)
    PROVE  Queued(i)' /\ \A j \in Invocations : Queued(j) => Queued(j)'
  BY SMT DEF QueueOK, Push, PushLater, Queued

\* A worker takes an entry off the queue only to carry it.
LEMMA WorkQueue ==
    ASSUME QueueOK, WorkerOK, NEW w \in Workers, Work(w), NEW j \in Invocations, Queued(j)
    PROVE  Queued(j)' \/ (job'[w] = j /\ phase'[w] = "candidate")
  <1>1. CASE UNCHANGED queue
    BY <1>1 DEF queue, Queued
  <1>2. ASSUME NEW i \in Invocations, Pop(w, i)
        PROVE  Queued(j)' \/ (job'[w] = j /\ phase'[w] = "candidate")
    <2>1. CASE i = j
      BY <1>2, <2>1 DEF Pop, Hold, WorkerOK
    <2>2. CASE i # j
      BY <1>2, <2>2 DEF Pop, Queued, QueueOK
    <2> QED
      BY <2>1, <2>2
  <1>3. ASSUME RouteDenied(w) \/ RouteRetry(w) PROVE Queued(j)'
    BY <1>3, PushQueues, BusyHasJob DEF RouteDenied, RouteRetry, Jobless
  <1>4. CASE Claim(w)
    BY <1>1, <1>2, <1>3, <1>4 DEF Claim, ClaimBlocking, NothingBlocking, QueuesEmpty, Admit,
       Reject, RerouteDenied
  <1>5. CASE Execute(w)
    BY <1>1, <1>3, <1>5 DEF Execute, ClaimPending, ReleaseLost, StartRunning, Begin, Complete,
       ReleaseForRetry, WriteRetry, Discard, NoticeCancel, StoreOutcome, Finish, CountRetry
  <1> QED
    BY <1>4, <1>5 DEF Work

\* From a status that may run, the claim is never refused.
LEMMA ClaimIsAllowed ==
    ASSUME NEW rec, NEW w \in Workers, rec.status \in AvailableForRun
    PROVE  CanTransition(rec, "Pending", w)
  BY NoRunnerAssumption, OrderedAssumption
     DEF CanTransition, ValidTransition, AllowedTransition, ValidOwnership, AvailableForRun,
         RequiresOwnership

\* A denial is refused only where StrandedOnlyByDeath says so.
LEMMA DenialIsAllowed ==
    ASSUME NEW rec, rec.status \in AvailableForRun
    PROVE  /\ rec.status # "Retry" => CanTransition(rec, "ConcurrencyControlled", NoRunner)
           /\ rec.status = "Registered" => CanTransition(rec, "ConcurrencyControlledFinal", NoRunner)
  BY DEF CanTransition, ValidTransition, AllowedTransition, ValidOwnership, AvailableForRun,
         RequiresOwnership, AcquiresOwnership

\* The phase of a carrying worker tells its step.
LEMMA StepOfPhase ==
    ASSUME NEW w \in Workers, Work(w)
    PROVE  /\ phase[w] = "candidate" => Admit(w)
           /\ phase[w] = "denied" => Reject(w)
           /\ phase[w] = "controlled" => RerouteDenied(w)
           /\ phase[w] = "rerouted" => RouteDenied(w)
           /\ phase[w] = "admitted" => ClaimPending(w)
           /\ phase[w] = "retried" => CountRetry(w)
           /\ phase[w] = "counted" => RouteRetry(w)
  BY DEF Work, Claim, ClaimBlocking, NothingBlocking, Pop, QueuesEmpty, Admit, Reject,
     RerouteDenied, RouteDenied, Execute, ClaimPending, ReleaseLost, StartRunning, Begin,
     Complete, ReleaseForRetry, WriteRetry, RouteRetry, Discard, NoticeCancel, StoreOutcome,
     Finish, CountRetry

\* The worker that keeps its job does so after its step as well, has queued it,
\* or was denied a slot for what cannot be denied one.
LEMMA KeeperStep ==
    ASSUME ControlOK, QueueOK, WorkerOK, NEW w \in Workers, Work(w), NEW j, job[w] = j,
           phase[w] \in KeepingPhases, phase[w] = "denied" => j \in Controlled,
           record[j].status \in AvailableForRun,
           record'[j].status = record[j].status
    PROVE  \/ Queued(j)'
           \/ job'[w] = j /\ phase'[w] \in KeepingPhases
           \/ Irrevocable(j)
  <1> USE DEF KeepingPhases, CarryingPhases
  <1>0. j \in Invocations
    BY BusyHasJob DEF Jobless
  <1>1. CASE phase[w] = "candidate"
    BY <1>1, StepOfPhase DEF Admit, Goto, WorkerOK
  <1>2. CASE phase[w] = "denied"
    <2>1. CASE Refused(j, "ConcurrencyControlled", NoRunner) /\ j \in RerouteOnCC
      BY <1>2, <2>1, DenialIsAllowed DEF Refused, Irrevocable, Status
    <2>2. CASE Refused(j, "ConcurrencyControlledFinal", NoRunner) /\ j \notin RerouteOnCC
      BY SMT, <1>2, <2>2, DenialIsAllowed DEF Refused, Irrevocable, Status, AvailableForRun
    <2>3. CASE \E status \in {"ConcurrencyControlled", "ConcurrencyControlledFinal"} :
                  SetStatus(j, status, NoRunner)
      BY <1>0, <2>3, WriteEffect DEF AvailableForRun
    <2> QED
      BY <1>2, <2>1, <2>2, <2>3, StepOfPhase DEF Reject
  <1>3. CASE phase[w] \in {"rerouted", "counted"}
    BY <1>0, <1>3, StepOfPhase, PushQueues DEF RouteDenied, RouteRetry
  <1>4. CASE phase[w] = "admitted"
    <2>1. SetStatus(j, "Pending", w)
      BY <1>4, StepOfPhase, ClaimIsAllowed DEF ClaimPending, Refused
    <2>2. record'[j].status = "Pending"
      BY <1>0, <2>1, WriteEffect
    <2> QED
      BY <2>2 DEF AvailableForRun
  <1>5. CASE phase[w] = "retried"
    BY <1>5, StepOfPhase DEF CountRetry, Goto, WorkerOK
  <1> QED
    BY <1>1, <1>2, <1>3, <1>4, <1>5

LEMMA WorkSecures ==
    ASSUME AllOK, StrandInv, NEW w \in Workers, Work(w),
           NEW j \in Invocations, record'[j].status \in AvailableForRun
    PROVE  Secured(j)'
  <1> USE DEF AllOK
  <1>1. CASE record'[j].status = record[j].status
    <2>1. Secured(j)
      BY <1>1 DEF StrandInv, Status
    <2>2. CASE Irrevocable(j)
      BY <1>1, <2>2 DEF Irrevocable, Status, Secured
    <2>3. CASE submission[j] = "registered" \/ j \in orphans
      BY <2>3, WorkMovesOne DEF Secured
    <2>4. CASE \E p \in Recoverers : target[p].inv = j /\ pass[p] = "route"
      BY <2>4, WorkMovesOne DEF Secured
    <2>5. CASE Queued(j)
      BY <2>5, WorkQueue DEF Secured, KeepingPhases, CarryingPhases
    <2>6. ASSUME NEW v \in Workers \ {w}, job[v] = j, phase[v] \in KeepingPhases
          PROVE  Secured(j)'
      BY <2>6, WorkMovesOne DEF Secured
    <2>7. CASE job[w] = j /\ phase[w] \in KeepingPhases
      <3>1. Irrevocable(j) \/ Queued(j)' \/ (job'[w] = j /\ phase'[w] \in KeepingPhases)
        BY <1>1, <2>7, KeeperStep DEF StrandInv
      <3> QED
        BY <2>2, <3>1 DEF Secured
    <2> QED
      BY <2>1, <2>2, <2>3, <2>4, <2>5, <2>6, <2>7 DEF Secured
  <1>2. CASE record'[j].status # record[j].status
    <2>1. /\ phase[w] \notin Jobless => job[w] \in Invocations
          /\ w \in DOMAIN phase
      BY BusyHasJob DEF WorkerOK
    <2>2. job[w] = j /\ job'[w] = j /\ phase'[w] \in {"rerouted", "retried"}
      BY SMT, <1>2, <2>1, WorkWrites, WriteEffect DEF WorkerWrites, AvailableForRun, Jobless
    <2> QED
      BY <2>2 DEF Secured, KeepingPhases, CarryingPhases
  <1> QED
    BY <1>1, <1>2

LEMMA RecoverSecures ==
    ASSUME AllOK, StrandInv, NEW p \in Recoverers, Recover(p),
           NEW j \in Invocations, record'[j].status \in AvailableForRun
    PROVE  Secured(j)'
  <1> USE DEF AllOK
  <1>1. CASE record'[j].status = record[j].status
    <2>1. Secured(j)
      BY <1>1 DEF StrandInv, Status
    <2>2. CASE Irrevocable(j)
      BY <1>1, <2>2 DEF Irrevocable, Status, Secured
    <2>3. CASE submission[j] = "registered" \/ j \in orphans
      BY <2>3, RecoverMovesOne DEF Secured
    <2>4. CASE \E w \in Workers : job[w] = j /\ phase[w] \in KeepingPhases
      BY <2>4, RecoverMovesOne DEF Secured
    <2>5. CASE Queued(j)
      <3>1. CASE Route(p)
        BY <2>5, <3>1, PushQueues, BusyHasTarget DEF Route, Secured
      <3>2. CASE UNCHANGED queue
        BY <2>5, <3>2 DEF queue, Queued, Secured
      <3> QED
        BY <3>1, <3>2 DEF Recover, List, Decide, Mark, Requeue, FailAtLimit, CountRecovery,
           StoreLimitError, ReleaseFailed
    <2>6. ASSUME NEW q \in Recoverers \ {p}, target[q].inv = j, pass[q] = "route"
          PROVE  Secured(j)'
      BY <2>6, RecoverMovesOne DEF Secured
    <2>7. CASE target[p].inv = j /\ pass[p] = "route"
      <3>1. Route(p)
        BY <2>7 DEF Recover, List, Decide, Mark, Requeue, FailAtLimit, CountRecovery,
           StoreLimitError, ReleaseFailed
      <3> QED
        BY <2>7, <3>1, PushQueues DEF Route, Secured
    <2> QED
      BY <2>1, <2>2, <2>3, <2>4, <2>5, <2>6, <2>7 DEF Secured
  <1>2. CASE record'[j].status # record[j].status
    <2>1. pass[p] # "idle" => target[p].inv \in Invocations /\ target[p].status \in RecoveryStatuses
      BY BusyHasTarget
    <2>2. CASE PassWrites(p, "requeue", "Rerouted", "route")
      BY <1>2, <2>1, <2>2, WriteEffect DEF PassWrites, PassOK, Secured
    <2>3. ASSUME NEW status \in RecoveryStatuses \union {"Failed"}, NEW from, NEW to, from # "idle",
                 PassWrites(p, from, status, to)
          PROVE  FALSE
      BY <1>2, <2>1, <2>3, WriteEffect DEF PassWrites, AvailableForRun, RecoveryStatuses
    <2> QED
      BY <1>2, <2>1, <2>2, <2>3, RecoverWrites DEF PassWrites
  <1> QED
    BY <1>1, <1>2

\* The death of a process leaves what it carried to the orphans.
LEMMA FaultSecures ==
    ASSUME AllOK, StrandInv, NEW r \in Mortal, Fault(r), NEW j \in Invocations
    PROVE  /\ record'[j].status \in AvailableForRun => Secured(j)'
           /\ record'[j].status = "ConcurrencyControlled"
                => \/ j \in orphans'
                   \/ \E w \in Workers : job'[w] = j /\ phase'[w] = "controlled"
  <1> USE DEF AllOK
  <1>0. record' = record /\ ready' = ready /\ later' = later /\ orphans \subseteq orphans'
    BY DEF Fault, Die, AbandonPass, ClientDies, control, queue
  <1>1. /\ Irrevocable(j) => Irrevocable(j)'
        /\ Queued(j) => Queued(j)'
    BY <1>0 DEF Irrevocable, Status, Queued
  <1>2. \A w \in Workers : phase[w] \in CarryingPhases
                             => job[w] \in orphans' \/ (job'[w] = job[w] /\ phase'[w] = phase[w])
    BY DEF Fault, Die, Drop, WorkerOK, worker
  <1>3. \A p \in Recoverers : pass[p] = "route"
                                => \/ target[p].inv \in orphans'
                                   \/ target'[p] = target[p] /\ pass'[p] = pass[p]
    BY DEF Fault, AbandonPass, EndPass, PassOK, passes
  <1>4. submission[j] = "registered" => submission'[j] = "registered" \/ j \in orphans'
    BY DEF Fault, ClientDies, ClientOK
  <1>5. Secured(j) => Secured(j)'
    <2>1. CASE \E w \in Workers : job[w] = j /\ phase[w] \in KeepingPhases
      BY <1>2, <2>1 DEF Secured, KeepingPhases
    <2>2. CASE \E p \in Recoverers : target[p].inv = j /\ pass[p] = "route"
      BY <1>3, <2>2 DEF Secured
    <2>3. CASE Queued(j) \/ Irrevocable(j) \/ submission[j] = "registered" \/ j \in orphans
      BY <1>0, <1>1, <1>4, <2>3 DEF Secured
    <2> QED
      BY <2>1, <2>2, <2>3 DEF Secured
  <1>6. (\E w \in Workers : job[w] = j /\ phase[w] = "controlled")
          => \/ j \in orphans'
             \/ \E w \in Workers : job'[w] = j /\ phase'[w] = "controlled"
    BY <1>2 DEF CarryingPhases
  <1>7. /\ record[j].status \in AvailableForRun => Secured(j)
        /\ record[j].status = "ConcurrencyControlled"
             => \/ j \in orphans
                \/ \E w \in Workers : job[w] = j /\ phase[w] = "controlled"
    BY DEF StrandInv, Status
  <1> QED
    BY <1>0, <1>5, <1>6, <1>7

LEMMA OutsideSecures ==
    ASSUME AllOK, StrandInv, NEW j \in Invocations,
           \/ \E w \in Workers : Pulse(w)
           \/ \E i \in Invocations : Submit(i) \/ Time(i) \/ Environment(i)
    PROVE  /\ record'[j].status \in AvailableForRun => Secured(j)'
           /\ record'[j].status = "ConcurrencyControlled"
                => \/ j \in orphans'
                   \/ \E w \in Workers : job'[w] = j /\ phase'[w] = "controlled"
  <1> USE DEF AllOK
  <1>0. phase' = phase /\ job' = job /\ pass' = pass /\ target' = target /\ orphans' = orphans
    BY DEF Pulse, Submit, Time, Environment, worker, passes
  <1>1. Queued(j) => Queued(j)'
    <2>1. ASSUME NEW i \in Invocations, DelayEnds(i) PROVE Queued(j) => Queued(j)'
      BY SMT, <2>1 DEF DelayEnds, Queued, QueueOK
    <2>2. ASSUME NEW i \in Invocations, RouteSubmitted(i) PROVE Queued(j) => Queued(j)'
      BY <2>2, PushQueues DEF RouteSubmitted
    <2>3. CASE UNCHANGED queue
      BY <2>3 DEF queue, Queued
    <2> QED
      BY <2>1, <2>2, <2>3 DEF Pulse, Submit, Time, Environment, HeartbeatExpires, Heartbeat,
         Register, StatusAges, Cancel, Await
  <1>2. submission[j] = "registered" => submission'[j] = "registered" \/ Queued(j)'
    <2>1. ASSUME NEW i \in Invocations, RouteSubmitted(i)
          PROVE  submission[j] = "registered" => submission'[j] = "registered" \/ Queued(j)'
      BY <2>1, PushQueues DEF RouteSubmitted, ClientOK
    <2> QED
      BY <2>1 DEF Pulse, Submit, Time, Environment, Register, ClientOK
  <1>3. CASE record'[j].status = record[j].status
    BY <1>0, <1>1, <1>2, <1>3 DEF Secured, StrandInv, Status, Irrevocable
  <1>4. CASE record'[j].status # record[j].status
    <2>1. \/ \E i \in Invocations : Cancel(i)
          \/ \E i \in Invocations : Register(i)
      BY <1>4, OutsideWrites
    <2>2. ASSUME NEW i \in Invocations, Cancel(i) PROVE record'[j].status = "Cancelled"
      BY <1>4, <2>2, WriteEffect DEF Cancel
    <2>3. ASSUME NEW i \in Invocations, Register(i)
          PROVE  record'[j].status = "Registered" /\ submission'[j] = "registered"
      BY <1>4, <2>3 DEF Register, ControlOK, ClientOK
    <2> QED
      BY <2>1, <2>2, <2>3 DEF Secured, AvailableForRun
  <1> QED
    BY <1>3, <1>4

\* Who set ConcurrencyControlled stays with it until it is rerouted.
LEMMA ControlledStep ==
    ASSUME AllOK, StrandInv, NEW j \in Invocations,
           \/ \E w \in Workers : Work(w)
           \/ \E p \in Recoverers : Recover(p),
           record'[j].status = "ConcurrencyControlled"
    PROVE  \/ j \in orphans'
           \/ \E w \in Workers : job'[w] = j /\ phase'[w] = "controlled"
  <1> USE DEF AllOK
  <1>1. ASSUME NEW p \in Recoverers, Recover(p)
        PROVE  \/ j \in orphans'
               \/ \E w \in Workers : job'[w] = j /\ phase'[w] = "controlled"
    <2>1. ASSUME NEW status \in RecoveryStatuses \union {"Failed", "Rerouted"}, pass[p] # "idle",
                 SetStatus(target[p].inv, status, p)
          PROVE  record'[j].status = record[j].status
      BY <2>1, BusyHasTarget, WriteEffect DEF RecoveryStatuses
    <2>2. record'[j].status = record[j].status
      BY <1>1, <2>1, RecoverWrites, BusyHasTarget DEF PassWrites
    <2> QED
      BY SMT, <1>1, <2>2, RecoverMovesOne DEF StrandInv, Status
  <1>2. ASSUME NEW w \in Workers, Work(w)
        PROVE  \/ j \in orphans'
               \/ \E v \in Workers : job'[v] = j /\ phase'[v] = "controlled"
    <2>1. CASE record'[j].status # record[j].status
      <3>1. phase[w] \notin Jobless => job[w] \in Invocations
        BY BusyHasJob
      <3>2. job[w] = j /\ WorkerWrites(w, "denied", "ConcurrencyControlled", "controlled")
        BY <1>2, <2>1, <3>1, WorkWrites, WriteEffect DEF WorkerWrites, Jobless
      <3> QED
        BY <3>2 DEF WorkerWrites, WorkerOK
    <2>2. CASE record'[j].status = record[j].status
      <3>1. \/ j \in orphans
            \/ \E v \in Workers : job[v] = j /\ phase[v] = "controlled"
        BY <2>2 DEF StrandInv, Status
      <3>2. ~(job[w] = j /\ phase[w] = "controlled")
        <4> SUFFICES ASSUME job[w] = j, phase[w] = "controlled" PROVE FALSE
          OBVIOUS
        <4>1. CanTransition(record[j], "Rerouted", NoRunner)
          BY <2>2 DEF CanTransition, ValidTransition, AllowedTransition, ValidOwnership,
             RequiresOwnership, AcquiresOwnership
        <4>2. SetStatus(j, "Rerouted", NoRunner)
          BY <1>2, <4>1, StepOfPhase DEF RerouteDenied, Refused
        <4>3. record'[j].status = "Rerouted"
          BY <4>2, WriteEffect
        <4> QED
          BY <4>3
      <3> QED
        BY <1>2, <3>1, <3>2, WorkMovesOne
    <2> QED
      BY <2>1, <2>2
  <1> QED
    BY <1>1, <1>2

\* Only a controlled invocation is denied a slot.
LEMMA DeniedStep ==
    ASSUME AllOK, StrandInv, [Next]_vars, NEW v \in Workers, phase'[v] = "denied"
    PROVE  job'[v] \in Controlled
  <1> USE DEF AllOK
  <1>1. CASE phase'[v] = phase[v] /\ job'[v] = job[v]
    BY <1>1 DEF StrandInv
  <1>2. ASSUME NEW w \in Workers, Work(w) PROVE job'[v] \in Controlled
    <2>1. CASE v # w
      BY <1>1, <1>2, <2>1, WorkMovesOne
    <2>2. CASE v = w
      <3>1. CASE Claim(w)
        BY <2>2, <3>1 DEF Claim, ClaimBlocking, Pop, Hold, NothingBlocking, QueuesEmpty, Admit,
           Goto, Reject, RerouteDenied, RouteDenied, Drop, WorkerOK
      <3>2. CASE Execute(w)
        BY <2>2, <3>2 DEF Execute, ClaimPending, StartRunning, Complete, WriteRetry, Discard,
           ReleaseLost, RouteRetry, Finish, Begin, ReleaseForRetry, NoticeCancel, CountRetry,
           StoreOutcome, Goto, Drop, WorkerOK
      <3> QED
        BY <1>2, <3>1, <3>2 DEF Work
    <2> QED
      BY <2>1, <2>2
  <1>3. CASE UNCHANGED worker
    BY <1>1, <1>3 DEF worker
  <1>4. ASSUME NEW r \in Mortal, Fault(r) PROVE job'[v] \in Controlled
    BY <1>1, <1>4, FaultMoves
  <1>5. CASE UNCHANGED vars
    BY <1>3, <1>5 DEF vars
  <1> QED
    BY <1>2, <1>3, <1>4, <1>5 DEF Next, Pulse, Recover, Submit, Time, Environment

LEMMA StrandStep == TypeOK /\ StrandInv /\ [Next]_vars => StrandInv'
  <1> SUFFICES ASSUME AllOK, StrandInv, [Next]_vars PROVE StrandInv'
    BY TypeGroups
  <1>1. CASE UNCHANGED vars
    BY <1>1 DEF StrandInv, Secured, Queued, Irrevocable, Status, vars, control, queue, worker,
                passes
  <1>2. ASSUME Next, NEW j \in Invocations
        PROVE  /\ record'[j].status \in AvailableForRun => Secured(j)'
               /\ record'[j].status = "ConcurrencyControlled"
                    => \/ j \in orphans'
                       \/ \E w \in Workers : job'[w] = j /\ phase'[w] = "controlled"
    <2>1. ASSUME NEW w \in Workers, Work(w)
          PROVE  record'[j].status \in AvailableForRun => Secured(j)'
      BY <2>1, WorkSecures
    <2>2. ASSUME NEW p \in Recoverers, Recover(p)
          PROVE  record'[j].status \in AvailableForRun => Secured(j)'
      BY <2>2, RecoverSecures
    <2> QED
      BY <1>2, <2>1, <2>2, ControlledStep, FaultSecures, OutsideSecures DEF Next
  <1>3. \A v \in Workers : phase'[v] = "denied" => job'[v] \in Controlled
    BY DeniedStep
  <1> QED
    BY <1>1, <1>2, <1>3 DEF StrandInv, Status

\* However workers, passes and clients interleave: an invocation that may run
\* is queued or carried, unless a process died with it or it was denied a slot
\* in a status that cannot be denied one.
THEOREM NothingElseStrands == Spec => []StrandedOnlyByDeath
  <1>1. Init => StrandInv
    BY SMT DEF Init, StrandInv, Status, Absent, NoRecord, AvailableForRun
  <1> QED
    BY <1>1, TypeCorrect, StrandStep, StrandedFromInv, PTL DEF Spec
-----------------------------------------------------------------------------
(* SlotsAreGivenBack.  A retry gives its slot back two steps before its    *)
(* status says so; in between nobody else may have taken it unnoticed.     *)

Holder(i) ==
    \E w \in Workers : \/ job[w] = i /\ phase[w] \in {"admitted", "lost"}
                       \/ phase[w] = "dead"

Over(i) ==
    \/ Status(i) \in Final \union {NoRecord, "Registered", "Retry"}
    \/ \E v \in Workers : phase[v] = "unslotted" /\ job[v] = i /\ record[i].owner = v

SlotLeakInv == \A i \in slots : Over(i) => Holder(i)

\* What a write does to an invocation that is in the index afterwards.
LEMMA WriteKeepsSlot ==
    ASSUME ControlOK, NEW j \in Invocations, NEW status, NEW runner, SetStatus(j, status, runner),
           NEW i \in slots'
    PROVE  /\ i \in slots /\ i \in Invocations
           /\ i # j => record'[i] = record[i]
           /\ i = j => /\ status \notin Final /\ Status(i)' = status
                       /\ record'[i].owner = ComputeNewOwner(record[i], status, runner)
  <1>1. i \in slots /\ (i = j => status \notin Final)
    BY DEF SetStatus
  <1>2. i \in Invocations
    BY <1>1, OrderedAssumption DEF ControlOK
  <1>3. i # j => record'[i] = record[i]
    BY <1>2 DEF SetStatus, ControlOK
  <1>4. i = j => record'[i] = Transitioned(record[i], status, runner)
    BY <1>2 DEF SetStatus, ControlOK
  <1>5. i = j => /\ Status(i)' = status
                 /\ record'[i].owner = ComputeNewOwner(record[i], status, runner)
    BY <1>4, SMT DEF Transitioned, Status
  <1> QED
    BY <1>1, <1>2, <1>3, <1>5

\* A status that gives ownership up is nobody's retry in the making.
LEMMA ReleasedIsNotOver ==
    ASSUME ControlOK, NEW j \in Invocations, NEW runner,
           NEW status \in {"ConcurrencyControlled", "Rerouted"} \union RecoveryStatuses,
           SetStatus(j, status, runner), j \in slots'
    PROVE  ~Over(j)'
  <1>1. Status(j)' = status /\ record'[j].owner = ComputeNewOwner(record[j], status, runner)
    BY WriteKeepsSlot, SMTT(20)
  <1>2. record'[j].owner = NoRunner
    BY <1>1 DEF ComputeNewOwner, ReleasesOwnership, AvailableForRun
  <1>3. NoRunner \notin Workers
    BY NoRunnerAssumption, OrderedAssumption
  <1>4. status \notin Final \union {NoRecord, "Registered", "Retry"}
    BY DEF Final, NoRecord, RecoveryStatuses
  <1> QED
    BY <1>1, <1>2, <1>3, <1>4 DEF Over

\* While the workers stay where they are, only a new reason to be over matters.
LEMMA StillHeld ==
    ASSUME SlotLeakInv, phase' = phase, job' = job, NEW i \in slots, Over(i)',
           record'[i] = record[i]
    PROVE  Holder(i)'
  <1>1. Over(i)
    BY DEF Over, Status
  <1>2. Holder(i)
    BY <1>1 DEF SlotLeakInv
  <1> QED
    BY <1>2 DEF Holder

\* A worker that moves loses an invocation only from the index as well.
LEMMA MoverKeeps ==
    ASSUME NEW w \in Workers, phase[w] # "dead", NEW i, Holder(i),
           \A v \in Workers \ {w} : phase'[v] = phase[v] /\ job'[v] = job[v],
           phase[w] \in {"admitted", "lost"} /\ job[w] = i =>
               phase'[w] \in {"admitted", "lost"} /\ job'[w] = i
    PROVE  Holder(i)'
  BY DEF Holder

LEMMA MoverIsHeld ==
    ASSUME SlotLeakInv, NEW w \in Workers, phase[w] # "dead", NEW i \in slots, Over(i)',
           \A v \in Workers \ {w} : phase'[v] = phase[v] /\ job'[v] = job[v],
           record'[i] = record[i],
           phase'[w] # "unslotted" \/ job'[w] # i,
           phase[w] \in {"admitted", "lost"} /\ job[w] = i =>
               phase'[w] \in {"admitted", "lost"} /\ job'[w] = i
    PROVE  Holder(i)'
  <1>1. Over(i)
    BY DEF Over, Status
  <1> QED
    BY <1>1, MoverKeeps DEF SlotLeakInv

\* The steps of a worker.
LEMMA WorkGivesBack ==
    ASSUME AllOK, SlotLeakInv, NEW w \in Workers, Work(w), NEW i \in slots', Over(i)'
    PROVE  Holder(i)'
  <1> USE DEF AllOK
  <1>0. \A v \in Workers \ {w} : phase'[v] = phase[v] /\ job'[v] = job[v]
    BY WorkMovesOne
  <1>w. phase[w] # "dead"
    BY DEF Work, Claim, ClaimBlocking, NothingBlocking, Pop, QueuesEmpty, Admit, Reject,
       RerouteDenied, RouteDenied, Execute, ClaimPending, ReleaseLost, StartRunning, Begin,
       Complete, ReleaseForRetry, WriteRetry, RouteRetry, Discard, NoticeCancel, StoreOutcome,
       Finish, CountRetry
  <1>1. CASE Admit(w)
    <2>1. /\ phase[w] = "candidate" /\ record' = record /\ job' = job
          /\ phase'[w] \in {"admitted", "denied"}
          /\ i \in slots \/ (i = job[w] /\ phase'[w] = "admitted")
      BY <1>1 DEF Admit, Goto, WorkerOK, control
    <2>2. CASE i \in slots
      BY <1>0, <2>1, <2>2, MoverIsHeld
    <2>3. CASE i = job[w] /\ phase'[w] = "admitted"
      BY <2>1, <2>3 DEF Holder
    <2> QED
      BY <2>1, <2>2, <2>3
  <1>2. CASE ClaimPending(w)
    <2>1. phase[w] = "admitted" /\ job' = job /\ phase'[w] \in {"claimed", "lost"}
      BY <1>2 DEF ClaimPending, Goto, WorkerOK
    <2>2. CASE Refused(job[w], "Pending", w) /\ phase'[w] = "lost"
      BY <1>0, <2>1, <2>2, MoverIsHeld DEF Refused, control
    <2>3. CASE SetStatus(job[w], "Pending", w) /\ phase'[w] = "claimed"
      <3>1. job[w] \in Invocations
        BY <2>1, BusyHasJob DEF Jobless
      <3>2. /\ i \in slots /\ (i # job[w] => record'[i] = record[i])
            /\ i = job[w] => /\ Status(i)' = "Pending"
                             /\ record'[i].owner = ComputeNewOwner(record[i], "Pending", w)
        BY <2>3, <3>1, WriteKeepsSlot, SMTT(20)
      <3>3. ComputeNewOwner(record[i], "Pending", w) = w
        BY SMT DEF ComputeNewOwner, ReleasesOwnership, AcquiresOwnership, Final, AvailableForRun,
                   RecoveryStatuses
      <3>4. i # job[w]
        BY <2>3, <3>2, <3>3 DEF Over, Final, NoRecord
      <3> QED
        BY <1>0, <2>1, <2>3, <3>2, <3>4, MoverIsHeld
    <2> QED
      BY <1>2, <2>1, <2>2, <2>3 DEF ClaimPending, Goto, WorkerOK
  <1>3. CASE ReleaseLost(w) \/ ReleaseForRetry(w) \/ Finish(w)
    <2>1. /\ i \in slots /\ i # job[w] /\ record' = record
          /\ phase'[w] = "unslotted" => job'[w] = job[w]
      BY <1>3 DEF ReleaseLost, ReleaseForRetry, Finish, RemoveFromIndex, Drop, Goto, WorkerOK
    <2> QED
      BY <1>0, <1>w, <2>1, MoverIsHeld
  <1>4. CASE WriteRetry(w)
    <2>1. phase[w] = "unslotted" /\ phase'[w] \in {"retried", "rejected"} /\ job[w] \in Invocations
      BY <1>4, BusyHasJob DEF WriteRetry, Goto, WorkerOK, Jobless
    <2>2. CASE Refused(job[w], "Retry", w)
      BY <1>0, <2>1, <2>2, MoverIsHeld DEF Refused, control
    <2>3. CASE SetStatus(job[w], "Retry", w)
      <3>1. i \in slots /\ (i # job[w] => record'[i] = record[i])
        BY <2>1, <2>3, WriteKeepsSlot
      <3>2. CASE i # job[w]
        BY <1>0, <2>1, <3>1, <3>2, MoverIsHeld
      <3>3. CASE i = job[w]
        <4>1. record[i].status = "Running" /\ record[i].owner = w
          BY <2>3, <3>3 DEF SetStatus, CanTransition, ValidTransition, ValidOwnership,
             AllowedTransition, RequiresOwnership, RecoveryStatuses, OverridesOwnership,
             AcquiresOwnership, NoRecord
        <4>2. Over(i)
          BY <2>1, <3>3, <4>1 DEF Over
        <4> QED
          BY <1>0, <2>1, <3>1, <4>2, MoverKeeps DEF SlotLeakInv
      <3> QED
        BY <3>2, <3>3
    <2> QED
      BY <1>4, <2>2, <2>3 DEF WriteRetry
  <1>5. CASE Reject(w) \/ RerouteDenied(w) \/ Complete(w)
    <2>1. /\ phase[w] \in {"denied", "controlled", "stored", "erred"} /\ phase'[w] # "unslotted"
          /\ job[w] \in Invocations
      BY <1>5, BusyHasJob DEF Reject, RerouteDenied, Complete, Goto, Drop, WorkerOK, Jobless
    <2>2. CASE UNCHANGED control
      BY <1>0, <2>1, <2>2, MoverIsHeld DEF control
    <2>3. ASSUME NEW runner,
                 NEW status \in Final \union {"ConcurrencyControlled", "Rerouted"},
                 SetStatus(job[w], status, runner)
          PROVE  Holder(i)'
      <3>1. /\ i \in slots /\ (i # job[w] => record'[i] = record[i])
            /\ i = job[w] => status \notin Final
        BY <2>1, <2>3, WriteKeepsSlot
      <3>2. i # job[w]
        BY <2>1, <2>3, <3>1, ReleasedIsNotOver
      <3> QED
        BY <1>0, <2>1, <3>1, <3>2, MoverIsHeld
    <2>4. CASE Reject(w) \/ RerouteDenied(w)
      BY <2>2, <2>3, <2>4 DEF Reject, RerouteDenied, Refused, Final
    <2>5. CASE Complete(w)
      BY <2>2, <2>3, <2>5 DEF Complete, Refused, Final
    <2> QED
      BY <1>5, <2>4, <2>5
  <1>6. CASE StartRunning(w)
    <2>1. phase[w] = "claimed" /\ phase'[w] \in {"running", "dead"} /\ job[w] \in Invocations
      BY <1>6, BusyHasJob DEF StartRunning, Goto, Drop, WorkerOK, Jobless
    <2>2. CASE UNCHANGED control
      BY <1>0, <2>1, <2>2, MoverIsHeld DEF control
    <2>3. CASE SetStatus(job[w], "Running", w)
      <3>1. /\ i \in slots /\ (i # job[w] => record'[i] = record[i])
            /\ i = job[w] => /\ Status(i)' = "Running"
                             /\ record'[i].owner = ComputeNewOwner(record[i], "Running", w)
        BY <2>1, <2>3, WriteKeepsSlot, SMTT(20)
      <3>2. ComputeNewOwner(record[i], "Running", w) = record[i].owner
        BY SMT DEF ComputeNewOwner, ReleasesOwnership, AcquiresOwnership, Final, AvailableForRun,
                   RecoveryStatuses
      <3>3. Over(i)
        BY <1>0, <2>1, <3>1, <3>2 DEF Over, Status, Final, NoRecord
      <3> QED
        BY <1>0, <2>1, <3>1, <3>3, MoverKeeps DEF SlotLeakInv
    <2> QED
      BY <1>6, <2>2, <2>3 DEF StartRunning, Refused
  <1>7. CASE \/ \E j \in Invocations : ClaimBlocking(w, j) \/ Pop(w, j)
             \/ NothingBlocking(w) \/ QueuesEmpty(w) \/ RouteDenied(w) \/ Begin(w)
             \/ RouteRetry(w) \/ Discard(w) \/ NoticeCancel(w) \/ StoreOutcome(w) \/ CountRetry(w)
    <2>1. /\ record' = record /\ slots' = slots
          /\ phase[w] \notin {"admitted", "lost"}
      BY <1>7 DEF ClaimBlocking, Pop, NothingBlocking, QueuesEmpty, RouteDenied, Begin, RouteRetry,
         Discard, NoticeCancel, StoreOutcome, CountRetry, control
    <2>2. phase'[w] # "unslotted"
      BY <1>7 DEF ClaimBlocking, Pop, NothingBlocking, QueuesEmpty, RouteDenied, Begin, RouteRetry,
         Discard, NoticeCancel, StoreOutcome, CountRetry, Hold, Goto, Drop, WorkerOK
    <2> QED
      BY <1>0, <1>w, <2>1, <2>2, MoverIsHeld
  <1> QED
    BY <1>1, <1>2, <1>3, <1>4, <1>5, <1>6, <1>7 DEF Work, Claim, Execute

LEMMA SlotLeakStep == TypeOK /\ SubmissionInv /\ SlotLeakInv /\ [Next]_vars => SlotLeakInv'
  <1> SUFFICES ASSUME AllOK, SubmissionInv, SlotLeakInv, [Next]_vars, NEW i \in slots', Over(i)'
               PROVE  Holder(i)'
    BY TypeGroups DEF SlotLeakInv
  <1> USE DEF AllOK
  <1>1. CASE UNCHANGED vars
    BY <1>1, StillHeld DEF vars, control, worker
  <1>2. ASSUME NEW p \in Recoverers, Recover(p) PROVE Holder(i)'
    <2>1. phase' = phase /\ job' = job
      BY <1>2, RecoverMovesOne
    <2>2. CASE UNCHANGED control
      BY <2>1, <2>2, StillHeld DEF control
    <2>3. ASSUME NEW status \in RecoveryStatuses \union {"Rerouted", "Failed"},
                 pass[p] # "idle", SetStatus(target[p].inv, status, p)
          PROVE  Holder(i)'
      <3>1. target[p].inv \in Invocations
        BY <2>3, BusyHasTarget
      <3>2. /\ i \in slots /\ (i # target[p].inv => record'[i] = record[i])
            /\ i = target[p].inv => status \notin Final
        BY <2>3, <3>1, WriteKeepsSlot
      <3>3. i # target[p].inv
        BY <2>3, <3>1, <3>2, ReleasedIsNotOver DEF Final
      <3> QED
        BY <2>1, <3>2, <3>3, StillHeld
    <2>4. CASE Mark(p) \/ Requeue(p) \/ FailAtLimit(p)
      <3>1. pass[p] # "idle" => target[p].status \in RecoveryStatuses
        BY BusyHasTarget
      <3> QED
        BY <2>2, <2>3, <2>4, <3>1 DEF Mark, Requeue, FailAtLimit, Refused
    <2> QED
      BY <1>2, <2>2, <2>4 DEF Recover, List, Decide, Route, CountRecovery, StoreLimitError,
         ReleaseFailed
  <1>3. ASSUME NEW r \in Mortal, Fault(r) PROVE Holder(i)'
    <2>1. record' = record /\ slots' = slots
      BY <1>3 DEF Fault, Die, AbandonPass, ClientDies, control
    <2>2. CASE r \in Workers /\ Die(r)
      BY <2>2 DEF Die, Drop, Holder, WorkerOK
    <2>3. CASE UNCHANGED worker
      BY <2>1, <2>3, StillHeld DEF worker
    <2> QED
      BY <1>3, <2>2, <2>3 DEF Fault
  <1>4. ASSUME NEW w \in Workers, Pulse(w) PROVE Holder(i)'
    BY <1>4, StillHeld DEF Pulse, HeartbeatExpires, Heartbeat, control, worker
  <1>5. ASSUME NEW j \in Invocations, Submit(j) \/ Time(j) \/ Environment(j) PROVE Holder(i)'
    <2>1. phase' = phase /\ job' = job
      BY <1>5 DEF Submit, Time, Environment, worker
    <2>2. CASE record' = record /\ slots' = slots
      BY <2>1, <2>2, StillHeld
    <2>3. CASE Register(j)
      <3>1. i \in slots /\ record[j].status = NoRecord /\ i \in Invocations
        BY <2>3, OrderedAssumption DEF Register, SubmissionInv, ControlOK
      <3>2. i = j \/ record'[i] = record[i]
        BY <2>3, <3>1 DEF Register, ControlOK
      <3>3. CASE i = j
        BY <2>1, <3>1, <3>3 DEF SlotLeakInv, Over, Holder, Status
      <3> QED
        BY <2>1, <3>1, <3>2, <3>3, StillHeld
    <2>4. CASE Cancel(j)
      <3>1. i \in slots /\ record'[i] = record[i]
        BY <2>4, WriteKeepsSlot DEF Cancel, Final
      <3> QED
        BY <2>1, <3>1, StillHeld
    <2> QED
      BY <1>5, <2>2, <2>3, <2>4 DEF Submit, RouteSubmitted, Time, DelayEnds, StatusAges,
         Environment, Await, control
  <1> QED
    BY <1>1, <1>2, <1>3, <1>4, <1>5, WorkGivesBack DEF Next

\* On the ordered path no slot is lost to the limit: the index names what is over,
\* or waits for its retry, only while an admitted worker has not found out, or
\* after a worker stopped.
THEOREM SlotsComeBack == Spec => []SlotsAreGivenBack
  <1>1. Init => SubmissionInv /\ SlotLeakInv
    BY SMT DEF Init, SubmissionInv, SlotLeakInv, Absent, NoRecord
  <1>2. SlotLeakInv => SlotsAreGivenBack
    BY DEF SlotLeakInv, SlotsAreGivenBack, Over, Holder
  <1> QED
    BY <1>1, <1>2, TypeCorrect, SubmissionStep, SlotLeakStep, PTL DEF Spec
=============================================================================
