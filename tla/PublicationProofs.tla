-------------------------- MODULE PublicationProofs --------------------------
(***************************************************************************)
(* The transactional store keeps its promises for every number of          *)
(* invocations and runners and every limit, whoever calls it: types, no    *)
(* lost invocation, payload and status in agreement, the slot limit, one   *)
(* result by its owner, growing attempts, and refinement of Lifecycle.     *)
(***************************************************************************)
EXTENDS Publication, InvocationStatusProofs, FiniteSetTheorems

USE DEF Final, AvailableForRun, RequiresOwnership, AcquiresOwnership, RecoveryStatuses,
        OverridesOwnership, ReleasesOwnership, Statuses, NoRecord

IInv ==
    /\ StoreTypeOK
    /\ AvailableIsQueued
    /\ ResultIffSuccess
    /\ SlotsWithinLimit

LEMMA RunnersAreOwners == Runners \subseteq Owners /\ NoRunner \in Owners
  BY DEF Owners

LEMMA InitIInv == StoreInit => IInv
  <1> SUFFICES ASSUME StoreInit PROVE IInv
    OBVIOUS
  <1>1. StoreTypeOK
    BY DEF StoreInit, StoreTypeOK, Absent, StatusRecords, Owners, Rows, NoAttempt
  <1>2. AvailableIsQueued /\ ResultIffSuccess
    BY DEF StoreInit, AvailableIsQueued, ResultIffSuccess, Status, Absent
  <1>3. SlotsWithinLimit
    BY FS_EmptySet, StoreAssumption DEF StoreInit, SlotsWithinLimit
  <1> QED
    BY <1>1, <1>2, <1>3 DEF IInv

-----------------------------------------------------------------------------
(* The transactions, one lemma each: what a commit does to the tables.     *)

\* The parts of the invariant that concern one invocation at a time.
TableInv == StoreTypeOK /\ AvailableIsQueued /\ ResultIffSuccess

\* A commit that moves i to `new`, publishes or drops its row to match, and
\* stores a result only with Success, keeps the tables in agreement.
LEMMA CommitKeepsTables ==
    ASSUME TableInv, NEW i \in Invocations, NEW new \in StatusRecords,
           WriteRecord(i, new),
           NEW r \in Rows, row' = [row EXCEPT ![i] = r],
           new.status \in AvailableForRun <=> r # "none",
           NEW payload \in Owners, result' = [result EXCEPT ![i] = payload],
           payload # NoRunner <=> new.status = "Success",
           slots' \subseteq slots, waiting' \subseteq waiting,
           error' \in [Invocations -> Owners],
           retries' \in [Invocations -> Nat], recoveries' \in [Invocations -> Nat],
           UNCHANGED <<attempt, heartbeat>>
    PROVE  TableInv'
  <1>1. StoreTypeOK'
    BY DEF TableInv, StoreTypeOK, WriteRecord
  <1>2. \A j \in Invocations :
           /\ record'[j] = IF j = i THEN new ELSE record[j]
           /\ row'[j] = IF j = i THEN r ELSE row[j]
           /\ result'[j] = IF j = i THEN payload ELSE result[j]
    BY DEF TableInv, StoreTypeOK, WriteRecord
  <1>3. AvailableIsQueued' /\ ResultIffSuccess'
    BY <1>2 DEF TableInv, AvailableIsQueued, ResultIffSuccess, Status
  <1> QED
    BY <1>1, <1>3 DEF TableInv

\* What status_record_transition returns, with its status spelled out.
LEMMA TransitionedStatus ==
    ASSUME NEW rec, NEW status, NEW runner
    PROVE  Transitioned(rec, status, runner).status = status
  BY DEF Transitioned

\* An invocation that has no Success on record has no result.
LEMMA NoResultYet ==
    ASSUME TableInv, NEW i \in Invocations, Status(i) # "Success"
    PROVE  result = [result EXCEPT ![i] = NoRunner]
  BY DEF TableInv, StoreTypeOK, ResultIffSuccess

LEMMA SubmitStep ==
    ASSUME TableInv, NEW i \in Invocations, NEW runner \in Runners, Submit(i, runner)
    PROVE  TableInv'
  <1> DEFINE new == [status |-> "Registered", owner |-> runner]
  <1>1. new \in StatusRecords
    BY RunnersAreOwners DEF StatusRecords
  <1>2. result' = [result EXCEPT ![i] = NoRunner]
    BY NoResultYet DEF Submit
  <1>3. error' \in [Invocations -> Owners] /\ retries' \in [Invocations -> Nat]
          /\ recoveries' \in [Invocations -> Nat]
    BY DEF Submit, TableInv, StoreTypeOK
  <1>4. "ready" \in Rows /\ NoRunner \in Owners
    BY RunnersAreOwners DEF Rows
  <1>5. /\ WriteRecord(i, new)
        /\ row' = [row EXCEPT ![i] = "ready"]
        /\ slots' \subseteq slots /\ waiting' \subseteq waiting
        /\ UNCHANGED <<attempt, heartbeat>>
    BY DEF Submit, Publish
  <1>6. new.status \in AvailableForRun /\ new.status # "Success"
    OBVIOUS
  <1> HIDE DEF new
  <1> QED
    BY <1>1, <1>2, <1>3, <1>4, <1>5, <1>6, CommitKeepsTables

\* A commit that ends in an available status and publishes a row for it.
LEMMA PublishedCommit ==
    ASSUME TableInv, NEW i \in Invocations, NEW new \in StatusRecords,
           Status(i) # "Success", new.status \in AvailableForRun, WriteRecord(i, new),
           NEW r \in {"ready", "delayed"}, Publish(i, r), ReleaseSlot(i),
           retries' \in [Invocations -> Nat], recoveries' \in [Invocations -> Nat],
           UNCHANGED <<waiting, result, error, attempt, heartbeat>>
    PROVE  TableInv'
  <1>1. result' = [result EXCEPT ![i] = NoRunner]
    BY NoResultYet
  <1>2. error' \in [Invocations -> Owners] /\ NoRunner \in Owners /\ r \in Rows
    BY RunnersAreOwners DEF TableInv, StoreTypeOK, Rows
  <1>3. slots' \subseteq slots /\ waiting' \subseteq waiting
    BY DEF ReleaseSlot
  <1>4. new.status # "Success" /\ r # "none"
    OBVIOUS
  <1> QED
    BY <1>1, <1>2, <1>3, <1>4, CommitKeepsTables DEF Publish

\* Where a transition may start from, for the statuses the store writes.
LEMMA TransitionSource ==
    ASSUME NEW rec \in StatusRecords, NEW status, NEW runner,
           CanTransition(rec, status, runner)
    PROVE  /\ rec.status \notin Final
           /\ status \in {"Running"} \union RecoveryStatuses
                => rec.status \in RequiresOwnership
           /\ status \in {"Success", "Retry"} => rec.status = "Running"
  BY DEF CanTransition, ValidTransition, AllowedTransition, StatusRecords

LEMMA RetryStep ==
    ASSUME TableInv, NEW i \in Invocations, NEW runner \in Runners,
           NEW delayed \in BOOLEAN, ChangeRetry(i, runner, delayed)
    PROVE  TableInv'
  <1> DEFINE new == Transitioned(record[i], "Retry", runner)
  <1>1. record[i] \in StatusRecords /\ runner \in Owners
    BY RunnersAreOwners DEF TableInv, StoreTypeOK
  <1>2. new \in StatusRecords /\ new.status = "Retry"
    BY <1>1, TransitionType, TransitionedStatus DEF ChangeRetry
  <1>3. Status(i) # "Success"
    BY <1>1, TransitionSource DEF ChangeRetry, Status
  <1>4. retries' \in [Invocations -> Nat] /\ recoveries' \in [Invocations -> Nat]
    BY DEF ChangeRetry, TableInv, StoreTypeOK
  <1>5. \E r \in {"ready", "delayed"} : Publish(i, r)
    BY DEF ChangeRetry
  <1> HIDE DEF new
  <1> QED
    BY <1>2, <1>3, <1>4, <1>5, PublishedCommit DEF ChangeRetry, new

LEMMA RerouteStep ==
    ASSUME TableInv, NEW i \in Invocations, NEW runner \in Runners,
           ChangeReroute(i, runner)
    PROVE  TableInv'
  <1> DEFINE new == Transitioned(record[i], "Rerouted", runner)
  <1>1. record[i] \in StatusRecords /\ runner \in Owners
    BY RunnersAreOwners DEF TableInv, StoreTypeOK
  <1>2. new \in StatusRecords /\ new.status = "Rerouted"
    BY <1>1, TransitionType, TransitionedStatus DEF ChangeReroute
  <1>3. Status(i) # "Success"
    BY <1>1, TransitionSource DEF ChangeReroute, Status
  <1>4. retries' \in [Invocations -> Nat] /\ recoveries' \in [Invocations -> Nat]
    BY DEF ChangeReroute, TableInv, StoreTypeOK
  <1> HIDE DEF new
  <1> QED
    BY <1>2, <1>3, <1>4, PublishedCommit DEF ChangeReroute, new

LEMMA ConcurrencyRerouteStep ==
    ASSUME TableInv, NEW i \in Invocations, NEW runner \in Runners,
           ChangeConcurrencyReroute(i, runner)
    PROVE  TableInv'
  <1> DEFINE controlled == Transitioned(record[i], "ConcurrencyControlled", runner)
             new == Transitioned(controlled, "Rerouted", runner)
  <1>1. record[i] \in StatusRecords /\ runner \in Owners
    BY RunnersAreOwners DEF TableInv, StoreTypeOK
  <1>2. controlled \in StatusRecords
    BY <1>1, TransitionType DEF ChangeConcurrencyReroute
  <1>3. new \in StatusRecords /\ new.status = "Rerouted"
    BY <1>1, <1>2, TransitionType, TransitionedStatus DEF ChangeConcurrencyReroute
  <1>4. Status(i) # "Success"
    BY <1>1, TransitionSource DEF ChangeConcurrencyReroute, Status
  <1>5. retries' \in [Invocations -> Nat] /\ recoveries' \in [Invocations -> Nat]
    BY DEF ChangeConcurrencyReroute, TableInv, StoreTypeOK
  <1>6. WriteRecord(i, new) /\ Publish(i, "ready") /\ ReleaseSlot(i)
          /\ UNCHANGED <<waiting, result, error, attempt, heartbeat>>
    BY DEF ChangeConcurrencyReroute
  <1> HIDE DEF new, controlled
  <1> QED
    BY <1>3, <1>4, <1>5, <1>6, PublishedCommit

LEMMA RecoverStep ==
    ASSUME TableInv, NEW i \in Invocations, NEW status \in RecoveryStatuses,
           NEW runner \in Runners, ChangeRecover(i, status, runner)
    PROVE  TableInv'
  <1> DEFINE recovering == Transitioned(record[i], status, runner)
             new == Transitioned(recovering, "Rerouted", runner)
  <1>1. record[i] \in StatusRecords /\ runner \in Owners
    BY RunnersAreOwners DEF TableInv, StoreTypeOK
  <1>2. recovering \in StatusRecords
    BY <1>1, TransitionType DEF ChangeRecover
  <1>3. new \in StatusRecords /\ new.status = "Rerouted"
    BY <1>1, <1>2, TransitionType, TransitionedStatus DEF ChangeRecover
  <1>4. Status(i) # "Success"
    BY <1>1, TransitionSource DEF ChangeRecover, Status
  <1>5. retries' \in [Invocations -> Nat] /\ recoveries' \in [Invocations -> Nat]
    BY DEF ChangeRecover, TableInv, StoreTypeOK
  <1>6. WriteRecord(i, new) /\ Publish(i, "ready") /\ ReleaseSlot(i)
          /\ UNCHANGED <<waiting, result, error, attempt, heartbeat>>
    BY DEF ChangeRecover
  <1> HIDE DEF new, recovering
  <1> QED
    BY <1>3, <1>4, <1>5, <1>6, PublishedCommit

LEMMA StatusStep ==
    ASSUME TableInv, NEW i \in Invocations, NEW status \in PlainStatuses,
           NEW runner \in Runners, ChangeStatus(i, status, runner)
    PROVE  TableInv'
  <1> DEFINE new == Transitioned(record[i], status, runner)
  <1>1. record[i] \in StatusRecords /\ runner \in Owners
    BY RunnersAreOwners DEF TableInv, StoreTypeOK
  <1>2. new \in StatusRecords /\ new.status = status
    BY <1>1, TransitionType, TransitionedStatus DEF ChangeStatus
  <1>3. /\ Status(i) \notin Final
        /\ status \in {"Running"} \union RecoveryStatuses => Status(i) \in RequiresOwnership
    BY <1>1, TransitionSource DEF ChangeStatus, Status
  <1>4. row' = [row EXCEPT ![i] = "none"]
    BY <1>3 DEF ChangeStatus, Acknowledge, PlainStatuses, TableInv, AvailableIsQueued,
                StoreTypeOK
  <1>5. result' = [result EXCEPT ![i] = NoRunner]
    BY <1>3, NoResultYet DEF ChangeStatus
  <1>6. /\ retries' \in [Invocations -> Nat]
        /\ recoveries' \in [Invocations -> Nat]
        /\ error' \in [Invocations -> Owners]
    BY DEF ChangeStatus, TableInv, StoreTypeOK
  <1>7. slots' \subseteq slots /\ waiting' \subseteq waiting
    BY DEF ChangeStatus, TerminalEffects, ReleaseSlot, ReleaseWaiters
  <1>8. status \notin AvailableForRun /\ status # "Success"
    BY DEF PlainStatuses
  <1>9. WriteRecord(i, new) /\ UNCHANGED <<attempt, heartbeat>>
    BY DEF ChangeStatus
  <1>10. "none" \in Rows /\ NoRunner \in Owners
    BY RunnersAreOwners DEF Rows
  <1> HIDE DEF new
  <1> QED
    BY <1>2, <1>4, <1>5, <1>6, <1>7, <1>8, <1>9, <1>10, CommitKeepsTables

LEMMA CompleteStep ==
    ASSUME TableInv, NEW i \in Invocations, NEW runner \in Runners,
           NEW status \in {"Success", "Failed"}, ChangeComplete(i, runner, status)
    PROVE  TableInv'
  <1> DEFINE new == Transitioned(record[i], status, runner)
             payload == IF status = "Success" THEN runner ELSE NoRunner
  <1>1. record[i] \in StatusRecords /\ runner \in Owners /\ runner # NoRunner
    BY RunnersAreOwners, NoRunnerAssumption DEF TableInv, StoreTypeOK
  <1>2. new \in StatusRecords /\ new.status = status
    BY <1>1, TransitionType, TransitionedStatus DEF ChangeComplete
  <1>3. Status(i) = "Running"
    BY DEF ChangeComplete, OwnsRunning, Status
  <1>4. row' = [row EXCEPT ![i] = "none"]
    BY DEF ChangeComplete, Acknowledge
  <1>5. result' = [result EXCEPT ![i] = payload]
    BY <1>3, NoResultYet DEF ChangeComplete
  <1>6. /\ retries' \in [Invocations -> Nat]
        /\ recoveries' \in [Invocations -> Nat]
        /\ error' \in [Invocations -> Owners]
    BY <1>1 DEF ChangeComplete, TableInv, StoreTypeOK
  <1>7. slots' \subseteq slots /\ waiting' \subseteq waiting
    BY DEF ChangeComplete, TerminalEffects, ReleaseSlot, ReleaseWaiters
  <1>8. /\ status \notin AvailableForRun
        /\ payload \in Owners
        /\ payload # NoRunner <=> status = "Success"
    BY <1>1, RunnersAreOwners
  <1>9. WriteRecord(i, new) /\ UNCHANGED <<attempt, heartbeat>>
    BY DEF ChangeComplete
  <1>10. "none" \in Rows
    BY DEF Rows
  <1> HIDE DEF new, payload
  <1> QED
    BY <1>2, <1>4, <1>5, <1>6, <1>7, <1>8, <1>9, <1>10, CommitKeepsTables

\* Admission's direct status write leaves the queue row behind, which is the
\* case AvailableIsQueued makes room for.
LEMMA ControlledFinalStep ==
    ASSUME TableInv, NEW i \in Invocations, SetControlledFinal(i)
    PROVE  TableInv'
  <1> DEFINE new == Transitioned(record[i], "ConcurrencyControlledFinal", NoRunner)
  <1>1. record[i] \in StatusRecords /\ NoRunner \in Owners
    BY RunnersAreOwners DEF TableInv, StoreTypeOK
  <1>2. new \in StatusRecords /\ new.status = "ConcurrencyControlledFinal"
    BY <1>1, TransitionType, TransitionedStatus DEF SetControlledFinal
  <1>3. Status(i) # "Success"
    BY <1>1, TransitionSource DEF SetControlledFinal, Status
  <1>4. \A j \in Invocations : record'[j] = IF j = i THEN new ELSE record[j]
    BY DEF SetControlledFinal, WriteRecord, TableInv, StoreTypeOK
  <1>5. Status(i) \in AvailableForRun
    BY <1>1 DEF SetControlledFinal, CanTransition, ValidTransition, AllowedTransition, Status
  <1> HIDE DEF new
  <1>6. StoreTypeOK'
    BY <1>2 DEF SetControlledFinal, WriteRecord, TableInv, StoreTypeOK, new
  <1>7. AvailableIsQueued' /\ ResultIffSuccess'
    BY <1>2, <1>3, <1>4, <1>5
       DEF SetControlledFinal, TableInv, AvailableIsQueued, ResultIffSuccess, Status
  <1> QED
    BY <1>6, <1>7 DEF TableInv

\* The next-state relation, sorted by what a step touches: commits of the
\* publication, the broker's own steps, and those that leave record, row and
\* result alone.
BrokerMove ==
    \/ \E i \in Invocations : Reserve(i) \/ ReservationExpires(i)
    \/ PollEmpty

SideMove ==
    \/ \E i \in Invocations, runner \in Runners :
           BeginExecution(i, runner, retries[i]) \/ StoreError(i, runner)
    \/ \E i \in Invocations : AcquireSlot(i) \/ StatusAges(i)
    \/ \E i, j \in Invocations : SetWaitingFor(i, j)
    \/ \E runner \in Runners : RegisterHeartbeat(runner) \/ HeartbeatExpires(runner)

LEMMA StoreNextCases ==
    ASSUME StoreNext
    PROVE  \/ \E i \in Invocations, runner \in Runners : Submit(i, runner) \/ Change(i, runner)
           \/ \E i \in Invocations : SetControlledFinal(i)
           \/ BrokerMove
           \/ SideMove
  BY Zenon DEF StoreNext, BrokerMove, SideMove

\* The broker's own steps keep the row of every available invocation.
LEMMA BrokerStep ==
    ASSUME TableInv, BrokerMove
    PROVE  TableInv'
  <1>1. /\ UNCHANGED <<record, old, slots, waiting, result, error, retries, recoveries,
                       attempt, heartbeat>>
        /\ row' \in [Invocations -> Rows]
    BY DEF BrokerMove, Reserve, PollEmpty, ReservationExpires, Cleaned, Publish, Rows,
           TableInv, StoreTypeOK
  <1>2. ASSUME NEW j \in Invocations
        PROVE  /\ Status(j) \in AvailableForRun => row'[j] # "none"
               /\ row'[j] # "none" =>
                    Status(j) \in AvailableForRun \union {"ConcurrencyControlledFinal"}
    <2>1. CASE PollEmpty
      BY <2>1 DEF PollEmpty, Cleaned, TableInv, AvailableIsQueued
    <2>2. ASSUME NEW i \in Invocations, Reserve(i) PROVE <1>2!2
      BY <2>2 DEF Reserve, Cleaned, Deliverable, TableInv, AvailableIsQueued
    <2>3. ASSUME NEW i \in Invocations, ReservationExpires(i) PROVE <1>2!2
      BY <2>3 DEF ReservationExpires, Publish, TableInv, AvailableIsQueued, StoreTypeOK
    <2> QED
      BY <2>1, <2>2, <2>3 DEF BrokerMove
  <1> QED
    BY <1>1, <1>2 DEF TableInv, StoreTypeOK, AvailableIsQueued, ResultIffSuccess, Status

\* Everything else leaves record, row and result alone.
LEMMA OtherStep ==
    ASSUME TableInv, SideMove
    PROVE  TableInv'
  <1>1. UNCHANGED <<record, row, result>>
    BY DEF SideMove, BeginExecution, StoreError, AcquireSlot, StatusAges, SetWaitingFor,
           RegisterHeartbeat, HeartbeatExpires
  <1>2. AvailableIsQueued' /\ ResultIffSuccess'
    BY <1>1 DEF TableInv, AvailableIsQueued, ResultIffSuccess, Status
  <1>3. StoreTypeOK'
    <2>1. ASSUME NEW i \in Invocations, NEW runner \in Runners,
                 BeginExecution(i, runner, retries[i])
          PROVE  StoreTypeOK'
      BY <2>1 DEF BeginExecution, NextAttempt, NoAttempt, TableInv, StoreTypeOK
    <2>2. ASSUME NEW i \in Invocations, NEW runner \in Runners, StoreError(i, runner)
          PROVE  StoreTypeOK'
      BY <2>2, RunnersAreOwners DEF StoreError, TableInv, StoreTypeOK
    <2>3. ASSUME NEW i \in Invocations, AcquireSlot(i) \/ StatusAges(i)
          PROVE  StoreTypeOK'
      BY <2>3 DEF AcquireSlot, StatusAges, TableInv, StoreTypeOK
    <2>4. ASSUME NEW i \in Invocations, NEW j \in Invocations, SetWaitingFor(i, j)
          PROVE  StoreTypeOK'
      BY <2>4 DEF SetWaitingFor, TableInv, StoreTypeOK
    <2>5. ASSUME NEW runner \in Runners, RegisterHeartbeat(runner) \/ HeartbeatExpires(runner)
          PROVE  StoreTypeOK'
      BY <2>5 DEF RegisterHeartbeat, HeartbeatExpires, TableInv, StoreTypeOK
    <2> QED
      BY <2>1, <2>2, <2>3, <2>4, <2>5 DEF SideMove
  <1> QED
    BY <1>2, <1>3 DEF TableInv

-----------------------------------------------------------------------------
(* The slot limit.                                                         *)

\* Rows of cc_arg_pairs are only added by try_acquire_concurrency_slot.
LEMMA SlotsStep ==
    ASSUME StoreNext
    PROVE  slots' \subseteq slots \/ \E i \in Invocations : AcquireSlot(i)
  <1>1. ASSUME NEW i \in Invocations, NEW runner \in Runners, Submit(i, runner)
        PROVE  slots' \subseteq slots
    BY <1>1 DEF Submit
  <1>2. ASSUME NEW i \in Invocations, NEW runner \in Runners, Change(i, runner)
        PROVE  slots' \subseteq slots
    <2>1. ReleaseSlot(i) \/ UNCHANGED slots
      BY <1>2 DEF Change, ChangeStatus, ChangeRetry, ChangeReroute, ChangeConcurrencyReroute,
                  ChangeRecover, ChangeComplete, TerminalEffects
    <2> QED
      BY <2>1 DEF ReleaseSlot
  <1>3. ASSUME NEW i \in Invocations, SetControlledFinal(i)
        PROVE  slots' \subseteq slots
    BY <1>3 DEF SetControlledFinal
  <1>4. CASE BrokerMove
    BY <1>4 DEF BrokerMove, Reserve, ReservationExpires, PollEmpty
  <1>5. CASE SideMove
    BY <1>5 DEF SideMove, BeginExecution, StoreError, StatusAges, SetWaitingFor,
                RegisterHeartbeat, HeartbeatExpires
  <1> QED
    BY <1>1, <1>2, <1>3, <1>4, <1>5, StoreNextCases

LEMMA SlotLimitStep ==
    ASSUME StoreTypeOK, SlotsWithinLimit, [StoreNext]_storeVars
    PROVE  SlotsWithinLimit'
  <1>1. IsFiniteSet(slots) /\ Cardinality(slots) \in Nat
    <2>1. slots \subseteq Invocations
      BY StoreAssumption DEF StoreTypeOK
    <2> QED
      BY <2>1, StoreAssumption, FS_Subset, FS_CardinalityType
  <1>2. CASE slots' \subseteq slots
    <2>1. Cardinality(slots') <= Cardinality(slots) /\ Cardinality(slots') \in Nat
      BY <1>1, <1>2, FS_Subset, FS_CardinalityType
    <2> QED
      BY <1>1, <2>1, StoreAssumption DEF SlotsWithinLimit
  <1>3. ASSUME NEW i \in Invocations, AcquireSlot(i)
        PROVE  SlotsWithinLimit'
    <2> DEFINE others == slots \ {i}
    <2>1. IsFiniteSet(others) /\ i \notin others
      BY <1>1, FS_Subset
    <2>2. slots' = others \union {i}
      BY <1>3 DEF AcquireSlot
    <2>3. Cardinality(others) < Limit /\ Cardinality(others) \in Nat
      BY <1>3, <2>1, FS_CardinalityType DEF AcquireSlot, SlotFree
    <2>4. Cardinality(slots') = Cardinality(others) + 1
      BY <2>1, <2>2, FS_AddElement
    <2> QED
      BY <2>3, <2>4, StoreAssumption DEF SlotsWithinLimit
  <1>4. CASE UNCHANGED storeVars
    BY <1>4, <1>2 DEF storeVars
  <1> QED
    BY <1>2, <1>3, <1>4, SlotsStep

-----------------------------------------------------------------------------
(* Invariance.                                                             *)

LEMMA ChangeStep ==
    ASSUME TableInv, NEW i \in Invocations, NEW runner \in Runners, Change(i, runner)
    PROVE  TableInv'
  BY StatusStep, RetryStep, RerouteStep, ConcurrencyRerouteStep, RecoverStep, CompleteStep
     DEF Change

LEMMA NextIInv == IInv /\ [StoreNext]_storeVars => IInv'
  <1> SUFFICES ASSUME IInv, [StoreNext]_storeVars PROVE IInv'
    OBVIOUS
  <1>1. SlotsWithinLimit'
    BY SlotLimitStep DEF IInv
  <1>2. TableInv
    BY DEF IInv, TableInv
  <1>3. CASE StoreNext
    <2>1. TableInv'
      BY <1>2, <1>3, StoreNextCases, SubmitStep, ChangeStep, ControlledFinalStep, BrokerStep,
         OtherStep
    <2> QED
      BY <1>1, <2>1 DEF IInv, TableInv
  <1>4. CASE UNCHANGED storeVars
    BY <1>1, <1>4 DEF IInv, storeVars, StoreTypeOK, AvailableIsQueued, ResultIffSuccess, Status
  <1> QED
    BY <1>3, <1>4

LEMMA Invariance == StoreSpec => []IInv
  BY InitIInv, NextIInv, PTL DEF StoreSpec

\* Every table of the store stays well typed.
THEOREM StoreTyping == StoreSpec => []StoreTypeOK
  <1>1. IInv => StoreTypeOK
    BY DEF IInv
  <1> QED
    BY <1>1, Invariance, PTL

\* No accepted invocation is ever without its queue row, whatever sequence of
\* submissions, changes, polls and expiries the store has seen.
THEOREM NothingIsLost == StoreSpec => []AvailableIsQueued
  <1>1. IInv => AvailableIsQueued
    BY DEF IInv
  <1> QED
    BY <1>1, Invariance, PTL

\* Status and stored result agree in every committed state.
THEOREM PayloadAgrees == StoreSpec => []ResultIffSuccess
  <1>1. IInv => ResultIffSuccess
    BY DEF IInv
  <1> QED
    BY <1>1, Invariance, PTL

\* No sequence of acquisitions and releases puts more rows into cc_arg_pairs
\* than running_concurrency allows.
THEOREM SlotLimit == StoreSpec => []SlotsWithinLimit
  <1>1. IInv => SlotsWithinLimit
    BY DEF IInv
  <1> QED
    BY <1>1, Invariance, PTL

-----------------------------------------------------------------------------
(* Action properties.                                                      *)

\* One result, written by the owner: a stale worker's completion, a repeated
\* one and a completion after recovery all leave the results table alone.
THEOREM OneResult == StoreSpec => ResultByOwnerOnce
  <1>1. ASSUME IInv, [StoreNext]_storeVars, NEW i \in Invocations, result'[i] # result[i]
        PROVE  result[i] = NoRunner /\ OwnsRunning(i, result'[i])
    <2>1. StoreNext
      BY <1>1 DEF storeVars
    <2>2. PICK j \in Invocations, runner \in Runners, status \in {"Success", "Failed"} :
             ChangeComplete(j, runner, status)
      <3>1. ASSUME NEW j \in Invocations, NEW runner \in Runners, Change(j, runner)
            PROVE  \E status \in {"Success", "Failed"} : ChangeComplete(j, runner, status)
        BY <1>1, <3>1 DEF Change, ChangeStatus, ChangeRetry, ChangeReroute,
                          ChangeConcurrencyReroute, ChangeRecover
      <3>2. ~BrokerMove
        BY <1>1 DEF BrokerMove, Reserve, ReservationExpires, PollEmpty
      <3>3. ~SideMove
        BY <1>1 DEF SideMove, BeginExecution, StoreError, AcquireSlot, StatusAges,
                    SetWaitingFor, RegisterHeartbeat, HeartbeatExpires
      <3> QED
        BY <1>1, <2>1, <3>1, <3>2, <3>3, StoreNextCases DEF Submit, SetControlledFinal
    <2>3. j = i /\ result'[i] = runner
      BY <1>1, <2>2 DEF ChangeComplete, IInv, StoreTypeOK
    <2>4. Status(i) # "Success"
      BY <2>2, <2>3 DEF ChangeComplete, OwnsRunning, Status
    <2> QED
      BY <1>1, <2>2, <2>3, <2>4 DEF ChangeComplete, IInv, ResultIffSuccess
  <1>2. IInv /\ [StoreNext]_storeVars =>
          [\A i \in Invocations :
              result'[i] # result[i] =>
                  /\ result[i] = NoRunner
                  /\ OwnsRunning(i, result'[i])]_storeVars
    BY <1>1
  <1> QED
    BY <1>2, Invariance, PTL DEF StoreSpec, ResultByOwnerOnce

\* The only step that changes an execution identity raises it.
LEMMA AttemptStep ==
    ASSUME IInv, [StoreNext]_storeVars, NEW i \in Invocations, attempt'[i] # attempt[i]
    PROVE  attempt'[i] > attempt[i]
  <1>1. StoreNext
    BY DEF storeVars
  <1>2. PICK j \in Invocations, runner \in Runners : BeginExecution(j, runner, retries[j])
    <2>1. ASSUME NEW j \in Invocations, NEW runner \in Runners, Change(j, runner)
          PROVE  FALSE
      BY <2>1 DEF Change, ChangeStatus, ChangeRetry, ChangeReroute,
                        ChangeConcurrencyReroute, ChangeRecover, ChangeComplete
    <2>2. ~BrokerMove
      BY DEF BrokerMove, Reserve, ReservationExpires, PollEmpty
    <2>3. SideMove
      BY <1>1, <2>1, <2>2, StoreNextCases DEF Submit, SetControlledFinal
    <2> QED
      BY <2>3 DEF SideMove, StoreError, AcquireSlot, StatusAges,
                        SetWaitingFor, RegisterHeartbeat, HeartbeatExpires
  <1>3. j = i /\ attempt'[i] = NextAttempt(attempt[i], retries[i])
    BY <1>2 DEF BeginExecution, IInv, StoreTypeOK
  <1>4. attempt[i] \in Int /\ retries[i] \in Nat
    BY DEF IInv, StoreTypeOK, NoAttempt
  <1> QED
    BY <1>3, <1>4 DEF NextAttempt

\* begin_execution never repeats or lowers an execution identity, across
\* retries and recoveries.
THEOREM AttemptOrder == StoreSpec => AttemptsGrow
  <1>1. IInv /\ [StoreNext]_storeVars =>
          [\A i \in Invocations : attempt'[i] # attempt[i] => attempt'[i] > attempt[i]]_storeVars
    BY AttemptStep
  <1> QED
    BY <1>1, Invariance, PTL DEF StoreSpec, AttemptsGrow

\* A running invocation is requeued by recovery alone, and only if the commit
\* itself finds it stale.
THEOREM RequeueOnlyStale == StoreSpec => RequeueNeedsStaleness
  <1>1. ASSUME IInv, [StoreNext]_storeVars, NEW i \in Invocations,
               Status(i) = "Running", Status(i)' = "Rerouted"
        PROVE  Stale(i)
    <2>1. StoreNext /\ record'[i] # record[i]
      BY <1>1 DEF storeVars, Status
    <2>2. record \in [Invocations -> StatusRecords]
      BY <1>1 DEF IInv, StoreTypeOK
    <2>3. ASSUME NEW j \in Invocations, NEW runner \in Runners, Change(j, runner)
          PROVE  Stale(i)
      <3>1. \E new : WriteRecord(j, new)
        BY <2>3 DEF Change, ChangeStatus, ChangeRetry, ChangeReroute,
                    ChangeConcurrencyReroute, ChangeRecover, ChangeComplete
      <3>2. j = i
        BY <2>1, <2>2, <3>1 DEF WriteRecord
      <3>3. \A new : WriteRecord(i, new) => new.status = "Rerouted"
        BY <1>1, <2>2 DEF WriteRecord, Status
      <3>4. ~CanTransition(record[i], "Rerouted", runner)
            /\ ~CanTransition(record[i], "ConcurrencyControlled", runner)
        BY <1>1 DEF Status, CanTransition, ValidTransition, AllowedTransition
      <3>5. ~ChangeReroute(i, runner) /\ ~ChangeConcurrencyReroute(i, runner)
        BY <3>4 DEF ChangeReroute, ChangeConcurrencyReroute
      <3>6. \A status : ~ChangeStatus(i, status, runner)
        BY <3>3, TransitionedStatus DEF ChangeStatus, PlainStatuses
      <3>7. \A delayed : ~ChangeRetry(i, runner, delayed)
        BY <3>3, TransitionedStatus DEF ChangeRetry
      <3>8. \A status \in {"Success", "Failed"} : ~ChangeComplete(i, runner, status)
        BY <3>3, TransitionedStatus DEF ChangeComplete
      <3>9. \A status : ChangeRecover(i, status, runner) => Stale(i)
        BY DEF ChangeRecover
      <3> QED
        BY <2>3, <3>2, <3>5, <3>6, <3>7, <3>8, <3>9 DEF Change
    <2>4. ~BrokerMove /\ ~SideMove
      BY <2>1 DEF BrokerMove, Reserve, ReservationExpires, PollEmpty, SideMove,
                  BeginExecution, StoreError, AcquireSlot, StatusAges, SetWaitingFor,
                  RegisterHeartbeat, HeartbeatExpires
    <2>5. ASSUME NEW j \in Invocations, NEW runner \in Runners, Submit(j, runner)
          PROVE  FALSE
      BY <1>1, <2>1, <2>2, <2>5 DEF Submit, WriteRecord, Status
    <2>6. ASSUME NEW j \in Invocations, SetControlledFinal(j)
          PROVE  FALSE
      BY <1>1, <2>1, <2>2, <2>6, TransitionedStatus DEF SetControlledFinal, WriteRecord, Status
    <2> QED
      BY <2>1, <2>3, <2>4, <2>5, <2>6, StoreNextCases
  <1>2. IInv /\ [StoreNext]_storeVars =>
          [\A i \in Invocations :
              Status(i) = "Running" /\ Status(i)' = "Rerouted" => Stale(i)]_storeVars
    BY <1>1
  <1> QED
    BY <1>2, Invariance, PTL DEF StoreSpec, RequeueNeedsStaleness

-----------------------------------------------------------------------------
(* Refinement.                                                             *)

LEMMA StartsAbsent == ASSUME StoreInit PROVE Life!Init
  BY DEF StoreInit, Life!Init, Absent, Life!Absent, NoRecord, Life!NoRecord

\* The instance's status machine is the one the store uses.
LEMMA SameMachine ==
    /\ Life!NoRecord = NoRecord /\ Life!Statuses = Statuses /\ Life!Owners = Owners
    /\ \A rec, status, runner :
          /\ Life!CanTransition(rec, status, runner) <=> CanTransition(rec, status, runner)
          /\ Life!Transitioned(rec, status, runner) = Transitioned(rec, status, runner)
  <1>1. /\ Life!NoRecord = NoRecord /\ Life!Final = Final
        /\ Life!AvailableForRun = AvailableForRun
        /\ Life!RequiresOwnership = RequiresOwnership
        /\ Life!AcquiresOwnership = AcquiresOwnership
        /\ Life!RecoveryStatuses = RecoveryStatuses
    BY DEF Life!NoRecord, Life!Final, Life!AvailableForRun, Life!RequiresOwnership,
           Life!AcquiresOwnership, Life!RecoveryStatuses
  <1>2. /\ Life!OverridesOwnership = OverridesOwnership
        /\ Life!ReleasesOwnership = ReleasesOwnership
    BY <1>1 DEF Life!OverridesOwnership, Life!ReleasesOwnership
  <1>3. Life!Statuses = Statuses /\ Life!Owners = Owners
    BY <1>1, <1>2 DEF Life!Statuses, Life!Owners, Owners
  <1> HIDE DEF Final, AvailableForRun, RequiresOwnership, AcquiresOwnership,
               RecoveryStatuses, OverridesOwnership, ReleasesOwnership, Statuses, NoRecord
  <1>4. \A rec, status, runner :
           Life!Transitioned(rec, status, runner) = Transitioned(rec, status, runner)
    BY <1>1, <1>2 DEF Life!Transitioned, Transitioned, Life!ComputeNewOwner, ComputeNewOwner
  <1>5. \A rec, status, runner :
           Life!ValidOwnership(rec, status, runner) <=> ValidOwnership(rec, status, runner)
    BY <1>1, <1>2 DEF Life!ValidOwnership, ValidOwnership
  <1>6. \A rec, status : Life!ValidTransition(rec, status) <=> ValidTransition(rec, status)
    BY <1>1 DEF Life!ValidTransition, ValidTransition, Life!AllowedTransition,
                AllowedTransition
  <1>7. \A rec, status, runner :
           Life!CanTransition(rec, status, runner) <=> CanTransition(rec, status, runner)
    BY <1>5, <1>6 DEF Life!CanTransition, CanTransition
  <1> QED
    BY <1>1, <1>3, <1>4, <1>7

\* A single accepted transition is a SetStatus step.
LEMMA OneTransition ==
    ASSUME NEW i \in Invocations, NEW runner \in Owners, NEW status,
           record[i] \in StatusRecords, CanTransition(record[i], status, runner),
           WriteRecord(i, Transitioned(record[i], status, runner)), status # "Registered"
    PROVE  Life!Next
  <1>1. status \in Statuses
    BY TransitionType
  <1>2. record[i].status # NoRecord
    BY DEF CanTransition, ValidTransition, AllowedTransition
  <1>3. Life!SetStatus(i, status, runner)
    BY <1>2, SameMachine DEF Life!SetStatus, WriteRecord
  <1> QED
    BY <1>1, <1>3, SameMachine DEF Life!Next

\* Recovery and the concurrency reroute are SetStatusVia steps.
LEMMA TwoTransitions ==
    ASSUME NEW i \in Invocations, NEW runner \in Owners,
           NEW via \in {"PendingRecovery", "RunningRecovery", "ConcurrencyControlled"},
           CanTransition(record[i], via, runner),
           CanTransition(Transitioned(record[i], via, runner), "Rerouted", runner),
           WriteRecord(i, Transitioned(Transitioned(record[i], via, runner), "Rerouted", runner))
    PROVE  Life!Next
  <1>1. record[i].status # NoRecord
    BY DEF CanTransition, ValidTransition, AllowedTransition
  <1>2. Life!SetStatusVia(i, via, "Rerouted", runner)
    BY <1>1, SameMachine DEF Life!SetStatusVia, WriteRecord
  <1> QED
    BY <1>2, SameMachine DEF Life!Next

LEMMA ChangeImplements ==
    ASSUME StoreTypeOK, NEW i \in Invocations, NEW runner \in Runners, Change(i, runner)
    PROVE  Life!Next
  <1>1. record[i] \in StatusRecords /\ runner \in Owners
    BY RunnersAreOwners DEF StoreTypeOK
  <1>2. ASSUME NEW status \in PlainStatuses, ChangeStatus(i, status, runner) PROVE Life!Next
    BY <1>1, <1>2, OneTransition DEF ChangeStatus, PlainStatuses
  <1>3. ASSUME NEW delayed \in BOOLEAN, ChangeRetry(i, runner, delayed) PROVE Life!Next
    BY <1>1, <1>3, OneTransition DEF ChangeRetry
  <1>4. ASSUME ChangeReroute(i, runner) PROVE Life!Next
    BY <1>1, <1>4, OneTransition DEF ChangeReroute
  <1>5. ASSUME ChangeConcurrencyReroute(i, runner) PROVE Life!Next
    BY <1>1, <1>5, TwoTransitions DEF ChangeConcurrencyReroute
  <1>6. ASSUME NEW status \in RecoveryStatuses, ChangeRecover(i, status, runner)
        PROVE  Life!Next
    BY <1>1, <1>6, TwoTransitions DEF ChangeRecover
  <1>7. ASSUME NEW status \in {"Success", "Failed"}, ChangeComplete(i, runner, status)
        PROVE  Life!Next
    BY <1>1, <1>7, OneTransition DEF ChangeComplete
  <1> QED
    BY <1>2, <1>3, <1>4, <1>5, <1>6, <1>7 DEF Change

\* Whatever the callers do, the status_records table behaves as Lifecycle
\* says: so final statuses stay final, and ownership is never handed over.
THEOREM StoreImplementsLifecycle == StoreSpec => ImplementsLifecycle
  <1>1. ASSUME IInv, [StoreNext]_storeVars PROVE [Life!Next]_record
    <2>1. ASSUME NEW i \in Invocations, NEW runner \in Runners, Submit(i, runner)
          PROVE  Life!Next
      <3>1. Life!Register(i, runner)
        BY <2>1, SameMachine DEF Submit, WriteRecord, Status, Life!Register
      <3> QED
        BY <3>1, SameMachine, RunnersAreOwners DEF Life!Next
    <2>2. ASSUME NEW i \in Invocations, NEW runner \in Runners, Change(i, runner)
          PROVE  Life!Next
      BY <1>1, <2>2, ChangeImplements DEF IInv
    <2>3. ASSUME NEW i \in Invocations, SetControlledFinal(i)
          PROVE  Life!Next
      BY <1>1, <2>3, OneTransition, RunnersAreOwners DEF SetControlledFinal, IInv, StoreTypeOK
    <2>4. BrokerMove => UNCHANGED record
      BY DEF BrokerMove, Reserve, ReservationExpires, PollEmpty
    <2>5. SideMove => UNCHANGED record
      BY DEF SideMove, BeginExecution, StoreError, AcquireSlot, StatusAges, SetWaitingFor,
             RegisterHeartbeat, HeartbeatExpires
    <2> QED
      BY <1>1, <2>1, <2>2, <2>3, <2>4, <2>5, StoreNextCases DEF storeVars
  <1>2. StoreInit => Life!Init
    BY StartsAbsent
  <1> QED
    BY <1>1, <1>2, Invariance, PTL DEF StoreSpec, ImplementsLifecycle, Life!Spec
=============================================================================
