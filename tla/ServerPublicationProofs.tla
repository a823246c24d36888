----------------------- MODULE ServerPublicationProofs -----------------------
(***************************************************************************)
(* The promises of the publications on Redis and on Postgres, for every    *)
(* number of invocations, runners and overlapping calls, and every limit.  *)
(* One invariant says of each open call what it read and what that is      *)
(* still good for: on Redis, until a write makes it outdated; on Postgres, *)
(* until the end of the transaction that holds the lock.                   *)
(***************************************************************************)
EXTENDS ServerPublications, InvocationStatusProofs, FiniteSetTheorems

\* First-order reasoning throughout; leaves beyond it ask for SMT.
USE Zenon

-----------------------------------------------------------------------------
(* The changes a runtime may ask for.                                      *)

\* The route goes with the statuses a worker may run, the payload with a
\* completion.
LEMMA ChangeKinds ==
    ASSUME NEW change \in PublicationChange
    PROVE  /\ change.status \in Statuses
           /\ change.status # "Registered"
           /\ Routed(change) <=> change.status \in AvailableForRun
           /\ change.status = "Success" => change.kind = "complete"
           /\ change.status = "Failed" => change.kind \in {"complete", "status"}
           /\ change.kind = "complete" =>
                 change.status \in {"Success", "Failed"} /\ change.via = NoRecord
           /\ change.via # NoRecord =>
                 /\ change.via \in {"PendingRecovery", "RunningRecovery", "ConcurrencyControlled"}
                 /\ change.status = "Rerouted"
           /\ change.via \in RecoveryStatuses <=> change.kind = "recover"
  BY SMT DEF PublicationChange, PlainStatuses, Routed, AvailableForRun, RecoveryStatuses, Statuses,
             ReleasesOwnership, RequiresOwnership, Final, NoRecord

\* A record that requires a runner has one.
Owned(rec) == rec.status \in RequiresOwnership => rec.owner \in Runners

\* What a permitted change starts from and ends with.
LEMMA ChangeEffect ==
    ASSUME NEW rec \in StatusRecords, NEW change \in PublicationChange, NEW runner \in Runners,
           CanChange(rec, change, runner), Owned(rec)
    PROVE  /\ rec.status \notin Final \union {NoRecord}
           /\ Changed(rec, change, runner) \in StatusRecords
           /\ Changed(rec, change, runner).status = change.status
           /\ Owned(Changed(rec, change, runner))
           /\ rec.status = "Running" /\ change.status = "Rerouted" => change.via = "RunningRecovery"
  <1> DEFINE middle == Midway(rec, change, runner)
  <1>0. runner \in Owners
    BY DEF Owners
  <1>1. /\ middle \in StatusRecords /\ Owned(middle)
        /\ change.via = NoRecord => middle = rec
        /\ change.via # NoRecord => /\ middle.status = change.via
                                    /\ CanTransition(rec, change.via, runner)
    <2>1. CASE change.via = NoRecord
      BY <2>1 DEF Midway
    <2>2. CASE change.via # NoRecord
      <3>1. CanTransition(rec, change.via, runner)
        BY <2>2 DEF CanChange
      <3>2. middle = Transitioned(rec, change.via, runner)
        BY <2>2 DEF Midway
      <3>3. middle \in StatusRecords /\ middle.status = change.via
        <4>1. middle \in StatusRecords
          BY <1>0, <3>1, <3>2, TransitionType
        <4>2. middle.status = change.via
          BY SMT, <3>2 DEF Transitioned
        <4> QED
          BY <4>1, <4>2
      <3>4. Owned(middle)
        BY <1>0, <3>1, <3>2, <3>3, TransitionOwned DEF Owned
      <3> QED
        BY <2>2, <3>1, <3>3, <3>4
    <2> QED
      BY <2>1, <2>2
  <1>2. CanTransition(middle, change.status, runner)
    BY DEF CanChange
  <1>3. Changed(rec, change, runner) = Transitioned(middle, change.status, runner)
    BY DEF Changed
  <1>4. /\ Changed(rec, change, runner) \in StatusRecords
        /\ Changed(rec, change, runner).status = change.status
    <2>1. Changed(rec, change, runner) \in StatusRecords
      BY <1>0, <1>1, <1>2, <1>3, TransitionType
    <2>2. Changed(rec, change, runner).status = change.status
      BY SMT, <1>3 DEF Transitioned
    <2> QED
      BY <2>1, <2>2
  <1>5. Owned(Changed(rec, change, runner))
    BY <1>0, <1>1, <1>2, <1>3, <1>4, TransitionOwned DEF Owned
  <1>6. rec.status \notin Final
    <2>1. \A status : CanTransition(rec, status, runner) => rec.status \notin Final
      BY FinalHasNoTransition
    <2> QED
      BY <1>1, <1>2, <2>1
  <1>7. rec.status # NoRecord
    <2>1. \A status : CanTransition(rec, status, runner) /\ rec.status = NoRecord => status = "Registered"
      BY DEF CanTransition, ValidTransition, AllowedTransition, RecoveryStatuses, NoRecord
    <2> QED
      BY <1>1, <1>2, <2>1, ChangeKinds
  <1>8. rec.status = "Running" /\ change.status = "Rerouted" => change.via = "RunningRecovery"
    <2>1. \A status : CanTransition(rec, status, runner) /\ rec.status = "Running" =>
             status \notin {"Rerouted", "PendingRecovery", "ConcurrencyControlled"}
      BY DEF CanTransition, ValidTransition, AllowedTransition, RecoveryStatuses, NoRecord
    <2> QED
      BY <1>1, <1>2, <2>1, ChangeKinds
  <1> QED
    BY <1>4, <1>5, <1>6, <1>7, <1>8

-----------------------------------------------------------------------------
(* The tables, and a commit that respects the status machine.              *)

RecordsOK ==
    /\ record \in [Invocations -> StatusRecords]
    /\ \A i \in Invocations : Owned(record[i])
    /\ payload \in [Invocations -> {"none", "result", "error"}]
    /\ AvailableIsQueued
    /\ PayloadMatchesStatus

QueueOK == IsFiniteSet(queued) /\ QueueWithinRows

CountersOK ==
    /\ retries \in [Invocations -> Nat]
    /\ attempt \in [Invocations -> Int]
    /\ heartbeat \in [Runners -> {"none", "fresh", "stale"}]

TablesOK == RecordsOK /\ QueueOK /\ CountersOK

\* The recovery limit asks for Failed after it stored its error.
Reported(i, change) == change.kind = "status" /\ change.status = "Failed" => i \in limited

\* The change is applied to what is stored, with its payload and its route.
Publishes(i, change, runner) ==
    /\ CanChange(record[i], change, runner) /\ Reported(i, change)
    /\ limited' = limited
    /\ record' = [record EXCEPT ![i] = Changed(record[i], change, runner)]
    /\ payload' = IF change.kind # "complete" THEN payload
                  ELSE [payload EXCEPT ![i] = IF change.status = "Success" THEN "result" ELSE "error"]
    /\ Routed(change) => i \in queued'
    /\ queued \ {i} \subseteq queued'

\* Status, payload and queue agree after such a commit.
LEMMA PublishKeepsRecords ==
    ASSUME RecordsOK, NEW i \in Invocations, NEW change \in PublicationChange,
           NEW runner \in Runners, Publishes(i, change, runner)
    PROVE  RecordsOK'
  <1> DEFINE new == Changed(record[i], change, runner)
  <1>1. record[i] \in StatusRecords /\ Owned(record[i]) /\ CanChange(record[i], change, runner)
    BY DEF RecordsOK, Publishes
  <1>2. /\ record[i].status \notin Final
        /\ new \in StatusRecords
        /\ new.status = change.status
        /\ Owned(new)
    BY <1>1, ChangeEffect
  <1> HIDE DEF new
  <1>3. record' = [record EXCEPT ![i] = new]
    BY DEF Publishes, new
  <1>4. record' \in [Invocations -> StatusRecords] /\ \A j \in Invocations : Owned(record'[j])
    BY <1>2, <1>3 DEF RecordsOK
  <1>5. AvailableIsQueued'
    BY <1>2, <1>3, ChangeKinds DEF RecordsOK, Publishes, AvailableIsQueued
  <1>6. payload' \in [Invocations -> {"none", "result", "error"}]
    BY SMT DEF RecordsOK, Publishes
  <1>7. \A j \in Invocations \ {i} : record'[j] = record[j] /\ payload'[j] = payload[j]
    BY SMT, <1>3 DEF RecordsOK, Publishes
  <1>8. record'[i].status = change.status
    BY <1>2, <1>3 DEF RecordsOK
  <1>9. /\ (payload'[i] = "result") <=> (change.status = "Success")
        /\ (payload'[i] = "error") => (change.status = "Failed")
        /\ (change.status = "Failed") => payload'[i] = "error" \/ i \in limited
    <2>1. CASE change.kind = "complete"
      <3>1. change.status \in {"Success", "Failed"}
        BY <2>1, ChangeKinds
      <3> QED
        BY SMT, <2>1, <3>1 DEF RecordsOK, Publishes
    <2>2. CASE change.kind # "complete"
      <3>1. change.status # "Success" /\ (change.status = "Failed" => i \in limited)
        BY <2>2, ChangeKinds DEF Publishes, Reported
      <3> QED
        BY SMT, <1>2, <2>2, <3>1 DEF RecordsOK, Publishes, PayloadMatchesStatus, Final
    <2> QED
      BY <2>1, <2>2
  <1>10. PayloadMatchesStatus'
    BY <1>7, <1>8, <1>9 DEF RecordsOK, PayloadMatchesStatus, Publishes
  <1> QED
    BY <1>4, <1>5, <1>6, <1>10 DEF RecordsOK

\* A submission registers an id that has no record.
Registers(i, runner) ==
    /\ record[i] = Absent
    /\ record' = [record EXCEPT ![i] = [status |-> "Registered", owner |-> runner]]
    /\ queued' = queued \union {i}
    /\ payload' = payload /\ limited' = limited

LEMMA RegisterKeepsRecords ==
    ASSUME RecordsOK, NEW i \in Invocations, NEW runner \in Runners, Registers(i, runner)
    PROVE  RecordsOK'
  <1> DEFINE new == [status |-> "Registered", owner |-> runner]
  <1>1. new \in StatusRecords /\ Owned(new) /\ new.status = "Registered"
    BY SMT DEF StatusRecords, Owners, Statuses, ReleasesOwnership, AvailableForRun, RequiresOwnership,
           Owned
  <1>2. record[i].status = NoRecord
    BY SMT DEF Registers, Absent
  <1> HIDE DEF new
  <1>3. record' = [record EXCEPT ![i] = new]
    BY DEF Registers, new
  <1>4. record' \in [Invocations -> StatusRecords] /\ \A j \in Invocations : Owned(record'[j])
    BY <1>1, <1>3 DEF RecordsOK
  <1>5. AvailableIsQueued'
    BY <1>3 DEF RecordsOK, Registers, AvailableIsQueued
  <1>6. PayloadMatchesStatus'
    BY SMT, <1>1, <1>2, <1>3 DEF RecordsOK, Registers, PayloadMatchesStatus, NoRecord
  <1> QED
    BY <1>4, <1>5, <1>6 DEF RecordsOK, Registers

\* What a step may do to the records, to the attempts, and to running work.
StatusStep == record' = record \/ Life!Next

AttemptStep == \A i \in Invocations : attempt'[i] # attempt[i] => attempt'[i] > attempt[i]

Requeued(i) == record[i].status = "Running" /\ record'[i].status = "Rerouted"

\* Lifecycle has the same status machine.
LEMMA SameMachine ==
    ASSUME NEW rec, NEW status, NEW runner
    PROVE  /\ Life!CanTransition(rec, status, runner) <=> CanTransition(rec, status, runner)
           /\ Life!Transitioned(rec, status, runner) = Transitioned(rec, status, runner)
  <1> USE DEF RequiresOwnership, AcquiresOwnership, OverridesOwnership, ReleasesOwnership,
         RecoveryStatuses, Final, AvailableForRun, NoRecord, Life!RequiresOwnership,
         Life!AcquiresOwnership, Life!OverridesOwnership, Life!ReleasesOwnership,
         Life!RecoveryStatuses, Life!Final, Life!AvailableForRun, Life!NoRecord
  <1>1. Life!ValidTransition(rec, status) <=> ValidTransition(rec, status)
    BY DEF ValidTransition, AllowedTransition, Life!ValidTransition, Life!AllowedTransition
  <1>2. Life!ValidOwnership(rec, status, runner) <=> ValidOwnership(rec, status, runner)
    BY DEF ValidOwnership, Life!ValidOwnership
  <1>3. Life!ComputeNewOwner(rec, status, runner) = ComputeNewOwner(rec, status, runner)
    BY DEF ComputeNewOwner, Life!ComputeNewOwner
  <1> QED
    BY <1>1, <1>2, <1>3 DEF CanTransition, Life!CanTransition, Transitioned, Life!Transitioned

LEMMA SameSets ==
    /\ Life!NoRecord = NoRecord
    /\ \A runner \in Runners : runner \in Life!Owners
    /\ \A status \in Statuses : status \in Life!Statuses
  BY DEF Life!NoRecord, NoRecord, Life!Owners, Statuses, Life!Statuses, ReleasesOwnership,
         RequiresOwnership, RecoveryStatuses, Final, AvailableForRun, Life!ReleasesOwnership,
         Life!RequiresOwnership, Life!RecoveryStatuses, Life!Final, Life!AvailableForRun

\* A change is one step of the lifecycle, or two at once.
LEMMA PublishIsStep ==
    ASSUME RecordsOK, NEW i \in Invocations, NEW change \in PublicationChange,
           NEW runner \in Runners, Publishes(i, change, runner)
    PROVE  /\ StatusStep
           /\ \A j \in Invocations : Requeued(j) => j = i /\ change.via = "RunningRecovery"
  <1>1. record[i] \in StatusRecords /\ Owned(record[i]) /\ CanChange(record[i], change, runner)
    BY DEF RecordsOK, Publishes
  <1>2. record[i].status # NoRecord
    BY <1>1, ChangeEffect
  <1>3. StatusStep
    <2>1. CASE change.via = NoRecord
      <3>1. Life!SetStatus(i, change.status, runner)
        BY <1>2, <2>1, SameMachine, SameSets DEF Publishes, CanChange, Changed, Midway, Life!SetStatus
      <3> QED
        BY <3>1, SameSets, ChangeKinds DEF Life!Next, StatusStep
    <2>2. CASE change.via # NoRecord
      <3> DEFINE middle == Transitioned(record[i], change.via, runner)
      <3>1. /\ CanTransition(record[i], change.via, runner)
            /\ CanTransition(middle, change.status, runner)
            /\ record' = [record EXCEPT ![i] = Transitioned(middle, change.status, runner)]
        BY <2>2 DEF Publishes, CanChange, Changed, Midway
      <3>2. Life!Transitioned(record[i], change.via, runner) = middle
        BY SameMachine
      <3> HIDE DEF middle
      <3>3. Life!SetStatusVia(i, change.via, change.status, runner)
        BY <1>2, <3>1, <3>2, SameMachine, SameSets DEF Life!SetStatusVia
      <3>4. /\ change.via \in {"PendingRecovery", "RunningRecovery", "ConcurrencyControlled"}
            /\ change.status = "Rerouted"
        BY <2>2, ChangeKinds
      <3> QED
        BY <3>3, <3>4, SameSets DEF Life!Next, StatusStep
    <2> QED
      BY <2>1, <2>2
  <1>5. ASSUME NEW j \in Invocations, Requeued(j) PROVE j = i /\ change.via = "RunningRecovery"
    <2>1. record' = [record EXCEPT ![i] = Changed(record[i], change, runner)]
      BY DEF Publishes
    <2>2. j = i
      BY SMT, <1>5, <2>1 DEF Requeued, RecordsOK
    <2>3. record'[i] = Changed(record[i], change, runner)
      BY <2>1 DEF RecordsOK
    <2>4. change.status = "Rerouted" /\ record[i].status = "Running"
      <3>1. Changed(record[i], change, runner).status = change.status
        BY <1>1, ChangeEffect
      <3> QED
        BY <1>5, <2>2, <2>3, <3>1 DEF Requeued
    <2> QED
      BY <1>1, <2>2, <2>4, ChangeEffect
  <1> QED
    BY <1>3, <1>5

LEMMA RegisterIsStep ==
    ASSUME RecordsOK, NEW i \in Invocations, NEW runner \in Runners, Registers(i, runner)
    PROVE  /\ StatusStep
           /\ \A j \in Invocations : ~Requeued(j)
  <1>1. Life!Register(i, runner)
    BY SMT, SameSets DEF Registers, Absent, Life!Register
  <1>2. \A j \in Invocations : ~Requeued(j)
    BY SMT DEF Registers, Requeued, RecordsOK
  <1> QED
    BY <1>1, <1>2, SameSets DEF Life!Next, StatusStep

-----------------------------------------------------------------------------
(* Redis: a call keeps what it read, and commits only if that is current.  *)

RedisChanges ==
    [step : {"beat", "commit"}, inv : Invocations, runner : Runners, change : PublicationChange,
     seen : StatusRecords, fresh : BOOLEAN, same : BOOLEAN, tries : Nat]

RedisBegins ==
    [step : {"identity"}, inv : Invocations, fresh : BOOLEAN]
      \union [step : {"begin"}, inv : Invocations, fresh : BOOLEAN, prior : Int]

\* What a change has seen permits it, and is stored as long as it is fresh; a
\* recovery of running work has found no recent heartbeat, and there is none as
\* long as it is the same.
Warranted(call) ==
    /\ Owned(call.seen)
    /\ CanChange(call.seen, call.change, call.runner)
    /\ Reported(call.inv, call.change)
    /\ call.fresh => call.seen = record[call.inv]
    /\ call.step = "commit" /\ call.change.via = "RunningRecovery" =>
          /\ call.seen.status = "Running"
          /\ call.same => heartbeat[call.seen.owner] # "fresh"

RedisCalls ==
    /\ calls \in [Callers -> {R!NoCall} \union RedisChanges \union RedisBegins]
    /\ \A c \in Callers : calls[c] \in RedisChanges => Warranted(calls[c])

\* The status machine that RedisPublication instantiates is the same one.
LEMMA SameRedis ==
    /\ R!Absent = Absent
    /\ R!PublicationChange = PublicationChange
    /\ R!Final = Final
    /\ \A rec, change, runner :
          /\ R!CanChange(rec, change, runner) <=> CanChange(rec, change, runner)
          /\ R!Changed(rec, change, runner) = Changed(rec, change, runner)
          /\ R!Routed(change) <=> Routed(change)
  <1> USE DEF RequiresOwnership, AcquiresOwnership, OverridesOwnership, ReleasesOwnership,
         RecoveryStatuses, Final, AvailableForRun, NoRecord, R!RequiresOwnership,
         R!AcquiresOwnership, R!OverridesOwnership, R!ReleasesOwnership,
         R!RecoveryStatuses, R!Final, R!AvailableForRun, R!NoRecord
  <1>1. ASSUME NEW rec, NEW status, NEW runner
        PROVE  /\ R!CanTransition(rec, status, runner) <=> CanTransition(rec, status, runner)
               /\ R!Transitioned(rec, status, runner) = Transitioned(rec, status, runner)
    <2>1. R!ValidTransition(rec, status) <=> ValidTransition(rec, status)
      BY DEF ValidTransition, AllowedTransition, R!ValidTransition, R!AllowedTransition
    <2>2. R!ValidOwnership(rec, status, runner) <=> ValidOwnership(rec, status, runner)
      BY DEF ValidOwnership, R!ValidOwnership
    <2>3. R!ComputeNewOwner(rec, status, runner) = ComputeNewOwner(rec, status, runner)
      BY DEF ComputeNewOwner, R!ComputeNewOwner
    <2> QED
      BY <2>1, <2>2, <2>3 DEF CanTransition, R!CanTransition, Transitioned, R!Transitioned
  <1>2. ASSUME NEW rec, NEW change, NEW runner
        PROVE  R!Midway(rec, change, runner) = Midway(rec, change, runner)
    BY <1>1 DEF R!Midway, Midway
  <1>3. R!Absent = Absent /\ R!Final = Final
    BY DEF R!Absent, Absent
  <1>4. R!PublicationChange = PublicationChange
    BY DEF R!PublicationChange, PublicationChange, R!PlainStatuses, PlainStatuses
  <1>5. ASSUME NEW rec, NEW change, NEW runner
        PROVE  /\ R!CanChange(rec, change, runner) <=> CanChange(rec, change, runner)
               /\ R!Changed(rec, change, runner) = Changed(rec, change, runner)
               /\ R!Routed(change) <=> Routed(change)
    BY <1>1, <1>2 DEF R!CanChange, CanChange, R!Changed, Changed, R!Routed, Routed
  <1> QED
    BY <1>3, <1>4, <1>5

LEMMA SameCardinality ==
    ASSUME NEW S
    PROVE  R!Cardinality(S) = Cardinality(S) /\ P!Cardinality(S) = Cardinality(S)
  BY DEF R!Cardinality, P!Cardinality, Cardinality

\* The step of a call tells its shape.
LEMMA RedisShape ==
    ASSUME NEW call \in {R!NoCall} \union RedisChanges \union RedisBegins
    PROVE  /\ call.step \in {"beat", "commit"} <=> call \in RedisChanges
           /\ call.step = "identity" <=> call \in [step : {"identity"}, inv : Invocations, fresh : BOOLEAN]
           /\ call.step = "begin" <=>
                call \in [step : {"begin"}, inv : Invocations, fresh : BOOLEAN, prior : Int]
           /\ call.step = "none" <=> call = R!NoCall
  BY SMT DEF R!NoCall, RedisChanges, RedisBegins

\* What every step on Redis keeps, and what it may do.
RedisKept ==
    /\ TablesOK' /\ RedisCalls' /\ StatusStep /\ AttemptStep
    /\ \A i \in Invocations : Requeued(i) => heartbeat[record[i].owner] # "fresh"

\* Without a write to the tables, only the call that moves has to be looked at.
LEMMA QuietTables ==
    ASSUME TablesOK, UNCHANGED <<record, queued, payload, limited, retries, attempt, heartbeat>>
    PROVE  /\ TablesOK' /\ StatusStep /\ AttemptStep
           /\ \A i \in Invocations : ~Requeued(i)
  <1>1. TablesOK'
    BY DEF TablesOK, RecordsOK, QueueOK, CountersOK, AvailableIsQueued, PayloadMatchesStatus,
           QueueWithinRows
  <1> QED
    BY <1>1 DEF StatusStep, AttemptStep, Requeued

\* Neither has it when only the recovery limit stores an error.
LEMMA LimitTables ==
    ASSUME TablesOK, UNCHANGED <<record, queued, payload, retries, attempt, heartbeat>>,
           limited \subseteq limited'
    PROVE  /\ TablesOK' /\ StatusStep /\ AttemptStep
           /\ \A i \in Invocations : ~Requeued(i)
  <1>1. TablesOK'
    BY DEF TablesOK, RecordsOK, QueueOK, CountersOK, AvailableIsQueued, PayloadMatchesStatus,
           QueueWithinRows
  <1> QED
    BY <1>1 DEF StatusStep, AttemptStep, Requeued

LEMMA RedisCallMoves ==
    ASSUME TablesOK, RedisCalls, NEW c \in Callers, UNCHANGED R!storeVars,
           NEW call \in {R!NoCall} \union RedisChanges \union RedisBegins,
           call \in RedisChanges => Warranted(call),
           calls' = [calls EXCEPT ![c] = call]
    PROVE  RedisKept
  <1>1. UNCHANGED <<record, queued, payload, limited, retries, attempt, heartbeat>>
    BY DEF R!storeVars
  <1>2. calls' \in [Callers -> {R!NoCall} \union RedisChanges \union RedisBegins]
    BY DEF RedisCalls
  <1>3. ASSUME NEW d \in Callers, calls'[d] \in RedisChanges PROVE Warranted(calls[d])'
    <2>1. calls'[d] = IF d = c THEN call ELSE calls[d]
      BY DEF RedisCalls
    <2>2. Warranted(calls'[d])
      BY <1>3, <2>1 DEF RedisCalls
    <2> QED
      BY <1>1, <2>2 DEF Warranted, Reported
  <1> QED
    BY <1>1, <1>2, <1>3, QuietTables DEF RedisKept, RedisCalls

\* Ending a call loses nothing.
LEMMA RedisCallEnds ==
    ASSUME TablesOK, RedisCalls, NEW c \in Callers, UNCHANGED R!storeVars,
           calls' = [calls EXCEPT ![c] = R!NoCall]
    PROVE  RedisKept
  <1>1. R!NoCall \notin RedisChanges
    BY SMT DEF R!NoCall, RedisChanges
  <1> QED
    BY <1>1, RedisCallMoves

LEMMA RedisReads ==
    ASSUME TablesOK, RedisCalls, NEW c \in Callers, NEW i \in Invocations, NEW runner \in Runners,
           NEW change \in PublicationChange, NEW tries \in Nat, UNCHANGED R!storeVars,
           R!Permitted(i, runner, change), R!ReadCurrent(c, i, runner, change, tries)
    PROVE  RedisKept
  <1> DEFINE call == [step |-> IF change.via = "RunningRecovery" THEN "beat" ELSE "commit",
                      inv |-> i, runner |-> runner, change |-> change, seen |-> record[i],
                      fresh |-> TRUE, same |-> TRUE, tries |-> tries]
  <1>1. record[i] \in StatusRecords /\ Owned(record[i])
    BY DEF TablesOK, RecordsOK
  <1>2. call \in RedisChanges
    BY SMT, <1>1 DEF RedisChanges
  <1>3. /\ call.step = "commit" => call.change.via # "RunningRecovery"
        /\ call.seen = record[i] /\ call.change = change /\ call.runner = runner /\ call.inv = i
    BY SMT
  <1>4. calls' = [calls EXCEPT ![c] = call]
    BY DEF R!ReadCurrent
  <1>5. CanChange(record[i], change, runner) /\ Reported(i, change)
    BY SameRedis DEF R!Permitted, Reported
  <1> HIDE DEF call
  <1>6. Warranted(call)
    BY <1>1, <1>3, <1>5 DEF Warranted, Reported
  <1> QED
    BY <1>2, <1>4, <1>6, RedisCallMoves

LEMMA RedisReadsHeartbeat ==
    ASSUME TablesOK, RedisCalls, NEW c \in Callers, R!ReadHeartbeat(c)
    PROVE  RedisKept
  <1> DEFINE call == calls[c]
             next == [call EXCEPT !.step = "commit"]
  <1>1. call \in RedisChanges /\ Warranted(call)
    BY RedisShape DEF R!ReadHeartbeat, RedisCalls
  <1>2. CASE ~(call.seen.status = "Running" /\ heartbeat[call.seen.owner] # "fresh")
    BY <1>2, RedisCallEnds DEF R!ReadHeartbeat
  <1>3. CASE call.seen.status = "Running" /\ heartbeat[call.seen.owner] # "fresh"
    <2>1. calls' = [calls EXCEPT ![c] = next]
      BY <1>3 DEF R!ReadHeartbeat
    <2>2. /\ next \in RedisChanges
          /\ next.inv = call.inv /\ next.seen = call.seen /\ next.change = call.change
          /\ next.runner = call.runner /\ next.fresh = call.fresh
      BY SMT, <1>1 DEF RedisChanges
    <2> HIDE DEF next
    <2>3. Warranted(next)
      BY <1>1, <1>3, <2>2 DEF Warranted, Reported
    <2> QED
      BY <2>1, <2>2, <2>3, RedisCallMoves DEF R!ReadHeartbeat
  <1> QED
    BY <1>2, <1>3

\* A row more fits if one was free, and a row less always does.
LEMMA QueueGrows ==
    ASSUME QueueOK, NEW i, i \in queued \/ Cardinality(queued) < MaxRows,
           queued' = queued \union {i}
    PROVE  QueueOK'
  <1>1. Cardinality(queued) \in Nat /\ MaxRows \in Nat
    BY FS_CardinalityType, ServerAssumption DEF QueueOK
  <1>2. IsFiniteSet(queued \union {i})
    BY FS_AddElement DEF QueueOK
  <1>3. Cardinality(queued \union {i}) <= MaxRows
    BY SMT, <1>1, FS_AddElement DEF QueueOK, QueueWithinRows
  <1> QED
    BY <1>2, <1>3 DEF QueueOK, QueueWithinRows

LEMMA QueueShrinks ==
    ASSUME QueueOK, NEW i, queued' = queued \ {i}
    PROVE  QueueOK'
  <1>1. Cardinality(queued) \in Nat /\ MaxRows \in Nat
    BY FS_CardinalityType, ServerAssumption DEF QueueOK
  <1>2. IsFiniteSet(queued \ {i})
    BY FS_RemoveElement DEF QueueOK
  <1>3. Cardinality(queued \ {i}) <= MaxRows
    BY SMT, <1>1, FS_RemoveElement DEF QueueOK, QueueWithinRows
  <1> QED
    BY <1>2, <1>3 DEF QueueOK, QueueWithinRows

\* A write to one record leaves the reads of the others as they are.
LEMMA RedisOutdates ==
    ASSUME RedisCalls, NEW c \in Callers, NEW i \in Invocations,
           \A j \in Invocations \ {i} : record'[j] = record[j],
           UNCHANGED <<limited, heartbeat>>, calls' = R!OthersOutdated(c, i)
    PROVE  RedisCalls'
  <1>1. ASSUME NEW d \in Callers
        PROVE  /\ calls'[d] \in {R!NoCall} \union RedisChanges \union RedisBegins
               /\ calls'[d] \in RedisChanges => Warranted(calls[d])'
    <2> DEFINE call == calls[d]
    <2>0. call \in {R!NoCall} \union RedisChanges \union RedisBegins
      BY DEF RedisCalls
    <2>1. R!NoCall \notin RedisChanges /\ R!NoCall.step = "none"
      BY SMT DEF R!NoCall, RedisChanges
    <2>2. CASE d = c
      BY <2>1, <2>2 DEF R!OthersOutdated
    <2>3. CASE d # c /\ ~(call.step # "none" /\ call.inv = i)
      <3>1. calls'[d] = call
        BY <2>3 DEF R!OthersOutdated, R!Outdated
      <3>2. ASSUME call \in RedisChanges PROVE Warranted(calls[d])'
        <4>1. call.inv \in Invocations /\ call.step # "none"
          BY SMT, <3>2 DEF RedisChanges
        <4>2. Warranted(call)
          BY <3>2 DEF RedisCalls
        <4> QED
          BY <2>3, <3>1, <4>1, <4>2 DEF Warranted, Reported
      <3> QED
        BY <2>0, <3>1, <3>2
    <2>4. CASE d # c /\ call.step # "none" /\ call.inv = i
      <3> DEFINE next == [call EXCEPT !.fresh = FALSE]
      <3>1. calls'[d] = next
        BY <2>4 DEF R!OthersOutdated, R!Outdated
      <3>2. next \in {R!NoCall} \union RedisChanges \union RedisBegins
        <4>1. CASE call \in RedisChanges
          <5>1. next \in RedisChanges
            BY <4>1 DEF RedisChanges
          <5> QED
            BY <5>1
        <4>2. CASE call \in [step : {"identity"}, inv : Invocations, fresh : BOOLEAN]
          <5>1. next \in [step : {"identity"}, inv : Invocations, fresh : BOOLEAN]
            BY <4>2
          <5> QED
            BY <5>1 DEF RedisBegins
        <4>3. CASE call \in [step : {"begin"}, inv : Invocations, fresh : BOOLEAN, prior : Int]
          <5>1. next \in [step : {"begin"}, inv : Invocations, fresh : BOOLEAN, prior : Int]
            BY <4>3
          <5> QED
            BY <5>1 DEF RedisBegins
        <4>4. call # R!NoCall
          BY <2>1, <2>4
        <4> QED
          BY <2>0, <4>1, <4>2, <4>3, <4>4 DEF RedisBegins
      <3>3. ASSUME next \in RedisChanges PROVE Warranted(calls[d])'
        <4>1. call \in RedisChanges
          BY SMT, <2>0, <2>4, <2>1, <3>3 DEF RedisChanges, RedisBegins
        <4>2. /\ next.inv = call.inv /\ next.seen = call.seen /\ next.change = call.change
              /\ next.runner = call.runner /\ next.step = call.step /\ next.same = call.same
              /\ next.fresh = FALSE
          BY SMT, <4>1 DEF RedisChanges
        <4>3. Warranted(call)
          BY <4>1 DEF RedisCalls
        <4> HIDE DEF next
        <4> QED
          BY <3>1, <4>2, <4>3 DEF Warranted, Reported
      <3> HIDE DEF next
      <3> QED
        BY <3>1, <3>2, <3>3
    <2> QED
      BY <2>2, <2>3, <2>4
  <1>2. calls' = [d \in Callers |-> calls'[d]]
    BY DEF R!OthersOutdated
  <1> QED
    BY <1>1, <1>2 DEF RedisCalls

LEMMA RedisCommits ==
    ASSUME TablesOK, RedisCalls, NEW c \in Callers, R!Commit(c)
    PROVE  RedisKept
  <1> DEFINE call == calls[c]
             i == call.inv
             new == Changed(call.seen, call.change, call.runner)
  <1>1. call \in RedisChanges /\ Warranted(call)
    BY RedisShape DEF R!Commit, RedisCalls
  <1>2. /\ i \in Invocations /\ call.change \in PublicationChange /\ call.runner \in Runners
        /\ call.seen \in StatusRecords
    BY SMT, <1>1 DEF RedisChanges
  <1>3. /\ call.seen = record[i] /\ call.same
        /\ call.step = "commit" /\ ~R!Full(call)
    BY <1>1 DEF R!Commit, R!Unchanged, Warranted
  <1>4. /\ record' = [record EXCEPT ![i] = new]
        /\ R!Effects(call, new.status)
        /\ calls' = R!OthersOutdated(c, i)
        /\ UNCHANGED <<limited, attempt, heartbeat>>
    BY SameRedis DEF R!Commit
  <1>5. /\ record[i] \in StatusRecords /\ CanChange(record[i], call.change, call.runner)
        /\ Reported(i, call.change)
    BY <1>1, <1>2, <1>3 DEF Warranted, Reported, TablesOK, RecordsOK
  <1>6. new.status = call.change.status
    BY <1>1, <1>2, ChangeEffect DEF Warranted, Reported
  <1>7. Publishes(i, call.change, call.runner)
    <2>1. payload' = IF call.change.kind # "complete" THEN payload
                     ELSE [payload EXCEPT ![i] = IF call.change.status = "Success" THEN "result" ELSE "error"]
      BY <1>4, <1>6 DEF R!Effects
    <2>2. /\ Routed(call.change) => i \in queued'
          /\ queued \ {i} \subseteq queued'
      BY <1>4, SameRedis DEF R!Effects
    <2> QED
      BY <1>3, <1>4, <1>5, <2>1, <2>2 DEF Publishes
  <1>8. RecordsOK'
    BY <1>2, <1>7, PublishKeepsRecords DEF TablesOK
  <1>9. QueueOK'
    <2>1. CASE Routed(call.change)
      <3>1. queued' = queued \union {i}
        BY <1>4, <2>1, SameRedis DEF R!Effects
      <3>2. Cardinality(queued) \in Nat
        BY FS_CardinalityType DEF TablesOK, QueueOK
      <3>3. i \in queued \/ ~(Cardinality(queued) >= MaxRows)
        BY <1>3, <2>1, SameRedis, SameCardinality DEF R!Full
      <3>4. i \in queued \/ Cardinality(queued) < MaxRows
        BY SMT, <3>2, <3>3, ServerAssumption
      <3> QED
        BY <3>1, <3>4, QueueGrows DEF TablesOK
    <2>2. CASE ~Routed(call.change)
      <3>1. queued' = queued \ {i}
        BY <1>4, <2>2, SameRedis DEF R!Effects
      <3> QED
        BY <3>1, QueueShrinks DEF TablesOK
    <2> QED
      BY <2>1, <2>2
  <1>10. CountersOK'
    <2>1. retries' \in [Invocations -> Nat]
      BY SMT, <1>2, <1>4 DEF R!Effects, TablesOK, CountersOK
    <2> QED
      BY <1>4, <2>1 DEF TablesOK, CountersOK
  <1>11. RedisCalls'
    <2>1. \A j \in Invocations \ {i} : record'[j] = record[j]
      BY <1>4 DEF TablesOK, RecordsOK
    <2> QED
      BY <1>2, <1>4, <2>1, RedisOutdates
  <1>12. /\ StatusStep
         /\ \A j \in Invocations : Requeued(j) => j = i /\ call.change.via = "RunningRecovery"
    BY <1>2, <1>7, PublishIsStep DEF TablesOK
  <1>13. \A j \in Invocations : Requeued(j) => heartbeat[record[j].owner] # "fresh"
    BY <1>1, <1>3, <1>12 DEF Warranted, Reported
  <1>14. AttemptStep
    BY <1>4 DEF AttemptStep
  <1> QED
    BY <1>8, <1>9, <1>10, <1>11, <1>12, <1>13, <1>14 DEF RedisKept, TablesOK

\* A conflict reads again what is there now.
LEMMA RedisTriesAgain ==
    ASSUME TablesOK, RedisCalls, NEW c \in Callers, R!TryAgain(c)
    PROVE  RedisKept
  <1> DEFINE call == calls[c]
  <1>1. call \in RedisChanges
    BY RedisShape DEF R!TryAgain, RedisCalls
  <1>2. /\ call.inv \in Invocations /\ call.change \in PublicationChange /\ call.runner \in Runners
        /\ call.tries + 1 \in Nat
    BY SMT, <1>1 DEF RedisChanges
  <1>3. CASE R!Permitted(call.inv, call.runner, call.change)
    BY <1>2, <1>3, RedisReads DEF R!TryAgain
  <1>4. CASE ~R!Permitted(call.inv, call.runner, call.change)
    BY <1>4, RedisCallEnds DEF R!TryAgain
  <1> QED
    BY <1>3, <1>4

LEMMA RedisSubmits ==
    ASSUME TablesOK, RedisCalls, NEW i \in Invocations, NEW runner \in Runners, R!Submit(i, runner)
    PROVE  RedisKept
  <1>1. Registers(i, runner) /\ UNCHANGED <<retries, attempt, heartbeat, calls>>
    BY SameRedis DEF R!Submit, Registers
  <1>2. RecordsOK'
    BY <1>1, RegisterKeepsRecords DEF TablesOK
  <1>3. QueueOK'
    <2>1. Cardinality(queued) < MaxRows /\ queued' = queued \union {i}
      BY SameCardinality DEF R!Submit
    <2> QED
      BY <2>1, QueueGrows DEF TablesOK
  <1>4. \A j \in Invocations \ {i} : record'[j] = record[j]
    BY <1>1 DEF Registers, TablesOK, RecordsOK
  <1>5. ASSUME NEW c \in Callers, calls[c] \in RedisChanges PROVE Warranted(calls[c])'
    <2> DEFINE call == calls[c]
    <2>1. Warranted(call)
      BY <1>5 DEF RedisCalls
    <2>2. /\ call.seen \in StatusRecords /\ call.change \in PublicationChange
          /\ call.runner \in Runners /\ call.inv \in Invocations
      BY SMT, <1>5 DEF RedisChanges
    <2>3. call.seen.status # NoRecord
      BY <2>1, <2>2, ChangeEffect DEF Warranted, Reported
    <2>4. Absent.status = NoRecord
      BY SMT DEF Absent
    <2>5. call.fresh => call.inv # i
      BY <1>1, <2>1, <2>3, <2>4 DEF Warranted, Reported, Registers
    <2> QED
      BY <1>1, <1>4, <2>1, <2>2, <2>5 DEF Warranted, Reported, Registers
  <1>6. RedisCalls'
    BY <1>1, <1>5 DEF RedisCalls
  <1>7. StatusStep /\ \A j \in Invocations : ~Requeued(j)
    BY <1>1, RegisterIsStep DEF TablesOK
  <1> QED
    BY <1>1, <1>2, <1>3, <1>6, <1>7 DEF RedisKept, TablesOK, CountersOK, AttemptStep

LEMMA RedisBeginsExecution ==
    ASSUME TablesOK, RedisCalls, NEW c \in Callers,
           \/ \E i \in Invocations, runner \in Runners : R!BeginStart(c, i, runner)
           \/ R!ReadIdentity(c) \/ R!BeginCommit(c) \/ R!BeginConflict(c)
    PROVE  RedisKept
  <1>1. ASSUME NEW i \in Invocations, NEW runner \in Runners, R!BeginStart(c, i, runner)
        PROVE  RedisKept
    <2> DEFINE next == [step |-> "identity", inv |-> i, fresh |-> TRUE]
    <2>1. next \in RedisBegins
      BY DEF RedisBegins
    <2>2. next \notin RedisChanges
      BY SMT DEF RedisChanges
    <2>3. calls' = [calls EXCEPT ![c] = next] /\ UNCHANGED R!storeVars
      BY <1>1 DEF R!BeginStart
    <2> HIDE DEF next
    <2> QED
      BY <2>1, <2>2, <2>3, RedisCallMoves
  <1>2. CASE R!ReadIdentity(c)
    <2> DEFINE call == calls[c]
               next == [step |-> "begin", inv |-> call.inv, fresh |-> call.fresh,
                        prior |-> attempt[call.inv]]
    <2>1. call \in [step : {"identity"}, inv : Invocations, fresh : BOOLEAN]
      BY <1>2, RedisShape DEF R!ReadIdentity, RedisCalls
    <2>2. call.inv \in Invocations /\ call.fresh \in BOOLEAN
      BY <2>1
    <2>3. attempt[call.inv] \in Int
      BY <2>2 DEF TablesOK, CountersOK
    <2>4. next \in RedisBegins
      BY <2>2, <2>3 DEF RedisBegins
    <2>5. next \notin RedisChanges
      BY SMT DEF RedisChanges
    <2>6. calls' = [calls EXCEPT ![c] = next] /\ UNCHANGED R!storeVars
      BY <1>2 DEF R!ReadIdentity
    <2> HIDE DEF next
    <2> QED
      BY <2>4, <2>5, <2>6, RedisCallMoves
  <1>3. CASE R!BeginCommit(c)
    <2> DEFINE call == calls[c]
               next == R!NextAttempt(call.prior, retries[call.inv])
    <2>1. call \in [step : {"begin"}, inv : Invocations, fresh : BOOLEAN, prior : Int]
      BY <1>3, RedisShape DEF R!BeginCommit, RedisCalls
    <2>2. call.inv \in Invocations /\ call.prior \in Int
      BY SMT, <2>1
    <2>3. /\ attempt[call.inv] = call.prior
          /\ attempt' = [attempt EXCEPT ![call.inv] = next]
          /\ calls' = [calls EXCEPT ![c] = R!NoCall]
          /\ UNCHANGED <<record, queued, payload, limited, retries, heartbeat>>
      BY <1>3 DEF R!BeginCommit, R!SameIdentity
    <2>4. next \in Int /\ next > call.prior
      <3>1. retries[call.inv] \in Nat
        BY <2>2 DEF TablesOK, CountersOK
      <3> QED
        BY SMT, <2>2, <3>1 DEF R!NextAttempt
    <2> HIDE DEF next
    <2>5. AttemptStep /\ attempt' \in [Invocations -> Int]
      BY SMT, <2>2, <2>3, <2>4 DEF AttemptStep, TablesOK, CountersOK
    <2>6. TablesOK'
      BY <2>3, <2>5 DEF TablesOK, RecordsOK, QueueOK, CountersOK, AvailableIsQueued,
             PayloadMatchesStatus, QueueWithinRows
    <2>7. R!NoCall \notin RedisChanges
      BY SMT DEF R!NoCall, RedisChanges
    <2>8. RedisCalls'
      BY <2>3, <2>7 DEF RedisCalls, Warranted, Reported
    <2> QED
      BY <2>3, <2>5, <2>6, <2>8 DEF RedisKept, StatusStep, Requeued
  <1>4. CASE R!BeginConflict(c)
    BY <1>4, RedisCallEnds DEF R!BeginConflict
  <1> QED
    BY <1>1, <1>2, <1>3, <1>4

\* A heartbeat makes the recoveries that missed it fail; a heartbeat that grows
\* old hurts nobody.
LEMMA RedisHeartbeats ==
    ASSUME TablesOK, RedisCalls, NEW runner \in Runners,
           R!RegisterHeartbeat(runner) \/ R!HeartbeatExpires(runner)
    PROVE  RedisKept
  <1>1. UNCHANGED <<record, queued, payload, limited, retries, attempt>>
    BY DEF R!RegisterHeartbeat, R!HeartbeatExpires
  <1>2. heartbeat' \in [Runners -> {"none", "fresh", "stale"}]
    BY DEF R!RegisterHeartbeat, R!HeartbeatExpires, TablesOK, CountersOK
  <1>3. TablesOK'
    BY <1>1, <1>2 DEF TablesOK, RecordsOK, QueueOK, CountersOK, AvailableIsQueued,
           PayloadMatchesStatus, QueueWithinRows
  <1>4. CASE R!HeartbeatExpires(runner)
    <2>1. calls' = calls /\ \A r \in Runners : heartbeat'[r] = "fresh" => heartbeat[r] = "fresh"
      <3>1. calls' = calls /\ heartbeat' = [heartbeat EXCEPT ![runner] = "stale"]
        BY <1>4 DEF R!HeartbeatExpires
      <3>2. DOMAIN heartbeat = Runners
        BY DEF TablesOK, CountersOK
      <3> QED
        BY <3>1, <3>2
    <2>2. RedisCalls'
      BY <1>1, <2>1 DEF RedisCalls, Warranted, Reported, Owned, RequiresOwnership
    <2> QED
      BY <1>1, <1>3, <2>2 DEF RedisKept, StatusStep, AttemptStep, Requeued
  <1>5. CASE R!RegisterHeartbeat(runner)
    <2>1. ASSUME NEW c \in Callers
          PROVE  /\ calls'[c] \in {R!NoCall} \union RedisChanges \union RedisBegins
                 /\ calls'[c] \in RedisChanges => Warranted(calls[c])'
      <3> DEFINE call == calls[c]
                 hit == /\ call.step = "commit" /\ call.change.kind = "recover"
                        /\ call.seen = [status |-> "Running", owner |-> runner]
                 next == [call EXCEPT !.same = FALSE]
      <3>1. call \in {R!NoCall} \union RedisChanges \union RedisBegins
        BY DEF RedisCalls
      <3>2. calls'[c] = IF hit THEN next ELSE call
        BY <1>5 DEF R!RegisterHeartbeat
      <3>3. CASE hit
        <4>1. call \in RedisChanges /\ Warranted(call)
          BY <3>1, <3>3, RedisShape DEF RedisCalls
        <4>2. next \in RedisChanges
          BY <4>1 DEF RedisChanges
        <4>3. /\ next.inv = call.inv /\ next.seen = call.seen /\ next.change = call.change
              /\ next.runner = call.runner /\ next.step = call.step /\ next.fresh = call.fresh
              /\ next.same = FALSE
          BY SMT, <4>1 DEF RedisChanges
        <4> HIDE DEF next
        <4> QED
          BY <1>1, <3>2, <3>3, <4>1, <4>2, <4>3 DEF Warranted, Reported
      <3>4. CASE ~hit
        <4>1. calls'[c] = call
          BY <3>2, <3>4
        <4>2. ASSUME call \in RedisChanges PROVE Warranted(calls[c])'
          <5>1. Warranted(call) /\ call.change \in PublicationChange /\ call.seen \in StatusRecords
            BY SMT, <4>2 DEF RedisCalls, RedisChanges
          <5>2. ASSUME call.step = "commit", call.change.via = "RunningRecovery", call.same
                PROVE  heartbeat'[call.seen.owner] # "fresh"
            <6>1. /\ call.seen.status = "Running" /\ call.seen.owner \in Runners
                  /\ heartbeat[call.seen.owner] # "fresh"
              BY <5>1, <5>2 DEF Warranted, Reported, Owned, RequiresOwnership
            <6>2. call.change.kind = "recover"
              BY <5>1, <5>2, ChangeKinds DEF RecoveryStatuses
            <6>3. call.seen.owner # runner
              BY SMT, <3>4, <5>1, <5>2, <6>1, <6>2 DEF StatusRecords
            <6> QED
              BY <1>5, <6>1, <6>3 DEF R!RegisterHeartbeat, TablesOK, CountersOK
          <5> QED
            BY <1>1, <4>1, <5>1, <5>2 DEF Warranted, Reported
        <4> QED
          BY <3>1, <4>1, <4>2
      <3> QED
        BY <3>3, <3>4
    <2>2. calls' = [c \in Callers |-> calls'[c]]
      BY <1>5 DEF R!RegisterHeartbeat
    <2>3. RedisCalls'
      BY <2>1, <2>2 DEF RedisCalls
    <2> QED
      BY <1>1, <1>3, <2>3 DEF RedisKept, StatusStep, AttemptStep, Requeued
  <1> QED
    BY <1>4, <1>5

LEMMA RedisStep ==
    ASSUME TablesOK, RedisCalls, use \in Uses, R!Next
    PROVE  RedisKept
  <1>0. use.invocations \subseteq Invocations /\ use.runners \subseteq Runners /\ use.callers \subseteq Callers
    BY ServerAssumption
  <1>1. ASSUME NEW i \in Invocations, NEW runner \in Runners, R!Submit(i, runner) PROVE RedisKept
    BY <1>1, RedisSubmits
  <1>2. ASSUME NEW i \in Invocations, R!TryAcquireConcurrencySlot(i) \/ R!StatusAges(i) PROVE RedisKept
    <2>1. UNCHANGED <<record, queued, payload, limited, retries, attempt, heartbeat, calls>>
      BY <1>2 DEF R!TryAcquireConcurrencySlot, R!StatusAges
    <2>2. RedisCalls'
      BY <2>1 DEF RedisCalls, Warranted, Reported
    <2> QED
      BY <2>1, <2>2, QuietTables DEF RedisKept
  <1>8. ASSUME NEW i \in Invocations, R!StoreError(i) PROVE RedisKept
    <2>1. /\ UNCHANGED <<record, queued, payload, retries, attempt, heartbeat, calls>>
          /\ limited \subseteq limited'
      BY <1>8 DEF R!StoreError
    <2>2. RedisCalls'
      BY <2>1 DEF RedisCalls, Warranted, Reported
    <2> QED
      BY <2>1, <2>2, LimitTables DEF RedisKept
  <1>3. ASSUME NEW c \in Callers, NEW i \in Invocations, NEW runner \in Runners,
               NEW change \in R!Offered, R!Start(c, i, runner, change)
        PROVE  RedisKept
    <2>1. change \in PublicationChange
      BY SameRedis DEF R!Offered
    <2>2. 1 \in Nat
      OBVIOUS
    <2> QED
      BY <1>3, <2>1, <2>2, RedisReads DEF R!Start
  <1>4. ASSUME NEW c \in Callers, R!Fail(c) PROVE RedisKept
    BY <1>4, RedisCallEnds DEF R!Fail
  <1>5. ASSUME NEW c \in Callers, R!ReadHeartbeat(c) \/ R!Commit(c) \/ R!TryAgain(c) PROVE RedisKept
    BY <1>5, RedisReadsHeartbeat, RedisCommits, RedisTriesAgain
  <1>6. ASSUME NEW c \in Callers,
               \/ \E i \in Invocations, runner \in Runners : R!BeginStart(c, i, runner)
               \/ R!ReadIdentity(c) \/ R!BeginCommit(c) \/ R!BeginConflict(c)
        PROVE  RedisKept
    BY <1>6, RedisBeginsExecution
  <1>7. ASSUME NEW runner \in Runners, R!RegisterHeartbeat(runner) \/ R!HeartbeatExpires(runner)
        PROVE  RedisKept
    BY <1>7, RedisHeartbeats
  <1> QED
    BY <1>0, <1>1, <1>2, <1>3, <1>4, <1>5, <1>6, <1>7, <1>8 DEF R!Next

-----------------------------------------------------------------------------
(* Postgres: what a transaction read under its lock stays as it was.       *)

PgSubmits ==
    [step : {"publish", "admitted"}, kind : {"submit"}, inv : Invocations, runner : Runners]

PgChanges ==
    [step : {"beat", "publish", "write", "admitted"}, kind : {"change"}, inv : Invocations,
     runner : Runners, change : PublicationChange, seen : StatusRecords]

PgBegins == [step : {"identity"}, kind : {"begin"}, inv : Invocations, prior : Int]

PgTransactions == PgSubmits \union PgChanges \union PgBegins

\* A change without a route waits for nothing more once it has its row; a
\* recovery of running work goes on when the runner is silent.
Settled(call) ==
    /\ call.step = "write" => ~Routed(call.change)
    /\ Reported(call.inv, call.change)
    /\ call.change.via = "RunningRecovery" /\ call.step # "beat" =>
          /\ call.seen.status = "Running"
          /\ heartbeat[call.seen.owner] = "none" => call.inv \in old

\* The row a transaction depends on is as it found it.
Held(call) ==
    /\ call \in PgSubmits => record[call.inv] = Absent
    /\ call \in PgChanges =>
          /\ call.seen = record[call.inv]
          /\ CanChange(call.seen, call.change, call.runner)
          /\ Settled(call)
    /\ call \in PgBegins =>
          record[call.inv].status = "Running" /\ call.prior = attempt[call.inv]
    /\ call.step = "admitted" => Cardinality(queued \ {call.inv}) < MaxRows

\* No two transactions depend on the same row, and one counts the queue.
Apart ==
    \A c, d \in Callers :
        c # d /\ calls[c] # P!NoCall /\ calls[d] # P!NoCall =>
            /\ calls[c].inv # calls[d].inv
            /\ ~(calls[c].step = "admitted" /\ calls[d].step = "admitted")

PgCalls ==
    /\ calls \in [Callers -> {P!NoCall} \union PgTransactions]
    /\ \A c \in Callers : calls[c] # P!NoCall => Held(calls[c])
    /\ Apart

\* What every step on Postgres keeps, and what it may do.
PgKept ==
    /\ TablesOK' /\ PgCalls' /\ StatusStep /\ AttemptStep
    /\ \A i \in Invocations : Requeued(i) => (heartbeat[record[i].owner] = "none" => i \in old)

\* The status machine that PostgresPublication instantiates is the same one.
LEMMA SamePg ==
    /\ P!Absent = Absent
    /\ P!PublicationChange = PublicationChange
    /\ P!Final = Final
    /\ \A rec, change, runner :
          /\ P!CanChange(rec, change, runner) <=> CanChange(rec, change, runner)
          /\ P!Changed(rec, change, runner) = Changed(rec, change, runner)
          /\ P!Routed(change) <=> Routed(change)
  <1> USE DEF RequiresOwnership, AcquiresOwnership, OverridesOwnership, ReleasesOwnership,
         RecoveryStatuses, Final, AvailableForRun, NoRecord, P!RequiresOwnership,
         P!AcquiresOwnership, P!OverridesOwnership, P!ReleasesOwnership,
         P!RecoveryStatuses, P!Final, P!AvailableForRun, P!NoRecord
  <1>1. ASSUME NEW rec, NEW status, NEW runner
        PROVE  /\ P!CanTransition(rec, status, runner) <=> CanTransition(rec, status, runner)
               /\ P!Transitioned(rec, status, runner) = Transitioned(rec, status, runner)
    <2>1. P!ValidTransition(rec, status) <=> ValidTransition(rec, status)
      BY DEF ValidTransition, AllowedTransition, P!ValidTransition, P!AllowedTransition
    <2>2. P!ValidOwnership(rec, status, runner) <=> ValidOwnership(rec, status, runner)
      BY DEF ValidOwnership, P!ValidOwnership
    <2>3. P!ComputeNewOwner(rec, status, runner) = ComputeNewOwner(rec, status, runner)
      BY DEF ComputeNewOwner, P!ComputeNewOwner
    <2> QED
      BY <2>1, <2>2, <2>3 DEF CanTransition, P!CanTransition, Transitioned, P!Transitioned
  <1>2. ASSUME NEW rec, NEW change, NEW runner
        PROVE  P!Midway(rec, change, runner) = Midway(rec, change, runner)
    BY <1>1 DEF P!Midway, Midway
  <1>3. P!Absent = Absent /\ P!Final = Final
    BY DEF P!Absent, Absent
  <1>4. P!PublicationChange = PublicationChange
    BY DEF P!PublicationChange, PublicationChange, P!PlainStatuses, PlainStatuses
  <1>5. ASSUME NEW rec, NEW change, NEW runner
        PROVE  /\ P!CanChange(rec, change, runner) <=> CanChange(rec, change, runner)
               /\ P!Changed(rec, change, runner) = Changed(rec, change, runner)
               /\ P!Routed(change) <=> Routed(change)
    BY <1>1, <1>2 DEF P!CanChange, CanChange, P!Changed, Changed, P!Routed, Routed
  <1> QED
    BY <1>3, <1>4, <1>5

\* The kind and the step of a transaction tell its shape.
LEMMA PgShape ==
    ASSUME NEW call \in {P!NoCall} \union PgTransactions
    PROVE  /\ call.step = "none" <=> call = P!NoCall
           /\ call # P!NoCall => call.inv \in Invocations
           /\ call # P!NoCall => (call.kind = "submit" <=> call \in PgSubmits)
           /\ call # P!NoCall => (call.kind = "change" <=> call \in PgChanges)
           /\ call.step \in {"beat", "write"} => call \in PgChanges
           /\ call.step \in {"publish", "admitted"} => call \in PgSubmits \union PgChanges
           /\ call.step = "identity" <=> call \in PgBegins
  <1>1. CASE call = P!NoCall
    BY SMT, <1>1 DEF P!NoCall, PgSubmits, PgChanges, PgBegins
  <1>2. CASE call \in PgSubmits
    BY SMT, <1>2 DEF P!NoCall, PgSubmits, PgChanges, PgBegins
  <1>3. CASE call \in PgChanges
    BY SMT, <1>3 DEF P!NoCall, PgSubmits, PgChanges, PgBegins
  <1>4. CASE call \in PgBegins
    BY SMT, <1>4 DEF P!NoCall, PgSubmits, PgChanges, PgBegins
  <1> QED
    BY <1>1, <1>2, <1>3, <1>4 DEF PgTransactions

\* A transaction that takes a step, or begins, without a write that others see.
LEMMA PgCallMoves ==
    ASSUME TablesOK, PgCalls, NEW c \in Callers, UNCHANGED P!storeVars,
           NEW call \in PgTransactions, Held(call),
           \A d \in Callers : d # c /\ calls[d] # P!NoCall =>
               /\ calls[d].inv # call.inv
               /\ ~(calls[d].step = "admitted" /\ call.step = "admitted"),
           calls' = [calls EXCEPT ![c] = call]
    PROVE  PgKept
  <1>1. UNCHANGED <<record, queued, payload, limited, retries, attempt, heartbeat, old>>
    BY DEF P!storeVars
  <1>2. calls' \in [Callers -> {P!NoCall} \union PgTransactions]
    BY DEF PgCalls
  <1>3. \A d \in Callers : calls'[d] = IF d = c THEN call ELSE calls[d]
    BY DEF PgCalls
  <1>4. ASSUME NEW d \in Callers, calls'[d] # P!NoCall PROVE Held(calls[d])'
    <2>1. Held(calls'[d])
      BY <1>3, <1>4 DEF PgCalls
    <2> QED
      BY <1>1, <2>1 DEF Held, Settled, Reported
  <1>5. Apart'
    BY <1>3 DEF PgCalls, Apart
  <1> QED
    BY <1>1, <1>2, <1>4, <1>5, QuietTables DEF PgKept, PgCalls

\* A rollback frees the locks.
LEMMA PgCallEnds ==
    ASSUME TablesOK, PgCalls, NEW c \in Callers, UNCHANGED P!storeVars, P!Ends(c)
    PROVE  PgKept
  <1>1. UNCHANGED <<record, queued, payload, limited, retries, attempt, heartbeat, old>>
    BY DEF P!storeVars
  <1>2. calls' \in [Callers -> {P!NoCall} \union PgTransactions]
    BY DEF PgCalls, P!Ends
  <1>3. \A d \in Callers : calls'[d] = IF d = c THEN P!NoCall ELSE calls[d]
    BY DEF PgCalls, P!Ends
  <1>4. ASSUME NEW d \in Callers, calls'[d] # P!NoCall PROVE Held(calls[d])'
    <2>1. Held(calls'[d])
      BY <1>3, <1>4 DEF PgCalls
    <2> QED
      BY <1>1, <2>1 DEF Held, Settled, Reported
  <1>5. Apart'
    BY <1>3 DEF PgCalls, Apart
  <1> QED
    BY <1>1, <1>2, <1>4, <1>5, QuietTables DEF PgKept, PgCalls

\* A commit touches the row it has locked, and adds to the queue only with the
\* count in its hands, so nothing the other transactions hold has changed.
LEMMA PgOthersHold ==
    ASSUME TablesOK, PgCalls, NEW c \in Callers, calls[c] # P!NoCall, P!Ends(c),
           \A j \in Invocations \ {calls[c].inv} :
               /\ record'[j] = record[j] /\ attempt'[j] = attempt[j]
               /\ j \in old => j \in old',
           UNCHANGED <<limited, heartbeat>>,
           calls[c].step = "admitted" \/ queued' \subseteq queued
    PROVE  PgCalls'
  <1>1. calls' \in [Callers -> {P!NoCall} \union PgTransactions]
    BY DEF PgCalls, P!Ends
  <1>2. \A d \in Callers : calls'[d] = IF d = c THEN P!NoCall ELSE calls[d]
    BY DEF PgCalls, P!Ends
  <1>3. Apart'
    <2> SUFFICES ASSUME NEW d \in Callers, NEW e \in Callers, d # e,
                        calls'[d] # P!NoCall, calls'[e] # P!NoCall
                 PROVE  /\ calls'[d].inv # calls'[e].inv
                        /\ ~(calls'[d].step = "admitted" /\ calls'[e].step = "admitted")
      BY DEF Apart
    <2>1. calls'[d] = calls[d] /\ calls'[e] = calls[e]
      BY <1>2
    <2> QED
      BY <2>1 DEF PgCalls, Apart
  <1>4. ASSUME NEW d \in Callers, calls'[d] # P!NoCall PROVE Held(calls[d])'
    <2> DEFINE call == calls[d]
    <2>1. d # c /\ calls'[d] = call /\ call # P!NoCall
      BY <1>2, <1>4
    <2>2. /\ Held(call)
          /\ call.inv # calls[c].inv
          /\ ~(call.step = "admitted" /\ calls[c].step = "admitted")
      BY <2>1 DEF PgCalls, Apart
    <2>3. call.inv \in Invocations
      BY <2>1, PgShape DEF PgCalls
    <2>4. /\ record'[call.inv] = record[call.inv] /\ attempt'[call.inv] = attempt[call.inv]
          /\ call.inv \in old => call.inv \in old'
      BY <2>2, <2>3
    <2>5. ASSUME call.step = "admitted" PROVE Cardinality(queued' \ {call.inv}) < MaxRows
      <3>1. queued' \ {call.inv} \subseteq queued \ {call.inv}
        BY <2>2, <2>5
      <3>2. IsFiniteSet(queued \ {call.inv})
        BY FS_RemoveElement DEF TablesOK, QueueOK
      <3>3. Cardinality(queued \ {call.inv}) < MaxRows
        BY <2>2, <2>5 DEF Held
      <3>4. /\ Cardinality(queued' \ {call.inv}) <= Cardinality(queued \ {call.inv})
            /\ Cardinality(queued' \ {call.inv}) \in Nat /\ Cardinality(queued \ {call.inv}) \in Nat
        BY <3>1, <3>2, FS_Subset, FS_CardinalityType
      <3> QED
        BY SMT, <3>3, <3>4, ServerAssumption
    <2> QED
      BY <2>1, <2>2, <2>4, <2>5 DEF Held, Settled, Reported
  <1> QED
    BY <1>1, <1>3, <1>4 DEF PgCalls

LEMMA PgAdmits ==
    ASSUME TablesOK, PgCalls, NEW c \in Callers, P!Admit(c)
    PROVE  PgKept
  <1> DEFINE call == calls[c]
             next == [call EXCEPT !.step = "admitted"]
  <1>1. CASE ~P!Room(call.inv)
    BY <1>1, PgCallEnds DEF P!Admit
  <1>2. CASE P!Room(call.inv)
    <2>1. calls' = [calls EXCEPT ![c] = next] /\ UNCHANGED P!storeVars
      BY <1>2 DEF P!Admit, P!Goes
    <2>2. call \in PgSubmits \union PgChanges /\ call # P!NoCall /\ call.step = "publish"
      BY PgShape DEF P!Admit, PgCalls, P!NoCall
    <2>3. Held(call)
      BY <2>2 DEF PgCalls
    <2>4. Cardinality(queued \ {call.inv}) < MaxRows
      BY <1>2, SameCardinality DEF P!Room
    <2>5. \A d \in Callers : d # c /\ calls[d] # P!NoCall =>
              calls[d].inv # call.inv /\ calls[d].step # "admitted"
      <3>1. \A d \in Callers : calls[d] # P!NoCall => d \in P!Open
        BY PgShape DEF P!Open, PgCalls
      <3> QED
        BY <2>2, <3>1 DEF PgCalls, Apart, P!Admit, P!ProfileFree
    <2>6. CASE call \in PgSubmits
      <3>1. next \in PgSubmits /\ next.inv = call.inv
        BY SMT, <2>6 DEF PgSubmits
      <3>2. next \notin PgChanges /\ next \notin PgBegins
        BY SMT, <2>6 DEF PgSubmits, PgChanges, PgBegins
      <3> HIDE DEF next
      <3>3. Held(next)
        BY <2>3, <2>4, <2>6, <3>1, <3>2 DEF Held
      <3>4. next \in PgTransactions
        BY <3>1 DEF PgTransactions
      <3>5. \A d \in Callers : d # c /\ calls[d] # P!NoCall =>
               calls[d].inv # next.inv /\ ~(calls[d].step = "admitted" /\ next.step = "admitted")
        BY <2>5, <3>1
      <3> QED
        BY <2>1, <3>3, <3>4, <3>5, PgCallMoves
    <2>7. CASE call \in PgChanges
      <3>1. /\ next \in PgChanges /\ next.inv = call.inv /\ next.step = "admitted"
            /\ next.seen = call.seen /\ next.change = call.change /\ next.runner = call.runner
        BY SMT, <2>7 DEF PgChanges
      <3>2. next \notin PgSubmits /\ next \notin PgBegins
        BY SMT, <2>7 DEF PgSubmits, PgChanges, PgBegins
      <3> HIDE DEF next
      <3>3. Held(next)
        BY <2>2, <2>3, <2>4, <2>7, <3>1, <3>2 DEF Held, Settled, Reported
      <3>4. next \in PgTransactions
        BY <3>1 DEF PgTransactions
      <3>5. \A d \in Callers : d # c /\ calls[d] # P!NoCall =>
               calls[d].inv # next.inv /\ ~(calls[d].step = "admitted" /\ next.step = "admitted")
        BY <2>5, <3>1
      <3> QED
        BY <2>1, <3>3, <3>4, <3>5, PgCallMoves
    <2> QED
      BY <2>2, <2>6, <2>7
  <1> QED
    BY <1>1, <1>2

\* A lock that was free keeps a new transaction apart from the open ones: who
\* submits finds no record, and everybody else has found one.
LEMMA PgFree ==
    ASSUME TablesOK, PgCalls, NEW i \in Invocations,
           \/ P!SubmissionFree(i) /\ record[i] = Absent
           \/ P!RowFree(i) /\ record[i] # Absent
    PROVE  \A d \in Callers : calls[d] # P!NoCall => calls[d].inv # i
  <1> SUFFICES ASSUME NEW d \in Callers, calls[d] # P!NoCall, calls[d].inv = i PROVE FALSE
    OBVIOUS
  <1> DEFINE call == calls[d]
  <1>1. call \in {P!NoCall} \union PgTransactions /\ Held(call)
    BY DEF PgCalls
  <1>2. d \in P!Open
    BY <1>1, PgShape DEF P!Open
  <1>3. CASE P!SubmissionFree(i) /\ record[i] = Absent
    <2>1. call \notin PgSubmits
      BY <1>1, <1>2, <1>3, PgShape DEF P!SubmissionFree
    <2>2. Absent.status = NoRecord /\ Absent.status # "Running"
      BY SMT DEF Absent, NoRecord
    <2>3. call \notin PgBegins
      BY <1>1, <1>3, <2>2 DEF Held
    <2>4. CASE call \in PgChanges
      <3>1. /\ call.seen = record[i] /\ CanChange(call.seen, call.change, call.runner)
        BY <1>1, <2>4 DEF Held
      <3>2. /\ call.seen \in StatusRecords /\ call.change \in PublicationChange
            /\ call.runner \in Runners
        BY SMT, <2>4 DEF PgChanges
      <3>3. Owned(call.seen)
        BY <3>1 DEF TablesOK, RecordsOK
      <3>4. call.seen.status # NoRecord
        BY <3>1, <3>2, <3>3, ChangeEffect
      <3> QED
        BY <1>3, <2>2, <3>1, <3>4
    <2> QED
      BY <1>1, <2>1, <2>3, <2>4 DEF PgTransactions
  <1>4. CASE P!RowFree(i) /\ record[i] # Absent
    <2>1. call \in PgSubmits
      BY <1>1, <1>2, <1>4, PgShape DEF P!RowFree
    <2> QED
      BY <1>1, <1>4, <2>1 DEF Held
  <1> QED
    BY <1>3, <1>4

LEMMA PgSubmitStarts ==
    ASSUME TablesOK, PgCalls, NEW c \in Callers, NEW i \in Invocations, NEW runner \in Runners,
           P!SubmitStart(c, i, runner)
    PROVE  PgKept
  <1> DEFINE next == [step |-> "publish", kind |-> "submit", inv |-> i, runner |-> runner]
  <1>1. record[i] = Absent /\ P!SubmissionFree(i) /\ UNCHANGED P!storeVars
        /\ calls' = [calls EXCEPT ![c] = next]
    BY SamePg DEF P!SubmitStart, P!Goes
  <1>2. next \in PgSubmits /\ next.inv = i /\ next.step = "publish"
    BY SMT DEF PgSubmits
  <1>3. next \notin PgChanges /\ next \notin PgBegins
    BY SMT DEF PgChanges, PgBegins
  <1> HIDE DEF next
  <1>4. Held(next)
    BY <1>1, <1>2, <1>3 DEF Held
  <1>5. \A d \in Callers : calls[d] # P!NoCall => calls[d].inv # i
    BY <1>1, PgFree
  <1> QED
    BY <1>1, <1>2, <1>4, <1>5, PgCallMoves DEF PgTransactions

LEMMA PgChangeStarts ==
    ASSUME TablesOK, PgCalls, NEW c \in Callers, NEW i \in Invocations, NEW runner \in Runners,
           NEW change \in PublicationChange, P!ChangeStart(c, i, runner, change)
    PROVE  PgKept
  <1> DEFINE where == CASE change.via = "RunningRecovery" -> "beat"
                        [] change.via # "RunningRecovery" /\ P!Routed(change) -> "publish"
                        [] OTHER -> "write"
             next == [step |-> where, kind |-> "change", inv |-> i, runner |-> runner,
                      change |-> change, seen |-> record[i]]
  <1>1. /\ record[i] # Absent /\ P!RowFree(i) /\ UNCHANGED P!storeVars
        /\ calls' = [calls EXCEPT ![c] = next]
        /\ CanChange(record[i], change, runner) /\ Reported(i, change)
    BY SamePg DEF P!ChangeStart, P!Goes, Reported
  <1>2. /\ where \in {"beat", "publish", "write"}
        /\ where = "write" => ~Routed(change)
        /\ where # "beat" => change.via # "RunningRecovery"
    BY SMT, SamePg
  <1>3. record[i] \in StatusRecords
    BY DEF TablesOK, RecordsOK
  <1> HIDE DEF where
  <1>4. /\ next \in PgChanges /\ next.inv = i /\ next.step = where /\ next.change = change
        /\ next.seen = record[i] /\ next.runner = runner
    BY SMT, <1>2, <1>3 DEF PgChanges
  <1>5. next \notin PgSubmits /\ next \notin PgBegins
    BY SMT DEF PgSubmits, PgBegins
  <1> HIDE DEF next
  <1>6. Held(next)
    BY <1>1, <1>2, <1>4, <1>5 DEF Held, Settled, Reported
  <1>7. \A d \in Callers : calls[d] # P!NoCall => calls[d].inv # i
    BY <1>1, PgFree
  <1>8. next.step # "admitted"
    BY <1>2, <1>4
  <1> QED
    BY <1>1, <1>4, <1>6, <1>7, <1>8, PgCallMoves DEF PgTransactions

LEMMA PgBeginStarts ==
    ASSUME TablesOK, PgCalls, NEW c \in Callers, NEW i \in Invocations, NEW runner \in Runners,
           P!BeginStart(c, i, runner)
    PROVE  PgKept
  <1> DEFINE next == [step |-> "identity", kind |-> "begin", inv |-> i, prior |-> attempt[i]]
  <1>1. /\ record[i] = [status |-> "Running", owner |-> runner]
        /\ P!RowFree(i) /\ UNCHANGED P!storeVars /\ calls' = [calls EXCEPT ![c] = next]
    BY DEF P!BeginStart, P!Goes
  <1>2. record[i].status = "Running" /\ record[i] # Absent
    BY SMT, <1>1 DEF Absent, NoRecord
  <1>3. attempt[i] \in Int
    BY DEF TablesOK, CountersOK
  <1>4. next \in PgBegins /\ next.inv = i /\ next.prior = attempt[i] /\ next.step = "identity"
    BY SMT, <1>3 DEF PgBegins
  <1>5. next \notin PgSubmits /\ next \notin PgChanges
    BY SMT DEF PgSubmits, PgChanges
  <1> HIDE DEF next
  <1>6. Held(next)
    BY <1>2, <1>4, <1>5 DEF Held
  <1>7. \A d \in Callers : calls[d] # P!NoCall => calls[d].inv # i
    BY <1>1, <1>2, PgFree
  <1> QED
    BY <1>1, <1>4, <1>6, <1>7, PgCallMoves DEF PgTransactions

LEMMA PgReadsHeartbeat ==
    ASSUME TablesOK, PgCalls, NEW c \in Callers, P!ReadHeartbeat(c)
    PROVE  PgKept
  <1> DEFINE call == calls[c]
             next == [call EXCEPT !.step = "publish"]
             silent == call.seen.status = "Running" /\ P!Stale(call.inv, call.seen.owner)
  <1>1. CASE ~silent
    BY <1>1, PgCallEnds DEF P!ReadHeartbeat
  <1>2. CASE silent
    <2>1. calls' = [calls EXCEPT ![c] = next] /\ UNCHANGED P!storeVars
      BY <1>2 DEF P!ReadHeartbeat, P!Goes
    <2>2. call \in PgChanges /\ call # P!NoCall /\ call.step = "beat"
      BY PgShape DEF P!ReadHeartbeat, PgCalls, P!NoCall
    <2>3. Held(call)
      BY <2>2 DEF PgCalls
    <2>4. /\ next \in PgChanges /\ next.inv = call.inv /\ next.step = "publish"
          /\ next.seen = call.seen /\ next.change = call.change /\ next.runner = call.runner
      BY SMT, <2>2 DEF PgChanges
    <2>5. next \notin PgSubmits /\ next \notin PgBegins
      BY SMT, <2>2 DEF PgSubmits, PgChanges, PgBegins
    <2> HIDE DEF next
    <2>6. Held(next)
      BY <1>2, <2>2, <2>3, <2>4, <2>5 DEF Held, Settled, Reported, P!Stale
    <2>7. \A d \in Callers : d # c /\ calls[d] # P!NoCall => calls[d].inv # call.inv
      BY <2>2 DEF PgCalls, Apart
    <2> QED
      BY <2>1, <2>4, <2>6, <2>7, PgCallMoves DEF PgTransactions
  <1> QED
    BY <1>1, <1>2

LEMMA PgSubmitCommits ==
    ASSUME TablesOK, PgCalls, NEW c \in Callers, P!SubmitCommit(c)
    PROVE  PgKept
  <1> DEFINE call == calls[c]
             i == call.inv
  <1>1. call \in PgSubmits /\ call # P!NoCall
    BY PgShape DEF P!SubmitCommit, PgCalls, P!NoCall
  <1>2. Held(call) /\ i \in Invocations /\ call.runner \in Runners /\ call.step = "admitted"
    BY <1>1 DEF PgCalls, PgSubmits, P!SubmitCommit
  <1>3. record[i] = Absent /\ Cardinality(queued \ {i}) < MaxRows
    BY <1>1, <1>2 DEF Held
  <1>4. /\ Registers(i, call.runner) /\ P!Ends(c)
        /\ UNCHANGED <<limited, old, retries, attempt, heartbeat>>
    BY <1>3 DEF P!SubmitCommit, Registers
  <1>5. RecordsOK'
    BY <1>2, <1>4, RegisterKeepsRecords DEF TablesOK
  <1>6. QueueOK'
    <2>1. i \in queued \/ Cardinality(queued) < MaxRows
      <3>1. i \notin queued => queued \ {i} = queued
        OBVIOUS
      <3> QED
        BY <1>3, <3>1
    <2> QED
      BY <1>4, <2>1, QueueGrows DEF TablesOK, Registers
  <1>7. PgCalls'
    <2>1. \A j \in Invocations \ {i} : record'[j] = record[j]
      BY <1>4 DEF Registers, TablesOK, RecordsOK
    <2> QED
      BY <1>1, <1>2, <1>4, <2>1, PgOthersHold
  <1>8. StatusStep /\ \A j \in Invocations : ~Requeued(j)
    BY <1>2, <1>4, RegisterIsStep DEF TablesOK
  <1> QED
    BY <1>4, <1>5, <1>6, <1>7, <1>8 DEF PgKept, TablesOK, CountersOK, AttemptStep

LEMMA PgChangeCommits ==
    ASSUME TablesOK, PgCalls, NEW c \in Callers, P!ChangeCommit(c)
    PROVE  PgKept
  <1> DEFINE call == calls[c]
             i == call.inv
             new == Changed(call.seen, call.change, call.runner)
  <1>1. call \in PgChanges /\ call # P!NoCall /\ call.step \in {"admitted", "write"}
    BY PgShape DEF P!ChangeCommit, PgCalls, P!NoCall
  <1>2. /\ i \in Invocations /\ call.change \in PublicationChange /\ call.runner \in Runners
        /\ call.seen \in StatusRecords
    BY SMT, <1>1 DEF PgChanges
  <1>3. /\ call.seen = record[i] /\ CanChange(call.seen, call.change, call.runner) /\ Settled(call)
        /\ call.step = "admitted" => Cardinality(queued \ {i}) < MaxRows
    BY <1>1 DEF PgCalls, Held
  <1>4. /\ record' = [record EXCEPT ![i] = new]
        /\ old' = old \ {i}
        /\ retries' = IF new.status = "Retry" THEN [retries EXCEPT ![i] = @ + 1] ELSE retries
        /\ payload' = P!StorePayload(call)
        /\ queued' = P!Requeue(call)
        /\ P!Ends(c)
        /\ UNCHANGED <<limited, attempt, heartbeat>>
    BY SamePg DEF P!ChangeCommit
  <1>5. /\ Routed(call.change) => queued' = queued \union {i}
        /\ ~Routed(call.change) => queued' = queued \ {i} \/ queued' = queued
    <2>1. Routed(call.change) => call.change.status \notin Final \union {"Pending"}
      BY <1>2, ChangeKinds DEF Final, AvailableForRun
    <2> QED
      BY SMT, <1>4, <2>1, SamePg DEF P!Requeue
  <1>6. Publishes(i, call.change, call.runner)
    <2>1. payload' = IF call.change.kind # "complete" THEN payload
                     ELSE [payload EXCEPT ![i] = IF call.change.status = "Success" THEN "result" ELSE "error"]
      BY <1>4 DEF P!StorePayload
    <2> QED
      BY <1>3, <1>4, <1>5, <2>1 DEF Publishes, Settled
  <1>7. RecordsOK'
    BY <1>2, <1>6, PublishKeepsRecords DEF TablesOK
  <1>8. QueueOK'
    <2>1. CASE Routed(call.change)
      <3>1. call.step = "admitted"
        BY <1>1, <1>3, <2>1 DEF Settled
      <3>2. i \notin queued => queued \ {i} = queued
        OBVIOUS
      <3>3. i \in queued \/ Cardinality(queued) < MaxRows
        BY <1>3, <3>1, <3>2
      <3> QED
        BY <1>5, <2>1, <3>3, QueueGrows DEF TablesOK
    <2>2. CASE ~Routed(call.change) /\ queued' = queued \ {i}
      BY <2>2, QueueShrinks DEF TablesOK
    <2>3. CASE ~Routed(call.change) /\ queued' = queued
      BY <2>3 DEF TablesOK, QueueOK, QueueWithinRows
    <2> QED
      BY <1>5, <2>1, <2>2, <2>3
  <1>9. CountersOK'
    <2>1. retries' \in [Invocations -> Nat]
      BY SMT, <1>2, <1>4 DEF TablesOK, CountersOK
    <2> QED
      BY <1>4, <2>1 DEF TablesOK, CountersOK
  <1>10. PgCalls'
    <2>1. \A j \in Invocations \ {i} : record'[j] = record[j] /\ (j \in old => j \in old')
      BY <1>4 DEF TablesOK, RecordsOK
    <2>2. call.step = "admitted" \/ queued' \subseteq queued
      BY <1>1, <1>3, <1>5 DEF Settled
    <2> QED
      BY <1>1, <1>4, <2>1, <2>2, PgOthersHold
  <1>11. /\ StatusStep
         /\ \A j \in Invocations : Requeued(j) => j = i /\ call.change.via = "RunningRecovery"
    BY <1>2, <1>6, PublishIsStep DEF TablesOK
  <1>12. \A j \in Invocations : Requeued(j) => (heartbeat[record[j].owner] = "none" => j \in old)
    BY <1>1, <1>3, <1>11 DEF Settled
  <1> QED
    BY <1>4, <1>7, <1>8, <1>9, <1>10, <1>11, <1>12 DEF PgKept, TablesOK, AttemptStep

LEMMA PgBeginCommits ==
    ASSUME TablesOK, PgCalls, NEW c \in Callers, P!BeginCommit(c)
    PROVE  PgKept
  <1> DEFINE call == calls[c]
             next == P!NextAttempt(call.prior, retries[call.inv])
  <1>1. call \in PgBegins /\ call # P!NoCall
    BY PgShape DEF P!BeginCommit, PgCalls, P!NoCall
  <1>2. call.inv \in Invocations /\ call.prior \in Int
    BY SMT, <1>1 DEF PgBegins
  <1>3. /\ attempt[call.inv] = call.prior
        /\ attempt' = [attempt EXCEPT ![call.inv] = next]
        /\ P!Ends(c) /\ UNCHANGED <<record, old, queued, payload, limited, retries, heartbeat>>
    BY <1>1 DEF P!BeginCommit, PgCalls, Held
  <1>4. next \in Int /\ next > call.prior
    <2>1. retries[call.inv] \in Nat
      BY <1>2 DEF TablesOK, CountersOK
    <2> QED
      BY SMT, <1>2, <2>1 DEF P!NextAttempt
  <1> HIDE DEF next
  <1>5. AttemptStep /\ attempt' \in [Invocations -> Int]
    BY SMT, <1>2, <1>3, <1>4 DEF AttemptStep, TablesOK, CountersOK
  <1>6. TablesOK'
    BY <1>3, <1>5 DEF TablesOK, RecordsOK, QueueOK, CountersOK, AvailableIsQueued,
           PayloadMatchesStatus, QueueWithinRows
  <1>7. PgCalls'
    <2>1. \A j \in Invocations \ {call.inv} : attempt'[j] = attempt[j]
      BY <1>3 DEF TablesOK, CountersOK
    <2> QED
      BY <1>1, <1>3, <2>1, PgOthersHold
  <1> QED
    BY <1>3, <1>5, <1>6, <1>7 DEF PgKept, StatusStep, Requeued

\* The clock and the heartbeats only ever give a silent runner more reason to
\* be one, or a heartbeat.
LEMMA PgClock ==
    ASSUME TablesOK, PgCalls,
           \/ \E i \in Invocations :
                 P!StatusAges(i) \/ P!TryAcquireConcurrencySlot(i) \/ P!StoreError(i)
           \/ \E runner \in Runners : P!RegisterHeartbeat(runner) \/ P!HeartbeatExpires(runner)
    PROVE  PgKept
  <1>1. /\ UNCHANGED <<record, queued, payload, retries, attempt, calls>>
        /\ old \subseteq old' /\ limited \subseteq limited'
    BY DEF P!StatusAges, P!TryAcquireConcurrencySlot, P!StoreError, P!RegisterHeartbeat,
           P!HeartbeatExpires
  <1>2. /\ heartbeat' \in [Runners -> {"none", "fresh", "stale"}]
        /\ \A r \in Runners : heartbeat'[r] = "none" => heartbeat[r] = "none"
    BY DEF P!StatusAges, P!TryAcquireConcurrencySlot, P!StoreError, P!RegisterHeartbeat,
           P!HeartbeatExpires, TablesOK, CountersOK
  <1>3. TablesOK'
    BY <1>1, <1>2 DEF TablesOK, RecordsOK, QueueOK, CountersOK, AvailableIsQueued,
           PayloadMatchesStatus, QueueWithinRows
  <1>4. ASSUME NEW c \in Callers, calls[c] # P!NoCall PROVE Held(calls[c])'
    <2> DEFINE call == calls[c]
    <2>1. Held(call) /\ call.inv \in Invocations
      BY <1>4, PgShape DEF PgCalls
    <2>2. ASSUME call \in PgChanges PROVE Settled(calls[c])'
      <3>1. Settled(call) /\ Owned(call.seen)
        BY <2>1, <2>2 DEF Held, TablesOK, RecordsOK
      <3>2. call.seen.status = "Running" => call.seen.owner \in Runners
        BY <3>1 DEF Owned, RequiresOwnership
      <3> QED
        BY <1>1, <1>2, <3>1, <3>2 DEF Settled, Reported
    <2> QED
      BY <1>1, <2>1, <2>2 DEF Held
  <1>5. PgCalls'
    BY <1>1, <1>4 DEF PgCalls, Apart
  <1> QED
    BY <1>1, <1>3, <1>5 DEF PgKept, StatusStep, AttemptStep, Requeued

LEMMA PgStep ==
    ASSUME TablesOK, PgCalls, use \in Uses, P!Next
    PROVE  PgKept
  <1>0. use.invocations \subseteq Invocations /\ use.runners \subseteq Runners /\ use.callers \subseteq Callers
    BY ServerAssumption
  <1>1. ASSUME NEW i \in Invocations,
               P!TryAcquireConcurrencySlot(i) \/ P!StatusAges(i) \/ P!StoreError(i)
        PROVE  PgKept
    BY <1>1, PgClock
  <1>2. ASSUME NEW runner \in Runners, P!RegisterHeartbeat(runner) \/ P!HeartbeatExpires(runner)
        PROVE  PgKept
    BY <1>2, PgClock
  <1>3. ASSUME NEW c \in Callers, NEW i \in Invocations, NEW runner \in Runners,
               P!SubmitStart(c, i, runner) \/ P!BeginStart(c, i, runner)
        PROVE  PgKept
    BY <1>3, PgSubmitStarts, PgBeginStarts
  <1>4. ASSUME NEW c \in Callers, NEW i \in Invocations, NEW runner \in Runners,
               NEW change \in P!Offered, P!ChangeStart(c, i, runner, change)
        PROVE  PgKept
    <2>1. change \in PublicationChange
      BY SamePg DEF P!Offered
    <2> QED
      BY <1>4, <2>1, PgChangeStarts
  <1>5. ASSUME NEW c \in Callers, P!Admit(c) \/ P!ReadHeartbeat(c) PROVE PgKept
    BY <1>5, PgAdmits, PgReadsHeartbeat
  <1>6. ASSUME NEW c \in Callers, P!SubmitCommit(c) \/ P!ChangeCommit(c) \/ P!BeginCommit(c)
        PROVE  PgKept
    BY <1>6, PgSubmitCommits, PgChangeCommits, PgBeginCommits
  <1>7. ASSUME NEW c \in Callers, P!Abort(c) PROVE PgKept
    BY <1>7, PgCallEnds DEF P!Abort
  <1> QED
    BY <1>0, <1>1, <1>2, <1>3, <1>4, <1>5, <1>6, <1>7 DEF P!Next

-----------------------------------------------------------------------------
(* The theorems.                                                           *)

\* The invariant of the store that was chosen.
ServerInv ==
    /\ use \in Uses
    /\ TablesOK
    /\ Is("redis") => RedisCalls
    /\ Is("postgres") => PgCalls

\* Running work is requeued only for a reason.
SilenceStep ==
    \A i \in Invocations : Requeued(i) =>
        /\ Is("redis") => heartbeat[record[i].owner] # "fresh"
        /\ Is("postgres") => (heartbeat[record[i].owner] = "none" => i \in old)

LEMMA ServerInit == Init => ServerInv
  <1> SUFFICES ASSUME Init PROVE ServerInv
    OBVIOUS
  <1>1. /\ use \in Uses
        /\ record = [i \in Invocations |-> Absent] /\ queued = {}
        /\ payload = [i \in Invocations |-> "none"]
        /\ retries = [i \in Invocations |-> 0]
        /\ attempt = [i \in Invocations |-> -1]
        /\ heartbeat = [r \in Runners |-> "none"]
        /\ calls = [c \in Callers |-> [step |-> "none"]]
    BY SameRedis, SamePg DEF Init, R!Init, P!Init, R!NoCall, P!NoCall, R!NoAttempt, P!NoAttempt
  <1>2. Absent \in StatusRecords /\ Absent.status = NoRecord
    BY SMT DEF Absent, StatusRecords, Owners
  <1>3. RecordsOK
    BY <1>1, <1>2 DEF RecordsOK, Owned, RequiresOwnership, NoRecord, AvailableIsQueued,
           AvailableForRun, PayloadMatchesStatus
  <1>4. QueueOK
    <2>1. IsFiniteSet({}) /\ Cardinality({}) = 0
      BY FS_EmptySet
    <2> QED
      BY SMT, <1>1, <2>1, ServerAssumption DEF QueueOK, QueueWithinRows
  <1>5. CountersOK
    BY SMT, <1>1 DEF CountersOK
  <1>6. R!NoCall = [step |-> "none"] /\ P!NoCall = [step |-> "none"] /\ R!NoCall \notin RedisChanges
    BY SMT DEF R!NoCall, P!NoCall, RedisChanges
  <1>7. RedisCalls /\ PgCalls
    BY <1>1, <1>6 DEF RedisCalls, PgCalls, Apart
  <1> QED
    BY <1>1, <1>3, <1>4, <1>5, <1>7 DEF ServerInv, TablesOK

LEMMA ServerStep ==
    ASSUME ServerInv, [Next]_vars
    PROVE  ServerInv' /\ StatusStep /\ AttemptStep /\ SilenceStep
  <1>1. CASE UNCHANGED vars
    <2>1. /\ TablesOK' /\ StatusStep /\ AttemptStep /\ \A i \in Invocations : ~Requeued(i)
      BY <1>1, QuietTables DEF ServerInv, vars
    <2>2. Is("redis") => RedisCalls'
      BY <1>1 DEF ServerInv, vars, RedisCalls, Warranted, Reported
    <2>3. Is("postgres") => PgCalls'
      BY <1>1 DEF ServerInv, vars, PgCalls, Apart, Held, Settled, Reported
    <2> QED
      BY <1>1, <2>1, <2>2, <2>3 DEF ServerInv, SilenceStep, vars, Is
  <1>2. CASE Is("redis") /\ R!Next
    <2>1. RedisKept
      BY <1>2, RedisStep DEF ServerInv
    <2>2. use' = use /\ ~Is("postgres")
      BY <1>2 DEF R!Next, Is
    <2> QED
      BY <1>2, <2>1, <2>2 DEF ServerInv, RedisKept, SilenceStep, Is
  <1>3. CASE Is("postgres") /\ P!Next
    <2>1. PgKept
      BY <1>3, PgStep DEF ServerInv
    <2>2. use' = use /\ ~Is("redis")
      BY <1>3 DEF P!Next, Is
    <2> QED
      BY <1>3, <2>1, <2>2 DEF ServerInv, PgKept, SilenceStep, Is
  <1> QED
    BY <1>1, <1>2, <1>3 DEF Next

LEMMA ServerInvariance == Spec => []ServerInv
  <1>1. Init => ServerInv
    BY ServerInit
  <1>2. ServerInv /\ [Next]_vars => ServerInv'
    BY ServerStep
  <1> QED
    BY <1>1, <1>2, PTL DEF Spec

\* What a worker may run has an entry in the queue, at every moment between the
\* reads and the commits of the calls under way.
THEOREM ServerLosesNothing == Spec => []AvailableIsQueued
  <1>1. ServerInv => AvailableIsQueued
    BY DEF ServerInv, TablesOK, RecordsOK
  <1> QED
    BY <1>1, ServerInvariance, PTL

\* A result is stored exactly for Success, a worker's error only for Failed, and
\* for Failed an error, though completions race with recoveries, cancellations
\* and other completions, and the recovery limit stores its error unfenced.
THEOREM ServerPayloads == Spec => []PayloadMatchesStatus
  <1>1. ServerInv => PayloadMatchesStatus
    BY DEF ServerInv, TablesOK, RecordsOK
  <1> QED
    BY <1>1, ServerInvariance, PTL

\* max_queue_rows is a limit although several calls count the queue.
THEOREM ServerQueueLimit == Spec => []QueueWithinRows
  <1>1. ServerInv => QueueWithinRows
    BY DEF ServerInv, TablesOK, QueueOK
  <1> QED
    BY <1>1, ServerInvariance, PTL

\* begin_execution hands out growing identities, whoever else begins.
THEOREM ServerAttempts == Spec => AttemptsGrow
  <1>1. ServerInv /\ [Next]_vars => [AttemptStep]_vars
    BY ServerStep
  <1> QED
    BY <1>1, ServerInvariance, PTL DEF Spec, AttemptsGrow, AttemptStep

\* Running work is not requeued while its runner is known to be alive.
THEOREM ServerRequeues == Spec => RequeueNeedsSilence
  <1>1. ServerInv /\ [Next]_vars => [SilenceStep]_vars
    BY ServerStep
  <1> QED
    BY <1>1, ServerInvariance, PTL DEF Spec, RequeueNeedsSilence, SilenceStep, Requeued

\* The status records of both stores move as Lifecycle allows.
THEOREM ServerImplementsLifecycle == Spec => ImplementsLifecycle
  <1>1. Init => Life!Init
    <2>1. Life!Absent = Absent
      BY DEF Life!Absent, Absent, Life!NoRecord, NoRecord
    <2> QED
      BY <2>1, SameRedis, SamePg DEF Init, R!Init, P!Init, Life!Init
  <1>2. ServerInv /\ [Next]_vars => [record' = record \/ Life!Next]_record
    BY ServerStep DEF StatusStep
  <1> QED
    BY <1>1, <1>2, ServerInvariance, PTL DEF Spec, ImplementsLifecycle
=============================================================================
