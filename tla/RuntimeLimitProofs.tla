------------------------- MODULE RuntimeLimitProofs -------------------------
(***************************************************************************)
(* The limits of TransactionalRuntime, for every number of workers,        *)
(* recovery passes and invocations: how often an invocation is recovered,  *)
(* and that one which is given up has its error.                           *)
(***************************************************************************)
EXTENDS RuntimeProofs

\* First-order reasoning throughout; leaves beyond it ask for SMT.
USE Zenon

\* Statuses that only a pass that misread the history leads out of.
Settled == RecoveryStatuses \union {"Failed", "Cancelled"}

\* Nobody adds to the recoveries of an invocation in one of these.
Over == RecoveryStatuses \union Final

\* The passes that decided to requeue i and have not done so yet.
Rerouting(i) == {p \in Recoverers : pass[p] = "reroute" /\ target[p].inv = i}

\* The recoveries of i so far, those already decided, and the one that the
\* recovery limit itself may add.
Load(i) == recoveries[i] + Cardinality(Rerouting(i)) + IF Status(i) \in Over THEN 0 ELSE 1

Capacity == MaxRecoveries + Cardinality(Recoverers) + misreads

\* What an invocation says about the passes ...
LimitInv ==
    /\ \A i \in Invocations :
          Status(i) \in RecoveryStatuses => MaxRecoveries > 0 /\ recoveries[i] > MaxRecoveries
    /\ \A p \in Recoverers :
          pass[p] = "limit" =>
              /\ ~resuming[p]
              /\ MaxRecoveries > 0
              /\ recoveries[target[p].inv] >= MaxRecoveries
    /\ \A p \in Recoverers :
          resuming[p] => /\ pass[p] # Idle
                         /\ MaxRecoveries > 0
                         /\ recoveries[target[p].inv] > MaxRecoveries

LoadInv == MaxRecoveries > 0 => \A i \in Invocations : Load(i) <= Capacity

\* ... and the error of one that is given up.
ErrorInv ==
    /\ \A i \in Invocations : Status(i) = "Failed" => error[i] # NoRunner
    /\ \A p \in Recoverers : pass[p] = "fail" => error[target[p].inv] # NoRunner

\* Without a misread, what a pass gives up stays given up.
SettledInv ==
    misreads = 0 =>
      /\ \A i \in Invocations : error[i] # NoRunner => Status(i) \in Settled
      /\ \A p \in Recoverers :
            resuming[p] \/ pass[p] \in {"error", "fail"} => Status(target[p].inv) \in Settled
      /\ \A p \in Recoverers : resuming[p] => pass[p] # "reroute"

RecoveryInv == LimitInv /\ LoadInv /\ ErrorInv /\ SettledInv

LEMMA InitRecovery == Init => RecoveryInv
  <1> SUFFICES ASSUME Init PROVE RecoveryInv
    OBVIOUS
  <1>1. \A i \in Invocations : Status(i) = NoRecord /\ recoveries[i] = 0 /\ error[i] = NoRunner
    BY DEF Init, StoreInit, Status, Absent
  <1>2. \A p \in Recoverers : pass[p] = "idle" /\ resuming[p] = FALSE
    BY DEF Init, Idle
  <1>3. LimitInv /\ ErrorInv /\ SettledInv
    BY <1>1, <1>2 DEF LimitInv, ErrorInv, SettledInv, RecoveryStatuses, NoRecord
  <1>4. LoadInv
    <2> SUFFICES ASSUME MaxRecoveries > 0, NEW i \in Invocations
                 PROVE  Load(i) <= Capacity
      BY DEF LoadInv
    <2>1. Rerouting(i) = {}
      BY <1>2 DEF Rerouting
    <2>2. Cardinality(Rerouting(i)) = 0
      BY <2>1, FS_EmptySet
    <2>3. Cardinality(Recoverers) \in Nat /\ MaxRecoveries \in Nat /\ misreads = 0
      BY RuntimeAssumption, FS_CardinalityType DEF Init
    <2> QED
      BY SMT, <1>1, <2>2, <2>3 DEF Load, Capacity
  <1> QED
    BY <1>3, <1>4 DEF RecoveryInv

-----------------------------------------------------------------------------
(* Steps that are not a recovery pass's.                                   *)

\* The tables as far as recovery is concerned: no recovery is added, nothing
\* settled is reopened, and who fails leaves an error.
Calm ==
    /\ UNCHANGED recoveries
    /\ \A i \in Invocations :
          /\ Status(i)' \in RecoveryStatuses => Status(i)' = Status(i)
          /\ Status(i) \in Over => Status(i)' \in Over
          /\ Status(i) \in Settled => Status(i)' \in Settled
          /\ error'[i] = error[i] \/ (error'[i] # NoRunner /\ Status(i)' = "Failed")
          /\ Status(i)' = "Failed" => Status(i) = "Failed" \/ error'[i] # NoRunner

LEMMA CalmUnchanged == UNCHANGED <<record, recoveries, error>> => Calm
  BY DEF Calm, Status

LEMMA CalmWrite ==
    ASSUME StoreTypeOK, NEW i \in Invocations, NEW new, WriteRecord(i, new),
           UNCHANGED recoveries, new.status \notin RecoveryStatuses,
           Status(i) \notin Final, Status(i) \in RecoveryStatuses => new.status \in Settled,
           \/ error' = error /\ new.status # "Failed"
           \/ \E runner \in Runners : error' = [error EXCEPT ![i] = runner] /\ new.status = "Failed"
    PROVE  Calm
  <1>1. \A j \in Invocations : Status(j)' = IF j = i THEN new.status ELSE Status(j)
    BY DEF StoreTypeOK, WriteRecord, Status
  <1>2. \A j \in Invocations :
          \/ error'[j] = error[j]
          \/ error'[j] # NoRunner /\ j = i /\ new.status = "Failed"
    BY NoRunnerAssumption DEF StoreTypeOK
  <1>3. new.status = "Failed" => error'[i] # NoRunner
    BY NoRunnerAssumption DEF StoreTypeOK
  <1>4. Settled \subseteq Over /\ RecoveryStatuses \subseteq Settled
          /\ Over = RecoveryStatuses \union Final /\ Settled \subseteq RecoveryStatuses \union Final
    BY DEF Settled, Over, Final
  <1> QED
    BY <1>1, <1>2, <1>3, <1>4 DEF Calm

\* What may follow a recovery status, and what a final one.
LEMMA RecoverySource ==
    ASSUME NEW rec, NEW status, NEW runner, CanTransition(rec, status, runner)
    PROVE  /\ rec.status \notin Final
           /\ rec.status \in RecoveryStatuses => status \in {"Rerouted", "Failed", "Cancelled"}
           /\ status \in RecoveryStatuses => rec.status \in {"Pending", "Running"}
  BY DEF CanTransition, ValidTransition, AllowedTransition, Final, RecoveryStatuses, NoRecord

\* The transactions a worker or a client issues.
LEMMA CalmStatus ==
    ASSUME StoreTypeOK, NEW i \in Invocations, NEW runner,
           NEW status \in {"Pending", "Running", "Cancelled"}, ChangeStatus(i, status, runner)
    PROVE  Calm
  <1>1. /\ Status(i) \notin Final
        /\ Status(i) \in RecoveryStatuses => status \in {"Rerouted", "Failed", "Cancelled"}
    BY RecoverySource DEF ChangeStatus, Status
  <1>2. WriteRecord(i, Transitioned(record[i], status, runner)) /\ UNCHANGED <<recoveries, error>>
    BY DEF ChangeStatus, RecoveryStatuses
  <1> QED
    BY SMT, <1>1, <1>2, CalmWrite, TransitionedStatus DEF Settled, RecoveryStatuses

LEMMA CalmCommits ==
    ASSUME StoreTypeOK, NEW i \in Invocations, NEW runner \in Runners
    PROVE  /\ \A delayed \in BOOLEAN : ChangeRetry(i, runner, delayed) => Calm
           /\ ChangeConcurrencyReroute(i, runner) => Calm
           /\ \A status \in {"Success", "Failed"} : ChangeComplete(i, runner, status) => Calm
           /\ SetControlledFinal(i) => Calm
           /\ Submit(i, runner) => Calm
  <1>1. ASSUME NEW delayed \in BOOLEAN, ChangeRetry(i, runner, delayed) PROVE Calm
    <2>1. Status(i) \notin Final /\ Status(i) \notin RecoveryStatuses
      BY SMT, <1>1, RecoverySource DEF ChangeRetry, Status
    <2>2. WriteRecord(i, Transitioned(record[i], "Retry", runner)) /\ UNCHANGED <<recoveries, error>>
      BY <1>1 DEF ChangeRetry
    <2> QED
      BY SMT, <2>1, <2>2, CalmWrite, TransitionedStatus DEF RecoveryStatuses
  <1>2. ASSUME ChangeConcurrencyReroute(i, runner) PROVE Calm
    <2>1. Status(i) \notin Final /\ Status(i) \notin RecoveryStatuses
      BY SMT, <1>2, RecoverySource DEF ChangeConcurrencyReroute, Status
    <2>2. PICK rec : WriteRecord(i, Transitioned(rec, "Rerouted", runner))
                       /\ UNCHANGED <<recoveries, error>>
      BY <1>2 DEF ChangeConcurrencyReroute
    <2> QED
      BY SMT, <2>1, <2>2, CalmWrite, TransitionedStatus DEF RecoveryStatuses
  <1>3. ASSUME NEW status \in {"Success", "Failed"}, ChangeComplete(i, runner, status) PROVE Calm
    <2>1. Status(i) \notin Final /\ Status(i) \notin RecoveryStatuses
      BY SMT, <1>3 DEF ChangeComplete, OwnsRunning, Status, Final, RecoveryStatuses
    <2>2. WriteRecord(i, Transitioned(record[i], status, runner)) /\ UNCHANGED recoveries
      BY <1>3 DEF ChangeComplete
    <2>3. \/ error' = error /\ status # "Failed"
          \/ error' = [error EXCEPT ![i] = runner] /\ status = "Failed"
      BY <1>3 DEF ChangeComplete
    <2> QED
      BY <2>1, <2>2, <2>3, CalmWrite, TransitionedStatus DEF RecoveryStatuses
  <1>4. ASSUME SetControlledFinal(i) PROVE Calm
    <2>1. Status(i) \notin Final /\ Status(i) \notin RecoveryStatuses
      BY SMT, <1>4, RecoverySource DEF SetControlledFinal, Status
    <2>2. /\ WriteRecord(i, Transitioned(record[i], "ConcurrencyControlledFinal", NoRunner))
          /\ UNCHANGED <<recoveries, error>>
      BY <1>4 DEF SetControlledFinal
    <2> QED
      BY SMT, <2>1, <2>2, CalmWrite, TransitionedStatus DEF RecoveryStatuses
  <1>5. ASSUME Submit(i, runner) PROVE Calm
    <2>1. Status(i) \notin Final /\ Status(i) \notin RecoveryStatuses
      BY <1>5 DEF Submit, Final, RecoveryStatuses, NoRecord
    <2>2. /\ WriteRecord(i, [status |-> "Registered", owner |-> runner])
          /\ UNCHANGED <<recoveries, error>>
      BY <1>5 DEF Submit
    <2> QED
      BY <2>1, <2>2, CalmWrite DEF RecoveryStatuses
  <1> QED
    BY <1>1, <1>2, <1>3, <1>4, <1>5

LEMMA ClaimCalm ==
    ASSUME TypeOK, StoreTypeOK, NEW w \in Workers, Claim(w)
    PROVE  Calm
  <1>1. CASE NothingBlocking(w) \/ Admit(w) \/ QueuesEmpty(w)
    BY <1>1, CalmUnchanged
       DEF NothingBlocking, Admit, AcquireSlot, QueuesEmpty, PollEmpty, storeVars
  <1>2. CASE \E i \in Invocations : ClaimBlocking(w, i) \/ ClaimQueued(w, i)
    BY <1>2, CalmUnchanged DEF ClaimBlocking, ClaimQueued, Reserve, storeVars
  <1>3. CASE Reject(w)
    <2>1. job[w] \in Invocations /\ w \in Runners
      BY <1>3, Holding, Participants DEF Reject, Free
    <2> QED
      BY <1>3, <2>1, CalmUnchanged, CalmCommits DEF Reject, storeVars
  <1> QED
    BY <1>1, <1>2, <1>3 DEF Claim

LEMMA ExecuteCalm ==
    ASSUME TypeOK, StoreTypeOK, NEW w \in Workers, Execute(w)
    PROVE  Calm
  <1>1. job[w] \in Invocations
    BY Holding DEF Execute, ClaimPending, StartRunning, Begin, Succeed, FailAndRetry,
                   FailForGood, NoticeCancel, Wait, WaitOver, Free
  <1>2. w \in Runners
    BY Participants
  <1>3. CASE ClaimPending(w) \/ StartRunning(w)
    BY <1>1, <1>3, CalmUnchanged, CalmStatus DEF ClaimPending, StartRunning, storeVars
  <1>4. CASE Begin(w)
    BY <1>4, CalmUnchanged DEF Begin, BeginExecution, storeVars
  <1>5. CASE Succeed(w) \/ FailForGood(w) \/ FailAndRetry(w)
    BY <1>1, <1>2, <1>5, CalmUnchanged, CalmCommits
       DEF Succeed, FailForGood, FailAndRetry, Discard, storeVars
  <1>6. CASE NoticeCancel(w) \/ WaitOver(w) \/ \E child \in Invocations : Wait(w, child)
    BY <1>6, CalmUnchanged DEF NoticeCancel, WaitOver, Wait, SetWaitingFor, storeVars
  <1> QED
    BY <1>3, <1>4, <1>5, <1>6 DEF Execute

LEMMA OthersCalm ==
    ASSUME TypeOK, StoreTypeOK
    PROVE  /\ \A w \in Workers : Live(w) => Calm
           /\ \A i \in Invocations : Environment(i) => Calm
  <1>1. ASSUME NEW w \in Workers, Live(w) PROVE Calm
    BY <1>1, CalmUnchanged DEF Live, StartWorker, Retire, Heartbeat, WorkerFallsSilent,
                               RegisterHeartbeat, HeartbeatExpires, storeVars
  <1>2. ASSUME NEW i \in Invocations, Environment(i) PROVE Calm
    <2>1. CASE ClientSubmit(i)
      BY <2>1, CalmCommits, Participants DEF ClientSubmit
    <2>2. CASE ClientCancel(i)
      BY <2>2, CalmStatus DEF ClientCancel
    <2>3. CASE StatusExpires(i) \/ LeaseExpires(i)
      BY <2>3, CalmUnchanged DEF StatusExpires, StatusAges, LeaseExpires, ReservationExpires
    <2> QED
      BY <1>2, <2>1, <2>2, <2>3 DEF Environment
  <1> QED
    BY <1>1, <1>2

-----------------------------------------------------------------------------
(* Counting.                                                               *)

LEMMA Counts ==
    ASSUME TypeOK, NEW S, S \subseteq Recoverers
    PROVE  /\ IsFiniteSet(S) /\ Cardinality(S) \in Nat
           /\ Cardinality(S) <= Cardinality(Recoverers)
           /\ Cardinality(Recoverers) \in Nat /\ MaxRecoveries \in Nat /\ misreads \in Nat
  BY SMT, RuntimeAssumption, FS_Subset, FS_CardinalityType DEF TypeOK

\* The load of i does not grow when no pass turns to it.
LEMMA LoadKept ==
    ASSUME TypeOK, TypeOK', StoreTypeOK, NEW i \in Invocations, Load(i) <= Capacity,
           Rerouting(i)' \subseteq Rerouting(i), recoveries'[i] = recoveries[i],
           Status(i) \in Over => Status(i)' \in Over, misreads' >= misreads
    PROVE  Load(i)' <= Capacity'
  <1>1. /\ Cardinality(Rerouting(i)') \in Nat /\ Cardinality(Rerouting(i)) \in Nat
        /\ Cardinality(Rerouting(i)') <= Cardinality(Rerouting(i))
        /\ Cardinality(Recoverers) \in Nat /\ MaxRecoveries \in Nat /\ misreads \in Nat
    <2>1. Rerouting(i) \subseteq Recoverers
      BY DEF Rerouting
    <2>2. IsFiniteSet(Rerouting(i)) /\ Cardinality(Rerouting(i)) \in Nat
      BY <2>1, Counts
    <2>3. IsFiniteSet(Rerouting(i)') /\ Cardinality(Rerouting(i)') <= Cardinality(Rerouting(i))
      BY <2>2, FS_Subset
    <2>4. Cardinality(Rerouting(i)') \in Nat
      BY <2>3, FS_CardinalityType
    <2> QED
      BY <2>1, <2>2, <2>3, <2>4, Counts
  <1>2. recoveries[i] \in Nat /\ misreads' \in Nat
    BY SMT DEF StoreTypeOK, TypeOK
  <1>3. Load(i)' = recoveries'[i] + Cardinality(Rerouting(i)')
                     + IF Status(i)' \in Over THEN 0 ELSE 1
    BY DEF Load
  <1>4. Capacity' = MaxRecoveries + Cardinality(Recoverers) + misreads'
    BY DEF Capacity
  <1> HIDE DEF Rerouting
  <1> QED
    BY SMT, <1>1, <1>2, <1>3, <1>4 DEF Load, Capacity

\* A pass has a candidate from its listing on.
LEMMA Candidate ==
    ASSUME TypeOK, NEW p \in Recoverers, pass[p] # Idle
    PROVE  target[p].inv \in Invocations /\ target[p].status \in RecoveryStatuses
  BY DEF TypeOK, Targets

LEMMA CalmStep ==
    ASSUME TypeOK, TypeOK', StoreTypeOK, RecoveryInv, Calm, UNCHANGED passVars,
           misreads' >= misreads
    PROVE  RecoveryInv'
  <1>0. \A p \in Recoverers : pass[p] # Idle => target[p].inv \in Invocations
    BY Candidate
  <1>1. pass' = pass /\ target' = target /\ resuming' = resuming /\ recoveries' = recoveries
    BY DEF passVars, Calm
  <1>2. LimitInv'
    BY <1>1 DEF RecoveryInv, LimitInv, Calm
  <1>3. LoadInv'
    <2> SUFFICES ASSUME MaxRecoveries > 0, NEW i \in Invocations
                 PROVE  Load(i)' <= Capacity'
      BY DEF LoadInv
    <2>1. Rerouting(i)' = Rerouting(i)
      BY <1>1 DEF Rerouting
    <2> QED
      BY <1>1, <2>1, LoadKept DEF RecoveryInv, LoadInv, Calm
  <1>4. ErrorInv'
    BY <1>0, <1>1 DEF RecoveryInv, ErrorInv, Calm, Idle
  <1>5. SettledInv'
    <2> SUFFICES ASSUME misreads' = 0 PROVE SettledInv'
      BY DEF SettledInv
    <2>1. misreads = 0
      BY SMT DEF TypeOK
    <2>2. "Failed" \in Settled
      BY DEF Settled
    <2>3. \A i \in Invocations : error'[i] # NoRunner => Status(i)' \in Settled
      BY <2>1, <2>2 DEF RecoveryInv, SettledInv, Calm
    <2>4. \A p \in Recoverers :
            resuming'[p] \/ pass'[p] \in {"error", "fail"}
              => pass[p] # Idle /\ Status(target[p].inv) \in Settled
      BY <1>1, <2>1 DEF RecoveryInv, SettledInv, LimitInv, Idle
    <2>5. \A p \in Recoverers :
            resuming'[p] \/ pass'[p] \in {"error", "fail"} => Status(target[p].inv)' \in Settled
      BY <1>0, <1>1, <2>4 DEF Calm, Status
    <2>6. \A p \in Recoverers : resuming'[p] => pass'[p] # "reroute"
      BY <1>1, <2>1 DEF RecoveryInv, SettledInv
    <2> QED
      BY <2>3, <2>5, <2>6 DEF SettledInv
  <1> QED
    BY <1>2, <1>3, <1>4, <1>5 DEF RecoveryInv

-----------------------------------------------------------------------------
(* The steps of a recovery pass.                                           *)

\* A pass moves alone: it ends, or goes on with its candidate.
LEMMA PassMoves ==
    ASSUME TypeOK, NEW p \in Recoverers
    PROVE  /\ EndPass(p) => /\ pass'[p] = Idle /\ resuming'[p] = FALSE
                            /\ \A q \in Recoverers \ {p} :
                                 pass'[q] = pass[q] /\ target'[q] = target[q]
                                   /\ resuming'[q] = resuming[q]
           /\ \A where : PassGoto(p, where) =>
                            /\ pass'[p] = where /\ target' = target /\ resuming' = resuming
                            /\ \A q \in Recoverers \ {p} : pass'[q] = pass[q]
  BY DEF TypeOK, EndPass, PassGoto

LEMMA ReroutingMoves ==
    ASSUME TypeOK, NEW p \in Recoverers, NEW i \in Invocations
    PROVE  /\ EndPass(p) => Rerouting(i)' = Rerouting(i) \ {p}
           /\ \A where : PassGoto(p, where) /\ where # "reroute"
                => Rerouting(i)' = Rerouting(i) \ {p}
           /\ PassGoto(p, "reroute") =>
                Rerouting(i)' = IF target[p].inv = i THEN Rerouting(i) \union {p}
                                ELSE Rerouting(i) \ {p}
  <1>1. ASSUME EndPass(p) PROVE Rerouting(i)' = Rerouting(i) \ {p}
    BY <1>1, PassMoves DEF Rerouting, Idle
  <1>2. ASSUME NEW where, PassGoto(p, where), where # "reroute"
        PROVE  Rerouting(i)' = Rerouting(i) \ {p}
    BY <1>2, PassMoves DEF Rerouting
  <1>3. ASSUME PassGoto(p, "reroute")
        PROVE  Rerouting(i)' = IF target[p].inv = i THEN Rerouting(i) \union {p}
                               ELSE Rerouting(i) \ {p}
    <2>1. /\ pass'[p] = "reroute" /\ target' = target
          /\ \A q \in Recoverers \ {p} : pass'[q] = pass[q]
      BY <1>3, PassMoves
    <2> QED
      BY <2>1 DEF Rerouting
  <1> QED
    BY <1>1, <1>2, <1>3

\* A pass that ends, or goes on to anything but a requeue, with the tables calm.
LEMMA LoadOfOthers ==
    ASSUME TypeOK, TypeOK', StoreTypeOK, LoadInv, NEW p \in Recoverers,
           MaxRecoveries > 0, NEW i \in Invocations,
           EndPass(p) \/ \E where : PassGoto(p, where) /\ where # "reroute",
           recoveries'[i] = recoveries[i], Status(i) \in Over => Status(i)' \in Over,
           misreads' = misreads
    PROVE  Load(i)' <= Capacity'
  <1>1. Rerouting(i)' \subseteq Rerouting(i)
    BY SMT, ReroutingMoves
  <1>2. misreads' >= misreads
    BY SMT DEF TypeOK
  <1>3. Load(i) <= Capacity
    BY DEF LoadInv
  <1> QED
    BY <1>1, <1>2, <1>3, LoadKept

LEMMA EndKeeps ==
    ASSUME TypeOK, TypeOK', StoreTypeOK, RecoveryInv, NEW p \in Recoverers, EndPass(p),
           UNCHANGED storeVars, UNCHANGED misreads
    PROVE  RecoveryInv'
  <1>1. record' = record /\ recoveries' = recoveries /\ error' = error /\ misreads' = misreads
    BY DEF storeVars
  <1>2. /\ pass'[p] = "idle" /\ resuming'[p] = FALSE
        /\ \A q \in Recoverers \ {p} :
             pass'[q] = pass[q] /\ target'[q] = target[q] /\ resuming'[q] = resuming[q]
    BY PassMoves DEF Idle
  <1>3. LimitInv'
    BY <1>1, <1>2 DEF RecoveryInv, LimitInv, Status, Idle
  <1>4. LoadInv'
    BY <1>1, LoadOfOthers DEF RecoveryInv, LoadInv, Status
  <1>5. ErrorInv'
    BY <1>1, <1>2 DEF RecoveryInv, ErrorInv, Status
  <1>6. SettledInv'
    BY <1>1, <1>2 DEF RecoveryInv, SettledInv, Status
  <1> QED
    BY <1>3, <1>4, <1>5, <1>6 DEF RecoveryInv

LEMMA ListKeeps ==
    ASSUME TypeOK, TypeOK', StoreTypeOK, RecoveryInv, NEW p \in Recoverers, UNCHANGED misreads,
           NEW i \in Invocations, NEW status \in RecoveryStatuses, ListCandidate(p, i, status)
    PROVE  RecoveryInv'
  <1>1. record' = record /\ recoveries' = recoveries /\ error' = error /\ misreads' = misreads
    BY DEF storeVars, ListCandidate
  <1>2. /\ pass[p] = "idle" /\ pass'[p] = "listed" /\ resuming' = resuming
        /\ \A q \in Recoverers \ {p} : pass'[q] = pass[q] /\ target'[q] = target[q]
    BY DEF ListCandidate, TypeOK, Idle
  <1>3. ~resuming[p]
    BY <1>2 DEF RecoveryInv, LimitInv, Idle
  <1>4. LimitInv'
    BY <1>1, <1>2, <1>3 DEF RecoveryInv, LimitInv, Status, Idle
  <1>5. LoadInv'
    <2> SUFFICES ASSUME MaxRecoveries > 0, NEW j \in Invocations
                 PROVE  Load(j)' <= Capacity'
      BY DEF LoadInv
    <2>1. Rerouting(j)' \subseteq Rerouting(j)
      BY <1>2 DEF Rerouting
    <2>2. misreads' >= misreads
      BY SMT, <1>1 DEF TypeOK
    <2> QED
      BY <1>1, <2>1, <2>2, LoadKept DEF RecoveryInv, LoadInv, Status
  <1>6. ErrorInv'
    BY <1>1, <1>2 DEF RecoveryInv, ErrorInv, Status
  <1>7. SettledInv'
    BY <1>1, <1>2, <1>3 DEF RecoveryInv, SettledInv, Status
  <1> QED
    BY <1>4, <1>5, <1>6, <1>7 DEF RecoveryInv

LEMMA ReadStatusKeeps ==
    ASSUME TypeOK, TypeOK', StoreTypeOK, RecoveryInv, NEW p \in Recoverers, UNCHANGED misreads,
           ReadStatus(p)
    PROVE  RecoveryInv'
  <1>1. record' = record /\ recoveries' = recoveries /\ error' = error /\ misreads' = misreads
    BY DEF storeVars, ReadStatus
  <1>2. /\ pass[p] = "listed" /\ pass'[p] = "read" /\ target' = target
        /\ \A q \in Recoverers \ {p} : pass'[q] = pass[q] /\ resuming'[q] = resuming[q]
    BY DEF ReadStatus, TypeOK
  <1>3. resuming'[p] => Status(target[p].inv) \in RecoveryStatuses
    BY DEF ReadStatus, TypeOK
  <1>4. target[p].inv \in Invocations
    BY <1>2, Candidate DEF Idle
  <1>5. LimitInv'
    BY <1>1, <1>2, <1>3, <1>4 DEF RecoveryInv, LimitInv, Status, Idle
  <1>6. LoadInv'
    <2> SUFFICES ASSUME MaxRecoveries > 0, NEW j \in Invocations
                 PROVE  Load(j)' <= Capacity'
      BY DEF LoadInv
    <2>1. Rerouting(j)' \subseteq Rerouting(j)
      BY <1>2 DEF Rerouting
    <2>2. misreads' >= misreads
      BY SMT, <1>1 DEF TypeOK
    <2> QED
      BY <1>1, <2>1, <2>2, LoadKept DEF RecoveryInv, LoadInv, Status
  <1>7. ErrorInv'
    BY <1>1, <1>2 DEF RecoveryInv, ErrorInv, Status
  <1>8. SettledInv'
    BY <1>1, <1>2, <1>3 DEF RecoveryInv, SettledInv, Status, Settled
  <1> QED
    BY <1>5, <1>6, <1>7, <1>8 DEF RecoveryInv

\* What a pass decides from the history it read.
LEMMA Decision ==
    ASSUME TypeOK, StoreTypeOK, LimitInv, NEW p \in Recoverers, ReadHistory(p)
    PROVE  /\ UNCHANGED storeVars /\ pass[p] = "read"
           /\ misreads' = misreads \/ misreads' = misreads + 1
           /\ \E where \in {"reroute", "limit", "error"} :
                /\ PassGoto(p, where)
                /\ where = "limit" => /\ ~resuming[p] /\ MaxRecoveries > 0
                                      /\ recoveries[target[p].inv] >= MaxRecoveries
                /\ where = "error" => resuming[p]
                /\ where = "reroute" /\ misreads' = misreads /\ MaxRecoveries > 0 =>
                      ~resuming[p] /\ recoveries[target[p].inv] + 1 <= MaxRecoveries
  <1> DEFINE count == recoveries[target[p].inv]
  <1>1. PICK previous \in {count, 0} :
          /\ IF previous = count THEN UNCHANGED misreads ELSE Misread
          /\ PassGoto(p, IF ~OverLimit(p, previous) THEN "reroute"
                         ELSE IF resuming[p] THEN "error" ELSE "limit")
    BY DEF ReadHistory
  <1>2. UNCHANGED storeVars /\ pass[p] = "read"
    BY DEF ReadHistory
  <1>3. count \in Nat /\ MaxRecoveries \in Nat /\ misreads \in Nat
    BY SMT, <1>2, Candidate, RuntimeAssumption DEF StoreTypeOK, TypeOK, Idle
  <1>4. resuming[p] => MaxRecoveries > 0 /\ count > MaxRecoveries
    BY DEF LimitInv
  <1>5. misreads' = misreads \/ misreads' = misreads + 1
    BY <1>1 DEF Misread
  <1>6. misreads' = misreads => previous = count
    BY SMT, <1>1, <1>3 DEF Misread
  <1>7. previous \in Nat /\ previous <= count
    BY SMT, <1>3
  <1> HIDE DEF count
  <1>8. CASE ~OverLimit(p, previous)
    BY SMT, <1>1, <1>2, <1>3, <1>4, <1>5, <1>6, <1>7, <1>8 DEF OverLimit, count
  <1>9. CASE OverLimit(p, previous) /\ resuming[p]
    BY <1>1, <1>2, <1>5, <1>9
  <1>10. CASE OverLimit(p, previous) /\ ~resuming[p]
    <2>1. MaxRecoveries > 0 /\ count >= MaxRecoveries
      BY SMT, <1>3, <1>7, <1>10 DEF OverLimit
    <2> QED
      BY <1>1, <1>2, <1>5, <1>10, <2>1 DEF count
  <1> QED
    BY <1>8, <1>9, <1>10

LEMMA ReadHistoryKeeps ==
    ASSUME TypeOK, TypeOK', StoreTypeOK, RecoveryInv, NEW p \in Recoverers, ReadHistory(p)
    PROVE  RecoveryInv'
  <1> DEFINE i == target[p].inv
  <1>0. LimitInv /\ LoadInv /\ ErrorInv /\ SettledInv
    BY DEF RecoveryInv
  <1>1. PICK where \in {"reroute", "limit", "error"} :
          /\ PassGoto(p, where)
          /\ where = "limit" => /\ ~resuming[p] /\ MaxRecoveries > 0
                                /\ recoveries[i] >= MaxRecoveries
          /\ where = "error" => resuming[p]
          /\ where = "reroute" /\ misreads' = misreads /\ MaxRecoveries > 0 =>
                ~resuming[p] /\ recoveries[i] + 1 <= MaxRecoveries
    BY <1>0, Decision
  <1>2. /\ record' = record /\ recoveries' = recoveries /\ error' = error /\ pass[p] = "read"
        /\ misreads' = misreads \/ misreads' = misreads + 1
    BY <1>0, Decision DEF storeVars
  <1>3. /\ pass'[p] = where /\ target' = target /\ resuming' = resuming
        /\ \A q \in Recoverers \ {p} : pass'[q] = pass[q]
    BY <1>1, PassMoves
  <1>4. misreads \in Nat /\ misreads' >= misreads /\ (misreads' = 0 => misreads = 0)
    BY SMT, <1>2 DEF TypeOK
  <1>5. i \in Invocations
    BY <1>2, Candidate DEF Idle
  <1>6. LimitInv'
    BY <1>0, <1>1, <1>2, <1>3 DEF LimitInv, Status, Idle
  <1>7. ErrorInv'
    BY <1>0, <1>2, <1>3 DEF ErrorInv, Status
  <1>8. SettledInv'
    <2> SUFFICES ASSUME misreads' = 0 PROVE SettledInv'
      BY DEF SettledInv
    <2>1. misreads' = misreads
      BY <1>2, <1>4
    <2>2. resuming[p] => where # "reroute"
      BY <1>0, <1>1, <2>1 DEF LimitInv
    <2> QED
      BY <1>0, <1>1, <1>2, <1>3, <1>4, <2>2 DEF SettledInv, Status
  <1>9. LoadInv'
    <2> SUFFICES ASSUME MaxRecoveries > 0, NEW j \in Invocations
                 PROVE  Load(j)' <= Capacity'
      BY DEF LoadInv
    <2>1. Load(j) <= Capacity
      BY <1>0 DEF LoadInv
    <2>2. CASE where # "reroute" \/ j # i
      <3>1. Rerouting(j)' \subseteq Rerouting(j)
        BY <1>1, <2>2, ReroutingMoves
      <3> QED
        BY <1>2, <1>4, <2>1, <3>1, LoadKept DEF Status
    <2>3. CASE where = "reroute" /\ j = i
      <3>1. Rerouting(j)' = Rerouting(j) \union {p} /\ p \notin Rerouting(j)
        <4>1. Rerouting(j)' = Rerouting(j) \union {p}
          BY <1>1, <1>5, <2>3, ReroutingMoves
        <4> QED
          BY <1>2, <4>1 DEF Rerouting
      <3>2. Rerouting(j) \subseteq Recoverers /\ Rerouting(j)' \subseteq Recoverers
        BY <3>1 DEF Rerouting
      <3>3. /\ IsFiniteSet(Rerouting(j)) /\ Cardinality(Rerouting(j)) \in Nat
            /\ Cardinality(Rerouting(j)') \in Nat
            /\ Cardinality(Rerouting(j)') <= Cardinality(Recoverers)
            /\ Cardinality(Recoverers) \in Nat /\ MaxRecoveries \in Nat
        BY <3>2, Counts
      <3>4. Cardinality(Rerouting(j)') = Cardinality(Rerouting(j)) + 1
        BY <3>1, <3>3, FS_AddElement
      <3>5. Load(j)' = recoveries[j] + Cardinality(Rerouting(j)')
                         + IF Status(j) \in Over THEN 0 ELSE 1
        BY <1>2 DEF Load, Status
      <3>6. Capacity' = MaxRecoveries + Cardinality(Recoverers) + misreads'
        BY DEF Capacity
      <3>7. recoveries[j] \in Nat
        BY DEF StoreTypeOK
      <3>8. CASE misreads' = misreads
        <4>1. recoveries[j] + 1 <= MaxRecoveries
          BY <1>1, <2>3, <3>8
        <4> HIDE DEF Rerouting
        <4> QED
          BY SMT, <1>4, <2>3, <3>3, <3>5, <3>6, <3>7, <3>8, <4>1
      <3>9. CASE misreads' = misreads + 1
        <4>1. Load(j) = recoveries[j] + Cardinality(Rerouting(j))
                          + IF Status(j) \in Over THEN 0 ELSE 1
          BY DEF Load
        <4>2. Capacity = MaxRecoveries + Cardinality(Recoverers) + misreads
          BY DEF Capacity
        <4> HIDE DEF Rerouting
        <4> QED
          BY SMT, <1>4, <2>1, <2>3, <3>3, <3>4, <3>5, <3>6, <3>7, <3>9, <4>1, <4>2
      <3> QED
        BY <1>2, <3>8, <3>9
    <2> QED
      BY <2>2, <2>3
  <1> QED
    BY <1>6, <1>7, <1>8, <1>9 DEF RecoveryInv

\* What a commit about one invocation leaves alone.
LEMMA OneRecord ==
    ASSUME StoreTypeOK, NEW i \in Invocations, NEW new, WriteRecord(i, new)
    PROVE  /\ Status(i)' = new.status
           /\ \A j \in Invocations \ {i} : Status(j)' = Status(j)
  BY DEF StoreTypeOK, WriteRecord, Status

LEMMA OneCount ==
    ASSUME StoreTypeOK, NEW i \in Invocations,
           \/ recoveries' = recoveries
           \/ recoveries' = [recoveries EXCEPT ![i] = @ + 1]
    PROVE  /\ \A j \in Invocations : /\ recoveries[j] \in Nat /\ recoveries'[j] \in Nat
                                     /\ recoveries'[j] >= recoveries[j]
           /\ \A j \in Invocations \ {i} : recoveries'[j] = recoveries[j]
           /\ \/ recoveries'[i] = recoveries[i]
              \/ recoveries'[i] = recoveries[i] + 1
  BY SMT DEF StoreTypeOK

\* A pass that requeues no longer counts as one that will.
LEMMA RequeueLoad ==
    ASSUME TypeOK, TypeOK', StoreTypeOK, LoadInv, NEW p \in Recoverers, UNCHANGED misreads,
           NEW i \in Invocations, pass[p] = "reroute", target[p].inv = i, EndPass(p),
           MaxRecoveries > 0, Status(i)' \notin Over,
           \/ recoveries'[i] = recoveries[i]
           \/ recoveries'[i] = recoveries[i] + 1 /\ Status(i) \notin Over
    PROVE  Load(i)' <= Capacity'
  <1>1. Rerouting(i)' = Rerouting(i) \ {p} /\ p \in Rerouting(i)
    <2>1. Rerouting(i)' = Rerouting(i) \ {p}
      BY ReroutingMoves
    <2> QED
      BY <2>1 DEF Rerouting
  <1>2. Rerouting(i) \subseteq Recoverers
    BY DEF Rerouting
  <1>3. /\ IsFiniteSet(Rerouting(i)) /\ Cardinality(Rerouting(i)) \in Nat
        /\ Cardinality(Recoverers) \in Nat /\ MaxRecoveries \in Nat /\ misreads \in Nat
    BY <1>2, Counts
  <1>4. Cardinality(Rerouting(i)') = Cardinality(Rerouting(i)) - 1
    <2>1. Cardinality(Rerouting(i) \ {p}) =
            IF p \in Rerouting(i) THEN Cardinality(Rerouting(i)) - 1 ELSE Cardinality(Rerouting(i))
      BY <1>3, FS_RemoveElement
    <2> QED
      BY <1>1, <2>1
  <1>5. Load(i)' = recoveries'[i] + Cardinality(Rerouting(i)') + 1
    BY DEF Load
  <1>6. Capacity' = Capacity /\ Load(i) <= Capacity /\ recoveries[i] \in Nat
    BY DEF Capacity, LoadInv, StoreTypeOK
  <1>7. Load(i) = recoveries[i] + Cardinality(Rerouting(i)) + IF Status(i) \in Over THEN 0 ELSE 1
    BY DEF Load
  <1>8. Capacity = MaxRecoveries + Cardinality(Recoverers) + misreads
    BY DEF Capacity
  <1> HIDE DEF Rerouting
  <1> QED
    BY SMT, <1>3, <1>4, <1>5, <1>6, <1>7, <1>8

LEMMA RequeueCommit ==
    ASSUME TypeOK, TypeOK', StoreTypeOK, RecoveryInv, NEW p \in Recoverers, UNCHANGED misreads,
           NEW i \in Invocations, pass[p] = "reroute", target[p].inv = i, EndPass(p),
           NEW new, WriteRecord(i, new), new.status = "Rerouted", error' = error,
           \/ recoveries' = recoveries /\ misreads # 0
           \/ /\ recoveries' = [recoveries EXCEPT ![i] = @ + 1]
              /\ Status(i) \in {"Pending", "Running"}
    PROVE  RecoveryInv'
  <1>0. LimitInv /\ LoadInv /\ ErrorInv /\ SettledInv
    BY DEF RecoveryInv
  <1>1. Status(i)' = "Rerouted" /\ \A j \in Invocations \ {i} : Status(j)' = Status(j)
    BY OneRecord
  <1>2. /\ \A j \in Invocations : /\ recoveries[j] \in Nat /\ recoveries'[j] \in Nat
                                  /\ recoveries'[j] >= recoveries[j]
        /\ \A j \in Invocations \ {i} : recoveries'[j] = recoveries[j]
    BY OneCount
  <1>3. /\ pass'[p] = "idle" /\ resuming'[p] = FALSE
        /\ \A q \in Recoverers \ {p} :
             pass'[q] = pass[q] /\ target'[q] = target[q] /\ resuming'[q] = resuming[q]
    BY PassMoves DEF Idle
  <1>4. \A q \in Recoverers : pass[q] # "idle" => target[q].inv \in Invocations
    BY Candidate DEF Idle
  <1>5. Status(i) \in {"Pending", "Running"} => Status(i) \notin Over
    BY DEF Over, RecoveryStatuses, Final
  <1>6. LimitInv'
    <2>1. MaxRecoveries \in Nat
      BY RuntimeAssumption
    <2>2. \A j \in Invocations : Status(j)' \in RecoveryStatuses
            => MaxRecoveries > 0 /\ recoveries'[j] > MaxRecoveries
      BY <1>0, <1>1, <1>2 DEF LimitInv, RecoveryStatuses
    <2>3. ASSUME NEW q \in Recoverers, pass'[q] = "limit"
          PROVE  ~resuming'[q] /\ MaxRecoveries > 0 /\ recoveries'[target'[q].inv] >= MaxRecoveries
      <3>1. /\ target[q].inv \in Invocations /\ target'[q] = target[q]
            /\ ~resuming[q] /\ resuming'[q] = resuming[q]
            /\ MaxRecoveries > 0 /\ recoveries[target[q].inv] >= MaxRecoveries
        BY <1>0, <1>3, <1>4, <2>3 DEF LimitInv
      <3> QED
        BY SMT, <1>2, <2>1, <3>1
    <2>4. ASSUME NEW q \in Recoverers, resuming'[q]
          PROVE  pass'[q] # Idle /\ MaxRecoveries > 0 /\ recoveries'[target'[q].inv] > MaxRecoveries
      <3>1. /\ target[q].inv \in Invocations /\ target'[q] = target[q] /\ pass'[q] # Idle
            /\ MaxRecoveries > 0 /\ recoveries[target[q].inv] > MaxRecoveries
        BY <1>0, <1>3, <1>4, <2>4 DEF LimitInv, Idle
      <3> QED
        BY SMT, <1>2, <2>1, <3>1
    <2> QED
      BY <2>2, <2>3, <2>4 DEF LimitInv
  <1>7. LoadInv'
    <2> SUFFICES ASSUME MaxRecoveries > 0, NEW j \in Invocations
                 PROVE  Load(j)' <= Capacity'
      BY DEF LoadInv
    <2>1. CASE j = i
      <3>1. \/ recoveries'[i] = recoveries[i]
            \/ recoveries'[i] = recoveries[i] + 1 /\ Status(i) \notin Over
        BY <1>5 DEF StoreTypeOK
      <3>2. Status(i)' \notin Over
        BY <1>1 DEF Over, RecoveryStatuses, Final
      <3> QED
        BY <1>0, <2>1, <3>1, <3>2, RequeueLoad
    <2>2. CASE j # i
      BY <1>0, <1>1, <1>2, <2>2, LoadOfOthers
    <2> QED
      BY <2>1, <2>2
  <1>8. ErrorInv'
    BY <1>0, <1>1, <1>3 DEF ErrorInv
  <1>9. SettledInv'
    <2> SUFFICES ASSUME misreads = 0 PROVE SettledInv'
      BY DEF SettledInv
    <2>1. Status(i) \notin Settled
      BY DEF Settled, RecoveryStatuses
    <2>2. \A j \in Invocations : error[j] # NoRunner => j # i /\ Status(j)' \in Settled
      BY <1>0, <1>1, <2>1 DEF SettledInv
    <2>3. \A q \in Recoverers :
            resuming[q] \/ pass[q] \in {"error", "fail"}
              => target[q].inv \in Invocations \ {i} /\ Status(target[q].inv) \in Settled
      BY <1>0, <1>4, <2>1 DEF SettledInv, LimitInv, Idle
    <2>4. \A q \in Recoverers :
            resuming'[q] \/ pass'[q] \in {"error", "fail"} => Status(target[q].inv)' \in Settled
      <3> SUFFICES ASSUME NEW q \in Recoverers, resuming'[q] \/ pass'[q] \in {"error", "fail"}
                   PROVE  Status(target[q].inv)' \in Settled
        OBVIOUS
      <3>1. /\ q # p /\ target'[q] = target[q]
            /\ target[q].inv \in Invocations \ {i} /\ Status(target[q].inv) \in Settled
        BY <1>3, <2>3
      <3> QED
        BY <1>1, <3>1 DEF Status
    <2>5. \A q \in Recoverers : resuming'[q] => pass'[q] # "reroute"
      BY <1>0, <1>3 DEF SettledInv
    <2> QED
      BY <2>2, <2>4, <2>5 DEF SettledInv
  <1> QED
    BY <1>6, <1>7, <1>8, <1>9 DEF RecoveryInv

LEMMA RequeueKeeps ==
    ASSUME TypeOK, TypeOK', StoreTypeOK, RecoveryInv, NEW p \in Recoverers, UNCHANGED misreads,
           Requeue(p)
    PROVE  RecoveryInv'
  <1>1. pass[p] = "reroute" /\ EndPass(p)
    BY DEF Requeue
  <1>2. PICK i \in Invocations, status \in RecoveryStatuses :
          target[p].inv = i /\ target[p].status = status
    BY <1>1, Candidate DEF Idle
  <1>3. CASE UNCHANGED storeVars
    BY <1>1, <1>3, EndKeeps
  <1>4. CASE resuming[p] /\ ChangeReroute(i, p)
    <2>1. misreads # 0
      BY <1>1, <1>4 DEF RecoveryInv, SettledInv
    <2>2. /\ WriteRecord(i, Transitioned(record[i], "Rerouted", p))
          /\ recoveries' = recoveries /\ error' = error
      BY <1>4 DEF ChangeReroute
    <2> QED
      BY SMT, <1>1, <1>2, <2>1, <2>2, RequeueCommit, TransitionedStatus
  <1>5. CASE ChangeRecover(i, status, p)
    <2>1. Status(i) \in {"Pending", "Running"}
      BY <1>5 DEF ChangeRecover, RecoveredFrom
    <2> DEFINE new == Transitioned(Transitioned(record[i], status, p), "Rerouted", p)
    <2>2. /\ WriteRecord(i, new)
          /\ recoveries' = [recoveries EXCEPT ![i] = @ + 1] /\ error' = error
      BY <1>5 DEF ChangeRecover
    <2>3. new.status = "Rerouted"
      BY TransitionedStatus
    <2> HIDE DEF new
    <2> QED
      BY <1>1, <1>2, <2>1, <2>2, <2>3, RequeueCommit
  <1> QED
    BY <1>2, <1>3, <1>4, <1>5 DEF Requeue

LEMMA TakeOverKeeps ==
    ASSUME TypeOK, TypeOK', StoreTypeOK, RecoveryInv, NEW p \in Recoverers, UNCHANGED misreads,
           TakeOver(p)
    PROVE  RecoveryInv'
  <1>0. LimitInv /\ LoadInv /\ ErrorInv /\ SettledInv
    BY DEF RecoveryInv
  <1>1. pass[p] = "limit"
    BY DEF TakeOver
  <1>2. PICK i \in Invocations, status \in RecoveryStatuses :
          target[p].inv = i /\ target[p].status = status
    BY <1>1, Candidate DEF Idle
  <1>3. CASE UNCHANGED storeVars /\ EndPass(p)
    BY <1>3, EndKeeps
  <1>4. CASE ChangeStatus(i, status, p) /\ PassGoto(p, "error")
    <2>1. Status(i) \in {"Pending", "Running"}
      BY <1>4, RecoverySource DEF ChangeStatus, Status
    <2>2. Status(i)' = status /\ \A j \in Invocations \ {i} : Status(j)' = Status(j)
      BY SMT, <1>4, OneRecord, TransitionedStatus DEF ChangeStatus
    <2>3. recoveries' = [recoveries EXCEPT ![i] = @ + 1] /\ error' = error
      BY <1>4 DEF ChangeStatus
    <2>4. /\ \A j \in Invocations : recoveries[j] \in Nat /\ recoveries'[j] >= recoveries[j]
          /\ \A j \in Invocations \ {i} : recoveries'[j] = recoveries[j]
          /\ recoveries'[i] = recoveries[i] + 1
      BY SMT, <2>3 DEF StoreTypeOK
    <2>5. /\ pass'[p] = "error" /\ target' = target /\ resuming' = resuming
          /\ \A q \in Recoverers \ {p} : pass'[q] = pass[q]
      BY <1>4, PassMoves
    <2>6. \A q \in Recoverers : pass[q] # "idle" => target[q].inv \in Invocations
      BY Candidate DEF Idle
    <2>7. MaxRecoveries \in Nat /\ MaxRecoveries > 0 /\ recoveries[i] >= MaxRecoveries /\ ~resuming[p]
      BY <1>0, <1>1, <1>2, RuntimeAssumption DEF LimitInv
    <2>8. LimitInv'
      <3>1. \A j \in Invocations : Status(j)' \in RecoveryStatuses
              => MaxRecoveries > 0 /\ recoveries'[j] > MaxRecoveries
        BY SMT, <1>0, <2>2, <2>4, <2>7 DEF LimitInv
      <3>2. ASSUME NEW q \in Recoverers, pass'[q] = "limit"
            PROVE  ~resuming'[q] /\ MaxRecoveries > 0
                     /\ recoveries'[target'[q].inv] >= MaxRecoveries
        <4>1. /\ target[q].inv \in Invocations /\ ~resuming[q]
              /\ recoveries[target[q].inv] >= MaxRecoveries
          BY <1>0, <2>5, <2>6, <3>2 DEF LimitInv
        <4> QED
          BY SMT, <2>4, <2>5, <2>7, <4>1
      <3>3. ASSUME NEW q \in Recoverers, resuming'[q]
            PROVE  pass'[q] # Idle /\ MaxRecoveries > 0
                     /\ recoveries'[target'[q].inv] > MaxRecoveries
        <4>1. /\ target[q].inv \in Invocations /\ pass[q] # Idle /\ q # p
              /\ recoveries[target[q].inv] > MaxRecoveries
          BY <1>0, <2>5, <2>6, <2>7, <3>3 DEF LimitInv, Idle
        <4> QED
          BY SMT, <2>4, <2>5, <2>7, <4>1
      <3> QED
        BY <3>1, <3>2, <3>3 DEF LimitInv
    <2>9. LoadInv'
      <3> SUFFICES ASSUME NEW j \in Invocations PROVE Load(j)' <= Capacity'
        BY DEF LoadInv
      <3>1. CASE j # i
        <4>1. recoveries'[j] = recoveries[j] /\ Status(j)' = Status(j)
          BY <2>2, <2>4, <3>1
        <4>2. \E where : PassGoto(p, where) /\ where # "reroute"
          BY SMT, <1>4
        <4> QED
          BY <1>0, <2>7, <4>1, <4>2, LoadOfOthers
      <3>2. CASE j = i
        <4>1. Rerouting(i)' = Rerouting(i)
          BY <1>1, <1>4, <2>5, ReroutingMoves DEF Rerouting
        <4>2. Status(i) \notin Over /\ Status(i)' \in Over
          BY <2>1, <2>2 DEF Over, RecoveryStatuses, Final
        <4>3. Load(i) = recoveries[i] + Cardinality(Rerouting(i)) + 1 /\ Load(i) <= Capacity
          BY <1>0, <2>7, <4>2 DEF Load, LoadInv
        <4>4. Load(i)' = recoveries'[i] + Cardinality(Rerouting(i)) + 0 /\ Capacity' = Capacity
          BY <4>1, <4>2 DEF Load, Capacity
        <4>5. Cardinality(Rerouting(i)) \in Nat
          BY Counts DEF Rerouting
        <4> HIDE DEF Rerouting
        <4> QED
          BY SMT, <2>4, <3>2, <4>3, <4>4, <4>5
      <3> QED
        BY <3>1, <3>2
    <2>10. ErrorInv'
      BY <1>0, <2>2, <2>3, <2>5 DEF ErrorInv, RecoveryStatuses
    <2>11. SettledInv'
      <3> SUFFICES ASSUME misreads = 0 PROVE SettledInv'
        BY DEF SettledInv
      <3>1. Status(i)' \in Settled
        BY <2>2 DEF Settled
      <3>2. \A j \in Invocations : error'[j] # NoRunner => Status(j)' \in Settled
        BY <1>0, <2>2, <2>3, <3>1 DEF SettledInv
      <3>3. ASSUME NEW q \in Recoverers, resuming'[q] \/ pass'[q] \in {"error", "fail"}
            PROVE  Status(target[q].inv)' \in Settled
        <4>1. CASE target[q].inv = i
          BY <2>5, <3>1, <4>1 DEF Status
        <4>2. CASE target[q].inv # i
          <5>1. target[q].inv \in Invocations \ {i} /\ Status(target[q].inv) \in Settled
            BY <1>0, <1>2, <2>5, <2>6, <3>3, <4>2 DEF SettledInv, LimitInv, Idle
          <5> QED
            BY <2>2, <2>5, <5>1 DEF Status
        <4> QED
          BY <4>1, <4>2
      <3>4. \A q \in Recoverers : resuming'[q] => pass'[q] # "reroute"
        BY <1>0, <2>5 DEF SettledInv
      <3> QED
        BY <3>2, <3>3, <3>4 DEF SettledInv
    <2> QED
      BY <2>8, <2>9, <2>10, <2>11 DEF RecoveryInv
  <1> QED
    BY <1>2, <1>3, <1>4 DEF TakeOver

LEMMA StoreLimitErrorKeeps ==
    ASSUME TypeOK, TypeOK', StoreTypeOK, RecoveryInv, NEW p \in Recoverers, UNCHANGED misreads,
           StoreLimitError(p)
    PROVE  RecoveryInv'
  <1>0. LimitInv /\ LoadInv /\ ErrorInv /\ SettledInv
    BY DEF RecoveryInv
  <1>1. pass[p] = "error" /\ PassGoto(p, "fail")
    BY DEF StoreLimitError
  <1>2. PICK i \in Invocations : target[p].inv = i
    BY <1>1, Candidate DEF Idle
  <1>3. record' = record /\ recoveries' = recoveries /\ error' = [error EXCEPT ![i] = p]
    BY <1>2 DEF StoreLimitError, StoreError
  <1>4. /\ \A j \in Invocations \ {i} : error'[j] = error[j]
        /\ error'[i] # NoRunner
    BY <1>3, Participants, NoRunnerAssumption DEF StoreTypeOK
  <1>5. /\ pass'[p] = "fail" /\ target' = target /\ resuming' = resuming
        /\ \A q \in Recoverers \ {p} : pass'[q] = pass[q]
    BY <1>1, PassMoves
  <1>6. LimitInv'
    BY <1>0, <1>3, <1>5 DEF LimitInv, Status, Idle
  <1>7. LoadInv'
    <2> SUFFICES ASSUME MaxRecoveries > 0, NEW j \in Invocations
                 PROVE  Load(j)' <= Capacity'
      BY DEF LoadInv
    <2>1. recoveries'[j] = recoveries[j] /\ Status(j)' = Status(j)
      BY <1>3 DEF Status
    <2>2. \E where : PassGoto(p, where) /\ where # "reroute"
      BY SMT, <1>1
    <2> QED
      BY <1>0, <2>1, <2>2, LoadOfOthers
  <1>8. ErrorInv'
    <2>1. \A q \in Recoverers : pass[q] = "fail" => target[q].inv \in Invocations
      BY Candidate DEF Idle
    <2> QED
      BY <1>0, <1>2, <1>3, <1>4, <1>5, <2>1 DEF ErrorInv, Status
  <1>9. SettledInv'
    BY <1>0, <1>1, <1>2, <1>3, <1>4, <1>5 DEF SettledInv, Status
  <1> QED
    BY <1>6, <1>7, <1>8, <1>9 DEF RecoveryInv

LEMMA FailAtLimitKeeps ==
    ASSUME TypeOK, TypeOK', StoreTypeOK, RecoveryInv, NEW p \in Recoverers, UNCHANGED misreads,
           FailAtLimit(p)
    PROVE  RecoveryInv'
  <1>0. LimitInv /\ LoadInv /\ ErrorInv /\ SettledInv
    BY DEF RecoveryInv
  <1>1. pass[p] = "fail" /\ EndPass(p)
    BY DEF FailAtLimit
  <1>2. PICK i \in Invocations : target[p].inv = i
    BY <1>1, Candidate DEF Idle
  <1>3. CASE UNCHANGED storeVars
    BY <1>1, <1>3, EndKeeps
  <1>4. CASE ChangeStatus(i, "Failed", p)
    <2>1. Status(i)' = "Failed" /\ \A j \in Invocations \ {i} : Status(j)' = Status(j)
      BY SMT, <1>4, OneRecord, TransitionedStatus DEF ChangeStatus
    <2>2. recoveries' = recoveries /\ error' = error
      BY <1>4 DEF ChangeStatus, RecoveryStatuses
    <2>3. /\ pass'[p] = "idle" /\ resuming'[p] = FALSE
          /\ \A q \in Recoverers \ {p} :
               pass'[q] = pass[q] /\ target'[q] = target[q] /\ resuming'[q] = resuming[q]
      BY <1>1, PassMoves DEF Idle
    <2>4. Status(i)' \in Over /\ Status(i)' \in Settled /\ Status(i)' \notin RecoveryStatuses
      BY <2>1 DEF Over, Settled, RecoveryStatuses, Final
    <2>5. LimitInv'
      BY <1>0, <2>1, <2>2, <2>3, <2>4 DEF LimitInv, Idle
    <2>6. LoadInv'
      <3> SUFFICES ASSUME MaxRecoveries > 0, NEW j \in Invocations
                   PROVE  Load(j)' <= Capacity'
        BY DEF LoadInv
      <3>1. recoveries'[j] = recoveries[j] /\ (Status(j) \in Over => Status(j)' \in Over)
        BY <2>1, <2>2, <2>4
      <3> QED
        BY <1>0, <1>1, <3>1, LoadOfOthers
    <2>7. ErrorInv'
      BY <1>0, <1>1, <1>2, <2>1, <2>2, <2>3 DEF ErrorInv
    <2>8. SettledInv'
      <3> SUFFICES ASSUME misreads = 0 PROVE SettledInv'
        BY DEF SettledInv
      <3>1. \A j \in Invocations : error'[j] # NoRunner => Status(j)' \in Settled
        BY <1>0, <2>1, <2>2, <2>4 DEF SettledInv
      <3>2. ASSUME NEW q \in Recoverers, resuming'[q] \/ pass'[q] \in {"error", "fail"}
            PROVE  Status(target[q].inv)' \in Settled
        <4>1. q # p /\ target'[q] = target[q] /\ target[q].inv \in Invocations
                /\ Status(target[q].inv) \in Settled
          BY <1>0, <2>3, <3>2, Candidate DEF SettledInv, LimitInv, Idle
        <4> QED
          BY <2>1, <2>4, <4>1 DEF Status
      <3>3. \A q \in Recoverers : resuming'[q] => pass'[q] # "reroute"
        BY <1>0, <2>3 DEF SettledInv
      <3> QED
        BY <3>1, <3>2, <3>3 DEF SettledInv
    <2> QED
      BY <2>5, <2>6, <2>7, <2>8 DEF RecoveryInv
  <1> QED
    BY <1>2, <1>3, <1>4 DEF FailAtLimit

-----------------------------------------------------------------------------
(* The invariant, and what follows.                                        *)

LEMMA WorkersLeavePasses ==
    ASSUME NEW w \in Workers, Claim(w) \/ Execute(w) \/ Live(w)
    PROVE  UNCHANGED passVars
  <1>1. CASE Claim(w)
    BY <1>1, ClaimMoves DEF Goto, Drop, Hold
  <1>2. CASE Live(w)
    BY <1>2 DEF Live, StartWorker, Retire, Heartbeat, WorkerFallsSilent, Goto, Drop
  <1>3. CASE Execute(w)
    BY <1>3 DEF Execute, ClaimPending, StartRunning, Begin, Succeed, FailAndRetry, FailForGood,
                NoticeCancel, Wait, WaitOver, Discard, Goto, Drop
  <1> QED
    BY <1>1, <1>2, <1>3

LEMMA NextRecovery ==
    ASSUME TypeOK, TypeOK', StoreTypeOK, RecoveryInv, [Next]_vars
    PROVE  RecoveryInv'
  <1>1. ASSUME NEW w \in Workers, Claim(w) \/ Execute(w) \/ Live(w)
        PROVE  RecoveryInv'
    <2>1. Calm
      BY <1>1, ClaimCalm, ExecuteCalm, OthersCalm
    <2>2. UNCHANGED passVars
      BY <1>1, WorkersLeavePasses
    <2>3. misreads' >= misreads
      BY SMT, <1>1 DEF Claim, Execute, Live, NothingBlocking, Admit, Misread, TypeOK
    <2> QED
      BY <2>1, <2>2, <2>3, CalmStep
  <1>2. ASSUME NEW i \in Invocations, Environment(i)
        PROVE  RecoveryInv'
    <2>1. Calm
      BY <1>2, OthersCalm
    <2>2. UNCHANGED passVars /\ misreads' >= misreads
      BY SMT, <1>2 DEF Environment, ClientSubmit, ClientCancel, StatusExpires, LeaseExpires, TypeOK
    <2> QED
      BY <2>1, <2>2, CalmStep
  <1>3. ASSUME NEW p \in Recoverers, Recover(p)
        PROVE  RecoveryInv'
    <2>1. CASE ReadHistory(p)
      BY <2>1, ReadHistoryKeeps
    <2>2. CASE AbandonPass(p) /\ UNCHANGED misreads
      BY <2>2, EndKeeps DEF AbandonPass
    <2> QED
      BY <1>3, <2>1, <2>2, ListKeeps, ReadStatusKeeps, RequeueKeeps, TakeOverKeeps,
         StoreLimitErrorKeeps, FailAtLimitKeeps DEF Recover
  <1>4. CASE UNCHANGED vars
    <2>1. UNCHANGED <<record, recoveries, error>> /\ UNCHANGED passVars /\ misreads' >= misreads
      BY SMT, <1>4 DEF vars, storeVars, TypeOK
    <2> QED
      BY <2>1, CalmUnchanged, CalmStep
  <1> QED
    BY <1>1, <1>2, <1>3, <1>4 DEF Next

LEMMA RecoveryInvariance == Spec => [](RuntimeInv /\ RecoveryInv)
  <1>1. Init => RuntimeInv /\ RecoveryInv
    BY InitTypeOK, InitIInv, InitRecovery DEF Init, RuntimeInv
  <1>2. RuntimeInv /\ RecoveryInv /\ [Next]_vars => (RuntimeInv /\ RecoveryInv)'
    BY NextTypeOK, NextStore, NextIInv, NextRecovery DEF RuntimeInv, IInv
  <1> QED
    BY <1>1, <1>2, PTL DEF Spec

\* However the passes of any number of management loops interleave with each
\* other and with the workers, an invocation is recovered at most
\* max_invocation_recoveries times, once more for each pass that decided on a
\* count it read before, and once more for each count that could not be read.
THEOREM RecoveryLimit == Spec => []RecoveriesAreBounded
  <1>1. RuntimeInv /\ RecoveryInv => RecoveriesAreBounded
    <2> SUFFICES ASSUME RuntimeInv, RecoveryInv, MaxRecoveries > 0, NEW i \in Invocations
                 PROVE  recoveries[i] <= MaxRecoveries + Cardinality(Recoverers) + misreads
      BY DEF RecoveriesAreBounded
    <2>1. TypeOK /\ StoreTypeOK
      BY DEF RuntimeInv, IInv
    <2>2. /\ Cardinality(Rerouting(i)) \in Nat /\ Cardinality(Recoverers) \in Nat
          /\ MaxRecoveries \in Nat /\ misreads \in Nat
      BY <2>1, Counts DEF Rerouting
    <2>3. recoveries[i] + Cardinality(Rerouting(i)) + (IF Status(i) \in Over THEN 0 ELSE 1)
            <= MaxRecoveries + Cardinality(Recoverers) + misreads
      BY DEF RecoveryInv, LoadInv, Load, Capacity
    <2>4. recoveries[i] \in Nat
      BY <2>1 DEF StoreTypeOK
    <2> HIDE DEF Rerouting
    <2> QED
      BY SMT, <2>2, <2>3, <2>4
  <1> QED
    BY <1>1, RecoveryInvariance, PTL

\* An invocation that failed, also by the recovery limit and its three commits,
\* has its error stored; and none has a result and an error, unless a failed
\* read let one pass requeue what another had given up.
THEOREM OutcomesComplete == Spec => []OutcomeIsComplete
  <1>1. RuntimeInv /\ RecoveryInv => OutcomeIsComplete
    <2> SUFFICES ASSUME RuntimeInv, RecoveryInv, NEW i \in Invocations
                 PROVE  /\ Status(i) = "Failed" => error[i] # NoRunner
                        /\ misreads = 0 => result[i] = NoRunner \/ error[i] = NoRunner
      BY DEF OutcomeIsComplete
    <2>1. result[i] # NoRunner => Status(i) = "Success"
      BY DEF RuntimeInv, IInv, ResultIffSuccess
    <2>2. "Success" \notin Settled
      BY DEF Settled, RecoveryStatuses
    <2> QED
      BY <2>1, <2>2 DEF RecoveryInv, ErrorInv, SettledInv
  <1> QED
    BY <1>1, RecoveryInvariance, PTL
=============================================================================
