---------------------------- MODULE RuntimeProofs ----------------------------
(***************************************************************************)
(* The processes of TransactionalRuntime, for every number of workers,     *)
(* recovery passes and invocations: each is at a step of its code, and     *)
(* changes the tables only through the store's transactions.               *)
(***************************************************************************)
EXTENDS TransactionalRuntime, PublicationProofs

\* First-order reasoning throughout; leaves beyond it ask for SMT.
USE Zenon

\* Phases in which a worker holds no invocation.
Free == {"unborn", "dead", "idle", "polling"}

LEMMA FreePhases ==
    /\ Gone \union {Idle, "polling"} = Free
    /\ \A w \in Workers : TypeOK => ((job[w] = None) <=> phase[w] \in Free)
  BY DEF Gone, Idle, Free, TypeOK

-----------------------------------------------------------------------------
(* Type correctness.                                                       *)

LEMMA InitTypeOK == Init => TypeOK
  BY SMT, RuntimeAssumption
     DEF Init, TypeOK, WorkerPhases, Gone, Idle, None, NoAttempt, PassPhases, NoTarget

\* The worker moves on and keeps what it holds.
LEMMA GotoType ==
    ASSUME TypeOK, NEW w \in Workers, NEW where \in WorkerPhases, Goto(w, where),
           where \in Free <=> phase[w] \in Free, misreads' \in 0 .. MaxMisreads
    PROVE  TypeOK'
  <1>1. phase' \in [Workers -> WorkerPhases]
    BY DEF TypeOK, Goto
  <1>2. \A v \in Workers : (job'[v] = None) <=> phase'[v] \in Free
    BY FreePhases DEF Goto, TypeOK
  <1> QED
    BY <1>1, <1>2, FreePhases DEF Goto, TypeOK, passVars

\* The worker lets its invocation go.
LEMMA DropType ==
    ASSUME TypeOK, NEW w \in Workers, NEW where \in {"idle", "polling", "dead"},
           Drop(w, where), misreads' \in 0 .. MaxMisreads
    PROVE  TypeOK'
  <1>1. where \in WorkerPhases /\ where \in Free
    BY DEF WorkerPhases, Gone, Idle, Free
  <1>2. /\ phase' \in [Workers -> WorkerPhases]
        /\ job' \in [Workers -> Invocations \union {None}]
        /\ identity' \in [Workers -> Nat \union {NoAttempt}]
    BY <1>1 DEF TypeOK, Drop
  <1>3. \A v \in Workers : (job'[v] = None) <=> phase'[v] \in Free
    BY <1>1, FreePhases DEF Drop, TypeOK
  <1> QED
    BY <1>2, <1>3, FreePhases DEF Drop, TypeOK, passVars

LEMMA HoldType ==
    ASSUME TypeOK, NEW w \in Workers, NEW i \in Invocations, Hold(w, i),
           misreads' \in 0 .. MaxMisreads
    PROVE  TypeOK'
  <1>1. "candidate" \in WorkerPhases /\ "candidate" \notin Free
    BY DEF WorkerPhases, Free
  <1>2. /\ phase' \in [Workers -> WorkerPhases]
        /\ job' \in [Workers -> Invocations \union {None}]
    BY <1>1 DEF TypeOK, Hold
  <1>3. i # None
    BY RuntimeAssumption DEF None
  <1>4. \A v \in Workers : (job'[v] = None) <=> phase'[v] \in Free
    BY <1>1, <1>3, FreePhases DEF Hold, TypeOK
  <1> QED
    BY <1>2, <1>4, FreePhases DEF Hold, TypeOK, passVars

\* A worker that holds an invocation holds one of Invocations.
LEMMA Holding ==
    ASSUME TypeOK, NEW w \in Workers, phase[w] \notin Free
    PROVE  job[w] \in Invocations
  BY FreePhases DEF TypeOK

LEMMA MisreadsType ==
    ASSUME TypeOK, Misread \/ UNCHANGED misreads
    PROVE  misreads' \in 0 .. MaxMisreads
  BY SMT, RuntimeAssumption DEF TypeOK, Misread

LEMMA ClaimType ==
    ASSUME TypeOK, NEW w \in Workers, Claim(w)
    PROVE  TypeOK'
  <1> USE DEF Idle, Free
  <1>p. {"idle", "polling", "candidate", "denied", "admitted"} \subseteq WorkerPhases
    BY DEF WorkerPhases
  <1>1. CASE NothingBlocking(w)
    <2>1. misreads' \in 0 .. MaxMisreads
      BY <1>1, MisreadsType DEF NothingBlocking
    <2> QED
      BY <1>1, <1>p, <2>1, GotoType DEF NothingBlocking
  <1>2. CASE Admit(w)
    <2>1. misreads' \in 0 .. MaxMisreads
      BY <1>2, MisreadsType DEF Admit
    <2> QED
      BY <1>2, <1>p, <2>1, GotoType DEF Admit
  <1>3. CASE UNCHANGED misreads /\ \E i \in Invocations : ClaimBlocking(w, i) \/ ClaimQueued(w, i)
    BY <1>3, MisreadsType, HoldType DEF ClaimBlocking, ClaimQueued
  <1>4. CASE UNCHANGED misreads /\ QueuesEmpty(w)
    BY <1>4, <1>p, MisreadsType, GotoType DEF QueuesEmpty
  <1>5. CASE UNCHANGED misreads /\ Reject(w)
    BY <1>5, MisreadsType, DropType DEF Reject
  <1> QED
    BY <1>1, <1>2, <1>3, <1>4, <1>5 DEF Claim

\* An outcome that is let go leaves the worker idle or retired.
LEMMA DiscardType ==
    ASSUME TypeOK, NEW w \in Workers, Discard(w), misreads' \in 0 .. MaxMisreads
    PROVE  TypeOK'
  BY DropType DEF Discard, Idle

LEMMA BeginType ==
    ASSUME TypeOK, StoreTypeOK, NEW w \in Workers, Begin(w), UNCHANGED misreads
    PROVE  TypeOK'
  <1>1. CASE Drop(w, "dead")
    BY <1>1, MisreadsType, DropType
  <1>2. CASE /\ phase' = [phase EXCEPT ![w] = "executing"]
             /\ identity' = [identity EXCEPT ![w] = NextAttempt(attempt[job[w]], retries[job[w]])]
             /\ UNCHANGED <<job, passVars>>
    <2>1. phase[w] = "running" /\ job[w] \in Invocations
      BY Holding DEF Begin, Free
    <2>2. NextAttempt(attempt[job[w]], retries[job[w]]) \in Nat
      BY SMT, <2>1 DEF StoreTypeOK, NextAttempt, NoAttempt
    <2>3. identity' \in [Workers -> Nat \union {NoAttempt}]
      BY <1>2, <2>2 DEF TypeOK
    <2>4. "executing" \in WorkerPhases /\ "executing" \notin Free
      BY DEF WorkerPhases, Free
    <2>5. /\ phase' \in [Workers -> WorkerPhases]
          /\ \A v \in Workers : (job'[v] = None) <=> phase'[v] \in Free
      BY <1>2, <2>1, <2>4, FreePhases DEF TypeOK, Free
    <2> QED
      BY <1>2, <2>3, <2>5, FreePhases DEF TypeOK, passVars
  <1> QED
    BY <1>1, <1>2 DEF Begin

LEMMA ExecuteType ==
    ASSUME TypeOK, StoreTypeOK, NEW w \in Workers, Execute(w)
    PROVE  TypeOK'
  <1> USE DEF Idle, Free
  <1>m. UNCHANGED misreads /\ misreads' \in 0 .. MaxMisreads
    BY MisreadsType DEF Execute
  <1>p. {"idle", "pending", "running", "waiting", "finishing"} \subseteq WorkerPhases
    BY DEF WorkerPhases
  <1>1. CASE ClaimPending(w)
    BY <1>1, <1>m, <1>p, GotoType, DropType DEF ClaimPending
  <1>2. CASE StartRunning(w)
    BY <1>2, <1>m, <1>p, GotoType, DropType DEF StartRunning
  <1>3. CASE Begin(w)
    BY <1>3, <1>m, BeginType
  <1>4. CASE Succeed(w) \/ FailAndRetry(w) \/ FailForGood(w)
    BY <1>4, <1>m, DropType, DiscardType DEF Succeed, FailAndRetry, FailForGood
  <1>5. CASE NoticeCancel(w)
    BY <1>5, <1>m, DropType DEF NoticeCancel
  <1>6. CASE \E child \in Invocations : Wait(w, child)
    BY <1>6, <1>m, <1>p, GotoType DEF Wait
  <1>7. CASE WaitOver(w)
    BY <1>7, <1>m, <1>p, GotoType DEF WaitOver
  <1> QED
    BY <1>1, <1>2, <1>3, <1>4, <1>5, <1>6, <1>7 DEF Execute

LEMMA LiveType ==
    ASSUME TypeOK, NEW w \in Workers, Live(w)
    PROVE  TypeOK'
  <1>m. UNCHANGED misreads /\ misreads' \in 0 .. MaxMisreads
    BY MisreadsType DEF Live
  <1>1. CASE StartWorker(w)
    BY <1>1, <1>m, GotoType DEF StartWorker, WorkerPhases, Idle, Free
  <1>2. CASE Retire(w)
    BY <1>2, <1>m, DropType DEF Retire
  <1>3. CASE Heartbeat(w) \/ WorkerFallsSilent(w)
    BY <1>3, <1>m DEF Heartbeat, WorkerFallsSilent, TypeOK, workerVars, passVars
  <1> QED
    BY <1>1, <1>2, <1>3 DEF Live

LEMMA EnvironmentType ==
    ASSUME TypeOK, NEW i \in Invocations, Environment(i)
    PROVE  TypeOK'
  BY DEF Environment, ClientSubmit, ClientCancel, StatusExpires, LeaseExpires, TypeOK,
         workerVars, passVars

\* A pass with a candidate moves on, or ends and forgets it.
LEMMA PassGotoType ==
    ASSUME TypeOK, NEW p \in Recoverers, NEW where \in PassPhases \ {Idle},
           pass[p] # Idle, PassGoto(p, where), misreads' \in 0 .. MaxMisreads
    PROVE  TypeOK'
  <1>1. pass' \in [Recoverers -> PassPhases]
    BY DEF TypeOK, PassGoto
  <1>2. \A q \in Recoverers : (target'[q] = NoTarget) <=> (pass'[q] = Idle)
    BY DEF TypeOK, PassGoto
  <1> QED
    BY <1>1, <1>2 DEF TypeOK, PassGoto, workerVars

LEMMA EndPassType ==
    ASSUME TypeOK, NEW p \in Recoverers, EndPass(p), misreads' \in 0 .. MaxMisreads
    PROVE  TypeOK'
  <1>1. /\ pass' \in [Recoverers -> PassPhases]
        /\ target' \in [Recoverers -> Targets \union {NoTarget}]
        /\ resuming' \in [Recoverers -> BOOLEAN]
    BY DEF TypeOK, EndPass, PassPhases
  <1>2. \A q \in Recoverers : (target'[q] = NoTarget) <=> (pass'[q] = Idle)
    BY DEF TypeOK, EndPass
  <1> QED
    BY <1>1, <1>2 DEF TypeOK, EndPass, workerVars

LEMMA RecoverType ==
    ASSUME TypeOK, NEW p \in Recoverers, Recover(p)
    PROVE  TypeOK'
  <1>p. {"listed", "read", "reroute", "limit", "error", "fail"} \subseteq PassPhases \ {Idle}
    BY DEF PassPhases, Idle
  <1>1. CASE ReadHistory(p)
    <2>1. PICK previous \in {recoveries[target[p].inv], 0} :
             /\ IF previous = recoveries[target[p].inv] THEN UNCHANGED misreads ELSE Misread
             /\ PassGoto(p, IF ~OverLimit(p, previous) THEN "reroute"
                            ELSE IF resuming[p] THEN "error" ELSE "limit")
      BY <1>1 DEF ReadHistory
    <2>2. misreads' \in 0 .. MaxMisreads
      BY <2>1, MisreadsType
    <2>3. pass[p] # Idle
      BY <1>1 DEF ReadHistory, Idle
    <2> QED
      BY <1>p, <2>1, <2>2, <2>3, PassGotoType
  <1>m. CASE UNCHANGED misreads
    <2>0. misreads' \in 0 .. MaxMisreads
      BY <1>m, MisreadsType
    <2>1. ASSUME NEW i \in Invocations, NEW status \in RecoveryStatuses,
                 ListCandidate(p, i, status)
          PROVE  TypeOK'
      <3>1. [inv |-> i, status |-> status] \in Targets
        BY DEF Targets
      <3>2. [inv |-> i, status |-> status] # NoTarget
        BY RuntimeAssumption DEF NoTarget, None
      <3>3. /\ pass' \in [Recoverers -> PassPhases]
            /\ target' \in [Recoverers -> Targets \union {NoTarget}]
        BY <1>p, <2>1, <3>1 DEF ListCandidate, TypeOK
      <3>4. \A q \in Recoverers : (target'[q] = NoTarget) <=> (pass'[q] = Idle)
        BY <2>1, <3>2 DEF ListCandidate, TypeOK, Idle
      <3> QED
        BY <2>0, <2>1, <3>3, <3>4 DEF ListCandidate, TypeOK, workerVars
    <2>2. CASE ReadStatus(p)
      <3>1. /\ pass' \in [Recoverers -> PassPhases]
            /\ \A q \in Recoverers : (target'[q] = NoTarget) <=> (pass'[q] = Idle)
        BY <1>p, <2>2 DEF ReadStatus, TypeOK, Idle
      <3>2. resuming' \in [Recoverers -> BOOLEAN]
        <4>1. CASE Status(target[p].inv) \in RecoveryStatuses
          <5>1. resuming' = [resuming EXCEPT ![p] = TRUE]
            BY <2>2, <4>1 DEF ReadStatus
          <5> QED
            BY <5>1 DEF TypeOK
        <4>2. CASE Status(target[p].inv) \notin RecoveryStatuses
          <5>1. resuming' = [resuming EXCEPT ![p] = FALSE]
            <6>1. (Status(target[p].inv) \in RecoveryStatuses) = FALSE
              BY SMT, <4>2
            <6> QED
              BY <2>2, <6>1, Zenon DEF ReadStatus
          <5> QED
            BY <5>1 DEF TypeOK
        <4> QED
          BY <4>1, <4>2
      <3> QED
        BY <2>0, <2>2, <3>1, <3>2 DEF ReadStatus, TypeOK, workerVars
    <2>3. CASE Requeue(p) \/ FailAtLimit(p) \/ AbandonPass(p)
      BY <2>0, <2>3, EndPassType DEF Requeue, FailAtLimit, AbandonPass
    <2>4. CASE TakeOver(p)
      BY <1>p, <2>0, <2>4, EndPassType, PassGotoType DEF TakeOver, Idle
    <2>5. CASE StoreLimitError(p)
      BY <1>p, <2>0, <2>5, PassGotoType DEF StoreLimitError, Idle
    <2> QED
      BY <1>m, <1>1, <2>1, <2>2, <2>3, <2>4, <2>5 DEF Recover
  <1> QED
    BY <1>1, <1>m DEF Recover

LEMMA NextTypeOK == TypeOK /\ StoreTypeOK /\ [Next]_vars => TypeOK'
  <1> SUFFICES ASSUME TypeOK, StoreTypeOK, [Next]_vars PROVE TypeOK'
    OBVIOUS
  <1>1. CASE UNCHANGED vars
    BY <1>1 DEF vars, workerVars, passVars, TypeOK
  <1> QED
    BY <1>1, ClaimType, ExecuteType, LiveType, RecoverType, EnvironmentType DEF Next

-----------------------------------------------------------------------------
(* Every step is a transaction of the store.                               *)

LEMMA Participants ==
    /\ Workers \subseteq Runners /\ Recoverers \subseteq Runners /\ Client \in Runners
    /\ \A w \in Workers : w \notin Recoverers /\ w # Client
  BY RuntimeAssumption

LEMMA ClaimStore ==
    ASSUME TypeOK, NEW w \in Workers, Claim(w)
    PROVE  StoreNext \/ UNCHANGED storeVars
  <1>1. CASE NothingBlocking(w)
    BY <1>1 DEF NothingBlocking
  <1>2. CASE Admit(w)
    <2>1. job[w] \in Invocations
      BY <1>2, Holding DEF Admit, Free
    <2> QED
      BY <1>2, <2>1 DEF Admit, StoreNext
  <1>3. CASE \E i \in Invocations : ClaimBlocking(w, i) \/ ClaimQueued(w, i)
    BY <1>3 DEF ClaimBlocking, ClaimQueued, StoreNext
  <1>4. CASE QueuesEmpty(w)
    BY <1>4 DEF QueuesEmpty, StoreNext
  <1>5. CASE Reject(w)
    <2>1. job[w] \in Invocations
      BY <1>5, Holding DEF Reject, Free
    <2>2. CASE ChangeConcurrencyReroute(job[w], w)
      BY <2>1, <2>2, Participants DEF StoreNext, Change
    <2>3. CASE SetControlledFinal(job[w])
      BY <2>1, <2>3 DEF StoreNext
    <2> QED
      BY <1>5, <2>2, <2>3 DEF Reject
  <1> QED
    BY <1>1, <1>2, <1>3, <1>4, <1>5 DEF Claim

LEMMA ExecuteStore ==
    ASSUME TypeOK, NEW w \in Workers, Execute(w)
    PROVE  StoreNext \/ UNCHANGED storeVars
  <1>1. job[w] \in Invocations
    BY Holding DEF Execute, ClaimPending, StartRunning, Begin, Succeed, FailAndRetry,
                   FailForGood, NoticeCancel, Wait, WaitOver, Free
  <1>2. w \in Runners
    BY Participants
  <1>3. CASE ClaimPending(w) \/ StartRunning(w)
    BY <1>1, <1>2, <1>3 DEF ClaimPending, StartRunning, StoreNext, Change, PlainStatuses
  <1>4. CASE Begin(w)
    BY <1>1, <1>2, <1>4 DEF Begin, StoreNext
  <1>5. CASE Succeed(w) \/ FailForGood(w)
    BY <1>1, <1>2, <1>5 DEF Succeed, FailForGood, Discard, StoreNext, Change
  <1>6. CASE FailAndRetry(w)
    BY <1>1, <1>2, <1>6 DEF FailAndRetry, Discard, StoreNext, Change
  <1>7. CASE NoticeCancel(w) \/ WaitOver(w)
    BY <1>7 DEF NoticeCancel, WaitOver
  <1>8. CASE \E child \in Invocations : Wait(w, child)
    BY <1>1, <1>8 DEF Wait, StoreNext
  <1> QED
    BY <1>3, <1>4, <1>5, <1>6, <1>7, <1>8 DEF Execute

LEMMA RecoverStore ==
    ASSUME TypeOK, NEW p \in Recoverers, Recover(p)
    PROVE  StoreNext \/ UNCHANGED storeVars
  <1>1. p \in Runners
    BY Participants
  <1>2. ASSUME pass[p] # Idle
        PROVE  target[p].inv \in Invocations /\ target[p].status \in RecoveryStatuses
    BY <1>2 DEF TypeOK, Targets
  <1>3. CASE Requeue(p)
    BY <1>1, <1>2, <1>3 DEF Requeue, Idle, StoreNext, Change
  <1>4. CASE TakeOver(p) \/ FailAtLimit(p)
    <2>0. pass[p] # Idle
      BY <1>4 DEF TakeOver, FailAtLimit, Idle
    <2>1. target[p].inv \in Invocations /\ target[p].status \in PlainStatuses
      BY <1>2, <2>0 DEF PlainStatuses, RecoveryStatuses
    <2>2. "Failed" \in PlainStatuses
      BY DEF PlainStatuses
    <2>3. \A i \in Invocations, status \in PlainStatuses :
             ChangeStatus(i, status, p) => StoreNext
      BY <1>1 DEF StoreNext, Change
    <2> QED
      BY <1>4, <2>1, <2>2, <2>3 DEF TakeOver, FailAtLimit
  <1>5. CASE StoreLimitError(p)
    BY <1>1, <1>2, <1>5 DEF StoreLimitError, Idle, StoreNext
  <1> QED
    BY <1>3, <1>4, <1>5
       DEF Recover, ReadHistory, ListCandidate, ReadStatus, AbandonPass

LEMMA NextStore == TypeOK /\ [Next]_vars => [StoreNext]_storeVars
  <1> SUFFICES ASSUME TypeOK, [Next]_vars PROVE StoreNext \/ UNCHANGED storeVars
    OBVIOUS
  <1>1. CASE UNCHANGED vars
    BY <1>1 DEF vars
  <1>2. ASSUME NEW w \in Workers, Live(w)
        PROVE  StoreNext \/ UNCHANGED storeVars
    BY <1>2, Participants
       DEF Live, StartWorker, Retire, Heartbeat, WorkerFallsSilent, StoreNext
  <1>3. ASSUME NEW i \in Invocations, Environment(i)
        PROVE  StoreNext \/ UNCHANGED storeVars
    BY <1>3, Participants
       DEF Environment, ClientSubmit, ClientCancel, StatusExpires, LeaseExpires, StoreNext,
           Change, PlainStatuses
  <1> QED
    BY <1>1, <1>2, <1>3, ClaimStore, ExecuteStore, RecoverStore DEF Next

\* What the processes and the store keep together.
RuntimeInv == TypeOK /\ IInv

LEMMA RuntimeInvariance == Spec => []RuntimeInv
  <1>1. Init => RuntimeInv
    BY InitTypeOK, InitIInv DEF Init, RuntimeInv
  <1>2. RuntimeInv /\ [Next]_vars => RuntimeInv'
    BY NextTypeOK, NextStore, NextIInv DEF RuntimeInv, IInv
  <1> QED
    BY <1>1, <1>2, PTL DEF Spec

\* Every process is at a step of its code with what that step holds.
THEOREM RuntimeTyping == Spec => []TypeOK
  <1>1. RuntimeInv => TypeOK
    BY DEF RuntimeInv
  <1> QED
    BY <1>1, RuntimeInvariance, PTL

\* Workers, recovery passes and clients change the tables only through the
\* store's transactions, so what is proved of the store holds of the system.
THEOREM RuntimeImplementsStore == Spec => ImplementsStore
  <1>1. Init => StoreInit
    BY DEF Init
  <1>2. RuntimeInv /\ [Next]_vars => [StoreNext]_storeVars
    BY NextStore DEF RuntimeInv
  <1> QED
    BY <1>1, <1>2, RuntimeInvariance, PTL DEF Spec, StoreSpec, ImplementsStore

-----------------------------------------------------------------------------
(* Whom a step moves.                                                      *)

LEMMA OneWorkerMoves ==
    ASSUME TypeOK, NEW w \in Workers, NEW where, Goto(w, where) \/ Drop(w, where)
    PROVE  /\ phase'[w] = where
           /\ \A v \in Workers \ {w} : phase'[v] = phase[v] /\ job'[v] = job[v]
           /\ \A v \in Workers : \/ identity'[v] = NoAttempt
                                 \/ identity'[v] = identity[v] /\ job'[v] = job[v]
  BY DEF Goto, Drop, TypeOK

LEMMA ClaimMoves ==
    ASSUME NEW w \in Workers, Claim(w)
    PROVE  /\ phase[w] \in {"idle", "polling", "candidate", "denied"}
           /\ \/ \E where : Goto(w, where) \/ Drop(w, where)
              \/ phase[w] \in Free /\ \E i \in Invocations : Hold(w, i)
  <1>1. CASE NothingBlocking(w) \/ QueuesEmpty(w)
    BY <1>1 DEF NothingBlocking, QueuesEmpty, Idle
  <1>2. CASE Admit(w)
    BY <1>2 DEF Admit
  <1>3. CASE Reject(w)
    BY <1>3 DEF Reject
  <1>4. CASE \E i \in Invocations : ClaimBlocking(w, i) \/ ClaimQueued(w, i)
    BY <1>4 DEF ClaimBlocking, ClaimQueued, Idle, Free
  <1> QED
    BY <1>1, <1>2, <1>3, <1>4 DEF Claim

LEMMA OthersMove ==
    /\ \A p \in Recoverers : Recover(p) => UNCHANGED workerVars
    /\ \A i \in Invocations : Environment(i) => UNCHANGED workerVars
  <1>1. ASSUME NEW p \in Recoverers, Recover(p) PROVE UNCHANGED workerVars
    BY <1>1 DEF Recover, ReadHistory, ListCandidate, ReadStatus, Requeue, TakeOver,
                StoreLimitError, FailAtLimit, AbandonPass, PassGoto, EndPass
  <1>2. ASSUME NEW i \in Invocations, Environment(i) PROVE UNCHANGED workerVars
    BY <1>2 DEF Environment, ClientSubmit, ClientCancel, StatusExpires, LeaseExpires
  <1> QED
    BY <1>1, <1>2
=============================================================================
