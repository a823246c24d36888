------------------------------ MODULE Lifecycle ------------------------------
(***************************************************************************)
(* What a control backend promises about one thing only: the status record *)
(* of each invocation.  A record appears once, and then moves along the    *)
(* edges of the status machine, whoever asks.  The transactional store and *)
(* the in-memory store are shown to implement this specification.          *)
(***************************************************************************)
EXTENDS InvocationStatus

CONSTANT Invocations

VARIABLE record    \* [Invocations -> StatusRecords]

Init == record = [i \in Invocations |-> Absent]

\* register_invocation_with_id: the submitter is stored as the runner.
Register(i, runner) ==
    /\ record[i].status = NoRecord
    /\ record' = [record EXCEPT ![i] = [status |-> "Registered", owner |-> runner]]

\* One accepted set_invocation_status.
SetStatus(i, status, runner) ==
    /\ record[i].status # NoRecord
    /\ CanTransition(record[i], status, runner)
    /\ record' = [record EXCEPT ![i] = Transitioned(record[i], status, runner)]

\* Two transitions committed together: recovery and concurrency reroute.
SetStatusVia(i, via, status, runner) ==
    LET middle == Transitioned(record[i], via, runner)
    IN  /\ record[i].status # NoRecord
        /\ CanTransition(record[i], via, runner)
        /\ CanTransition(middle, status, runner)
        /\ record' = [record EXCEPT ![i] = Transitioned(middle, status, runner)]

Next ==
    \E i \in Invocations, runner \in Owners :
        \/ Register(i, runner)
        \/ \E status \in Statuses : SetStatus(i, status, runner)
        \/ \E via \in {"PendingRecovery", "RunningRecovery", "ConcurrencyControlled"} :
               SetStatusVia(i, via, "Rerouted", runner)

Spec == Init /\ [][Next]_record

-----------------------------------------------------------------------------

\* Every record is a status of the enum with an optional runner.
TypeOK == record \in [Invocations -> StatusRecords]

\* Pending, Running and Paused always name the runner that holds the
\* invocation: ownership validation is never comparing against `None`.
WorkIsOwned ==
    \A i \in Invocations :
        record[i].status \in RequiresOwnership => record[i].owner \in Runners

\* A final status is never left (is_terminal has no outgoing transitions), so
\* a late worker, recovery or cancellation cannot reopen an invocation.
FinalIsForever ==
    [][\A i \in Invocations :
          record[i].status \in Final => record'[i] = record[i]]_record

\* Ownership is never handed from one runner to another in one commit: the
\* invocation first returns to a status that anyone may claim.
NoDirectHandover ==
    [][\A i \in Invocations :
          record[i].status \in RequiresOwnership
            => record'[i].owner \in {record[i].owner, NoRunner}]_record
=============================================================================
