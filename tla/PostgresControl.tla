--------------------------- MODULE PostgresControl ---------------------------
(***************************************************************************)
(* The PostgreSQL control backend.  A transaction of several statements is *)
(* two steps here, its start and its commit: under READ COMMITTED each     *)
(* statement sees what others have committed by then, and what it deletes  *)
(* is settled when it runs.  Row locks and advisory locks keep other       *)
(* transactions waiting.                                                   *)
(***************************************************************************)
EXTENDS ControlData

CONSTANTS
    Sessions,     \* connections with a transaction of several statements
    Uses          \* the uses of the port that behaviours make

VARIABLES
    use,          \* the use that is made of the port
    inv,          \* invocations: status by id, or NoRecord
    record,       \* status_records
    publication,  \* submission_publications: "none", "identity" or "removed"
    history,      \* ids with an entry in history
    pairs,        \* cc_arg_pairs
    waits,        \* waiting_for
    retried,      \* ids with a row in retries
    due,          \* auto_purge_schedule
    expired,      \* local to run_auto_purge
    released,     \* last answer of release_waiters
    tx            \* open transaction of each session

statusVars == <<inv, record, publication, history, retried>>
purgeVars == <<due, expired>>
waitVars == <<waits, released>>
vars == <<use, statusVars, purgeVars, pairs, waitVars, tx>>

\* A transaction: its kind, the ids it is about, and the rows it deletes.
Idle == [kind |-> "idle", ids |-> {}, pairs |-> {}, waits |-> {}, published |-> {}]

Init ==
    /\ use \in Uses
    /\ inv = [i \in Invocations |-> NoRecord]
    /\ record = [i \in Invocations |-> Absent]
    /\ publication = [i \in Invocations |-> "none"]
    /\ history = {} /\ retried = {} /\ pairs = {} /\ waits = {}
    /\ due = {} /\ expired = {} /\ released = {}
    /\ tx = [s \in Sessions |-> Idle]

Open(kind) == {s \in Sessions : tx[s].kind = kind}

\* remove_invocation holds the submission lock and the status row of its id.
Locked(i) == \E s \in Open("remove") : i \in tx[s].ids

-----------------------------------------------------------------------------
(* publication.rs and status.rs                                            *)

PairsOf(i) == {i} \X IndexKeysOf(i)

Acceptable(i) == publication[i] = "none" /\ inv[i] = NoRecord /\ i \notin history

\* A submission that is not acceptable is refused, or a replay that changes
\* nothing.
Submit(i, runner, cc) ==
    /\ ~Locked(i)
    /\ Acceptable(i)
    /\ inv' = [inv EXCEPT ![i] = "Registered"]
    /\ record' = [record EXCEPT ![i] = Registered(runner)]
    /\ publication' = [publication EXCEPT ![i] = "identity"]
    /\ history' = history \union {i}
    /\ pairs' = IF cc THEN pairs \union PairsOf(i) ELSE pairs
    /\ UNCHANGED <<retried, purgeVars, waitVars, tx>>

\* ON CONFLICT DO NOTHING in the one table, DO UPDATE in the other.
RegisterInvocation(i, runner) ==
    /\ ~Locked(i)
    /\ "again" \in use.ops \/ Acceptable(i)
    /\ inv' = [inv EXCEPT ![i] = IF @ = NoRecord THEN "Registered" ELSE @]
    /\ record' = [record EXCEPT ![i] = Registered(runner)]
    /\ UNCHANGED <<publication, history, retried, purgeVars, pairs, waitVars, tx>>

IncrementRetries(i) ==
    /\ record[i] # Absent
    /\ retried' = retried \union {i}
    /\ UNCHANGED <<inv, record, publication, history, purgeVars, pairs, waitVars, tx>>

BothCopies(i, status) == [inv EXCEPT ![i] = status]

\* SELECT ... FOR UPDATE keeps the row until the commit.
SetInvocationStatus(i, status, runner) ==
    /\ ~Locked(i)
    /\ record[i] # Absent
    /\ CanTransition(record[i], status, runner)
    /\ record' = [record EXCEPT ![i] = Transitioned(record[i], status, runner)]
    /\ inv' = BothCopies(i, status)
    /\ UNCHANGED <<publication, history, retried, purgeVars, pairs, waitVars, tx>>

PairsOfAll(S) == {p \in pairs : p[1] \in S}
WaitsOfAll(S) == {e \in waits : e[1] \in S \/ e[2] \in S}

\* The submissions that a transaction turns into tombstones.
PublishedOf(S) == {i \in S : publication[i] = "identity"}

Deletion(kind, S) ==
    [kind |-> kind, ids |-> S, pairs |-> PairsOfAll(S), waits |-> WaitsOfAll(S),
     published |-> PublishedOf(S)]

RemoveStart(s, i) ==
    /\ tx[s] = Idle /\ ~Locked(i)
    /\ inv[i] # NoRecord
    /\ tx' = [tx EXCEPT ![s] = Deletion("remove", {i})]
    /\ UNCHANGED <<statusVars, purgeVars, pairs, waitVars>>

\* purge locks no row in advance.
PurgeStart(s) ==
    /\ tx[s] = Idle
    /\ tx' = [tx EXCEPT ![s] = Deletion("purge", Invocations)]
    /\ UNCHANGED <<statusVars, purgeVars, pairs, waitVars>>

\* The last statements of both delete the rows of status_records and
\* invocations, whoever has committed them in the meantime.
DeletionCommit(s) ==
    /\ tx[s].kind \in {"remove", "purge"}
    /\ inv' = [i \in Invocations |-> IF i \in tx[s].ids THEN NoRecord ELSE inv[i]]
    /\ record' = [i \in Invocations |-> IF i \in tx[s].ids THEN Absent ELSE record[i]]
    /\ publication' = [i \in Invocations |->
                         IF i \in tx[s].published THEN "removed" ELSE publication[i]]
    /\ pairs' = pairs \ tx[s].pairs
    /\ waits' = waits \ tx[s].waits
    /\ retried' = retried \ tx[s].ids
    /\ due' = IF tx[s].kind = "purge" THEN {} ELSE due
    /\ tx' = [tx EXCEPT ![s] = Idle]
    /\ UNCHANGED <<history, expired, released>>

\* Callers due what they have just made final.
ScheduleAutoPurge(i) ==
    /\ record[i].status \in Final
    /\ due' = due \union {i}
    /\ UNCHANGED <<statusVars, expired, pairs, waitVars, tx>>

\* run_auto_purge commits the deletion of the schedule, then removes.
AutoPurgeTake ==
    /\ expired = {} /\ due # {}
    /\ expired' = due
    /\ due' = {}
    /\ UNCHANGED <<statusVars, pairs, waitVars, tx>>

AutoPurgeRemove(s, i) ==
    /\ i \in expired
    /\ tx[s] = Idle /\ ~Locked(i)
    /\ tx' = [tx EXCEPT ![s] = Deletion("remove", {i})]
    /\ expired' = expired \ {i}
    /\ UNCHANGED <<statusVars, due, pairs, waitVars>>

-----------------------------------------------------------------------------
(* concurrency.rs                                                          *)

Members(i) == {j \in Invocations : \A k \in IndexKeysOf(i) : <<j, k>> \in pairs}

BelowLimit(i) == Cardinality(Members(i) \ {i}) < Limit

\* The advisory lock admits one reservation of a task at a time.
AdmissionLockFree(i) == \A s \in Open("acquire") : \A j \in tx[s].ids : TaskOf(j) # TaskOf(i)

\* Lock and count.  A refused reservation commits nothing.
AcquireStart(s, i) ==
    /\ tx[s] = Idle
    /\ AdmissionLockFree(i)
    /\ record[i] # Absent
    /\ BelowLimit(i)
    /\ tx' = [tx EXCEPT ![s] = [Idle EXCEPT !.kind = "acquire", !.ids = {i}]]
    /\ UNCHANGED <<statusVars, purgeVars, pairs, waitVars>>

\* ON CONFLICT waits for a transaction that deletes the same row.
Deleting(p) == \E s \in Sessions : p \in tx[s].pairs

AcquireCommit(s) ==
    /\ tx[s].kind = "acquire"
    /\ LET P == UNION {PairsOf(i) : i \in tx[s].ids}
       IN  (\A p \in P : ~Deleting(p)) /\ pairs' = pairs \union P
    /\ tx' = [tx EXCEPT ![s] = Idle]
    /\ UNCHANGED <<statusVars, purgeVars, waitVars>>

\* index_for_concurrency_control: one implicit transaction per pair.
IndexPair(i, k) ==
    /\ record[i] # Absent /\ k \in IndexKeysOf(i)
    /\ ~Deleting(<<i, k>>)
    /\ pairs' = pairs \union {<<i, k>>}
    /\ UNCHANGED <<statusVars, purgeVars, waitVars, tx>>

RemoveFromConcurrencyIndex(i) ==
    /\ PairsOfAll({i}) # {}
    /\ pairs' = pairs \ PairsOfAll({i})
    /\ UNCHANGED <<statusVars, purgeVars, waitVars, tx>>

-----------------------------------------------------------------------------
(* blocking.rs                                                             *)

Unwaiting(e) == \E s \in Sessions : e \in tx[s].waits

SetWaitingFor(w, i) ==
    /\ record[w] # Absent /\ record[i] # Absent /\ w # i
    /\ ~Unwaiting(<<w, i>>)
    /\ waits' = waits \union {<<w, i>>}
    /\ UNCHANGED <<statusVars, purgeVars, pairs, released, tx>>

Waiters(i) == {w \in Invocations : <<w, i>> \in waits}

\* DELETE ... RETURNING waiter_id.
Returned(i) == Waiters(i)

ReleaseWaiters(i) ==
    /\ Waiters(i) # {}
    /\ \A w \in Waiters(i) : ~Unwaiting(<<w, i>>)
    /\ released' = Returned(i) \X {i}
    /\ waits' = {e \in waits : e[2] # i}
    /\ UNCHANGED <<statusVars, purgeVars, pairs, tx>>

-----------------------------------------------------------------------------
(* query.rs, and check_running_concurrency                                 *)

ByTask(t) == {i \in Invocations : inv[i] # NoRecord /\ TaskOf(i) = t}
ByStatus(t, S) == {i \in ByTask(t) : inv[i] \in S}
Counted(t, S) == {i \in ByTask(t) : record[i].status \in S}
Paginated(t, S) == {i \in ByTask(t) : inv[i] \in S}
Existing(like, S) == {i \in Members(like) : inv[i] \in S}
CheckRunning(like) == Cardinality(Existing(like, {"Pending", "Running"})) < Limit
Blocking ==
    {i \in Invocations : /\ Waiters(i) # {}
                         /\ ~ \E x \in Invocations : <<i, x>> \in waits
                         /\ record[i].status \in {"Registered", "Pending", "Running"}}

-----------------------------------------------------------------------------

StatusOps ==
    \/ \E i \in use.ids, r \in use.owners :
          \/ \E cc \in {FALSE, "index" \in use.ops} : "submit" \in use.ops /\ r # NoRunner /\ Submit(i, r, cc)
          \/ "register" \in use.ops /\ RegisterInvocation(i, r)
          \/ \E st \in Statuses : "status" \in use.ops /\ SetInvocationStatus(i, st, r)
    \/ \E i \in use.ids : "retry" \in use.ops /\ IncrementRetries(i)

CleanOps ==
    \/ \E i \in use.ids :
          \/ "remove" \in use.ops /\ \E s \in use.callers : RemoveStart(s, i)
          \/ "schedule" \in use.ops /\ (ScheduleAutoPurge(i) \/ \E s \in use.callers : AutoPurgeRemove(s, i))
    \/ "schedule" \in use.ops /\ AutoPurgeTake
    \/ "purge" \in use.ops /\ \E s \in use.callers : PurgeStart(s)
    \/ \E s \in use.callers : DeletionCommit(s)

SlotOps ==
    \/ \E i \in use.ids :
          \/ "slots" \in use.ops /\ (RemoveFromConcurrencyIndex(i) \/ \E s \in use.callers : AcquireStart(s, i))
          \/ "index" \in use.ops /\ \E k \in IndexKeys : IndexPair(i, k)
    \/ \E s \in use.callers : AcquireCommit(s)

WaitOps ==
    \E i \in use.ids :
       "waits" \in use.ops /\ (ReleaseWaiters(i) \/ \E w \in use.ids : SetWaitingFor(w, i))

Next == UNCHANGED use /\ (StatusOps \/ CleanOps \/ SlotOps \/ WaitOps)

Spec == Init /\ [][Next]_vars

-----------------------------------------------------------------------------

slots == {i \in Invocations : \A k \in IndexKeysOf(i) : <<i, k>> \in pairs}

\* Every query answers the same, whichever of the two copies of the status it
\* reads (rustvello-postgres/src/orchestrator/query.rs).
QueriesAgree ==
    /\ \A t \in Tasks : /\ ByTask(t) = OfTask(record, t)
                      /\ \A S \in StatusFilters : /\ ByStatus(t, S) = OfStatus(record, t, S)
                                                  /\ Counted(t, S) = OfStatus(record, t, S)
                                                  /\ Paginated(t, S) = OfStatus(record, t, S)
    /\ \A i \in Invocations : /\ \A S \in StatusFilters : Existing(i, S) = OfKey(record, slots, i, S)
                             /\ CheckRunning(i) = RunningAuthorized(record, slots, i)

\* A submission that is repeated after the invocation was removed is refused.
TombstoneHolds ==
    \A i \in Invocations : record[i] = Absent /\ i \in history => record'[i] = Absent
=============================================================================
