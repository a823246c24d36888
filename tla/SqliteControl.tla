---------------------------- MODULE SqliteControl ----------------------------
(***************************************************************************)
(* The SQLite control backend.  The status of an invocation is stored      *)
(* twice, in `invocations` and in `status_records`, and queries read the   *)
(* one or the other.  Removal leaves a tombstone in                        *)
(* `submission_publications`, so that a repeated submission of the same id *)
(* cannot bring the invocation back.  run_auto_purge commits the deletion  *)
(* of its schedule before it removes anything.                             *)
(***************************************************************************)
EXTENDS ControlData

CONSTANTS
    Uses,         \* the uses of the port that behaviours make
    MaxCrashes    \* bound: crashes of the process that auto-purges

VARIABLES
    use,          \* the use that is made of the port
    inv,          \* invocations: status by id, or NoRecord
    record,       \* status_records
    publication,  \* submission_publications: "none", "identity" or "removed"
    history,      \* ids with an entry in history: never deleted here
    pairs,        \* cc_arg_pairs
    waits,        \* waiting_for
    retried,      \* ids with a row in retries
    due,          \* auto_purge_schedule
    expired,      \* local to run_auto_purge: ids to remove
    crashes,
    released      \* last answer of release_waiters

purgeVars == <<due, expired, crashes>>
statusVars == <<inv, record, publication, history, retried>>
waitVars == <<waits, released>>
vars == <<use, statusVars, purgeVars, pairs, waitVars>>

Init ==
    /\ use \in Uses
    /\ inv = [i \in Invocations |-> NoRecord]
    /\ record = [i \in Invocations |-> Absent]
    /\ publication = [i \in Invocations |-> "none"]
    /\ history = {} /\ retried = {} /\ pairs = {} /\ waits = {}
    /\ due = {} /\ expired = {} /\ crashes = 0
    /\ released = {}

-----------------------------------------------------------------------------
(* publication.rs and status.rs                                            *)

\* Mutant: the tombstone is taken for a free id.
TombstoneIgnored(i) ==
    IF publication[i] = "identity" THEN "known" ELSE "accepted"

\* What submit answers.  A known id is compared with the first content, which
\* is the same here.
SubmitAnswer(i) ==
    CASE publication[i] = "removed" -> "refused"
      [] publication[i] = "identity" -> "known"
      [] inv[i] # NoRecord \/ i \in history -> "refused"
      [] OTHER -> "accepted"

PairsOf(i) == {i} \X IndexKeysOf(i)

\* `cc`: with cc_arguments, the submission also indexes the invocation.  A
\* submission that is refused or already known changes nothing.
Submit(i, runner, cc) ==
    /\ SubmitAnswer(i) = "accepted"
    /\ inv' = [inv EXCEPT ![i] = "Registered"]
    /\ record' = [record EXCEPT ![i] = Registered(runner)]
    /\ publication' = [publication EXCEPT ![i] = "identity"]
    /\ history' = history \union {i}
    /\ pairs' = IF cc THEN pairs \union PairsOf(i) ELSE pairs
    /\ UNCHANGED <<retried, purgeVars, waitVars>>

\* INSERT OR IGNORE into the one table, INSERT OR REPLACE into the other.
RegisterInvocation(i, runner) ==
    /\ "again" \in use.ops \/ (inv[i] = NoRecord /\ publication[i] = "none")
    /\ inv' = [inv EXCEPT ![i] = IF @ = NoRecord THEN "Registered" ELSE @]
    /\ record' = [record EXCEPT ![i] = Registered(runner)]
    /\ UNCHANGED <<publication, history, retried, purgeVars, pairs, waitVars>>

IncrementRetries(i) ==
    /\ record[i] # Absent
    /\ retried' = retried \union {i}
    /\ UNCHANGED <<inv, record, publication, history, purgeVars, pairs, waitVars>>

\* Mutant: only status_records is written.
OneCopy(i, status) == inv

BothCopies(i, status) == [inv EXCEPT ![i] = status]

Permitted(i, status, runner) == CanTransition(record[i], status, runner)

SetInvocationStatus(i, status, runner) ==
    /\ record[i] # Absent
    /\ Permitted(i, status, runner)
    /\ record' = [record EXCEPT ![i] = Transitioned(record[i], status, runner)]
    /\ inv' = BothCopies(i, status)
    /\ UNCHANGED <<publication, history, retried, purgeVars, pairs, waitVars>>

WaitsOf(i) == {e \in waits : i \in {e[1], e[2]}}


Unscheduled(i) == due \ {i}

\* One transaction removes all rows of the id and writes the tombstone.
Removed(i) ==
    /\ publication' = [publication EXCEPT ![i] = IF inv[i] = NoRecord THEN @ ELSE "removed"]
    /\ inv' = [inv EXCEPT ![i] = NoRecord]
    /\ record' = [record EXCEPT ![i] = Absent]
    /\ pairs' = {p \in pairs : p[1] # i}
    /\ waits' = waits \ WaitsOf(i)
    /\ retried' = retried \ {i}
    /\ due' = Unscheduled(i)
    /\ UNCHANGED <<history, released>>

RemoveInvocation(i) ==
    /\ inv[i] # NoRecord
    /\ Removed(i)
    /\ UNCHANGED <<expired, crashes>>

Purge ==
    /\ publication' = [i \in Invocations |->
                         IF publication[i] = "none" /\ inv[i] = NoRecord THEN "none" ELSE "removed"]
    /\ inv' = [i \in Invocations |-> NoRecord]
    /\ record' = [i \in Invocations |-> Absent]
    /\ pairs' = {} /\ waits' = {} /\ retried' = {} /\ due' = {}
    /\ UNCHANGED <<history, released, expired, crashes>>

\* Callers schedule what they have just made final.
ScheduleAutoPurge(i) ==
    /\ record[i].status \in Final
    /\ due' = due \union {i}
    /\ UNCHANGED <<statusVars, expired, crashes, pairs, waitVars>>

Expiring == due

\* run_auto_purge: one transaction takes the expired rows, then each
\* invocation is removed in a transaction of its own.  The process may end in
\* between.
AutoPurgeTake ==
    /\ expired = {} /\ due # {}
    /\ expired' = Expiring
    /\ due' = {}
    /\ UNCHANGED <<statusVars, crashes, pairs, waitVars>>

AutoPurgeRemove(i) ==
    /\ i \in expired
    /\ expired' = expired \ {i}
    /\ Removed(i)
    /\ UNCHANGED crashes

Crash ==
    /\ "crash" \in use.ops /\ crashes < MaxCrashes
    /\ expired # {}
    /\ crashes' = crashes + 1
    /\ expired' = {}
    /\ UNCHANGED <<statusVars, due, pairs, waitVars>>

-----------------------------------------------------------------------------
(* concurrency.rs                                                          *)

\* GROUP BY ... HAVING COUNT(*) = number of pairs.
Members(i) == {j \in Invocations : \A k \in IndexKeysOf(i) : <<j, k>> \in pairs}

\* Mutant: one too many.
BelowOrAtLimit(i) == Cardinality(Members(i) \ {i}) <= Limit

BelowLimit(i) == Cardinality(Members(i) \ {i}) < Limit

TryAcquireSlot(i) ==
    /\ record[i] # Absent
    /\ BelowLimit(i)
    /\ pairs' = pairs \union PairsOf(i)
    /\ UNCHANGED <<statusVars, purgeVars, waitVars>>

\* index_for_concurrency_control commits each pair by itself.
IndexPair(i, k) ==
    /\ record[i] # Absent /\ k \in IndexKeysOf(i)
    /\ pairs' = pairs \union {<<i, k>>}
    /\ UNCHANGED <<statusVars, purgeVars, waitVars>>

RemoveFromConcurrencyIndex(i) ==
    /\ \E p \in pairs : p[1] = i
    /\ pairs' = {p \in pairs : p[1] # i}
    /\ UNCHANGED <<statusVars, purgeVars, waitVars>>

-----------------------------------------------------------------------------
(* blocking.rs                                                             *)

SetWaitingFor(w, i) ==
    /\ record[w] # Absent /\ record[i] # Absent /\ w # i
    /\ waits' = waits \union {<<w, i>>}
    /\ UNCHANGED <<statusVars, purgeVars, pairs, released>>

Waiters(i) == {w \in Invocations : <<w, i>> \in waits}

WaitsAfter(i) == {e \in waits : e[2] # i}

ReleaseWaiters(i) ==
    /\ Waiters(i) # {}
    /\ released' = Waiters(i) \X {i}
    /\ waits' = WaitsAfter(i)
    /\ UNCHANGED <<statusVars, purgeVars, pairs>>

-----------------------------------------------------------------------------
(* query.rs, and check_running_concurrency                                 *)

ByTask(t) == {i \in Invocations : inv[i] # NoRecord /\ TaskOf(i) = t}
ByStatus(t, S) == {i \in ByTask(t) : inv[i] \in S}
Counted(t, S) == {i \in ByTask(t) : record[i].status \in S}
Existing(like, S) == {i \in Members(like) : inv[i] \in S}
CheckRunning(like) == Cardinality(Existing(like, {"Pending", "Running"})) < Limit
Blocking ==
    {i \in Invocations : /\ Waiters(i) # {}
                         /\ ~ \E x \in Invocations : <<i, x>> \in waits
                         /\ record[i].status \in {"Registered", "Pending", "Running"}}

-----------------------------------------------------------------------------

StatusOps ==
    \/ \E i \in use.ids, r \in use.owners :
          \/ \E cc \in {FALSE, "index" \in use.ops} : "submit" \in use.ops /\ r # NoRunner /\ Submit(i, r, cc)
          \/ "register" \in use.ops /\ RegisterInvocation(i, r)
          \/ \E s \in Statuses : "status" \in use.ops /\ SetInvocationStatus(i, s, r)
    \/ \E i \in use.ids : "retry" \in use.ops /\ IncrementRetries(i)

CleanOps ==
    \/ \E i \in use.ids :
          \/ "remove" \in use.ops /\ RemoveInvocation(i)
          \/ "schedule" \in use.ops /\ (ScheduleAutoPurge(i) \/ AutoPurgeRemove(i))
    \/ "schedule" \in use.ops /\ (AutoPurgeTake \/ Crash)
    \/ "purge" \in use.ops /\ Purge

SlotOps ==
    \E i \in use.ids :
       \/ "slots" \in use.ops /\ (TryAcquireSlot(i) \/ RemoveFromConcurrencyIndex(i))
       \/ "index" \in use.ops /\ \E k \in IndexKeys : IndexPair(i, k)

WaitOps ==
    \E i \in use.ids :
       "waits" \in use.ops /\ (ReleaseWaiters(i) \/ \E w \in use.ids : SetWaitingFor(w, i))

Next == UNCHANGED use /\ (StatusOps \/ CleanOps \/ SlotOps \/ WaitOps)

Spec == Init /\ [][Next]_vars

\* A call of run_auto_purge goes on with what it has started unless its process
\* ends.  Whether it is ever called is left to the host.
PurgeStep == UNCHANGED use /\ \E i \in Invocations : AutoPurgeRemove(i)

FairSpec == Spec /\ WF_vars(PurgeStep)

-----------------------------------------------------------------------------

slots == {i \in Invocations : \A k \in IndexKeysOf(i) : <<i, k>> \in pairs}

\* Every query answers the same, whichever of the two copies of the status it
\* reads (rustvello-sqlite/src/orchestrator/query.rs).
QueriesAgree ==
    /\ \A t \in Tasks : /\ ByTask(t) = OfTask(record, t)
                      /\ \A S \in StatusFilters : /\ ByStatus(t, S) = OfStatus(record, t, S)
                                                  /\ Counted(t, S) = OfStatus(record, t, S)
    /\ \A i \in Invocations : /\ \A S \in StatusFilters : Existing(i, S) = OfKey(record, slots, i, S)
                             /\ CheckRunning(i) = RunningAuthorized(record, slots, i)

\* What get_blocking_invocations returns is available for run
\* (rustvello-core/src/orchestrator.rs, get_blocking_invocations).
BlockingIsAvailable ==
    \A i \in Blocking : record[i].status \in AvailableForRun

\* A submission that is repeated after the invocation was removed or purged is
\* refused and does not run the work a second time (publication.rs, submit).
TombstoneHolds ==
    \A i \in Invocations : record[i] = Absent /\ i \in history => record'[i] = Absent

=============================================================================
