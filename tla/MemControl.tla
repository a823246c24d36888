----------------------------- MODULE MemControl ------------------------------
(***************************************************************************)
(* The in-memory control backend.  One mutex guards the whole state, so an *)
(* operation is one step, except run_auto_purge, which takes the mutex     *)
(* again for each part.  Several maps describe the same fact: pair index   *)
(* and its reverse, waiter and waited-for map, task index and records.     *)
(***************************************************************************)
EXTENDS ControlData

CONSTANTS
    Uses          \* the uses of the port that behaviours make

VARIABLES
    use,          \* the use that is made of the port
    record,       \* status_records (and the status in invocations)
    listed,       \* ids in task_invocations and call_invocations
    index,        \* cc_index
    reverse,      \* cc_reverse
    waitingFor,   \* waiting_for: one entry per waiter
    waiters,      \* waiters
    retried,      \* ids with an entry in retries
    due,          \* auto_purge_queue
    expired,      \* local to run_auto_purge: ids it found expired
    dequeued,     \* local to run_auto_purge: whether it has emptied the queue
    released,     \* last answer of release_waiters
    history       \* ids registered so far

purgeVars == <<due, expired, dequeued>>
statusVars == <<record, listed, retried, history>>
slotVars == <<index, reverse>>
waitVars == <<waitingFor, waiters, released>>
vars == <<use, statusVars, purgeVars, slotVars, waitVars>>

Nobody == {}

Init ==
    /\ use \in Uses
    /\ record = [i \in Invocations |-> Absent]
    /\ listed = {} /\ retried = {} /\ history = {}
    /\ due = {} /\ expired = {} /\ dequeued = FALSE
    /\ index = [k \in IndexKeys |-> {}]
    /\ reverse = [i \in Invocations |-> {}]
    /\ waitingFor = [i \in Invocations |-> Nobody]
    /\ waiters = [i \in Invocations |-> {}]
    /\ released = {}

-----------------------------------------------------------------------------
(* status.rs                                                               *)

\* An id that is known is overwritten.
RegisterInvocation(i, runner) ==
    /\ "again" \in use.ops \/ i \notin history
    /\ record' = [record EXCEPT ![i] = Registered(runner)]
    /\ listed' = listed \union {i}
    /\ history' = history \union {i}
    /\ UNCHANGED <<retried, purgeVars, slotVars, waitVars>>

IncrementRetries(i) ==
    /\ record[i] # Absent
    /\ retried' = retried \union {i}
    /\ UNCHANGED <<record, listed, history, purgeVars, slotVars, waitVars>>

\* Mutant: the reverse entry is dropped, the index entries stay.
UnindexReverseOnly(i) ==
    /\ reverse' = [reverse EXCEPT ![i] = {}]
    /\ UNCHANGED index

\* The pruning shared by removal, terminal statuses and release of a slot.
Unindex(i) ==
    /\ reverse' = [reverse EXCEPT ![i] = {}]
    /\ index' = [k \in IndexKeys |-> IF k \in reverse[i] THEN index[k] \ {i} ELSE index[k]]

\* Mutant: ownership is not asked for.
AnyOwner(i, status, runner) ==
    record[i] # Absent /\ ValidTransition(record[i], status)

MayChange(i, status, runner) ==
    record[i] # Absent /\ CanTransition(record[i], status, runner)

SetInvocationStatus(i, status, runner) ==
    /\ MayChange(i, status, runner)
    /\ record' = [record EXCEPT ![i] = Transitioned(record[i], status, runner)]
    /\ IF status \in Final THEN Unindex(i) ELSE UNCHANGED slotVars
    /\ UNCHANGED <<listed, retried, history, purgeVars, waitVars>>

Removed(i) ==
    /\ record' = [record EXCEPT ![i] = Absent]
    /\ listed' = listed \ {i}
    /\ retried' = retried \ {i}
    /\ Unindex(i)
    /\ waitingFor' = [waitingFor EXCEPT ![i] = Nobody]
    /\ waiters' = [waiters EXCEPT ![i] = {}]
    /\ UNCHANGED <<released, history>>

RemoveInvocation(i) ==
    /\ record[i] # Absent
    /\ Removed(i)
    /\ UNCHANGED purgeVars

\* Heartbeats and the timeline are kept on purpose.
Purge ==
    /\ record' = [i \in Invocations |-> Absent]
    /\ listed' = {} /\ retried' = {} /\ due' = {}
    /\ index' = [k \in IndexKeys |-> {}]
    /\ reverse' = [i \in Invocations |-> {}]
    /\ waitingFor' = [i \in Invocations |-> Nobody]
    /\ waiters' = [i \in Invocations |-> {}]
    /\ UNCHANGED <<expired, dequeued, released, history>>

\* The caller schedules what it has just made final.
MayExpire(i) == record[i].status \in Final

ScheduleAutoPurge(i) ==
    /\ MayExpire(i)
    /\ due' = due \union {i}
    /\ UNCHANGED <<statusVars, expired, dequeued, slotVars, waitVars>>

\* run_auto_purge takes the mutex to find the expired entries, again to take
\* them off the queue, and once more for each invocation it removes.
AutoPurgeFind ==
    /\ expired = {}
    /\ expired' \in SUBSET due \ {{}}
    /\ dequeued' = FALSE
    /\ UNCHANGED <<due, statusVars, slotVars, waitVars>>

AutoPurgeDequeue ==
    /\ expired # {} /\ ~dequeued
    /\ due' = due \ expired
    /\ dequeued' = TRUE
    /\ UNCHANGED <<expired, statusVars, slotVars, waitVars>>

AutoPurgeRemove(i) ==
    /\ dequeued /\ i \in expired
    /\ expired' = expired \ {i}
    /\ Removed(i)
    /\ UNCHANGED <<due, dequeued>>

-----------------------------------------------------------------------------
(* concurrency.rs                                                          *)

Members(i) == {j \in Invocations : \A k \in IndexKeysOf(i) : j \in index[k]}

Index(i) ==
    /\ index' = [k \in IndexKeys |-> IF k \in IndexKeysOf(i) THEN index[k] \union {i} ELSE index[k]]
    /\ reverse' = [reverse EXCEPT ![i] = @ \union IndexKeysOf(i)]

\* Entries of others count whatever their status, the own entry does not.
BelowLimit(i) == Cardinality(Members(i) \ {i}) < Limit

TryAcquireSlot(i) ==
    /\ record[i] # Absent
    /\ BelowLimit(i)
    /\ Index(i)
    /\ UNCHANGED <<statusVars, purgeVars, waitVars>>

IndexForConcurrencyControl(i) ==
    /\ record[i] # Absent
    /\ Index(i)
    /\ UNCHANGED <<statusVars, purgeVars, waitVars>>

RemoveFromConcurrencyIndex(i) ==
    /\ reverse[i] # {}
    /\ Unindex(i)
    /\ UNCHANGED <<statusVars, purgeVars, waitVars>>

-----------------------------------------------------------------------------
(* blocking.rs                                                             *)

\* Mutant: the set of waiters is replaced.
WaiterReplaces(w, i) == [waiters EXCEPT ![i] = {w}]

WithWaiter(w, i) == [waiters EXCEPT ![i] = @ \union {w}]

\* A waiter has one entry, the last one it set.
SetWaitingFor(w, i) ==
    /\ record[w] # Absent /\ record[i] # Absent /\ w # i
    /\ waitingFor' = [waitingFor EXCEPT ![w] = {i}]
    /\ waiters' = WithWaiter(w, i)
    /\ UNCHANGED <<statusVars, purgeVars, slotVars, released>>

Told(i) == waiters[i]

ReleaseWaiters(i) ==
    /\ waiters[i] # {}
    /\ waiters' = [waiters EXCEPT ![i] = {}]
    /\ waitingFor' = [w \in Invocations |-> IF w \in waiters[i] THEN Nobody ELSE waitingFor[w]]
    /\ released' = Told(i) \X {i}
    /\ UNCHANGED <<statusVars, purgeVars, slotVars>>

-----------------------------------------------------------------------------
(* query.rs, and check_running_concurrency                                 *)

\* by task (and by call), by status with count and pages, by key
ByTask(t) == {i \in listed : TaskOf(i) = t}
ByStatus(t, S) == {i \in Known(record) : record[i].status \in S /\ i \in ByTask(t)}
Existing(like, S) == {i \in Members(like) : record[i].status \in S}
CheckRunning(like) == Cardinality(Existing(like, {"Pending", "Running"})) < Limit
Blocking ==
    {i \in Invocations : waiters[i] # {} /\ waitingFor[i] = Nobody /\ record[i].status \in AvailableForRun}

-----------------------------------------------------------------------------

StatusOps ==
    \/ \E i \in use.ids, r \in use.owners :
          \/ "register" \in use.ops /\ RegisterInvocation(i, r)
          \/ \E s \in Statuses : "status" \in use.ops /\ SetInvocationStatus(i, s, r)
    \/ \E i \in use.ids : "retry" \in use.ops /\ IncrementRetries(i)

CleanOps ==
    \/ \E i \in use.ids :
          \/ "remove" \in use.ops /\ RemoveInvocation(i)
          \/ "schedule" \in use.ops /\ (ScheduleAutoPurge(i) \/ AutoPurgeRemove(i))
    \/ "schedule" \in use.ops /\ (AutoPurgeFind \/ AutoPurgeDequeue)
    \/ "purge" \in use.ops /\ Purge

SlotOps ==
    \E i \in use.ids :
       \/ "slots" \in use.ops /\ (TryAcquireSlot(i) \/ RemoveFromConcurrencyIndex(i))
       \/ "index" \in use.ops /\ IndexForConcurrencyControl(i)

WaitOps ==
    \E i \in use.ids :
       "waits" \in use.ops /\ (ReleaseWaiters(i) \/ \E w \in use.ids : SetWaitingFor(w, i))

Next == UNCHANGED use /\ (StatusOps \/ CleanOps \/ SlotOps \/ WaitOps)

Spec == Init /\ [][Next]_vars

-----------------------------------------------------------------------------

\* Invocations with all their pairs in the index hold a slot.
slots == {i \in Invocations : \A k \in IndexKeysOf(i) : i \in index[k]}
waits == {e \in Invocations \X Invocations : e[1] \in waiters[e[2]]}

\* Every query answers from its own map what the status records, the slots and
\* the tasks of the invocations say (rustvello-mem/src/orchestrator/query.rs).
QueriesAgree ==
    /\ \A t \in Tasks : /\ ByTask(t) = OfTask(record, t)
                      /\ \A S \in StatusFilters : ByStatus(t, S) = OfStatus(record, t, S)
    /\ \A i \in Invocations : /\ \A S \in StatusFilters : Existing(i, S) = OfKey(record, slots, i, S)
                             /\ CheckRunning(i) = RunningAuthorized(record, slots, i)

\* cc_index and cc_reverse are each other's mirror.  An entry that only one of
\* them has would hold a slot that no release finds.
ReverseMirrorsIndex ==
    \A i \in Invocations, k \in IndexKeys : k \in reverse[i] <=> i \in index[k]


\* Who is recorded as waiting for an invocation that exists is woken when it is
\* released (blocking.rs).
WaitersAreWoken ==
    \A w, i \in Invocations :
        waitingFor[w] = {i} /\ record[i] # Absent => w \in waiters[i]
=============================================================================
