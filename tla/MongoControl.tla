---------------------------- MODULE MongoControl -----------------------------
(***************************************************************************)
(* The MongoDB control backend.  Only the update of one document is        *)
(* atomic.  A status change compares the status name it has read; a slot   *)
(* is taken under a lock document with a lease of five seconds.            *)
(***************************************************************************)
EXTENDS ControlData

CONSTANTS
    Callers,      \* all users of the port
    Uses,         \* the uses of the port that behaviours make
    NoCall,       \* model value: nothing in progress; also: nobody has the lock
    MaxCrashes    \* bound: callers that die inside an operation

VARIABLES
    use,          \* the use that is made of the port
    record,       \* orch_status: status, runner, task and call of each id
    index,      \* orch_cc: invocations by pair
    lock,         \* the lock document in orch_cc: owner, or free
    lapsed,       \* whether a lease has ended before its owner was done
    waiters,      \* orch_waiters
    retried,      \* ids in orch_retries
    due,          \* ids in the auto-purge collection
    released,     \* last answer of release_waiters
    crashes,
    call          \* operation in progress of each caller

data == <<record, index, lock, lapsed, waiters, retried, due, released, crashes>>
vars == <<use, data, call>>

\* `keys` are the pairs still to be read or indexed, `found` the intersection
\* so far, `todo` what else run_auto_purge has to remove or what a release has
\* read.
Doing(at, i) == [at |-> at, id |-> i, keys |-> {}, found |-> {}, todo |-> {},
                 read |-> Absent, status |-> NoRecord, runner |-> NoRunner]

Init ==
    /\ use \in Uses
    /\ record = [i \in Invocations |-> Absent]
    /\ index = [k \in IndexKeys |-> {}]
    /\ waiters = [i \in Invocations |-> {}]
    /\ retried = {} /\ due = {} /\ released = {} /\ crashes = 0
    /\ lock = NoCall /\ lapsed = FALSE
    /\ call = [c \in Callers |-> NoCall]

Ready(c) == call[c] = NoCall
At(c, place) == call[c] # NoCall /\ call[c].at = place
Proceed(c, next) == call' = [call EXCEPT ![c] = next]
Return(c) == Proceed(c, NoCall)

-----------------------------------------------------------------------------
(* status.rs                                                               *)

\* The duplicate key error of a known id is ignored.
RegisterInvocation(c, i, runner) ==
    /\ Ready(c) /\ record[i] = Absent
    /\ record' = [record EXCEPT ![i] = Registered(runner)]
    /\ UNCHANGED <<index, lock, lapsed, waiters, retried, due, released, crashes, call>>

IncrementRetries(c, i) ==
    /\ Ready(c) /\ record[i] # Absent
    /\ retried' = retried \union {i}
    /\ UNCHANGED <<record, index, lock, lapsed, waiters, due, released, crashes, call>>

StatusRead(c, i, status, runner) ==
    /\ Ready(c)
    /\ record[i] # Absent /\ CanTransition(record[i], status, runner)
    /\ Proceed(c, [Doing("cas", i) EXCEPT !.read = record[i], !.status = status, !.runner = runner])
    /\ UNCHANGED data

\* The filter names the document and the status that was read.
SameStatusName(c) == record[call[c].id].status = call[c].read.status

\* A filter that matches nothing is a conflict, and an error.
StatusUpdate(c) ==
    /\ At(c, "cas")
    /\ IF SameStatusName(c)
         THEN record' = [record EXCEPT ![call[c].id] =
                            Transitioned(call[c].read, call[c].status, call[c].runner)]
         ELSE record' = record
    /\ Return(c)
    /\ UNCHANGED <<index, lock, lapsed, waiters, retried, due, released, crashes>>

\* remove_invocation: status, concurrency index, waiters, retries.
RemoveStatus(c, i) ==
    /\ \/ Ready(c) /\ record[i] # Absent /\ "remove" \in use.ops
       \/ At(c, "remove") /\ call[c].id = i
    /\ record' = [record EXCEPT ![i] = Absent]
    /\ Proceed(c, [Doing("pull", i) EXCEPT !.keys = IndexKeysOf(i),
                                           !.todo = IF Ready(c) THEN {} ELSE call[c].todo])
    /\ UNCHANGED <<index, lock, lapsed, waiters, retried, due, released, crashes>>

\* update_many pulls the id from document after document.
PullPair(c, k) ==
    /\ At(c, "pull") \/ At(c, "unindex")
    /\ k \in call[c].keys
    /\ index' = [index EXCEPT ![k] = @ \ {call[c].id}]
    /\ CASE call[c].keys # {k} -> Proceed(c, [call[c] EXCEPT !.keys = @ \ {k}])
         [] call[c].keys = {k} /\ At(c, "pull") ->
              Proceed(c, [call[c] EXCEPT !.keys = {}, !.at = "waiters"])
         [] OTHER -> Return(c)
    /\ UNCHANGED <<record, lock, lapsed, waiters, retried, due, released, crashes>>

RemoveWaiters(c) ==
    /\ At(c, "waiters")
    /\ waiters' = [waiters EXCEPT ![call[c].id] = {}]
    /\ Proceed(c, [call[c] EXCEPT !.at = "retries"])
    /\ UNCHANGED <<record, index, lock, lapsed, retried, due, released, crashes>>

RemoveRetries(c) ==
    /\ At(c, "retries")
    /\ retried' = retried \ {call[c].id}
    /\ IF call[c].todo = {} THEN Return(c) ELSE Proceed(c, [call[c] EXCEPT !.at = "autopurge"])
    /\ UNCHANGED <<record, index, lock, lapsed, waiters, due, released, crashes>>

InSection(c) == At(c, "count") \/ At(c, "take") \/ At(c, "unlock")

\* Nothing in the section asks whether the lock is still there.
LoseLock ==
    /\ lock' = NoCall
    /\ lapsed' = (lapsed \/ (lock # NoCall /\ InSection(lock)))

\* purge empties collection by collection; the lock document is in orch_cc.
PurgeStart(c) ==
    /\ Ready(c)
    /\ record' = [i \in Invocations |-> Absent]
    /\ Proceed(c, Doing("purge1", CHOOSE i \in Invocations : TRUE))
    /\ UNCHANGED <<index, lock, lapsed, waiters, retried, due, released, crashes>>

PurgeWaiters(c) ==
    /\ At(c, "purge1")
    /\ waiters' = [i \in Invocations |-> {}]
    /\ Proceed(c, [call[c] EXCEPT !.at = "purge2"])
    /\ UNCHANGED <<record, index, lock, lapsed, retried, due, released, crashes>>

PurgeIndex(c) ==
    /\ At(c, "purge2")
    /\ index' = [k \in IndexKeys |-> {}]
    /\ LoseLock
    /\ Proceed(c, [call[c] EXCEPT !.at = "purge3"])
    /\ UNCHANGED <<record, waiters, retried, due, released, crashes>>

PurgeRest(c) ==
    /\ At(c, "purge3")
    /\ retried' = {} /\ due' = {}
    /\ Return(c)
    /\ UNCHANGED <<record, index, lock, lapsed, waiters, released, crashes>>

\* Callers schedule what they have just made final.
ScheduleAutoPurge(c, i) ==
    /\ Ready(c) /\ record[i].status \in Final
    /\ due' = due \union {i}
    /\ UNCHANGED <<record, index, lock, lapsed, waiters, retried, released, crashes, call>>

AutoPurgeFind(c) ==
    /\ Ready(c) /\ due # {}
    /\ Proceed(c, [Doing("autopurge", CHOOSE i \in due : TRUE) EXCEPT !.todo = due])
    /\ UNCHANGED data

AutoPurgeNext(c, i) ==
    /\ At(c, "autopurge") /\ i \in call[c].todo
    /\ due' = due \ {i}
    /\ Proceed(c, [Doing("remove", i) EXCEPT !.todo = call[c].todo \ {i}])
    /\ UNCHANGED <<record, index, lock, lapsed, waiters, retried, released, crashes>>

-----------------------------------------------------------------------------
(* concurrency.rs                                                          *)

\* The upsert matches a lock document without owner or with an ended lease.
LockFree(c) == lock = NoCall

\* try_acquire_concurrency_slot: lock, read the pairs, decide, index the
\* pairs, unlock.  Waiting for the lock changes nothing.
LockTake(c, i) ==
    /\ Ready(c) /\ record[i] # Absent
    /\ LockFree(c)
    /\ lock' = c
    /\ Proceed(c, [Doing("count", i) EXCEPT !.keys = IndexKeysOf(i), !.found = Invocations])
    /\ UNCHANGED <<record, index, lapsed, waiters, retried, due, released, crashes>>

\* The pairs come in the order of the names of the arguments.
IsFirst(k, K) == k \in K /\ (k[2] = "a1" \/ \A j \in K : j[2] # "a1")

CountPair(c, k) ==
    /\ At(c, "count") /\ IsFirst(k, call[c].keys)
    /\ Proceed(c, [call[c] EXCEPT !.keys = @ \ {k}, !.found = @ \intersect index[k]])
    /\ UNCHANGED data

BelowLimit(c) == Cardinality(call[c].found \ {call[c].id}) < Limit

Decide(c) ==
    /\ At(c, "count")
    /\ call[c].keys = {} \/ call[c].found = {}
    /\ IF BelowLimit(c)
         THEN Proceed(c, [Doing("take", call[c].id) EXCEPT !.keys = IndexKeysOf(call[c].id)])
         ELSE Proceed(c, Doing("unlock", call[c].id))
    /\ UNCHANGED data

\* index_for_concurrency_control, also on its own.
IndexStart(c, i) ==
    /\ Ready(c) /\ record[i] # Absent
    /\ Proceed(c, [Doing("index", i) EXCEPT !.keys = IndexKeysOf(i)])
    /\ UNCHANGED data

IndexPair(c, k) ==
    /\ At(c, "take") \/ At(c, "index")
    /\ IsFirst(k, call[c].keys)
    /\ index' = [index EXCEPT ![k] = @ \union {call[c].id}]
    /\ CASE call[c].keys # {k} -> Proceed(c, [call[c] EXCEPT !.keys = @ \ {k}])
         [] call[c].keys = {k} /\ At(c, "take") -> Proceed(c, Doing("unlock", call[c].id))
         [] OTHER -> Return(c)
    /\ UNCHANGED <<record, lock, lapsed, waiters, retried, due, released, crashes>>

\* The filter names the owner.
Unlocked(c) == IF lock = c THEN NoCall ELSE lock

LockRelease(c) ==
    /\ At(c, "unlock")
    /\ lock' = Unlocked(c)
    /\ Return(c)
    /\ UNCHANGED <<record, index, lapsed, waiters, retried, due, released, crashes>>


\* The lease of the lock ends, also under an owner that is not done.
LockExpire ==
    /\ lock # NoCall
    /\ LoseLock
    /\ UNCHANGED <<record, index, waiters, retried, due, released, crashes, call>>

RemoveFromConcurrencyIndex(c, i) ==
    /\ Ready(c)
    /\ \E k \in IndexKeys : i \in index[k]
    /\ Proceed(c, [Doing("unindex", i) EXCEPT !.keys = IndexKeysOf(i)])
    /\ UNCHANGED data

\* The process of a caller dies inside an operation.
Crash(c) ==
    /\ "crash" \in use.ops /\ crashes < MaxCrashes /\ ~Ready(c)
    /\ crashes' = crashes + 1
    /\ Return(c)
    /\ UNCHANGED <<record, index, lock, lapsed, waiters, retried, due, released>>

-----------------------------------------------------------------------------
(* blocking.rs                                                             *)

SetWaitingFor(c, w, i) ==
    /\ Ready(c) /\ w # i /\ record[w] # Absent /\ record[i] # Absent
    /\ waiters' = [waiters EXCEPT ![i] = @ \union {w}]
    /\ UNCHANGED <<record, index, lock, lapsed, retried, due, released, crashes, call>>

ReleaseRead(c, i) ==
    /\ Ready(c) /\ waiters[i] # {}
    /\ Proceed(c, [Doing("release", i) EXCEPT !.todo = waiters[i]])
    /\ UNCHANGED data

Told(c) == call[c].todo

ReleaseDelete(c) ==
    /\ At(c, "release")
    /\ waiters' = [waiters EXCEPT ![call[c].id] = {}]
    /\ released' = Told(c) \X {call[c].id}
    /\ Return(c)
    /\ UNCHANGED <<record, index, lock, lapsed, retried, due, crashes>>

-----------------------------------------------------------------------------

StatusOps(c) ==
    \/ \E i \in use.ids, r \in use.owners :
          \/ "register" \in use.ops /\ RegisterInvocation(c, i, r)
          \/ \E s \in Statuses : "status" \in use.ops /\ StatusRead(c, i, s, r)
    \/ \E i \in use.ids : "retry" \in use.ops /\ IncrementRetries(c, i)
    \/ StatusUpdate(c)

CleanOps(c) ==
    \/ \E i \in use.ids :
          \/ RemoveStatus(c, i)
          \/ "schedule" \in use.ops /\ (ScheduleAutoPurge(c, i) \/ AutoPurgeNext(c, i))
    \/ "schedule" \in use.ops /\ AutoPurgeFind(c)
    \/ RemoveWaiters(c) \/ RemoveRetries(c)
    \/ "purge" \in use.ops /\ PurgeStart(c)
    \/ PurgeWaiters(c) \/ PurgeIndex(c) \/ PurgeRest(c)

SlotOps(c) ==
    \/ \E i \in use.ids :
          \/ "slots" \in use.ops /\ (LockTake(c, i) \/ RemoveFromConcurrencyIndex(c, i))
          \/ "index" \in use.ops /\ IndexStart(c, i)
    \/ \E k \in IndexKeys : CountPair(c, k) \/ IndexPair(c, k) \/ PullPair(c, k)
    \/ Decide(c) \/ LockRelease(c)

WaitOps(c) ==
    \/ \E i \in use.ids :
          "waits" \in use.ops /\ (ReleaseRead(c, i) \/ \E w \in use.ids : SetWaitingFor(c, w, i))
    \/ ReleaseDelete(c)

Next ==
    /\ UNCHANGED use
    /\ \/ \E c \in use.callers : StatusOps(c) \/ CleanOps(c) \/ SlotOps(c) \/ WaitOps(c) \/ Crash(c)
       \/ LockExpire

Spec == Init /\ [][Next]_vars

\* Time passes: a lease that nobody ends runs out.
LeaseStep == UNCHANGED use /\ LockExpire

FairSpec == Spec /\ WF_vars(LeaseStep)

-----------------------------------------------------------------------------

slots == {i \in Invocations : \A k \in IndexKeysOf(i) : i \in index[k]}
waits == {e \in Invocations \X Invocations : e[1] \in waiters[e[2]]}
Purging(c) == At(c, "purge1") \/ At(c, "purge2") \/ At(c, "purge3")
Busy(i) == \E c \in Callers : Purging(c) \/ (~Ready(c) /\ call[c].id = i)

=============================================================================
