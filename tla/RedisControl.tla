---------------------------- MODULE RedisControl -----------------------------
(***************************************************************************)
(* The Redis control backend.  A command, a MULTI block or a Lua script is *)
(* atomic; most operations are several of them, and other callers act in   *)
(* between.  The concurrency index has a reverse set per invocation, which *)
(* tells the removal where to look.                                        *)
(***************************************************************************)
EXTENDS ControlData

CONSTANTS
    Callers,      \* all users of the port
    Uses,         \* the uses of the port that behaviours make
    NoCall        \* model value: nothing in progress

VARIABLES
    use,          \* the use that is made of the port
    record,       \* status:<id>
    listed,       \* ids in task_inv:<task> and call_inv:<call>
    index,        \* cc:<task>:<pair>
    reverse,      \* cc_rev:<id>
    waiters,      \* waiters:<id>
    retried,      \* ids with retries:<id>
    due,          \* ids with auto_purge:<id>
    published,    \* ids with publication:submission:<id>
    released,     \* last answer of release_waiters
    call          \* operation in progress of each caller

data == <<record, listed, index, reverse, waiters, retried, due, published, released>>
vars == <<use, data, call>>

\* The steps of an operation in progress, by where it stands.
\* `id` is its invocation, `keys` what it has read from the reverse set or
\* still has to index, `pair` the one it is indexing, `todo` what else
\* run_auto_purge has to remove, `read` the record a status change was
\* validated against.
Doing(at, i) == [at |-> at, id |-> i, keys |-> {}, pair |-> {}, whole |-> FALSE, todo |-> {},
                 read |-> Absent, status |-> NoRecord, runner |-> NoRunner]

Init ==
    /\ use \in Uses
    /\ record = [i \in Invocations |-> Absent]
    /\ listed = {} /\ retried = {} /\ due = {} /\ published = {} /\ released = {}
    /\ index = [k \in IndexKeys |-> {}]
    /\ reverse = [i \in Invocations |-> {}]
    /\ waiters = [i \in Invocations |-> {}]
    /\ call = [c \in Callers |-> NoCall]

Ready(c) == call[c] = NoCall
At(c, place) == call[c] # NoCall /\ call[c].at = place
Proceed(c, next) == call' = [call EXCEPT ![c] = next]
Return(c) == Proceed(c, NoCall)

-----------------------------------------------------------------------------
(* Submission and registration.                                            *)

IndexWith(i) ==
    [k \in IndexKeys |-> IF k \in IndexKeysOf(i) THEN index[k] \union {i} ELSE index[k]]

ReverseWith(i, K) == [reverse EXCEPT ![i] = @ \union K]

\* The Lua script of submit writes everything at once, or finds the id known;
\* `cc`: with cc_arguments, it also indexes the invocation.
Submit(c, i, runner, cc) ==
    /\ Ready(c)
    /\ i \notin published /\ record[i] = Absent
    /\ record' = [record EXCEPT ![i] = Registered(runner)]
    /\ listed' = listed \union {i}
    /\ published' = published \union {i}
    /\ index' = IF cc THEN IndexWith(i) ELSE index
    /\ reverse' = IF cc THEN ReverseWith(i, IndexKeysOf(i)) ELSE reverse
    /\ UNCHANGED <<waiters, retried, due, released, call>>

\* register_invocation_with_id: SET NX, then the task and call sets.
RegisterSet(c, i, runner) ==
    /\ Ready(c)
    /\ record[i] = Absent
    /\ record' = [record EXCEPT ![i] = Registered(runner)]
    /\ Proceed(c, Doing("list", i))
    /\ UNCHANGED <<listed, index, reverse, waiters, retried, due, published, released>>

Listing(c) == {call[c].id}

RegisterList(c) ==
    /\ At(c, "list")
    /\ listed' = listed \union Listing(c)
    /\ Return(c)
    /\ UNCHANGED <<record, index, reverse, waiters, retried, due, published, released>>

IncrementRetries(c, i) ==
    /\ Ready(c) /\ record[i] # Absent
    /\ retried' = retried \union {i}
    /\ UNCHANGED <<record, listed, index, reverse, waiters, due, published, released, call>>

-----------------------------------------------------------------------------
(* set_invocation_status: read and validate, then compare and set.         *)

StatusRead(c, i, status, runner) ==
    /\ Ready(c)
    /\ record[i] # Absent /\ CanTransition(record[i], status, runner)
    /\ Proceed(c, [Doing("cas", i) EXCEPT !.read = record[i], !.status = status, !.runner = runner])
    /\ UNCHANGED data

\* Statuses of two words: "ConcurrencyControlled" in the stored record,
\* "CONCURRENCY_CONTROLLED" where the name is formatted.
TwoWords == {"ConcurrencyControlled", "ConcurrencyControlledFinal"} \union RecoveryStatuses

\* The script compares the stored name of the status with the formatted one, in
\* upper case, and neither owner nor timestamp.
SameStatusName(c) ==
    /\ record[call[c].id].status = call[c].read.status
    /\ call[c].read.status \notin TwoWords

StatusSet(c) ==
    /\ At(c, "cas")
    /\ SameStatusName(c)
    /\ record' = [record EXCEPT ![call[c].id] = Transitioned(call[c].read, call[c].status, call[c].runner)]
    /\ Return(c)
    /\ UNCHANGED <<listed, index, reverse, waiters, retried, due, published, released>>

\* Not found ends the call, a conflict reads again: for ever, while the status
\* is one of two words.
StatusConflict(c) ==
    /\ At(c, "cas")
    /\ ~SameStatusName(c)
    /\ IF record[call[c].id] # Absent /\ CanTransition(record[call[c].id], call[c].status, call[c].runner)
         THEN Proceed(c, [call[c] EXCEPT !.read = record[call[c].id]])
         ELSE Return(c)
    /\ UNCHANGED data

-----------------------------------------------------------------------------
(* Concurrency index.                                                      *)

Members(i) == {j \in Invocations : \A k \in IndexKeysOf(i) : j \in index[k]}

BelowLimit(i) == Cardinality(Members(i) \ {i}) < Limit

\* The Lua script of try_acquire_concurrency_slot.
TryAcquireSlot(c, i) ==
    /\ Ready(c) /\ record[i] # Absent
    /\ BelowLimit(i)
    /\ index' = IndexWith(i)
    /\ reverse' = ReverseWith(i, IndexKeysOf(i))
    /\ UNCHANGED <<record, listed, waiters, retried, due, published, released, call>>

\* index_for_concurrency_control: two SADD per pair.
IndexStart(c, i) ==
    /\ Ready(c) /\ record[i] # Absent
    /\ Proceed(c, [Doing("index", i) EXCEPT !.keys = IndexKeysOf(i)])
    /\ UNCHANGED data

IndexAdd(c, k) ==
    /\ At(c, "index") /\ k \in call[c].keys
    /\ index' = [index EXCEPT ![k] = @ \union {call[c].id}]
    /\ Proceed(c, [call[c] EXCEPT !.at = "indexrev", !.pair = {k}, !.keys = @ \ {k}])
    /\ UNCHANGED <<record, listed, reverse, waiters, retried, due, published, released>>

IndexAddReverse(c) ==
    /\ At(c, "indexrev")
    /\ reverse' = ReverseWith(call[c].id, call[c].pair)
    /\ IF call[c].keys = {} THEN Return(c) ELSE Proceed(c, [call[c] EXCEPT !.at = "index"])
    /\ UNCHANGED <<record, listed, index, waiters, retried, due, published, released>>

\* remove_from_concurrency_index: read the reverse set, take the id out of
\* each set it names, delete the reverse set.  `whole` when remove_invocation
\* goes on afterwards.
UnindexStart(c, i) ==
    /\ Ready(c) /\ reverse[i] # {}
    /\ Proceed(c, Doing("unindex", i))
    /\ UNCHANGED data

After(c) == IF call[c].whole THEN Proceed(c, [call[c] EXCEPT !.at = "retries"]) ELSE Return(c)

UnindexRead(c) ==
    /\ At(c, "unindex")
    /\ IF reverse[call[c].id] = {} THEN After(c)
       ELSE Proceed(c, [call[c] EXCEPT !.at = "srem", !.keys = reverse[call[c].id]])
    /\ UNCHANGED data

UnindexPair(c, k) ==
    /\ At(c, "srem") /\ k \in call[c].keys
    /\ index' = [index EXCEPT ![k] = @ \ {call[c].id}]
    /\ Proceed(c, [call[c] EXCEPT !.keys = @ \ {k}])
    /\ UNCHANGED <<record, listed, reverse, waiters, retried, due, published, released>>

UnindexReverse(c) ==
    /\ At(c, "srem") /\ call[c].keys = {}
    /\ reverse' = [reverse EXCEPT ![call[c].id] = {}]
    /\ After(c)
    /\ UNCHANGED <<record, listed, index, waiters, retried, due, published, released>>

-----------------------------------------------------------------------------
(* Removal, auto-purge and purge.                                          *)

StatusDeleted(c) == [record EXCEPT ![call[c].id] = Absent]

RemoveStart(c, i) ==
    /\ Ready(c) /\ record[i] # Absent
    /\ Proceed(c, [Doing("remove", i) EXCEPT !.whole = TRUE])
    /\ UNCHANGED data

RemoveStatus(c) ==
    /\ At(c, "remove")
    /\ record' = StatusDeleted(c)
    /\ Proceed(c, [call[c] EXCEPT !.at = "unindex"])
    /\ UNCHANGED <<listed, index, reverse, waiters, retried, due, published, released>>

RemoveRetries(c) ==
    /\ At(c, "retries")
    /\ retried' = retried \ {call[c].id}
    /\ Proceed(c, [call[c] EXCEPT !.at = "waiters"])
    /\ UNCHANGED <<record, listed, index, reverse, waiters, due, published, released>>

RemoveWaiters(c) ==
    /\ At(c, "waiters")
    /\ waiters' = [waiters EXCEPT ![call[c].id] = {}]
    /\ IF call[c].todo = {} THEN Return(c)
       ELSE Proceed(c, [call[c] EXCEPT !.at = "autopurge"])
    /\ UNCHANGED <<record, listed, index, reverse, retried, due, published, released>>

\* Callers schedule what they have just made final.
ScheduleAutoPurge(c, i) ==
    /\ Ready(c) /\ record[i].status \in Final
    /\ due' = due \union {i}
    /\ UNCHANGED <<record, listed, index, reverse, waiters, retried, published, released, call>>

AutoPurgeScan(c) ==
    /\ Ready(c) /\ due # {}
    /\ \E S \in SUBSET due \ {{}}, i \in Invocations :
         i \in S /\ Proceed(c, [Doing("autopurge", i) EXCEPT !.todo = S])
    /\ UNCHANGED data

AutoPurgeNext(c, i) ==
    /\ At(c, "autopurge") /\ i \in call[c].todo
    /\ due' = due \ {i}
    /\ Proceed(c, [Doing("remove", i) EXCEPT !.whole = TRUE, !.todo = call[c].todo \ {i}])
    /\ UNCHANGED <<record, listed, index, reverse, waiters, retried, published, released>>

\* purge deletes pattern by pattern; publications are not among them.  Each
\* pattern is looked up before it is deleted, so what others write meanwhile may
\* stay: the uses here have no other caller.
PurgeStart(c) ==
    /\ Ready(c)
    /\ record' = [i \in Invocations |-> Absent]
    /\ Proceed(c, Doing("purge1", CHOOSE i \in Invocations : TRUE))
    /\ UNCHANGED <<listed, index, reverse, waiters, retried, due, published, released>>

PurgeSets(c) ==
    /\ At(c, "purge1")
    /\ listed' = {}
    /\ waiters' = [i \in Invocations |-> {}]
    /\ Proceed(c, [call[c] EXCEPT !.at = "purge2"])
    /\ UNCHANGED <<record, index, reverse, retried, due, published, released>>

PurgeIndex(c) ==
    /\ At(c, "purge2")
    /\ index' = [k \in IndexKeys |-> {}]
    /\ Proceed(c, [call[c] EXCEPT !.at = "purge3"])
    /\ UNCHANGED <<record, listed, reverse, waiters, retried, due, published, released>>

PurgeRest(c) ==
    /\ At(c, "purge3")
    /\ reverse' = [i \in Invocations |-> {}]
    /\ retried' = {} /\ due' = {}
    /\ Return(c)
    /\ UNCHANGED <<record, listed, index, waiters, published, released>>

-----------------------------------------------------------------------------
(* Waiters.                                                                *)

SetWaitingFor(c, w, i) ==
    /\ Ready(c) /\ w # i /\ record[w] # Absent /\ record[i] # Absent
    /\ waiters' = [waiters EXCEPT ![i] = @ \union {w}]
    /\ UNCHANGED <<record, listed, index, reverse, retried, due, published, released, call>>

\* release_waiters: read, then delete the set.
ReleaseRead(c, i) ==
    /\ Ready(c) /\ waiters[i] # {}
    /\ Proceed(c, [Doing("release", i) EXCEPT !.todo = waiters[i]])
    /\ UNCHANGED data

Told(c) == call[c].todo

ReleaseDelete(c) ==
    /\ At(c, "release")
    /\ waiters' = [waiters EXCEPT ![call[c].id] = {}]
    /\ released' = Told(c) \X {call[c].id}
    /\ Return(c)
    /\ UNCHANGED <<record, listed, index, reverse, retried, due, published>>

-----------------------------------------------------------------------------
(* query.rs, and check_running_concurrency                                 *)

\* by task (and by call, and counted without a status): removed ones included
ByTask(t) == {i \in listed : TaskOf(i) = t}
ByStatus(t, S) == {i \in ByTask(t) : record[i].status \in S}

-----------------------------------------------------------------------------

StatusOps(c) ==
    \/ \E i \in use.ids, r \in use.owners :
          \/ \E cc \in {FALSE, "index" \in use.ops} :
                "submit" \in use.ops /\ r # NoRunner /\ Submit(c, i, r, cc)
          \/ "register" \in use.ops /\ RegisterSet(c, i, r)
          \/ \E s \in Statuses : "status" \in use.ops /\ StatusRead(c, i, s, r)
    \/ \E i \in use.ids : "retry" \in use.ops /\ IncrementRetries(c, i)
    \/ RegisterList(c) \/ StatusSet(c) \/ StatusConflict(c)

CleanOps(c) ==
    \/ \E i \in use.ids :
          \/ "remove" \in use.ops /\ RemoveStart(c, i)
          \/ "schedule" \in use.ops /\ (ScheduleAutoPurge(c, i) \/ AutoPurgeNext(c, i))
    \/ "schedule" \in use.ops /\ AutoPurgeScan(c)
    \/ RemoveStatus(c) \/ RemoveRetries(c) \/ RemoveWaiters(c)
    \/ "purge" \in use.ops /\ PurgeStart(c)
    \/ PurgeSets(c) \/ PurgeIndex(c) \/ PurgeRest(c)

SlotOps(c) ==
    \/ \E i \in use.ids :
          \/ "slots" \in use.ops /\ (TryAcquireSlot(c, i) \/ UnindexStart(c, i))
          \/ "index" \in use.ops /\ IndexStart(c, i)
    \/ \E k \in IndexKeys : IndexAdd(c, k) \/ UnindexPair(c, k)
    \/ IndexAddReverse(c) \/ UnindexRead(c) \/ UnindexReverse(c)

WaitOps(c) ==
    \/ \E i \in use.ids :
          "waits" \in use.ops /\ (ReleaseRead(c, i) \/ \E w \in use.ids : SetWaitingFor(c, w, i))
    \/ ReleaseDelete(c)

Next ==
    /\ UNCHANGED use
    /\ \E c \in use.callers : StatusOps(c) \/ CleanOps(c) \/ SlotOps(c) \/ WaitOps(c)

Spec == Init /\ [][Next]_vars

-----------------------------------------------------------------------------

slots == {i \in Invocations : \A k \in IndexKeysOf(i) : i \in index[k]}
waits == {e \in Invocations \X Invocations : e[1] \in waiters[e[2]]}
Purging(c) == At(c, "purge1") \/ At(c, "purge2") \/ At(c, "purge3")
Busy(i) == \E c \in Callers : Purging(c) \/ (~Ready(c) /\ call[c].id = i)

\* Queries by task find every invocation with a record that no operation is
\* working on, and those by status find exactly these, though their candidates
\* come from other keys than the records.  Those by task also find what has been
\* removed (rustvello-redis/src/orchestrator/query.rs).
QueriesSettle ==
    \A t \in Tasks, i \in Invocations :
        ~Busy(i) => /\ i \in OfTask(record, t) => i \in ByTask(t)
                    /\ \A S \in StatusFilters : i \in ByStatus(t, S) <=> i \in OfStatus(record, t, S)

\* A status is written only if the record it replaces permits that change by
\* that runner (status.rs, set_invocation_status).
WritesArePermitted ==
    [][\A c \in Callers : StatusSet(c) =>
          CanTransition(record[call[c].id], call[c].status, call[c].runner)]_vars

\* Whatever is in the concurrency index can be found by the removal: the
\* reverse set of an invocation that nobody works on names all its entries.
ReverseCoversIndex ==
    \A i \in Invocations, k \in IndexKeys : i \in index[k] /\ ~Busy(i) => k \in reverse[i]

=============================================================================
