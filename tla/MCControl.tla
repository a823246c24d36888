------------------------------ MODULE MCControl ------------------------------
(***************************************************************************)
(* The five control backends against the one contract of the port.  A      *)
(* behaviour uses one backend in one way; the variables of the others are  *)
(* left empty.                                                             *)
(***************************************************************************)
EXTENDS ControlData

CONSTANTS i1, i2, i3, i4, r1, r2, c1, c2, NoCall

VARIABLES
    use,
    record, retried, due, released,                  \* all backends
    listed, index, reverse, waiters,                 \* in memory, Redis, MongoDB
    inv, publication, pairs, waits, expired,         \* SQL
    history, crashes, call,
    waitingFor, dequeued,                            \* in memory
    tx,                                              \* PostgreSQL
    published,                                       \* Redis
    lock, lapsed                                     \* MongoDB

vars == <<use, record, retried, due, released, listed, index, reverse, waiters, inv,
          publication, pairs, waits, expired, history, crashes, call, waitingFor,
          dequeued, tx, published, lock, lapsed>>

Callers == {c1, c2}

\* Two callers that take turns in everything that touches records, slots or
\* waits: each group by itself, since the groups have few tables in common.
MemUses == {
    Use("mem", {"register", "status", "retry", "remove", "purge", "schedule", "index"}, {i1}, {r1, r2}, {}),
    Use("mem", {"register", "status", "remove", "schedule"}, {i1, i4}, {r1}, {}),
    Use("mem", {"register", "status", "slots"}, {i1, i3}, {r1}, {}),
    Use("mem", {"register", "remove", "slots"}, {i1, i2, i3}, {r1}, {}),
    Use("mem", {"register", "remove", "waits"}, {i1, i2}, {r1}, {}),
    Use("mem", {"register", "waits"}, {i1, i2, i3}, {r1}, {})}

SqliteUses == {
    Use("sqlite", {"submit", "status", "retry", "remove", "purge", "schedule", "crash"}, {i1, i4}, {r1}, {}),
    Use("sqlite", {"submit", "status", "schedule"}, {i1, i4}, {r1}, {}),
    Use("sqlite", {"submit", "status", "remove"}, {i1}, {r1, r2}, {}),
    Use("sqlite", {"register", "slots", "remove"}, {i1, i2, i3}, {r1}, {}),
    Use("sqlite", {"register", "remove", "waits"}, {i1, i2, i3}, {r1}, {}),
    Use("sqlite", {"submit", "register", "status", "index"}, {i1, i2}, {r1}, {})}

PostgresUses == {
    Use("postgres", {"submit", "status", "retry", "remove", "schedule"}, {i1, i4}, {r1}, {c1}),
    Use("postgres", {"submit", "status", "remove", "schedule"}, {i1}, {r1, r2}, Callers),
    Use("postgres", {"submit", "register", "purge", "index"}, {i1}, {r1}, Callers),
    Use("postgres", {"register", "slots", "remove"}, {i1, i2, i3}, {r1}, Callers),
    Use("postgres", {"register", "status", "waits"}, {i1, i2}, {r1}, {}),
    Use("postgres", {"register", "remove", "waits"}, {i1, i2}, {r1}, Callers)}

RedisUses == {
    Use("redis", {"register", "status", "remove"}, {i1}, {r1, r2}, Callers),
    Use("redis", {"register", "status", "schedule"}, {i1}, {r1}, Callers),
    Use("redis", {"register", "slots", "remove"}, {i1, i2}, {r1}, Callers),
    Use("redis", {"submit", "remove", "purge", "slots", "index"}, {i1, i4}, {r1}, {c1}),
    Use("redis", {"register", "retry", "remove", "waits"}, {i1, i2}, {r1}, Callers)}

MongoUses == {
    Use("mongo", {"register", "status", "remove"}, {i1}, {r1, r2}, Callers),
    Use("mongo", {"register", "status", "schedule"}, {i1}, {r1}, Callers),
    Use("mongo", {"register", "slots"}, {i1, i2}, {r1}, Callers),
    Use("mongo", {"register", "slots", "remove", "crash"}, {i1, i2}, {r1}, {c1}),
    Use("mongo", {"register", "remove", "waits"}, {i1, i2}, {r1}, Callers),
    Use("mongo", {"register", "status", "purge", "waits"}, {i1, i2}, {r1}, {c1}),
    Use("mongo", {"register", "remove", "retry", "purge", "index", "slots"}, {i1, i3}, {r1}, {c1})}

Mem == INSTANCE MemControl WITH Uses <- MemUses
Sqlite == INSTANCE SqliteControl WITH Uses <- SqliteUses, MaxCrashes <- 1
Postgres == INSTANCE PostgresControl WITH Uses <- PostgresUses, Sessions <- Callers
Redis == INSTANCE RedisControl WITH Uses <- RedisUses
Mongo == INSTANCE MongoControl WITH Uses <- MongoUses, MaxCrashes <- 1

notMem == <<inv, publication, pairs, waits, crashes, call, tx, published, lock, lapsed>>
notSqlite == <<listed, index, reverse, waiters, call, waitingFor, dequeued, tx, published, lock,
               lapsed>>
notPostgres == <<listed, index, reverse, waiters, crashes, call, waitingFor, dequeued, published,
                 lock, lapsed>>
notRedis == <<inv, publication, pairs, waits, expired, history, crashes, waitingFor, dequeued, tx, lock,
              lapsed>>
notMongo == <<listed, reverse, inv, publication, pairs, waits, expired, history, waitingFor, dequeued, tx, published>>

OnlyRedis ==
    /\ inv = {} /\ publication = {} /\ pairs = {} /\ waits = {} /\ expired = {} /\ history = {}
    /\ crashes = {} /\ waitingFor = {} /\ dequeued = {} /\ tx = {} /\ lock = {} /\ lapsed = FALSE

Init ==
    \/ /\ Mem!Init
       /\ inv = {} /\ publication = {} /\ pairs = {} /\ waits = {} /\ crashes = {} /\ call = {}
       /\ tx = {} /\ published = {} /\ lock = {} /\ lapsed = FALSE
    \/ /\ Sqlite!Init
       /\ listed = {} /\ index = {} /\ reverse = {} /\ waiters = {} /\ call = {} /\ waitingFor = {}
       /\ dequeued = {} /\ tx = {} /\ published = {} /\ lock = {} /\ lapsed = FALSE
    \/ /\ Postgres!Init
       /\ listed = {} /\ index = {} /\ reverse = {} /\ waiters = {} /\ crashes = {} /\ call = {}
       /\ waitingFor = {} /\ dequeued = {} /\ published = {} /\ lock = {} /\ lapsed = FALSE
    \/ Redis!Init /\ OnlyRedis
    \/ /\ Mongo!Init
       /\ listed = {} /\ reverse = {} /\ inv = {} /\ publication = {} /\ pairs = {} /\ waits = {}
       /\ expired = {} /\ history = {} /\ waitingFor = {} /\ dequeued = {} /\ tx = {} /\ published = {}

Next ==
    \/ use.backend = "mem" /\ Mem!Next /\ UNCHANGED notMem
    \/ use.backend = "sqlite" /\ Sqlite!Next /\ UNCHANGED notSqlite
    \/ use.backend = "postgres" /\ Postgres!Next /\ UNCHANGED notPostgres
    \/ use.backend = "redis" /\ Redis!Next /\ UNCHANGED notRedis
    \/ use.backend = "mongo" /\ Mongo!Next /\ UNCHANGED notMongo

\* A purge that runs goes on, and a lease that nobody ends runs out.
Spec ==
    /\ Init /\ [][Next]_vars
    /\ WF_vars(use.backend = "sqlite" /\ Sqlite!PurgeStep /\ UNCHANGED notSqlite)
    /\ WF_vars(use.backend = "mongo" /\ Mongo!LeaseStep /\ UNCHANGED notMongo)

\* Two runners whose changes of one invocation overlap on Redis.
Overlapping ==
    INSTANCE RedisControl WITH Uses <- {Use("redis", {"register", "status"}, {i1}, {r1, r2}, Callers)}

OverlapInit == Overlapping!Init /\ OnlyRedis

OverlapNext == Overlapping!Next /\ UNCHANGED notRedis

OverlapSpec == OverlapInit /\ [][OverlapNext]_vars

-----------------------------------------------------------------------------

Is(backend) == use.backend = backend

OneAtATime == use.ops \intersect {"slots", "waits"} # {} => use.callers = {c1}

slots ==
    CASE Is("mem") -> Mem!slots
      [] Is("sqlite") -> Sqlite!slots
      [] Is("postgres") -> Postgres!slots
      [] Is("redis") -> Redis!slots
      [] Is("mongo") -> Mongo!slots

waitPairs ==
    CASE Is("mem") -> Mem!waits
      [] Is("redis") -> Redis!waits
      [] Is("mongo") -> Mongo!waits
      [] OTHER -> waits

Contract ==
    INSTANCE Control WITH waits <- waitPairs, indexing <- "index" \in use.ops,
                          exact <- use.backend \in {"mem", "sqlite", "postgres"}

\* The backends behave as the contract says, whatever the number of statements,
\* commands or updates their operations take.  On all of them the statuses follow
\* the status machine and a slot is taken only below the limit, on MongoDB until a
\* lease ends under its owner.  In memory and in SQL a change is also permitted to
\* its runner by the record it replaces, and a release tells all that it releases;
\* Redis and MongoDB may validate against an earlier owner, and miss a waiter.
ImplementsControl == Contract!Spec

\* Queries answer what the records, slots and tasks of the invocations say,
\* though the backends answer them from other maps, tables or keys (query.rs in
\* memory and in SQL).  On Redis that is so by status; by task, nothing with a
\* record is missing.
QueriesAgree ==
    /\ Is("mem") => Mem!QueriesAgree
    /\ Is("sqlite") => Sqlite!QueriesAgree
    /\ Is("postgres") => Postgres!QueriesAgree
    /\ Is("redis") => Redis!QueriesSettle


\* No more invocations of one key hold a slot than the limit allows, as long as
\* nobody indexes without asking and, on MongoDB, no lease ends while its owner
\* still counts or indexes (try_acquire_concurrency_slot).
SlotsWithinLimit ==
    "index" \in use.ops \/ lapsed \/ \A i \in slots : Cardinality(Competitors(slots, i)) < Limit

\* What is in the pair index can be found by the removal, which looks into the
\* reverse index (remove_from_concurrency_index in memory and of Redis).
ReverseCoversIndex ==
    /\ Is("mem") => Mem!ReverseMirrorsIndex
    /\ Is("redis") /\ use.callers = {c1} => Redis!ReverseCoversIndex

\* A submission that is repeated after the invocation was removed is refused and
\* does not run the work a second time (the tombstone of SQLite and PostgreSQL).
RemovedStaysRemoved ==
    /\ [][Is("sqlite") => Sqlite!TombstoneHolds]_vars
    /\ [][Is("postgres") => Postgres!TombstoneHolds]_vars

\* Who is recorded as waiting for an invocation that exists is woken when it is
\* released (set_waiting_for in memory keeps two maps).
WaitersAreWoken == Is("mem") => Mem!WaitersAreWoken


\* "Atomically transition an invocation to a new status" (rustvello-core/src/
\* orchestrator.rs:146): what set_invocation_status writes is permitted by the
\* record it replaces.  Its script compares the status name, not the owner.
WritesArePermitted == Overlapping!WritesArePermitted
=============================================================================
